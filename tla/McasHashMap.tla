---------------------------- MODULE McasHashMap -----------------------------
(***************************************************************************)
(* lockfree-mcas/HashMap.h: insert_or_assign, remove, contains and find on *)
(* one bucket, an unordered McasList.  The buckets share nothing but the   *)
(* lock of qcas and cas, so the keys here are keys of the same bucket.     *)
(***************************************************************************)
EXTENDS McasList

CONSTANTS Value, NotFound    \* NotFound: the LONG_MIN of find, the false of contains

ASSUME ValueAssumption == Value # {} /\ NotFound \notin Value

VARIABLES
  value,     \* the value of each node
  newValue,  \* the argument of insert_or_assign
  old,       \* the value cas expects
  found      \* what the last find or contains of each thread returned

mapVars == <<value, newValue, old, found>>

MapInit ==
  /\ value = [n \in Node |-> CHOOSE v \in Value : TRUE]
  /\ newValue = [t \in Thread |-> CHOOSE v \in Value : TRUE]
  /\ old = newValue
  /\ found = [t \in Thread |-> NotFound]

\* contains is find without the value, so it is not told apart from find.
MapCall(t) ==
  /\ sort = "map" /\ \E k \in Key, op \in {"insert", "remove", "find"} : Start(t, op, k)
  /\ IF kind'[t] = "insert"
     THEN \E v \in Value : /\ newValue' = Set(newValue, t, v)
                           /\ value' = [value EXCEPT ![node'[t]] = v]
     ELSE UNCHANGED <<value, newValue>>
  /\ UNCHANGED <<old, found>>

WalkUpdate(t) ==
  /\ sort = "map" /\ kind[t] # "find"
  /\ Walk(t, keyOf[curr[t]] = arg[t])
  /\ UNCHANGED mapVars

\* Not found: insert_before(tail).
InsertAtTail(t) ==
  /\ sort = "map" /\ pc[t] = "found" /\ kind[t] = "insert" /\ curr[t] = ListTail
  /\ Goto(t, "checkPrev")
  /\ UNCHANGED <<sort, reload, heap, req, locals, casLock, crashed, ops, stable, mapVars>>

\* Found: load the value for cas, and then cas; new_node is deleted.
AssignLoad(t) ==
  /\ sort = "map" /\ pc[t] = "found" /\ kind[t] = "insert" /\ curr[t] # ListTail
  /\ old' = Set(old, t, value[curr[t]])
  /\ Goto(t, "assign")
  /\ UNCHANGED <<sort, reload, heap, req, locals, casLock, crashed, ops, stable, value, newValue, found>>

\* Faulty AssignCas: the same cas is tried again and again.
AssignCasStale(t) ==
  /\ pc[t] = "assign" /\ owner = NoThread
  /\ IF value[curr[t]] = old[t]
     THEN value' = [value EXCEPT ![curr[t]] = newValue[t]] /\ Return(t)
     ELSE UNCHANGED <<pc, req, locals, value>>
  /\ UNCHANGED <<sort, reload, heap, casLock, crashed, ops, stable, newValue, old, found>>

AssignCas(t) ==
  /\ pc[t] = "assign" /\ owner = NoThread
  /\ IF value[curr[t]] = old[t]
     THEN value' = [value EXCEPT ![curr[t]] = newValue[t]] /\ Return(t)
     ELSE Again(t) /\ UNCHANGED value
  /\ UNCHANGED <<sort, reload, heap, casLock, crashed, ops, stable, newValue, old, found>>

MapRemoveFound(t) ==
  /\ sort = "map" /\ pc[t] = "found" /\ kind[t] = "remove"
  /\ IF curr[t] = ListTail THEN Return(t)
                           ELSE Goto(t, "delete") /\ UNCHANGED <<req, locals>>
  /\ UNCHANGED <<sort, reload, heap, casLock, crashed, ops, stable, mapVars>>

FindMore(t) ==
  /\ curr' = Set(curr, t, link["next"][curr[t]])
  /\ UNCHANGED <<pc, req, prev, next, call, found, stable>>

FindReturn(t, v) ==
  /\ Return(t)
  /\ found' = Set(found, t, v)
  /\ stable' = Set(stable, t, {})

\* The walk of find.  At a null link the inner loop ends and the outer one
\* starts it again at the same null.
FindWalk(t) ==
  /\ pc[t] = "walk" /\ kind[t] = "find"
  /\ IF curr[t] = Null THEN UNCHANGED <<pc, req, locals, found, stable>>
     ELSE IF curr[t] = ListTail THEN FindReturn(t, NotFound)
     ELSE IF keyOf[curr[t]] = arg[t] THEN FindReturn(t, value[curr[t]])
     ELSE FindMore(t)
  /\ UNCHANGED <<sort, reload, heap, casLock, crashed, ops, value, newValue, old>>

BucketStep(t) ==
  \/ WalkUpdate(t) \/ InsertAtTail(t) \/ AssignLoad(t) \/ AssignCas(t) \/ MapRemoveFound(t)
  \/ FindWalk(t)

-----------------------------------------------------------------------------
(* Properties.                                                             *)

\* find returns LONG_MIN, and contains false, only if no node with the key
\* was in the bucket all the time from the call to the return.
FindMissesNothing ==
  \A t \in Thread :
    kind[t] = "find" /\ pc[t] = "walk" /\ pc'[t] = "idle" /\ found'[t] = NotFound
      => stable[t] = {}

\* A key has one entry (benchmarks.cpp:561, "Should be 3[300], 1[100],
\* 4[400], 2[200],": the second insert_or_assign of a key replaces its value).  No run
\* checks it: TLC refutes it with the constants of McasLists.cfg.
UniqueKeys == \A m, n \in InList : keyOf[m] = keyOf[n] => m = n

\* Every find returns: the benchmark waits for all its threads
\* (benchmark.h:86, "make sure all workers terminated").  No run checks it: TLC
\* refutes it with the constants of McasLists.cfg.
FindsReturn == \A t \in Thread : kind[t] = "find" /\ pc[t] # "idle" ~> pc[t] = "idle"
=============================================================================
