--------------------------- MODULE McasSortedList ---------------------------
(***************************************************************************)
(* lockfree-mcas/SortedList.h: insert, remove and count on McasList, the   *)
(* keys in ascending order.                                                *)
(***************************************************************************)
EXTENDS McasList

VARIABLES
  n_val,    \* the local of count
  result    \* what the last count of each thread returned

countVars == <<n_val, result>>

CountInit == n_val = [t \in Thread |-> 0] /\ result = n_val

ListCall(t) ==
  sort = "list" /\ \E k \in Key, op \in {"insert", "remove", "count"} : Start(t, op, k)

\* insert and remove look for the first node whose key is not smaller.
WalkSorted(t) ==
  /\ sort = "list" /\ kind[t] # "count"
  /\ Walk(t, keyOf[curr[t]] >= arg[t])

\* Line 120: a node that was deleted in the meantime has no links.  Links are
\* cleared for good, so the two loads are as one.
InsertFound(t) ==
  /\ sort = "list" /\ pc[t] = "found" /\ kind[t] = "insert"
  /\ IF link["next"][curr[t]] = Null /\ link["prev"][curr[t]] = Null
     THEN Again(t)
     ELSE Goto(t, "checkPrev") /\ UNCHANGED <<req, locals>>
  /\ UNCHANGED <<sort, reload, heap, casLock, crashed, ops, stable>>

\* Lines 137-139.
ListRemoveFound(t) ==
  /\ sort = "list" /\ pc[t] = "found" /\ kind[t] = "remove"
  /\ IF curr[t] = ListTail \/ keyOf[curr[t]] # arg[t] THEN Return(t)
     ELSE IF link["next"][curr[t]] = Null \/ link["prev"][curr[t]] = Null THEN Again(t)
     ELSE Goto(t, "delete") /\ UNCHANGED <<req, locals>>
  /\ UNCHANGED <<sort, reload, heap, casLock, crashed, ops, stable>>

CountMore(t) ==
  /\ curr' = Set(curr, t, link["next"][curr[t]])
  /\ n_val' = Set(n_val, t, n_val[t] + IF keyOf[curr[t]] = arg[t] THEN 1 ELSE 0)
  /\ UNCHANGED <<pc, req, prev, next, call, result, stable>>

CountReturn(t) ==
  /\ Return(t)
  /\ result' = Set(result, t, n_val[t]) /\ n_val' = Set(n_val, t, 0)
  /\ stable' = Set(stable, t, {})

\* Faulty CountWalk: a null link ends the walk.
CountWalkShort(t) ==
  /\ pc[t] = "walk" /\ kind[t] = "count"
  /\ IF curr[t] \in {Null, ListTail} THEN CountReturn(t) ELSE CountMore(t)
  /\ UNCHANGED <<sort, reload, heap, casLock, crashed, ops>>

\* count walks to the tail and starts again when it meets a null link.
CountWalk(t) ==
  /\ pc[t] = "walk" /\ kind[t] = "count"
  /\ IF curr[t] = Null
     THEN Again(t) /\ n_val' = Set(n_val, t, 0) /\ UNCHANGED <<result, stable>>
     ELSE IF curr[t] = ListTail THEN CountReturn(t) ELSE CountMore(t)
  /\ UNCHANGED <<sort, reload, heap, casLock, crashed, ops>>

SortedStep(t) ==
  \/ (WalkSorted(t) \/ InsertFound(t) \/ ListRemoveFound(t)) /\ UNCHANGED countVars
  \/ CountWalk(t)

-----------------------------------------------------------------------------
(* Properties.                                                             *)

\* count(k) counts every node with key k that is in the list from its call to
\* its return, although other threads insert and remove nodes around it.
CountMissesNothing ==
  \A t \in Thread :
    kind[t] = "count" /\ pc[t] = "walk" /\ pc'[t] = "idle"
      => result'[t] >= Cardinality(stable[t])

\* The keys are in ascending order (benchmarks.cpp:526, "Should be 1, 1, 2,
\* 2, 3, 3, 4, 4").
Sorted ==
  sort = "list" =>
    \A n \in InList : link["next"][n] \in InList => keyOf[n] <= keyOf[link["next"][n]]
=============================================================================
