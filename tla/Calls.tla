-------------------------------- MODULE Calls --------------------------------
(***************************************************************************)
(* Threads that call the operations of one data structure on a shared      *)
(* heap, and what they observe, compared with a sequential object.         *)
(* The modules of the structures EXTEND this one; each step of theirs      *)
(* belongs to one structure, and a behaviour exercises one of them.        *)
(***************************************************************************)
EXTENDS Integers, Sequences, FiniteSets, TLC

CONSTANTS
  Thread,
  Key,        \* the keys and the pushed values: positive numbers
  Apply(_, _) \* the sequential object: the outcomes <<state, result>> of a call

VARIABLES
  structure,  \* the structure the threads share; it never changes
  heap,       \* heap[n] has the fields of node n, numbered in order of new
  root,       \* the structure's own fields
  freed,      \* the nodes given to delete
  pc, loc,    \* program point and locals of each thread
  todo,       \* bound: calls the threads may still make between them
  lin         \* history: the ways to explain the results seen so far.  Each is
              \* a state of the sequential object and, for each thread, its call
              \* if that has not taken effect, or the result it must return.

mem  == <<heap, root, freed>>
vars == <<structure, mem, pc, loc, todo, lin>>

Null == 0
New  == Len(heap) + 1
Idle == \A t \in Thread : pc[t] = "idle"
Dead == \E t \in Thread : pc[t] = "fault"

CallsInit(s, nodes, fields, object, n) ==
  /\ structure = s /\ heap = nodes /\ root = fields /\ freed = {}
  /\ pc = [t \in Thread |-> "idle"] /\ loc = [t \in Thread |-> <<>>]
  /\ todo = n
  /\ lin = {[obj |-> object, out |-> [t \in Thread |-> <<>>]]}

-----------------------------------------------------------------------------
(* The history.                                                            *)

Invoked(t, c) == {[x EXCEPT !.out[t] = <<"todo", c>>] : x \in lin}

\* Any of the calls under way may take effect, in any order.
TakeEffect(X) ==
  X \cup UNION {UNION {{[obj |-> e[1], out |-> [x.out EXCEPT ![t] = <<"done", e[2]>>]] :
                          e \in Apply(x.obj, x.out[t][2])} :
                       t \in {u \in Thread : x.out[u] # <<>> /\ x.out[u][1] = "todo"}} :
                x \in X}

Explained ==
  LET closure[i \in 0 .. Cardinality(Thread)] ==
        IF i = 0 THEN lin ELSE TakeEffect(closure[i - 1])
  IN closure[Cardinality(Thread)]

Returned(t, r) ==
  {[x EXCEPT !.out[t] = <<>>] : x \in {y \in Explained : y.out[t] = <<"done", r>>}}

-----------------------------------------------------------------------------
(* Steps of a thread.                                                      *)

Invoke(t, op, k, v) ==
  /\ pc[t] = "idle" /\ todo > 0
  /\ todo' = todo - 1
  /\ pc' = [pc EXCEPT ![t] = op]
  /\ loc' = [loc EXCEPT ![t] = [op |-> op, key |-> k, val |-> v]]
  /\ lin' = Invoked(t, [op |-> op, key |-> k, val |-> v])
  /\ UNCHANGED <<structure, mem>>

At(t, l) == pc[t] = l
My(t)    == loc[t]

\* To another program point, with new values of some locals.
Go(t, l, locals) ==
  /\ pc' = [pc EXCEPT ![t] = l]
  /\ loc' = [loc EXCEPT ![t] = locals @@ @]
  /\ UNCHANGED lin

Jump(t, l) == Go(t, l, <<>>)

Return(t, r) ==
  /\ pc' = [pc EXCEPT ![t] = "idle"]
  /\ loc' = [loc EXCEPT ![t] = <<>>]
  /\ lin' = Returned(t, r)

\* A null or deleted node is used: the program dies.
Fault(t) == Jump(t, "fault") /\ UNCHANGED mem

Bad(n) == n = Null \/ n \in freed

Write(h) == heap' = h /\ UNCHANGED <<root, freed>>
WriteRoot(r) == root' = r /\ UNCHANGED <<heap, freed>>

\* delete n, the last act of a call.
Delete(t) ==
  /\ At(t, "delete")
  /\ freed' = freed \cup {loc[t].node}
  /\ Return(t, loc[t].result)
  /\ UNCHANGED <<heap, root>>

Finished == ((todo = 0 /\ Idle) \/ Dead) /\ UNCHANGED vars
=============================================================================
