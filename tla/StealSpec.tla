------------------------------ MODULE StealSpec ------------------------------
(***************************************************************************)
(* What a work-stealing deque promises about who gets an object: the owner *)
(* pushes and pops at the bottom, stealers take from the top, and each     *)
(* object goes to one of them.  A steal may come back with nothing at any  *)
(* time; a pop only from an empty deque.                                   *)
(***************************************************************************)
EXTENDS Naturals, Sequences

CONSTANTS Stealer, Owner, Object, Nothing, Empty

VARIABLES
  q,     \* the objects, top first
  got    \* what the pop or steal that each is in has got

Init ==
  /\ q = <<>>
  /\ got = [p \in Stealer \cup {Owner} |-> Nothing]

Get(p, x) == got' = [got EXCEPT ![p] = x]

Push == \E x \in Object : q' = Append(q, x) /\ UNCHANGED got

Pop ==
  /\ q # <<>>
  /\ q' = SubSeq(q, 1, Len(q) - 1)
  /\ Get(Owner, q[Len(q)])

PopEmpty == q = <<>> /\ Get(Owner, Empty) /\ UNCHANGED q

Steal(s) == q # <<>> /\ q' = Tail(q) /\ Get(s, Head(q))

\* A pop or steal returns; a steal that has got nothing returns as well.
Return(p) == Get(p, Nothing) /\ UNCHANGED q

Next == Push \/ Pop \/ PopEmpty \/ (\E s \in Stealer : Steal(s)) \/ \E p \in Stealer \cup {Owner} : Return(p)

Spec == Init /\ [][Next]_<<q, got>>
=============================================================================
