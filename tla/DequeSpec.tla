----------------------------- MODULE DequeSpec ------------------------------
(***************************************************************************)
(* What a concurrent deque promises: every push_front, push_back,          *)
(* pop_front and pop_back takes effect in one step between its call and    *)
(* its return, on a sequence; a pop of the empty sequence returns -1.      *)
(***************************************************************************)
EXTENDS Naturals, Sequences

CONSTANTS
  Thread,
  Item,      \* what is pushed
  Empty,     \* the -1 of an unsuccessful pop
  Pending, Void

VARIABLES
  q,      \* the contents, front first
  req,    \* the operation each thread is in
  ret     \* Pending, or what that operation returned

vars == <<q, req, ret>>

Side == {"L", "R"}    \* L: front, R: back

Init ==
  /\ q = <<>>
  /\ req = [t \in Thread |-> <<>>]
  /\ ret = [t \in Thread |-> Void]

Invoke(t, op) ==
  /\ ret[t] # Pending
  /\ req' = [req EXCEPT ![t] = op]
  /\ ret' = [ret EXCEPT ![t] = Pending]
  /\ UNCHANGED q

InvokePush(t) == \E s \in Side, i \in Item : Invoke(t, <<"push", s, i>>)
InvokePop(t)  == \E s \in Side : Invoke(t, <<"pop", s>>)

Return(t, v) ==
  /\ ret' = [ret EXCEPT ![t] = v]
  /\ req' = [req EXCEPT ![t] = <<>>]

Push(t) ==
  /\ ret[t] = Pending /\ req[t][1] = "push"
  /\ q' = IF req[t][2] = "L" THEN <<req[t][3]>> \o q ELSE Append(q, req[t][3])
  /\ Return(t, Void)

Pop(t) ==
  /\ ret[t] = Pending /\ req[t][1] = "pop" /\ q # <<>>
  /\ IF req[t][2] = "L"
     THEN q' = Tail(q) /\ Return(t, Head(q))
     ELSE q' = SubSeq(q, 1, Len(q) - 1) /\ Return(t, q[Len(q)])

PopEmpty(t) ==
  /\ ret[t] = Pending /\ req[t][1] = "pop" /\ q = <<>>
  /\ Return(t, Empty)
  /\ UNCHANGED q

Next == \E t \in Thread :
  InvokePush(t) \/ InvokePop(t) \/ Push(t) \/ Pop(t) \/ PopEmpty(t)

Spec == Init /\ [][Next]_vars
=============================================================================
