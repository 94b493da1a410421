------------------------------ MODULE SwapSpec ------------------------------
(***************************************************************************)
(* What every ArraySwap promises: swap(a, b) exchanges the elements of two *)
(* rows in one step.                                                       *)
(***************************************************************************)
CONSTANTS Thread, Row

VARIABLES
  array,   \* the element in each row
  req,     \* the rows each thread has asked to swap
  state    \* "idle", or "pending" from the call until it takes effect

vars == <<array, req, state>>

Init ==
  /\ array = [r \in Row |-> r]
  /\ req = [t \in Thread |-> <<>>]
  /\ state = [t \in Thread |-> "idle"]

Invoke(t, a, b) ==
  /\ state[t] = "idle"
  /\ req' = [req EXCEPT ![t] = <<a, b>>]
  /\ state' = [state EXCEPT ![t] = "pending"]
  /\ UNCHANGED array

Swap(t) ==
  LET a == req[t][1]  b == req[t][2] IN
  /\ state[t] = "pending"
  /\ array' = [array EXCEPT ![a] = array[b], ![b] = array[a]]
  /\ state' = [state EXCEPT ![t] = "idle"]
  /\ UNCHANGED req

Next == \E t \in Thread : Swap(t) \/ \E a, b \in Row : Invoke(t, a, b)

Spec == Init /\ [][Next]_vars
=============================================================================
