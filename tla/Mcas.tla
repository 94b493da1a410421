-------------------------------- MODULE Mcas --------------------------------
(***************************************************************************)
(* What include/mcas promises: cas, dcas, tcas and qcas compare one to     *)
(* four words with the values the caller expects and, if all of them       *)
(* agree, replace all of them, in one step.  A call returns false when a   *)
(* word differs; it may also return false because it met a conflict, and   *)
(* then it has changed nothing.                                            *)
(***************************************************************************)
EXTENDS Naturals, Sequences

CONSTANTS Thread, Addr, InitMem, Ops

VARIABLES
  mem,    \* the data words
  req,    \* the call each thread made last
  res     \* "idle", "pending", or what that call returned

vars == <<mem, req, res>>

\* A call is a sequence of [addr, old, new] with distinct addresses.
Targets(op)     == {op[i].addr : i \in DOMAIN op}
NewOf(op, a)    == (CHOOSE i \in DOMAIN op : op[i].addr = a)
Matches(m, op)  == \A i \in DOMAIN op : m[op[i].addr] = op[i].old
Updated(m, op)  ==
  [a \in DOMAIN m |-> IF a \in Targets(op) THEN op[NewOf(op, a)].new ELSE m[a]]

Init ==
  /\ mem = InitMem
  /\ req = [t \in Thread |-> <<>>]
  /\ res = [t \in Thread |-> "idle"]

Invoke(t) ==
  /\ res[t] # "pending"
  /\ \E op \in Ops : req' = [req EXCEPT ![t] = op]
  /\ res' = [res EXCEPT ![t] = "pending"]
  /\ UNCHANGED mem

Succeed(t) ==
  /\ res[t] = "pending" /\ Matches(mem, req[t])
  /\ mem' = Updated(mem, req[t])
  /\ res' = [res EXCEPT ![t] = "true"]
  /\ UNCHANGED req

Mismatch(t) ==
  /\ res[t] = "pending" /\ ~Matches(mem, req[t])
  /\ res' = [res EXCEPT ![t] = "mismatch"]
  /\ UNCHANGED <<mem, req>>

Conflict(t) ==
  /\ res[t] = "pending"
  /\ res' = [res EXCEPT ![t] = "conflict"]
  /\ UNCHANGED <<mem, req>>

Next == \E t \in Thread : Invoke(t) \/ Succeed(t) \/ Mismatch(t) \/ Conflict(t)

Spec == Init /\ [][Next]_vars
=============================================================================
