----------------------------- MODULE SectionSpec -----------------------------
(* What a flock lock promises of the section  x = c.load(); c.store(x + 1); *)
(* return x:  it happens at one moment between the call and the return.     *)
EXTENDS Integers

CONSTANTS Thread, Values

VARIABLES val, call, result

None == -1
Idle == [state |-> "idle"]

Init ==
  /\ val = 0 /\ call = [t \in Thread |-> Idle] /\ result = [t \in Thread |-> None]

Call(t) ==
  /\ call[t] = Idle
  /\ \E op \in {"try_lock", "with_lock"} : call' = [call EXCEPT ![t] = [state |-> "called", op |-> op]]
  /\ result' = [result EXCEPT ![t] = None] /\ UNCHANGED val

Effect(t) ==
  /\ call[t].state = "called"
  /\ call' = [call EXCEPT ![t] = [state |-> "done", x |-> val]]
  /\ val' = (val + 1) % Values /\ UNCHANGED result

Return(t) ==
  /\ call[t].state = "done"
  /\ result' = [result EXCEPT ![t] = call[t].x] /\ call' = [call EXCEPT ![t] = Idle]
  /\ UNCHANGED val

GiveUp(t) ==
  /\ call[t].state = "called" /\ call[t].op = "try_lock"
  /\ result' = [result EXCEPT ![t] = None] /\ call' = [call EXCEPT ![t] = Idle]
  /\ UNCHANGED val

Next == \E t \in Thread : Call(t) \/ Effect(t) \/ Return(t) \/ GiveUp(t)

Spec == Init /\ [][Next]_<<val, call, result>>
=============================================================================
