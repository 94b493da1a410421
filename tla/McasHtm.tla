------------------------------ MODULE McasHtm -------------------------------
(***************************************************************************)
(* The compare-and-swap operations of include/mcas/mcas-htm.h and          *)
(* mcas-htm-no-if.h: a critical section of Tm that loads and compares the  *)
(* words one by one, stores them one by one, and ends.  The two headers    *)
(* differ in the comparison: && stops at the first difference, & always    *)
(* loads every word and sends the stores of a failed call to a local.      *)
(***************************************************************************)
EXTENDS Tm, Sequences

CONSTANTS
  Ops,           \* the calls: sequences of [addr, old, new]
  ShortCircuit   \* {TRUE}: mcas-htm.h, {FALSE}: mcas-htm-no-if.h, BOOLEAN: both

ASSUME OpsAssumption ==
  /\ Ops \subseteq Seq([addr : Addr, old : Value, new : Value]) \ {<<>>}
  /\ \A op \in Ops : \A i, j \in DOMAIN op : op[i].addr = op[j].addr => i = j
ASSUME ShortCircuitAssumption == ShortCircuit \subseteq BOOLEAN

VARIABLES
  op,       \* the call each thread is making or made last
  idx,      \* 1..n: comparing word idx; n+1..2n: storing word idx-n; 2n+1: done
  match,    \* do the words compared so far agree?
  result    \* "idle", "pending", or what the call returned and why

opVars == <<op, idx, match, result>>
mVars  == <<vars, opVars>>

MInit ==
  /\ Init
  /\ op = [t \in Thread |-> <<>>]
  /\ idx = [t \in Thread |-> 1]
  /\ match = [t \in Thread |-> TRUE]
  /\ result = [t \in Thread |-> "idle"]

N(t)    == Len(op[t])
Done(t) == 2 * N(t) + 1

Call(t) ==
  /\ Enter(t, TRUE)
  /\ \E o \in Ops : op' = [op EXCEPT ![t] = o]
  /\ result' = [result EXCEPT ![t] = "pending"]
  /\ UNCHANGED <<idx, match>>

\* TM_BEGIN_NO_CONFLICT; a section that is entered again starts over, and one
\* that is given up makes the call return false.
MBegin(t) ==
  /\ Begin(t)
  /\ idx' = [idx EXCEPT ![t] = IF pc'[t] \in {"body", "idle"} THEN 1 ELSE @]
  /\ match' = [match EXCEPT ![t] = pc'[t] \in {"body", "idle"} \/ @]
  /\ result' = [result EXCEPT ![t] = IF pc'[t] = "idle" THEN "conflict" ELSE @]
  /\ UNCHANGED op

\* Faulty Compare: only the last comparison counts.
CompareLast(t) ==
  /\ idx[t] <= N(t)
  /\ BodyLoad(t, op[t][idx[t]].addr)
  /\ \E stop \in ShortCircuit :
       LET ok == Load(t, op[t][idx[t]].addr) = op[t][idx[t]].old
       IN /\ match' = [match EXCEPT ![t] = ok]
          /\ idx' = [idx EXCEPT ![t] =
                       IF ~ok /\ (stop \/ @ = N(t)) THEN Done(t) ELSE @ + 1]
  /\ UNCHANGED <<op, result>>

Compare(t) ==
  /\ idx[t] <= N(t)
  /\ BodyLoad(t, op[t][idx[t]].addr)
  /\ \E stop \in ShortCircuit :
       LET same == Load(t, op[t][idx[t]].addr) = op[t][idx[t]].old
           ok   == match[t] /\ same
       IN /\ match' = [match EXCEPT ![t] = ok]
          /\ idx' = [idx EXCEPT ![t] =
                       IF ~ok /\ (stop \/ @ = N(t)) THEN Done(t) ELSE @ + 1]
  /\ UNCHANGED <<op, result>>

Write(t) ==
  /\ idx[t] \in (N(t) + 1) .. (2 * N(t))
  /\ LET o == op[t][idx[t] - N(t)] IN BodyStore(t, o.addr, o.new)
  /\ idx' = [idx EXCEPT ![t] = @ + 1]
  /\ UNCHANGED <<op, match, result>>

MLeave(t) ==
  /\ idx[t] = Done(t)
  /\ BodyDone(t)
  /\ UNCHANGED opVars

\* TM_END and the return of the call, where its locals die.
MEnd(t) ==
  /\ End(t)
  /\ IF pc'[t] = "idle"
     THEN /\ result' = [result EXCEPT ![t] = IF match[t] THEN "true" ELSE "mismatch"]
          /\ idx' = [idx EXCEPT ![t] = 1]
          /\ match' = [match EXCEPT ![t] = TRUE]
     ELSE UNCHANGED <<idx, match, result>>
  /\ UNCHANGED op

Step(t) == MBegin(t) \/ Compare(t) \/ Write(t) \/ MLeave(t) \/ MEnd(t)

MNext ==
  \/ \E t \in Thread :
       Call(t) \/ Step(t) \/ (HardwareAbort(t) /\ UNCHANGED opVars)
  \/ Terminating /\ UNCHANGED opVars

MSpec == MInit /\ [][MNext]_mVars

-----------------------------------------------------------------------------
(* Refinement of Mcas.                                                     *)

\* A call under the fallback lock takes effect when its comparison is over;
\* its stores are then certain but not all of them are made.  A transaction
\* takes effect when it commits.
Decided(t) == Owns(t) /\ pc[t] \in {"body", "end", "unlock"} /\ idx[t] > N(t)

Storing(a) ==
  {t \in Thread : Decided(t) /\ match[t] /\ \E i \in 1 .. N(t) : op[t][i].addr = a}

memBar == [a \in Addr |->
  IF Storing(a) = {} THEN mem[a]
  ELSE LET t == CHOOSE u \in Storing(a) : TRUE
           i == CHOOSE k \in 1 .. N(t) : op[t][k].addr = a
       IN op[t][i].new]

resBar == [t \in Thread |->
  IF Decided(t) THEN (IF match[t] THEN "true" ELSE "mismatch") ELSE result[t]]

Atomic == INSTANCE Mcas WITH mem <- memBar, req <- op, res <- resBar

\* Every call takes effect at one point between its call and its return, on
\* all of its words or on none: the "atomically" of mcas-htm.h:6, 24, 44, 67.
McasAtomic == Atomic!Spec
=============================================================================
