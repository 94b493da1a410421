----------------------------- MODULE DriverProofs -----------------------------
(***************************************************************************)
(* The benchmark's barrier, measured time and thread ids are right for     *)
(* every number of threads, of operations and of stages.  A call of        *)
(* benchmark() goes through three rounds, Gathering, Running and Leaving;  *)
(* no two threads are ever in different ones, because the barrier opens    *)
(* only when as many wait as there are threads.  In the MWObject the       *)
(* counters are the number of operations that have stored them.            *)
(***************************************************************************)
EXTENDS Driver, FiniteSetTheorems, TLAPS

N    == config.n_threads
Born == {t \in Spawned : pc[t] # "unborn"}
Working == {"work", "id", "pop", "fresh", "op", "compare", "store"}
Label == Working \cup
  {"unborn", "enter", "wait enter", "exit", "wait exit", "over", "dead",
   "next", "spawn", "stop", "join", "report"}
AtLabel(l) == {t \in Thread : pc[t] = l}

Types ==
  /\ N \in Nat \ {0}
  /\ pc \in [Thread -> Label]
  /\ workers \in Seq(Spawned) /\ Cardinality(Born) = Len(workers)
  /\ barrier \in [up : BOOLEAN, count : Nat, waiting : SUBSET Thread, leaving : SUBSET Thread]

\* No call of benchmark() is under way; main may be filling a structure.
Quiet ==
  /\ Born = {}
  /\ pc[Main] \in {"next", "report"} \/ (pc[Main] \in Working /\ Head(stages) = "fill")

\* In a call of benchmark().
Round == barrier.up /\ barrier.count = N /\ Head(stages) # "fill"

\* Nobody has passed the first wait.
Gathering ==
  /\ Round
  /\ barrier.leaving = {} /\ barrier.waiting = AtLabel("wait enter")
  /\ \A t \in Spawned : pc[t] \in {"unborn", "enter", "wait enter"}
  /\ pc[Main] \in {"spawn", "enter", "wait enter"} /\ Len(workers) <= N - 1
  /\ pc[Main] # "spawn" => Len(workers) = N - 1
  /\ pc[Main] # "spawn" => clock = TRUE

\* All may pass the first wait, and nobody the second.
Running ==
  /\ Round /\ clock = TRUE /\ Len(workers) = N - 1
  /\ barrier.leaving = AtLabel("wait enter") /\ barrier.waiting = AtLabel("wait exit")
  /\ \A t \in {Main} \cup Born : pc[t] \in Working \cup {"wait enter", "exit", "wait exit"}

\* All may pass the second wait.
Leaving ==
  /\ Round
  /\ barrier.leaving = AtLabel("wait exit") /\ barrier.waiting = {}
  /\ \A t \in Spawned : pc[t] \in {"unborn", "wait exit", "over", "dead"}
  /\ pc[Main] \in {"wait exit", "stop", "join"}

BarrierInv == Types /\ (Quiet \/ Gathering \/ Running \/ Leaving)

Holders == {t \in Thread : id[t] # -1}

\* The ids that were ever made are those held and those available, each once; who goes
\* for a new one has seen that none is available, and none is given back in its round.
IdsInv ==
  /\ id \in [Thread -> Nat \cup {-1}] /\ available \in Seq(Nat) /\ num_ids \in 0 .. N
  /\ num_ids = Len(available) + Cardinality(Holders)
  /\ \A t \in Holders :
       /\ id[t] < num_ids /\ \A u \in Holders : id[t] = id[u] => t = u
       /\ \A i \in DOMAIN available : available[i] # id[t]
       /\ t = Main \/ pc[t] \notin {"unborn", "dead"}
  /\ \A i \in DOMAIN available :
       available[i] < num_ids /\ \A j \in DOMAIN available : available[i] = available[j] => i = j
  /\ \A t \in Thread : pc[t] \in {"id", "pop", "fresh"} => id[t] = -1
  /\ \A t \in Thread : pc[t] = "fresh" => available = <<>>

IInv == BarrierInv /\ IdsInv

-----------------------------------------------------------------------------
(* The threads of a round.                                                 *)

\* The threads that live are one more than main has spawned and not joined.
LEMMA Living ==
  ASSUME Types
  PROVE  /\ IsFiniteSet({Main} \cup Born)
         /\ Cardinality({Main} \cup Born) = Len(workers) + 1
  <1>1. IsFiniteSet(Born)
    <2>1. Born \in SUBSET Spawned
      BY DEF Born
    <2> QED
      BY <2>1, DriverAssumption, FS_Subset
  <1>2. Main \notin Born
    BY DriverAssumption DEF Born
  <1>3. Born \cup {Main} = {Main} \cup Born
    OBVIOUS
  <1>4. Cardinality(Born) = Len(workers)
    BY DEF Types
  <1> QED
    BY <1>1, <1>2, <1>3, <1>4, FS_AddElement

\* As many threads as the barrier waits for are all the threads there are.
LEMMA AllCame ==
  ASSUME Types, Len(workers) <= N - 1,
         NEW S \in SUBSET ({Main} \cup Born), Cardinality(S) = N
  PROVE  S = {Main} \cup Born /\ Len(workers) = N - 1
  <1>1. /\ IsFiniteSet({Main} \cup Born)
        /\ Cardinality({Main} \cup Born) = Len(workers) + 1
    BY Living
  <1>2. N \in Nat /\ Len(workers) \in Nat
    BY DEF Types
  <1>3. /\ Cardinality(S) <= Cardinality({Main} \cup Born)
        /\ Cardinality({Main} \cup Born) = Cardinality(S) => {Main} \cup Born = S
    BY <1>1, FS_Subset
  <1>4. Len(workers) + 1 = N
    BY <1>1, <1>2, <1>3
  <1> QED
    BY <1>1, <1>2, <1>3, <1>4

\* A thread that lives and goes on living.
LEMMA SameBorn ==
  ASSUME Types, NEW t \in Thread, pc[t] # "unborn", NEW l \in Label, l # "unborn",
         pc' = [pc EXCEPT ![t] = l]
  PROVE  pc' \in [Thread -> Label] /\ Born' = Born
  BY DEF Types, Born, Thread

\* Who is at a point when one thread has moved.
LEMMA Moved ==
  ASSUME Types, NEW t \in Thread, NEW l \in Label, pc' = [pc EXCEPT ![t] = l], NEW k \in Label
  PROVE  AtLabel(k)' = IF k = l THEN AtLabel(k) \cup {t} ELSE AtLabel(k) \ {t}
  <1>1. \A u \in Thread : pc'[u] = IF u = t THEN l ELSE pc[u]
    BY DEF Types
  <1> QED
    BY <1>1 DEF AtLabel

\* Steps inside an operation.
LEMMA WorkStep ==
  ASSUME BarrierInv, NEW t \in Thread, pc[t] \in Working, NEW l \in Working,
         pc' = [pc EXCEPT ![t] = l], UNCHANGED <<config, stages, machine>>
  PROVE  BarrierInv'
  <1> USE DEF machine
  <1>1. pc' \in [Thread -> Label] /\ Born' = Born
    <2>1. Types /\ pc[t] # "unborn" /\ l \in Label /\ l # "unborn"
      BY DEF BarrierInv, Working, Label
    <2> QED
      BY <2>1, SameBorn
  <1>2. Types'
    BY <1>1 DEF BarrierInv, Types, N
  <1>3. Types /\ Main \in Thread /\ Main \notin Spawned /\ \A u \in Spawned : u \in Thread
    BY DriverAssumption DEF BarrierInv, Thread
  <1>4. \A u \in Thread : pc'[u] = IF u = t THEN l ELSE pc[u]
    BY <1>3 DEF Types
  <1>5. CASE Quiet
    <2>1. t = Main
      BY <1>5 DEF Quiet, Born, Thread, Working
    <2> QED
      BY <1>1, <1>2, <1>3, <1>4, <1>5, <2>1 DEF BarrierInv, Quiet, Working
  <1>6. CASE Gathering
    BY <1>3, <1>6 DEF Gathering, Working, Thread
  <1>7. CASE Running
    <2>1. AtLabel("wait enter")' = AtLabel("wait enter") /\ AtLabel("wait exit")' = AtLabel("wait exit")
      BY <1>4 DEF AtLabel, Working
    <2>2. Round'
      BY <1>7 DEF Running, Round, N
    <2>3. \A u \in {Main} \cup Born : u \in Thread
      BY <1>3 DEF Born
    <2> QED
      BY <1>1, <1>2, <1>4, <1>7, <2>1, <2>2, <2>3 DEF BarrierInv, Running, Working, N
  <1>8. CASE Leaving
    BY <1>3, <1>8 DEF Leaving, Working, Thread
  <1> QED
    BY <1>5, <1>6, <1>7, <1>8 DEF BarrierInv

\* Nothing that BarrierInv is about changes.
LEMMA BarrierStutter ==
  ASSUME BarrierInv, UNCHANGED <<config, stages, pc, machine>> PROVE BarrierInv'
  BY DEF BarrierInv, Types, Quiet, Gathering, Running, Leaving, Round, Born, AtLabel, N, machine

-----------------------------------------------------------------------------
(* The waits.                                                              *)

\* At the first wait the round is Gathering; with the last thread it is Running.
LEMMA ArriveFirstStep ==
  ASSUME BarrierInv, NEW t \in Thread, ArriveFirst(t) PROVE BarrierInv'
  <1> DEFINE w == barrier.waiting \cup {t}
  <1>1. /\ Types /\ Main \in Thread /\ Main \notin Spawned
        /\ \A u \in Spawned : u \in Thread
        /\ \A u \in Thread : u \in Spawned \/ u = Main
    BY DriverAssumption DEF BarrierInv, Thread
  <1>2. /\ pc[t] = "enter" /\ pc' = [pc EXCEPT ![t] = "wait enter"]
        /\ UNCHANGED <<config, stages, workers, clock>>
    BY DEF ArriveFirst, Arrive, At, Goto
  <1>3. Gathering
    BY <1>1, <1>2 DEF BarrierInv, Quiet, Running, Leaving, Working, Born
  <1>4. \A u \in Thread : pc'[u] = IF u = t THEN "wait enter" ELSE pc[u]
    BY <1>1, <1>2 DEF Types
  <1>5. pc' \in [Thread -> Label] /\ Born' = Born
    <2>1. pc[t] # "unborn" /\ "wait enter" \in Label
      BY <1>2 DEF Label
    <2> QED
      BY <1>1, <1>2, <2>1, SameBorn
  <1>6. Round /\ barrier.leaving = {} /\ barrier.waiting = AtLabel("wait enter")
    BY <1>3 DEF Gathering
  <1>7. \A u \in Spawned : pc[u] \in {"unborn", "enter", "wait enter"}
    BY <1>3 DEF Gathering
  <1>8. /\ pc[Main] \in {"spawn", "enter", "wait enter"} /\ Len(workers) <= N - 1
        /\ pc[Main] # "spawn" => Len(workers) = N - 1
    BY <1>3 DEF Gathering
  <1>9. AtLabel("wait enter")' = w
    BY <1>4, <1>6 DEF AtLabel
  <1>10. AtLabel("wait exit")' = {}
    BY <1>1, <1>4, <1>7, <1>8 DEF AtLabel
  <1>11. barrier' \in [up : BOOLEAN, count : Nat, waiting : SUBSET Thread, leaving : SUBSET Thread]
    BY <1>1, <1>2 DEF ArriveFirst, Arrive, Types
  <1>12. Types'
    BY <1>1, <1>2, <1>5, <1>11 DEF Types, N
  <1>13. Round'
    BY <1>1, <1>2, <1>6 DEF ArriveFirst, Arrive, Round, Types, N
  <1>14. Len(workers) <= N - 1
    BY <1>8
  <1>15. CASE Cardinality(w) = N
    <2>1. w \in SUBSET ({Main} \cup Born)
      BY <1>1, <1>2, <1>6 DEF AtLabel, Born
    <2>2. w = {Main} \cup Born /\ Len(workers) = N - 1
      BY <1>1, <1>14, <1>15, <2>1, AllCame
    <2>3. \A u \in {Main} \cup Born : pc'[u] = "wait enter"
      BY <1>9, <2>2 DEF AtLabel
    <2>4. clock = TRUE
      <3>1. pc[Main] # "spawn"
        BY <1>1, <1>2, <1>4, <2>3
      <3> QED
        BY <1>3, <3>1 DEF Gathering
    <2>5. barrier'.waiting = {} /\ barrier'.leaving = w
      BY <1>1, <1>6, <1>15 DEF ArriveFirst, Arrive, Types, Round
    <2>6. Running'
      BY <1>2, <1>5, <1>9, <1>10, <1>13, <2>2, <2>3, <2>4, <2>5 DEF Running, N
    <2> QED
      BY <1>12, <2>6 DEF BarrierInv
  <1>16. CASE Cardinality(w) # N
    <2>1. barrier'.waiting = w /\ barrier'.leaving = barrier.leaving
      BY <1>1, <1>6, <1>16 DEF ArriveFirst, Arrive, Types, Round
    <2>2. \A u \in Spawned : pc'[u] \in {"unborn", "enter", "wait enter"}
      BY <1>1, <1>4, <1>7
    <2>3. /\ pc'[Main] \in {"spawn", "enter", "wait enter"}
          /\ pc'[Main] # "spawn" => pc[Main] # "spawn"
      BY <1>1, <1>2, <1>4, <1>8
    <2>4. Gathering'
      BY <1>2, <1>3, <1>6, <1>8, <1>9, <1>13, <2>1, <2>2, <2>3 DEF Gathering, N
    <2> QED
      BY <1>12, <2>4 DEF BarrierInv
  <1> QED
    BY <1>15, <1>16

\* Who leaves the first wait is let out by the last to come to it.
LEMMA LeaveFirstStep ==
  ASSUME BarrierInv, NEW t \in Thread, LeaveFirst(t) PROVE BarrierInv'
  <1>1. /\ Types /\ Main \in Thread /\ Main \notin Spawned
        /\ \A u \in Spawned : u \in Thread
        /\ \A u \in Thread : u \in Spawned \/ u = Main
    BY DriverAssumption DEF BarrierInv, Thread
  <1>2. /\ pc[t] = "wait enter" /\ pc' = [pc EXCEPT ![t] = "work"]
        /\ UNCHANGED <<config, stages, workers, clock>>
    BY DEF LeaveFirst, Leave, At, Goto
  <1>3. /\ t \in barrier.leaving
        /\ barrier'.up = barrier.up /\ barrier'.count = barrier.count
        /\ barrier'.waiting = barrier.waiting /\ barrier'.leaving = barrier.leaving \ {t}
        /\ barrier' \in [up : BOOLEAN, count : Nat, waiting : SUBSET Thread, leaving : SUBSET Thread]
    BY <1>1 DEF LeaveFirst, Leave, Types
  <1>4. \A u \in Thread : pc'[u] = IF u = t THEN "work" ELSE pc[u]
    BY <1>1, <1>2 DEF Types
  <1>5. Running
    BY <1>1, <1>2, <1>3 DEF BarrierInv, Quiet, Gathering, Leaving, Working, Born, AtLabel
  <1>6. pc' \in [Thread -> Label] /\ Born' = Born
    <2>1. pc[t] # "unborn" /\ "work" \in Label /\ "work" # "unborn"
      BY <1>2 DEF Label, Working
    <2> QED
      BY <1>1, <1>2, <2>1, SameBorn
  <1>7. Types'
    BY <1>1, <1>2, <1>3, <1>6 DEF Types, N
  <1>8. AtLabel("wait enter")' = AtLabel("wait enter") \ {t} /\ AtLabel("wait exit")' = AtLabel("wait exit")
    <2>1. t \notin AtLabel("wait exit")
      BY <1>2 DEF AtLabel
    <2>2. "work" \in Label /\ "wait enter" \in Label /\ "wait exit" \in Label
      BY DEF Label, Working
    <2>3. AtLabel("wait enter")' = AtLabel("wait enter") \ {t}
      BY <1>1, <1>2, <2>2, Moved
    <2>4. AtLabel("wait exit")' = AtLabel("wait exit") \ {t}
      BY <1>1, <1>2, <2>2, Moved
    <2> QED
      BY <2>1, <2>3, <2>4
  <1>9. \A u \in {Main} \cup Born : pc'[u] \in Working \cup {"wait enter", "exit", "wait exit"}
    BY <1>1, <1>4, <1>5 DEF Running, Born, Working
  <1>10. Round'
    BY <1>2, <1>3, <1>5 DEF Running, Round, N
  <1> QED
    BY <1>2, <1>3, <1>5, <1>6, <1>7, <1>8, <1>9, <1>10 DEF BarrierInv, Running, N

\* At the second wait the round is Running; with the last thread it is Leaving.
LEMMA ArriveSecondStep ==
  ASSUME BarrierInv, NEW t \in Thread, ArriveSecond(t) PROVE BarrierInv'
  <1> DEFINE w == barrier.waiting \cup {t}
  <1>1. /\ Types /\ Main \in Thread /\ Main \notin Spawned
        /\ \A u \in Spawned : u \in Thread
        /\ \A u \in Thread : u \in Spawned \/ u = Main
    BY DriverAssumption DEF BarrierInv, Thread
  <1>2. /\ pc[t] = "exit" /\ pc' = [pc EXCEPT ![t] = "wait exit"]
        /\ UNCHANGED <<config, stages, workers, clock>>
    BY DEF ArriveSecond, Arrive, At, Goto
  <1>3. Running
    BY <1>1, <1>2 DEF BarrierInv, Quiet, Gathering, Leaving, Working, Born
  <1>4. \A u \in Thread : pc'[u] = IF u = t THEN "wait exit" ELSE pc[u]
    BY <1>1, <1>2 DEF Types
  <1>5. pc' \in [Thread -> Label] /\ Born' = Born
    <2>1. pc[t] # "unborn" /\ "wait exit" \in Label
      BY <1>2 DEF Label
    <2> QED
      BY <1>1, <1>2, <2>1, SameBorn
  <1>6. /\ Round /\ Len(workers) = N - 1
        /\ barrier.leaving = AtLabel("wait enter") /\ barrier.waiting = AtLabel("wait exit")
    BY <1>3 DEF Running
  <1>7. AtLabel("wait exit")' = w /\ AtLabel("wait enter")' = AtLabel("wait enter")
    <2>1. t \notin AtLabel("wait enter")
      BY <1>2 DEF AtLabel
    <2>2. "wait enter" \in Label /\ "wait exit" \in Label
      BY DEF Label
    <2>3. /\ AtLabel("wait enter")' = AtLabel("wait enter") \ {t}
          /\ AtLabel("wait exit")' = AtLabel("wait exit") \cup {t}
      BY <1>1, <1>2, <2>2, Moved
    <2> QED
      BY <1>6, <2>1, <2>3
  <1>8. barrier' \in [up : BOOLEAN, count : Nat, waiting : SUBSET Thread, leaving : SUBSET Thread]
    BY <1>1, <1>2 DEF ArriveSecond, Arrive, Types
  <1>9. Types'
    BY <1>1, <1>2, <1>5, <1>8 DEF Types, N
  <1>10. Round'
    BY <1>1, <1>2, <1>6 DEF ArriveSecond, Arrive, Round, Types, N
  <1>11. Len(workers) <= N - 1
    <2>1. N \in Nat
      BY <1>1 DEF Types
    <2>2. Len(workers) = N - 1
      BY <1>6
    <2> QED
      BY <2>1, <2>2
  <1>12. CASE Cardinality(w) = N
    <2>1. w \in SUBSET ({Main} \cup Born)
      BY <1>1, <1>2, <1>6 DEF AtLabel, Born
    <2>2. w = {Main} \cup Born
      BY <1>1, <1>11, <1>12, <2>1, AllCame
    <2>3. \A u \in {Main} \cup Born : pc'[u] = "wait exit"
      BY <1>7, <2>2 DEF AtLabel
    <2>4. AtLabel("wait enter")' = {}
      <3>1. ASSUME NEW u \in Thread, pc'[u] = "wait enter" PROVE FALSE
        <4>1. pc[u] = "wait enter"
          BY <1>4, <3>1
        <4>2. u \in {Main} \cup Born
          BY <1>1, <4>1 DEF Born
        <4> QED
          BY <2>3, <3>1, <4>2
      <3> QED
        BY <3>1 DEF AtLabel
    <2>5. barrier'.waiting = {} /\ barrier'.leaving = barrier.leaving \cup w
      BY <1>1, <1>6, <1>12 DEF ArriveSecond, Arrive, Types, Round
    <2>6. barrier'.leaving = AtLabel("wait exit")'
      BY <1>6, <1>7, <2>4, <2>5
    <2>7. \A u \in Spawned : pc'[u] \in {"unborn", "wait exit", "over", "dead"}
      BY <1>1, <1>2, <1>4, <2>3 DEF Born
    <2>8. Leaving'
      BY <1>10, <2>3, <2>5, <2>6, <2>7 DEF Leaving
    <2> QED
      BY <1>9, <2>8 DEF BarrierInv
  <1>13. CASE Cardinality(w) # N
    <2>1. barrier'.waiting = w /\ barrier'.leaving = barrier.leaving
      BY <1>1, <1>6, <1>13 DEF ArriveSecond, Arrive, Types, Round
    <2>2. \A u \in {Main} \cup Born : pc'[u] \in Working \cup {"wait enter", "exit", "wait exit"}
      BY <1>1, <1>3, <1>4 DEF Running, Born
    <2>3. Running'
      BY <1>2, <1>3, <1>5, <1>6, <1>7, <1>10, <2>1, <2>2 DEF Running, N
    <2> QED
      BY <1>9, <2>3 DEF BarrierInv
  <1> QED
    BY <1>12, <1>13

\* Who leaves the second wait does no more operations.
LEMMA LeaveSecondStep ==
  ASSUME BarrierInv, NEW t \in Thread, LeaveSecond(t) PROVE BarrierInv'
  <1> DEFINE l == IF t = Main THEN "stop" ELSE "over"
  <1>1. /\ Types /\ Main \in Thread /\ Main \notin Spawned
        /\ \A u \in Spawned : u \in Thread
        /\ \A u \in Thread : u \in Spawned \/ u = Main
    BY DriverAssumption DEF BarrierInv, Thread
  <1>2. /\ pc[t] = "wait exit" /\ pc' = [pc EXCEPT ![t] = l]
        /\ UNCHANGED <<config, stages, workers, clock>>
    BY DEF LeaveSecond, Leave, At, Goto
  <1>3. /\ t \in barrier.leaving
        /\ barrier'.up = barrier.up /\ barrier'.count = barrier.count
        /\ barrier'.waiting = barrier.waiting /\ barrier'.leaving = barrier.leaving \ {t}
        /\ barrier' \in [up : BOOLEAN, count : Nat, waiting : SUBSET Thread, leaving : SUBSET Thread]
    BY <1>1 DEF LeaveSecond, Leave, Types
  <1>4. \A u \in Thread : pc'[u] = IF u = t THEN l ELSE pc[u]
    BY <1>1, <1>2 DEF Types
  <1>5. Leaving
    BY <1>1, <1>2, <1>3 DEF BarrierInv, Quiet, Gathering, Running, Working, Born, AtLabel
  <1>6. pc' \in [Thread -> Label] /\ Born' = Born
    <2>1. pc[t] # "unborn" /\ l \in Label /\ l # "unborn"
      BY <1>2 DEF Label
    <2> QED
      BY <1>1, <1>2, <2>1, SameBorn
  <1>7. Types'
    BY <1>1, <1>2, <1>3, <1>6 DEF Types, N
  <1>8. AtLabel("wait exit")' = AtLabel("wait exit") \ {t}
    <2>1. l \in Label /\ l # "wait exit" /\ "wait exit" \in Label
      BY DEF Label
    <2> QED
      BY <1>1, <1>2, <2>1, Moved
  <1>9. /\ \A u \in Spawned : pc'[u] \in {"unborn", "wait exit", "over", "dead"}
        /\ pc'[Main] \in {"wait exit", "stop", "join"}
    BY <1>1, <1>4, <1>5 DEF Leaving
  <1>10. Round'
    BY <1>2, <1>3, <1>5 DEF Leaving, Round, N
  <1>11. Leaving'
    BY <1>3, <1>5, <1>8, <1>9, <1>10 DEF Leaving
  <1> QED
    BY <1>7, <1>11 DEF BarrierInv

-----------------------------------------------------------------------------
(* The other steps.                                                        *)

\* Main ends a fill, or a thread its operations between the waits.
LEMMA FinishStep ==
  ASSUME BarrierInv, NEW t \in Thread, Finish(t) PROVE BarrierInv'
  <1>1. /\ Types /\ Main \in Thread /\ Main \notin Spawned
        /\ \A u \in Spawned : u \in Thread
        /\ \A u \in Thread : u \in Spawned \/ u = Main
    BY DriverAssumption DEF BarrierInv, Thread
  <1>2. pc[t] = "work" /\ UNCHANGED <<config, machine>>
    BY DEF Finish, At
  <1>3. CASE Head(stages) = "fill"
    <2>1. pc' = [pc EXCEPT ![t] = "next"]
      BY <1>3 DEF Finish, Goto
    <2>2. \A u \in Thread : pc'[u] = IF u = t THEN "next" ELSE pc[u]
      BY <1>1, <2>1 DEF Types
    <2>3. Quiet
      BY <1>1, <1>2, <1>3 DEF BarrierInv, Gathering, Running, Leaving, Round, Working
    <2>4. t = Main
      BY <1>1, <1>2, <2>3 DEF Quiet, Born
    <2>5. pc' \in [Thread -> Label] /\ Born' = Born
      <3>1. pc[t] # "unborn" /\ "next" \in Label
        BY <1>2 DEF Label
      <3> QED
        BY <1>1, <2>1, <3>1, SameBorn
    <2>6. Types'
      BY <1>1, <1>2, <2>5 DEF Types, N, machine
    <2>7. Quiet'
      BY <1>1, <2>2, <2>3, <2>4, <2>5 DEF Quiet
    <2> QED
      BY <2>6, <2>7 DEF BarrierInv
  <1>4. CASE Head(stages) # "fill"
    <2>1. pc' = [pc EXCEPT ![t] = "exit"] /\ UNCHANGED stages
      BY <1>4 DEF Finish, Goto
    <2>2. \A u \in Thread : pc'[u] = IF u = t THEN "exit" ELSE pc[u]
      BY <1>1, <2>1 DEF Types
    <2>3. Running
      BY <1>1, <1>2, <1>4 DEF BarrierInv, Quiet, Gathering, Leaving, Working, Born
    <2>4. pc' \in [Thread -> Label] /\ Born' = Born
      <3>1. pc[t] # "unborn" /\ "exit" \in Label
        BY <1>2 DEF Label
      <3> QED
        BY <1>1, <2>1, <3>1, SameBorn
    <2>5. Types'
      BY <1>1, <1>2, <2>4 DEF Types, N, machine
    <2>6. AtLabel("wait enter")' = AtLabel("wait enter") /\ AtLabel("wait exit")' = AtLabel("wait exit")
      BY <1>2, <2>2 DEF AtLabel
    <2>7. \A u \in {Main} \cup Born : pc'[u] \in Working \cup {"wait enter", "exit", "wait exit"}
      BY <1>1, <2>2, <2>3 DEF Running, Born
    <2>8. Running'
      BY <1>2, <2>1, <2>3, <2>4, <2>6, <2>7 DEF Running, Round, N, machine
    <2> QED
      BY <2>5, <2>8 DEF BarrierInv
  <1> QED
    BY <1>3, <1>4

\* A thread that main has spawned dies.
LEMMA RelinquishStep ==
  ASSUME BarrierInv, NEW t \in Thread, Relinquish(t) PROVE BarrierInv'
  <1>1. /\ Types /\ Main \in Thread /\ Main \notin Spawned
        /\ \A u \in Spawned : u \in Thread
        /\ \A u \in Thread : u \in Spawned \/ u = Main
    BY DriverAssumption DEF BarrierInv, Thread
  <1>2. pc[t] = "over" /\ pc' = [pc EXCEPT ![t] = "dead"] /\ UNCHANGED <<config, stages, machine>>
    BY DEF Relinquish, At, Goto, Other
  <1>3. \A u \in Thread : pc'[u] = IF u = t THEN "dead" ELSE pc[u]
    BY <1>1, <1>2 DEF Types
  <1>4. Leaving
    BY <1>1, <1>2 DEF BarrierInv, Quiet, Gathering, Running, Working, Born
  <1>5. pc' \in [Thread -> Label] /\ Born' = Born
    <2>1. pc[t] # "unborn" /\ "dead" \in Label
      BY <1>2 DEF Label
    <2> QED
      BY <1>1, <1>2, <2>1, SameBorn
  <1>6. Types'
    BY <1>1, <1>2, <1>5 DEF Types, N, machine
  <1>7. AtLabel("wait exit")' = AtLabel("wait exit")
    <2>1. t \notin AtLabel("wait exit")
      BY <1>2 DEF AtLabel
    <2>2. "dead" \in Label /\ "wait exit" \in Label
      BY DEF Label
    <2>3. AtLabel("wait exit")' = AtLabel("wait exit") \ {t}
      BY <1>1, <1>2, <2>2, Moved
    <2> QED
      BY <2>1, <2>3
  <1>8. /\ \A u \in Spawned : pc'[u] \in {"unborn", "wait exit", "over", "dead"}
        /\ pc'[Main] \in {"wait exit", "stop", "join"}
    BY <1>1, <1>2, <1>3, <1>4 DEF Leaving
  <1>9. Leaving'
    BY <1>2, <1>4, <1>7, <1>8 DEF Leaving, Round, N, machine
  <1> QED
    BY <1>6, <1>9 DEF BarrierInv

\* Main fills the structure.
LEMMA FillStep ==
  ASSUME BarrierInv, Fill PROVE BarrierInv'
  <1>1. /\ Types /\ Main \in Thread /\ Main \notin Spawned
        /\ \A u \in Spawned : u \in Thread
    BY DriverAssumption DEF BarrierInv, Thread
  <1>2. /\ pc[Main] = "next" /\ Head(stages) = "fill" /\ pc' = [pc EXCEPT ![Main] = "work"]
        /\ UNCHANGED <<config, stages, machine>>
    BY DEF Fill, At, Goto, MainUnchanged
  <1>3. Quiet
    BY <1>2 DEF BarrierInv, Gathering, Running, Leaving, Round
  <1>4. pc' \in [Thread -> Label] /\ Born' = Born
    <2>1. pc[Main] # "unborn" /\ "work" \in Label /\ "work" # "unborn"
      BY <1>2 DEF Label, Working
    <2> QED
      BY <1>1, <1>2, <2>1, SameBorn
  <1>5. pc'[Main] = "work"
    BY <1>1, <1>2 DEF Types
  <1>6. Types'
    BY <1>1, <1>2, <1>4 DEF Types, N, machine
  <1> QED
    BY <1>2, <1>3, <1>4, <1>5, <1>6 DEF BarrierInv, Quiet, Working

\* A round begins.
LEMMA BarrierInitStep ==
  ASSUME BarrierInv, BarrierInit PROVE BarrierInv'
  <1>1. /\ Types /\ Main \in Thread /\ Main \notin Spawned
        /\ \A u \in Spawned : u \in Thread
        /\ \A u \in Thread : u \in Spawned \/ u = Main
    BY DriverAssumption DEF BarrierInv, Thread
  <1>2. /\ pc[Main] = "next" /\ Head(stages) # "fill" /\ pc' = [pc EXCEPT ![Main] = "spawn"]
        /\ UNCHANGED <<config, stages, workers, clock>>
        /\ barrier' = [up |-> TRUE, count |-> config.n_threads, waiting |-> {}, leaving |-> {}]
    BY DEF BarrierInit, At, Goto, MainUnchanged
  <1>3. Quiet
    BY <1>2 DEF BarrierInv, Gathering, Running, Leaving, Working
  <1>4. pc' \in [Thread -> Label] /\ Born' = Born
    <2>1. pc[Main] # "unborn" /\ "spawn" \in Label
      BY <1>2 DEF Label
    <2> QED
      BY <1>1, <1>2, <2>1, SameBorn
  <1>5. \A u \in Thread : pc'[u] = IF u = Main THEN "spawn" ELSE "unborn"
    <2>1. \A u \in Thread : pc'[u] = IF u = Main THEN "spawn" ELSE pc[u]
      BY <1>1, <1>2 DEF Types
    <2> QED
      BY <1>1, <1>3, <2>1 DEF Quiet, Born
  <1>6. barrier' \in [up : BOOLEAN, count : Nat, waiting : SUBSET Thread, leaving : SUBSET Thread]
    BY <1>1, <1>2 DEF Types, N
  <1>7. Types'
    BY <1>1, <1>2, <1>4, <1>6 DEF Types, N
  <1>8. AtLabel("wait enter")' = {}
    BY <1>5 DEF AtLabel
  <1>9. Len(workers) = 0
    <2>1. Cardinality(Born) = Len(workers) /\ Born = {}
      BY <1>1, <1>3 DEF Types, Quiet
    <2> QED
      BY <2>1, FS_EmptySet
  <1>10. Len(workers') <= N' - 1
    <2>1. N \in Nat \ {0} /\ N' = N
      BY <1>1, <1>2 DEF Types, N
    <2> QED
      BY <1>2, <1>9, <2>1
  <1>11. Round'
    BY <1>2 DEF Round, N
  <1>12. /\ \A u \in Spawned : pc'[u] \in {"unborn", "enter", "wait enter"}
         /\ pc'[Main] = "spawn"
    BY <1>1, <1>5
  <1>13. barrier'.leaving = {} /\ barrier'.waiting = {}
    BY <1>2
  <1>14. Gathering'
    BY <1>8, <1>10, <1>11, <1>12, <1>13 DEF Gathering
  <1> QED
    BY <1>7, <1>14 DEF BarrierInv

\* One more thread lives.
LEMMA SpawnStep ==
  ASSUME BarrierInv, NEW t \in Spawned, Spawn(t) PROVE BarrierInv'
  <1>1. /\ Types /\ Main \in Thread /\ Main \notin Spawned /\ t \in Thread
        /\ \A u \in Spawned : u \in Thread
        /\ \A u \in Thread : u \in Spawned \/ u = Main
    BY DriverAssumption DEF BarrierInv, Thread
  <1>2. /\ pc[Main] = "spawn" /\ Len(workers) < N - 1
        /\ pc[t] = "unborn" /\ pc' = [pc EXCEPT ![t] = "enter"]
        /\ workers' = Append(workers, t)
        /\ UNCHANGED <<config, stages, barrier, clock>>
    BY DEF Spawn, At, Goto, MainUnchanged, N
  <1>3. Gathering
    BY <1>2 DEF BarrierInv, Quiet, Running, Leaving, Working
  <1>4. \A u \in Thread : pc'[u] = IF u = t THEN "enter" ELSE pc[u]
    BY <1>1, <1>2 DEF Types
  <1>5. pc' \in [Thread -> Label]
    <2>1. "enter" \in Label
      BY DEF Label
    <2> QED
      BY <1>1, <1>2, <2>1 DEF Types
  <1>6. Born' = Born \cup {t}
    BY <1>1, <1>4 DEF Born
  <1>7. Cardinality(Born') = Len(workers) + 1
    <2>1. IsFiniteSet(Born)
      <3>1. Born \in SUBSET Spawned
        BY DEF Born
      <3> QED
        BY <3>1, DriverAssumption, FS_Subset
    <2>2. t \notin Born
      BY <1>2 DEF Born
    <2>3. Cardinality(Born) = Len(workers)
      BY <1>1 DEF Types
    <2> QED
      BY <1>6, <2>1, <2>2, <2>3, FS_AddElement
  <1>8. workers' \in Seq(Spawned) /\ Len(workers') = Len(workers) + 1
    <2>1. workers \in Seq(Spawned) /\ workers' = Append(workers, t)
      BY <1>1, <1>2 DEF Types
    <2> QED
      BY <2>1
  <1>9. Types'
    <2>1. UNCHANGED <<N, barrier>>
      BY <1>2 DEF N
    <2> QED
      BY <1>1, <1>5, <1>7, <1>8, <2>1 DEF Types
  <1>10. Len(workers') <= N' - 1
    <2>1. N \in Nat /\ N' = N /\ Len(workers) \in Nat
      BY <1>1, <1>2 DEF Types, N
    <2>2. Len(workers) < N - 1
      BY <1>2
    <2> QED
      BY <1>8, <2>1, <2>2
  <1>11. AtLabel("wait enter")' = AtLabel("wait enter")
    <2>1. t \notin AtLabel("wait enter")
      BY <1>2 DEF AtLabel
    <2>2. "enter" \in Label /\ "wait enter" \in Label
      BY DEF Label
    <2>3. AtLabel("wait enter")' = AtLabel("wait enter") \ {t}
      BY <1>1, <1>2, <2>2, Moved
    <2> QED
      BY <2>1, <2>3
  <1>12. /\ \A u \in Spawned : pc'[u] \in {"unborn", "enter", "wait enter"}
         /\ pc'[Main] = "spawn"
    BY <1>1, <1>2, <1>3, <1>4 DEF Gathering
  <1>13. Round'
    BY <1>2, <1>3 DEF Gathering, Round, N
  <1>14. barrier'.leaving = {} /\ barrier'.waiting = AtLabel("wait enter")'
    BY <1>2, <1>3, <1>11 DEF Gathering
  <1>15. Gathering'
    BY <1>10, <1>12, <1>13, <1>14 DEF Gathering
  <1> QED
    BY <1>9, <1>15 DEF BarrierInv

\* Main begins to measure.
LEMMA StartStep ==
  ASSUME BarrierInv, Start PROVE BarrierInv'
  <1>1. /\ Types /\ Main \in Thread /\ Main \notin Spawned
        /\ \A u \in Spawned : u \in Thread
    BY DriverAssumption DEF BarrierInv, Thread
  <1>2. /\ pc[Main] = "spawn" /\ Len(workers) = N - 1 /\ pc' = [pc EXCEPT ![Main] = "enter"]
        /\ UNCHANGED <<config, stages, workers, barrier>>
    BY DEF Start, At, Goto, MainUnchanged, N
  <1>3. clock' = TRUE
    BY DEF Start
  <1>4. Gathering
    BY <1>2 DEF BarrierInv, Quiet, Running, Leaving, Working
  <1>5. \A u \in Thread : pc'[u] = IF u = Main THEN "enter" ELSE pc[u]
    BY <1>1, <1>2 DEF Types
  <1>6. pc' \in [Thread -> Label] /\ Born' = Born
    <2>1. pc[Main] # "unborn" /\ "enter" \in Label
      BY <1>2 DEF Label
    <2> QED
      BY <1>1, <1>2, <2>1, SameBorn
  <1>7. Types'
    BY <1>1, <1>2, <1>6 DEF Types, N
  <1>8. AtLabel("wait enter")' = AtLabel("wait enter")
    <2>1. Main \notin AtLabel("wait enter")
      BY <1>2 DEF AtLabel
    <2>2. "enter" \in Label /\ "wait enter" \in Label
      BY DEF Label
    <2>3. AtLabel("wait enter")' = AtLabel("wait enter") \ {Main}
      BY <1>1, <1>2, <2>2, Moved
    <2> QED
      BY <2>1, <2>3
  <1>9. /\ \A u \in Spawned : pc'[u] \in {"unborn", "enter", "wait enter"}
        /\ pc'[Main] = "enter"
    BY <1>1, <1>4, <1>5 DEF Gathering
  <1>10. Round'
    BY <1>2, <1>4 DEF Gathering, Round, N
  <1>11. barrier'.leaving = {} /\ barrier'.waiting = AtLabel("wait enter")'
    BY <1>2, <1>4, <1>8 DEF Gathering
  <1>12. Len(workers') = N' - 1 /\ Len(workers') <= N' - 1
    <2>1. N \in Nat /\ N' = N
      BY <1>1, <1>2 DEF Types, N
    <2>2. Len(workers') = N' - 1
      BY <1>2, <2>1
    <2> QED
      BY <2>1, <2>2
  <1>13. Gathering'
    BY <1>3, <1>9, <1>10, <1>11, <1>12 DEF Gathering
  <1> QED
    BY <1>7, <1>13 DEF BarrierInv

\* Main has measured.
LEMMA StopStep ==
  ASSUME BarrierInv, Stop PROVE BarrierInv'
  <1>1. /\ Types /\ Main \in Thread /\ Main \notin Spawned
        /\ \A u \in Spawned : u \in Thread
    BY DriverAssumption DEF BarrierInv, Thread
  <1>2. /\ pc[Main] = "stop" /\ pc' = [pc EXCEPT ![Main] = "join"]
        /\ UNCHANGED <<config, stages, workers, barrier>>
    BY DEF Stop, At, Goto, MainUnchanged
  <1>3. Leaving
    BY <1>2 DEF BarrierInv, Quiet, Gathering, Running, Working
  <1>4. \A u \in Thread : pc'[u] = IF u = Main THEN "join" ELSE pc[u]
    BY <1>1, <1>2 DEF Types
  <1>5. pc' \in [Thread -> Label] /\ Born' = Born
    <2>1. pc[Main] # "unborn" /\ "join" \in Label
      BY <1>2 DEF Label
    <2> QED
      BY <1>1, <1>2, <2>1, SameBorn
  <1>6. Types'
    BY <1>1, <1>2, <1>5 DEF Types, N
  <1>7. AtLabel("wait exit")' = AtLabel("wait exit")
    <2>1. Main \notin AtLabel("wait exit")
      BY <1>2 DEF AtLabel
    <2>2. "join" \in Label /\ "wait exit" \in Label
      BY DEF Label
    <2>3. AtLabel("wait exit")' = AtLabel("wait exit") \ {Main}
      BY <1>1, <1>2, <2>2, Moved
    <2> QED
      BY <2>1, <2>3
  <1>8. /\ \A u \in Spawned : pc'[u] \in {"unborn", "wait exit", "over", "dead"}
        /\ pc'[Main] = "join"
    BY <1>1, <1>3, <1>4 DEF Leaving
  <1>9. Leaving'
    BY <1>2, <1>3, <1>7, <1>8 DEF Leaving, Round, N
  <1> QED
    BY <1>6, <1>9 DEF BarrierInv

\* One thread less lives.
LEMMA JoinStep ==
  ASSUME BarrierInv, Join PROVE BarrierInv'
  <1> DEFINE h == Head(workers)
  <1>1. /\ Types /\ Main \in Thread /\ Main \notin Spawned
        /\ \A u \in Spawned : u \in Thread
        /\ \A u \in Thread : u \in Spawned \/ u = Main
    BY DriverAssumption DEF BarrierInv, Thread
  <1>2. /\ pc[Main] = "join" /\ workers # <<>> /\ pc[h] = "dead"
        /\ pc' = [pc EXCEPT ![h] = "unborn"] /\ workers' = Tail(workers)
        /\ UNCHANGED <<config, stages, barrier>>
    BY DEF Join, At, Goto, MainUnchanged
  <1>3. Leaving
    BY <1>2 DEF BarrierInv, Quiet, Gathering, Running, Working
  <1>4. /\ h \in Spawned /\ workers' \in Seq(Spawned)
        /\ Len(workers) \in Nat /\ Len(workers') = Len(workers) - 1
    <2>1. workers \in Seq(Spawned) /\ workers # <<>> /\ workers' = Tail(workers)
      BY <1>1, <1>2 DEF Types
    <2> QED
      BY <2>1
  <1> HIDE DEF h
  <1>5. h \in Thread
    BY <1>1, <1>4
  <1>6. \A u \in Thread : pc'[u] = IF u = h THEN "unborn" ELSE pc[u]
    BY <1>1, <1>2, <1>5 DEF Types
  <1>7. pc' \in [Thread -> Label]
    <2>1. "unborn" \in Label
      BY DEF Label
    <2> QED
      BY <1>1, <1>2, <1>5, <2>1 DEF Types
  <1>8. Born' = Born \ {h} /\ h \in Born
    BY <1>1, <1>2, <1>4, <1>6 DEF Born
  <1>9. Cardinality(Born') = Len(workers')
    <2>1. IsFiniteSet(Born)
      <3>1. Born \in SUBSET Spawned
        BY DEF Born
      <3> QED
        BY <3>1, DriverAssumption, FS_Subset
    <2>2. Cardinality(Born) = Len(workers)
      BY <1>1 DEF Types
    <2>3. Cardinality(Born \ {h}) = Cardinality(Born) - 1
      BY <1>8, <2>1, FS_RemoveElement
    <2> QED
      BY <1>4, <1>8, <2>2, <2>3
  <1>10. Types'
    <2>1. UNCHANGED <<N, barrier>>
      BY <1>2 DEF N
    <2> QED
      BY <1>1, <1>4, <1>7, <1>9, <2>1 DEF Types
  <1>11. AtLabel("wait exit")' = AtLabel("wait exit")
    <2>1. h \notin AtLabel("wait exit")
      BY <1>2 DEF AtLabel
    <2>2. "unborn" \in Label /\ "wait exit" \in Label
      BY DEF Label
    <2>3. AtLabel("wait exit")' = AtLabel("wait exit") \ {h}
      BY <1>1, <1>2, <1>5, <2>2, Moved
    <2> QED
      BY <2>1, <2>3
  <1>12. /\ \A u \in Spawned : pc'[u] \in {"unborn", "wait exit", "over", "dead"}
         /\ pc'[Main] = "join"
    BY <1>1, <1>2, <1>3, <1>4, <1>6 DEF Leaving
  <1>13. Leaving'
    BY <1>2, <1>3, <1>11, <1>12 DEF Leaving, Round, N
  <1> QED
    BY <1>10, <1>13 DEF BarrierInv

\* A round is over: no other thread lives.
LEMMA DestroyStep ==
  ASSUME BarrierInv, Destroy PROVE BarrierInv'
  <1>1. /\ Types /\ Main \in Thread /\ Main \notin Spawned
        /\ \A u \in Spawned : u \in Thread
    BY DriverAssumption DEF BarrierInv, Thread
  <1>2. /\ pc[Main] = "join" /\ workers = <<>> /\ pc' = [pc EXCEPT ![Main] = "report"]
        /\ UNCHANGED <<config, stages, workers>>
    BY DEF Destroy, At, Goto, MainUnchanged
  <1>3. barrier' \in [up : BOOLEAN, count : Nat, waiting : SUBSET Thread, leaving : SUBSET Thread]
    BY <1>1 DEF Destroy, Types
  <1>4. pc' \in [Thread -> Label] /\ Born' = Born
    <2>1. pc[Main] # "unborn" /\ "report" \in Label
      BY <1>2 DEF Label
    <2> QED
      BY <1>1, <1>2, <2>1, SameBorn
  <1>5. Born = {}
    <2>1. Cardinality(Born) = 0
      <3>1. Cardinality(Born) = Len(workers)
        BY <1>1 DEF Types
      <3>2. Len(workers) = 0
        BY <1>2
      <3> QED
        BY <3>1, <3>2
    <2>2. IsFiniteSet(Born)
      <3>1. Born \in SUBSET Spawned
        BY DEF Born
      <3> QED
        BY <3>1, DriverAssumption, FS_Subset
    <2> QED
      BY <2>1, <2>2, FS_EmptySet
  <1>6. pc'[Main] = "report"
    BY <1>1, <1>2 DEF Types
  <1>7. Types'
    BY <1>1, <1>2, <1>3, <1>4 DEF Types, N
  <1> QED
    BY <1>4, <1>5, <1>6, <1>7 DEF BarrierInv, Quiet

\* Main goes to the next stage.
LEMMA ReportStep ==
  ASSUME BarrierInv, Report PROVE BarrierInv'
  <1>1. Types /\ Main \in Thread
    BY DEF BarrierInv, Thread
  <1>2. /\ pc[Main] = "report" /\ pc' = [pc EXCEPT ![Main] = "next"]
        /\ UNCHANGED <<config, machine>>
    BY DEF Report, At, Goto, MainUnchanged
  <1>3. Quiet
    BY <1>2 DEF BarrierInv, Gathering, Running, Leaving, Working
  <1>4. pc' \in [Thread -> Label] /\ Born' = Born
    <2>1. pc[Main] # "unborn" /\ "next" \in Label
      BY <1>2 DEF Label
    <2> QED
      BY <1>1, <1>2, <2>1, SameBorn
  <1>5. pc'[Main] = "next"
    BY <1>1, <1>2 DEF Types
  <1>6. Types'
    BY <1>1, <1>2, <1>4 DEF Types, N, machine
  <1> QED
    BY <1>3, <1>4, <1>5, <1>6 DEF BarrierInv, Quiet

-----------------------------------------------------------------------------
(* The barrier.                                                            *)

\* The program begins between two rounds.
LEMMA BarrierBegins == Init => BarrierInv
  <1> SUFFICES ASSUME Init PROVE BarrierInv
    OBVIOUS
  <1>1. /\ pc = [t \in Thread |-> IF t = Main THEN "next" ELSE "unborn"]
        /\ workers = <<>>
        /\ barrier = [up |-> FALSE, count |-> 0, waiting |-> {}, leaving |-> {}]
    BY DEF Init
  <1>2. Main \in Thread /\ Main \notin Spawned /\ \A u \in Spawned : u \in Thread
    BY DriverAssumption DEF Thread
  <1>3. N \in Nat \ {0}
    <2>1. Cardinality(Spawned) \in Nat
      BY DriverAssumption, FS_CardinalityType
    <2>2. \E n \in 1 .. Cardinality(Spawned) + 1 : N = n
      BY DEF Init, N
    <2> QED
      BY <2>1, <2>2
  <1>4. pc \in [Thread -> Label] /\ pc[Main] = "next" /\ \A u \in Spawned : pc[u] = "unborn"
    BY <1>1, <1>2 DEF Label
  <1>5. Born = {}
    BY <1>4 DEF Born
  <1>6. workers \in Seq(Spawned) /\ Cardinality(Born) = Len(workers)
    BY <1>1, <1>5, FS_EmptySet
  <1>7. barrier \in [up : BOOLEAN, count : Nat, waiting : SUBSET Thread, leaving : SUBSET Thread]
    BY <1>1
  <1>8. Types
    BY <1>3, <1>4, <1>6, <1>7 DEF Types
  <1> QED
    BY <1>4, <1>5, <1>8 DEF BarrierInv, Quiet

\* Every step keeps the round.
LEMMA BarrierStep == BarrierInv /\ [Next]_vars => BarrierInv'
  <1> SUFFICES ASSUME BarrierInv, [Next]_vars PROVE BarrierInv'
    OBVIOUS
  <1>1. ASSUME UNCHANGED vars PROVE BarrierInv'
    BY <1>1, BarrierStutter DEF vars
  <1>2. ASSUME NEW t \in Thread, WorkerStep(t) PROVE BarrierInv'
    <2> USE DEF At, Goto, Over, Other
    <2>1. CASE ArriveFirst(t)
      BY <2>1, ArriveFirstStep
    <2>2. CASE LeaveFirst(t)
      BY <2>2, LeaveFirstStep
    <2>3. CASE ArriveSecond(t)
      BY <2>3, ArriveSecondStep
    <2>4. CASE LeaveSecond(t)
      BY <2>4, LeaveSecondStep
    <2>5. CASE Begin(t)
      <3>1. \E l \in {"id", "op"} : pc' = [pc EXCEPT ![t] = l]
        BY <2>5 DEF Begin
      <3>2. pc[t] \in Working /\ UNCHANGED <<config, stages, machine>>
        BY <2>5 DEF Begin, Working
      <3>3. "id" \in Working /\ "op" \in Working
        BY DEF Working
      <3> QED
        BY <3>1, <3>2, <3>3, WorkStep
    <2>6. CASE Operate(t)
      <3>1. /\ pc[t] \in Working /\ "work" \in Working
            /\ pc' = [pc EXCEPT ![t] = "work"] /\ UNCHANGED <<config, stages, machine>>
        BY <2>6 DEF Operate, Working
      <3> QED
        BY <3>1, WorkStep
    <2>7. CASE Finish(t)
      BY <2>7, FinishStep
    <2>8. CASE ObjectLoad(t)
      BY <2>8, BarrierStutter DEF ObjectLoad, UnchangedButObject
    <2>9. CASE ObjectLock(t)
      <3>1. /\ pc[t] \in Working /\ "compare" \in Working
            /\ pc' = [pc EXCEPT ![t] = "compare"] /\ UNCHANGED <<config, stages, machine>>
        BY <2>9 DEF ObjectLock, UnchangedButObject, Working
      <3> QED
        BY <3>1, WorkStep
    <2>10. CASE ObjectCompare(t)
      <3>1. \E l \in {"store", "op"} : pc' = [pc EXCEPT ![t] = l]
        BY <2>10 DEF ObjectCompare
      <3>2. pc[t] \in Working /\ UNCHANGED <<config, stages, machine>>
        BY <2>10 DEF ObjectCompare, UnchangedButObject, Working
      <3>3. "store" \in Working /\ "op" \in Working
        BY DEF Working
      <3> QED
        BY <3>1, <3>2, <3>3, WorkStep
    <2>11. CASE ObjectStore(t)
      <3>1. pc' = [pc EXCEPT ![t] = "work"] \/ UNCHANGED pc
        BY <2>11 DEF ObjectStore
      <3>2. pc[t] \in Working /\ "work" \in Working /\ UNCHANGED <<config, stages, machine>>
        BY <2>11 DEF ObjectStore, UnchangedButObject, Working
      <3> QED
        BY <3>1, <3>2, WorkStep, BarrierStutter
    <2>12. CASE ObjectSection(t)
      <3>1. \E l \in {"work", "op"} : pc' = [pc EXCEPT ![t] = l]
        BY <2>12 DEF ObjectSection
      <3>2. pc[t] \in Working /\ UNCHANGED <<config, stages, machine>>
        BY <2>12 DEF ObjectSection, UnchangedButObject, Working
      <3>3. "work" \in Working /\ "op" \in Working
        BY DEF Working
      <3> QED
        BY <3>1, <3>2, <3>3, WorkStep
    <2>13. CASE Acquire(t)
      <3>1. \E l \in {"fresh", "pop"} : pc' = [pc EXCEPT ![t] = l]
        BY <2>13 DEF Acquire
      <3>2. pc[t] \in Working /\ UNCHANGED <<config, stages, machine>>
        BY <2>13 DEF Acquire, Working
      <3>3. "fresh" \in Working /\ "pop" \in Working
        BY DEF Working
      <3> QED
        BY <3>1, <3>2, <3>3, WorkStep
    <2>14. CASE AcquirePop(t)
      <3>1. \E l \in {"fresh", "op"} : pc' = [pc EXCEPT ![t] = l]
        BY <2>14 DEF AcquirePop
      <3>2. pc[t] \in Working /\ UNCHANGED <<config, stages, machine>>
        BY <2>14 DEF AcquirePop, Working
      <3>3. "fresh" \in Working /\ "op" \in Working
        BY DEF Working
      <3> QED
        BY <3>1, <3>2, <3>3, WorkStep
    <2>15. CASE AcquireFresh(t)
      <3>1. /\ pc[t] \in Working /\ "op" \in Working
            /\ pc' = [pc EXCEPT ![t] = "op"] /\ UNCHANGED <<config, stages, machine>>
        BY <2>15 DEF AcquireFresh, Working
      <3> QED
        BY <3>1, WorkStep
    <2>16. CASE Relinquish(t)
      BY <2>16, RelinquishStep
    <2>17. CASE ObjectConflict(t)
      BY <2>17, BarrierStutter DEF ObjectConflict, UnchangedButObject
    <2> QED
      BY <1>2, <2>1, <2>2, <2>3, <2>4, <2>5, <2>6, <2>7, <2>8, <2>9, <2>10, <2>11, <2>12,
         <2>13, <2>14, <2>15, <2>16, <2>17 DEF WorkerStep, Scheduled
  <1>3. ASSUME MainStep PROVE BarrierInv'
    BY <1>3, FillStep, BarrierInitStep, SpawnStep, StartStep, StopStep, JoinStep, DestroyStep,
       ReportStep DEF MainStep
  <1> QED
    BY <1>1, <1>2, <1>3 DEF Next

\* The rounds of benchmark() follow one another.
THEOREM RoundsFollow == Spec => []BarrierInv
  <1> QED
    BY BarrierBegins, BarrierStep, PTL DEF Spec

\* In every round operations are done only between start_time and end_time, and
\* nobody else lives while main fills.
THEOREM Measured == Spec => []MeasuredWindow
  <1>1. BarrierInv => MeasuredWindow
    <2> SUFFICES ASSUME BarrierInv, NEW t \in Thread, Busy(t)
                 PROVE IF Head(stages) = "fill" THEN t = Main /\ \A u \in Spawned : pc[u] = "unborn"
                       ELSE clock
      BY DEF MeasuredWindow
    <2>1. pc[t] \in Working /\ (t = Main \/ t \in Spawned)
      BY DEF Busy, Working, Thread
    <2>2. CASE Quiet
      BY <2>1, <2>2 DEF Quiet, Born, Working
    <2>3. CASE Gathering
      BY <2>1, <2>3 DEF Gathering, Working
    <2>4. CASE Running
      BY <2>4 DEF Running, Round
    <2>5. CASE Leaving
      BY <2>1, <2>5 DEF Leaving, Working
    <2> QED
      BY <2>2, <2>3, <2>4, <2>5 DEF BarrierInv
  <1> QED
    BY <1>1, RoundsFollow, PTL

\* No thread waits at a barrier that is not there, or in the round of another.
THEOREM BarrierLives == Spec => []BarrierLive
  <1>1. BarrierInv => BarrierLive
    <2> SUFFICES ASSUME BarrierInv, NEW t \in Thread
                 PROVE /\ pc[t] \in {"enter", "wait enter", "exit", "wait exit"} => barrier.up
                       /\ pc[t] \in {"wait enter", "wait exit"} => t \in barrier.waiting \cup barrier.leaving
      BY DEF BarrierLive
    <2>1. t = Main \/ t \in Spawned
      BY DEF Thread
    <2>2. CASE Quiet
      BY <2>1, <2>2 DEF Quiet, Born, Working
    <2>3. CASE Gathering
      BY <2>1, <2>3 DEF Gathering, Round, AtLabel
    <2>4. CASE Running
      BY <2>4 DEF Running, Round, AtLabel
    <2>5. CASE Leaving
      BY <2>1, <2>5 DEF Leaving, Round, AtLabel
    <2> QED
      BY <2>2, <2>3, <2>4, <2>5 DEF BarrierInv
  <1> QED
    BY <1>1, RoundsFollow, PTL

-----------------------------------------------------------------------------
(* The thread ids.                                                         *)

\* There are finitely many threads.
LEMMA FewHolders == IsFiniteSet(Thread) /\ IsFiniteSet(Holders)
  <1>1. IsFiniteSet({Main} \cup Spawned)
    <2>1. IsFiniteSet(Spawned \cup {Main})
      BY DriverAssumption, FS_AddElement
    <2>2. Spawned \cup {Main} = {Main} \cup Spawned
      OBVIOUS
    <2> QED
      BY <2>1, <2>2
  <1>2. Holders \in SUBSET ({Main} \cup Spawned)
    BY DEF Holders, Thread
  <1> QED
    BY <1>1, <1>2, FS_Subset DEF Thread

\* A thread that operates is one of at most n_threads.
LEMMA Room ==
  ASSUME BarrierInv, NEW t \in Thread, pc[t] \in Working
  PROVE  Len(workers) + 1 <= N /\ t \in {Main} \cup Born
  <1>1. Types /\ (t = Main \/ t \in Spawned)
    BY DEF BarrierInv, Thread
  <1>2. N \in Nat \ {0} /\ Len(workers) \in Nat
    BY <1>1 DEF Types
  <1>3. t \in {Main} \cup Born
    BY <1>1 DEF Born, Working
  <1>4. CASE Quiet
    <2>1. Cardinality(Born) = Len(workers) /\ Born = {}
      BY <1>1, <1>4 DEF Types, Quiet
    <2>2. Len(workers) = 0
      BY <2>1, FS_EmptySet
    <2> QED
      BY <1>2, <1>3, <2>2
  <1>5. CASE Gathering
    <2>1. Len(workers) <= N - 1
      BY <1>5 DEF Gathering
    <2> QED
      BY <1>2, <1>3, <2>1
  <1>6. CASE Running
    <2>1. Len(workers) = N - 1
      BY <1>6 DEF Running
    <2> QED
      BY <1>2, <1>3, <2>1
  <1>7. CASE Leaving
    BY <1>1, <1>7 DEF Leaving, Working
  <1> QED
    BY <1>4, <1>5, <1>6, <1>7 DEF BarrierInv

\* The pool changes only with the steps that are about it.
LEMMA IdsKept ==
  ASSUME IdsInv, Types, NEW t \in Thread, NEW l, pc' = [pc EXCEPT ![t] = l],
         N' = N, UNCHANGED ids,
         l \in {"unborn", "dead"} => t \notin Holders,
         l \in {"id", "pop", "fresh"} => id[t] = -1,
         l = "fresh" => available = <<>>
  PROVE  IdsInv'
  <1>1. \A u \in Thread : pc'[u] = IF u = t THEN l ELSE pc[u]
    BY DEF Types
  <1>2. Holders' = Holders /\ id' = id /\ available' = available /\ num_ids' = num_ids
    BY DEF Holders, ids
  <1>3. \A u \in Holders : u \in Thread
    BY DEF Holders
  <1>4. \A u \in Holders : u = Main \/ pc'[u] \notin {"unborn", "dead"}
    BY <1>1, <1>3 DEF IdsInv
  <1>5. \A u \in Thread : pc'[u] \in {"id", "pop", "fresh"} => id[u] = -1
    BY <1>1 DEF IdsInv
  <1>6. \A u \in Thread : pc'[u] = "fresh" => available = <<>>
    BY <1>1 DEF IdsInv
  <1> QED
    BY <1>2, <1>4, <1>5, <1>6 DEF IdsInv

\* Taking the first of the ids that are available.
LEMMA PopStep ==
  ASSUME BarrierInv, IdsInv, NEW t \in Thread, AcquirePop(t), available # <<>> PROVE IdsInv'
  <1> DEFINE a == Head(available)
  <1>1. /\ pc[t] = "pop" /\ pc' = [pc EXCEPT ![t] = "op"] /\ UNCHANGED <<num_ids, config>>
        /\ id' = [id EXCEPT ![t] = a] /\ available' = Tail(available)
    BY DEF AcquirePop, At, Goto, Other
  <1>2. \A u \in Thread : pc'[u] = IF u = t THEN "op" ELSE pc[u]
    BY <1>1 DEF BarrierInv, Types
  <1>3. available \in Seq(Nat) /\ id \in [Thread -> Nat \cup {-1}]
    BY DEF IdsInv
  <1>4. /\ a = available[1] /\ a \in Nat /\ 1 \in DOMAIN available
        /\ available' \in Seq(Nat) /\ Len(available) \in Nat /\ Len(available') = Len(available) - 1
        /\ \A i \in DOMAIN available' : i + 1 \in DOMAIN available /\ available'[i] = available[i + 1]
        /\ \A i \in DOMAIN available' : i \in Nat /\ i >= 1
    BY <1>1, <1>3
  <1> HIDE DEF a
  <1>5. \A u \in Thread : id'[u] = IF u = t THEN a ELSE id[u]
    BY <1>1, <1>3
  <1>6. id[t] = -1
    BY <1>1 DEF IdsInv
  <1>7. Holders' = Holders \cup {t} /\ t \notin Holders
    BY <1>4, <1>5, <1>6 DEF Holders
  <1>8. num_ids' = Len(available') + Cardinality(Holders')
    <2>1. Cardinality(Holders \cup {t}) = Cardinality(Holders) + 1
      BY <1>7, FewHolders, FS_AddElement
    <2>2. Cardinality(Holders) \in Nat
      BY FewHolders, FS_CardinalityType
    <2>3. num_ids = Len(available) + Cardinality(Holders)
      BY DEF IdsInv
    <2> QED
      BY <1>1, <1>4, <1>7, <2>1, <2>2, <2>3
  <1>9. id' \in [Thread -> Nat \cup {-1}] /\ num_ids' \in 0 .. N'
    <2>1. num_ids \in 0 .. N /\ N' = N
      BY <1>1 DEF IdsInv, N
    <2> QED
      BY <1>1, <1>3, <1>4, <2>1
  <1>10. /\ \A u \in Holders : id[u] < num_ids /\ id[u] # a
         /\ \A u \in Holders : \A i \in DOMAIN available : available[i] # id[u]
         /\ \A i \in DOMAIN available : available[i] < num_ids
         /\ \A i, j \in DOMAIN available : available[i] = available[j] => i = j
         /\ \A u, v \in Holders : id[u] = id[v] => u = v
         /\ a < num_ids
    BY <1>4 DEF IdsInv
  <1>11. \A i \in DOMAIN available' : available'[i] # a /\ available'[i] < num_ids
    BY <1>4, <1>10
  <1>12. \A i, j \in DOMAIN available' : available'[i] = available'[j] => i = j
    BY <1>4, <1>10
  <1>13. \A u \in Holders : u \in Thread /\ u # t
    BY <1>7 DEF Holders
  <1>14. \A u \in Holders' : id'[u] < num_ids' /\ \A v \in Holders' : id'[u] = id'[v] => u = v
    BY <1>1, <1>5, <1>7, <1>10, <1>13
  <1>15. \A u \in Holders' : \A i \in DOMAIN available' : available'[i] # id'[u]
    <2>1. \A u \in Holders : \A i \in DOMAIN available' : available'[i] # id[u]
      BY <1>4, <1>10
    <2>2. \A u \in Holders : id'[u] = id[u]
      BY <1>5, <1>13
    <2>3. id'[t] = a
      BY <1>5
    <2> QED
      BY <1>7, <1>11, <2>1, <2>2, <2>3
  <1>16. \A u \in Holders' : u = Main \/ pc'[u] \notin {"unborn", "dead"}
    BY <1>2, <1>7, <1>13 DEF IdsInv
  <1>17. /\ \A u \in Thread : pc'[u] \in {"id", "pop", "fresh"} => id'[u] = -1
         /\ \A u \in Thread : pc'[u] # "fresh"
    BY <1>2, <1>5 DEF IdsInv
  <1> QED
    BY <1>1, <1>4, <1>8, <1>9, <1>11, <1>12, <1>14, <1>15, <1>16, <1>17 DEF IdsInv

\* Making an id: as none is available, as many are held as were made, and the thread
\* that makes one holds none.
LEMMA FreshStep ==
  ASSUME BarrierInv, IdsInv, NEW t \in Thread, AcquireFresh(t) PROVE IdsInv'
  <1>1. /\ pc[t] = "fresh" /\ pc' = [pc EXCEPT ![t] = "op"] /\ UNCHANGED <<available, config>>
        /\ id' = [id EXCEPT ![t] = num_ids] /\ num_ids' = num_ids + 1
    BY DEF AcquireFresh, At, Goto, Other
  <1>2. \A u \in Thread : pc'[u] = IF u = t THEN "op" ELSE pc[u]
    BY <1>1 DEF BarrierInv, Types
  <1>3. available = <<>> /\ id[t] = -1
    BY <1>1 DEF IdsInv
  <1>4. id \in [Thread -> Nat \cup {-1}] /\ N \in Nat
    BY DEF IdsInv, BarrierInv, Types
  <1>5. num_ids \in Nat /\ num_ids \in 0 .. N /\ N' = N
    BY <1>1, <1>4 DEF IdsInv, N
  <1>6. \A u \in Thread : id'[u] = IF u = t THEN num_ids ELSE id[u]
    BY <1>1, <1>4
  <1>7. Holders' = Holders \cup {t} /\ t \notin Holders
    BY <1>3, <1>5, <1>6 DEF Holders
  <1>8. num_ids = Cardinality(Holders)
    <2>1. Cardinality(Holders) \in Nat
      BY FewHolders, FS_CardinalityType
    <2>2. num_ids = Len(available) + Cardinality(Holders) /\ Len(available) = 0
      BY <1>3 DEF IdsInv
    <2> QED
      BY <2>1, <2>2
  <1>9. Cardinality(Holders') = num_ids + 1
    BY <1>7, <1>8, FewHolders, FS_AddElement
  <1>10. num_ids + 1 <= N
    <2>1. pc[t] \in Working
      BY <1>1 DEF Working
    <2>2. Len(workers) + 1 <= N /\ t \in {Main} \cup Born
      BY <2>1, Room
    <2>3. Holders \cup {t} \in SUBSET ({Main} \cup Born)
      BY <2>2 DEF Holders, IdsInv, Born, Thread
    <2>4. IsFiniteSet({Main} \cup Born) /\ Cardinality({Main} \cup Born) = Len(workers) + 1
      BY Living DEF BarrierInv
    <2>5. Cardinality(Holders \cup {t}) <= Len(workers) + 1
      BY <2>3, <2>4, FS_Subset
    <2>6. Len(workers) \in Nat
      BY DEF BarrierInv, Types
    <2> QED
      BY <1>4, <1>5, <1>7, <1>9, <2>2, <2>5, <2>6
  <1>11. id' \in [Thread -> Nat \cup {-1}] /\ num_ids' \in 0 .. N'
    BY <1>1, <1>4, <1>5, <1>10
  <1>12. num_ids' = Len(available') + Cardinality(Holders')
    <2>1. Len(available') = 0
      BY <1>1, <1>3
    <2> QED
      BY <1>1, <1>5, <1>9, <2>1
  <1>13. \A u \in Holders : /\ u \in Thread /\ u # t /\ id[u] < num_ids /\ id[u] \in Int
                            /\ \A v \in Holders : id[u] = id[v] => u = v
    BY <1>4, <1>7 DEF Holders, IdsInv
  <1>14. \A u \in Holders' : id'[u] < num_ids' /\ \A v \in Holders' : id'[u] = id'[v] => u = v
    BY <1>1, <1>5, <1>6, <1>7, <1>13
  <1>15. \A u \in Holders' : u = Main \/ pc'[u] \notin {"unborn", "dead"}
    BY <1>2, <1>7, <1>13 DEF IdsInv
  <1>16. /\ \A u \in Thread : pc'[u] \in {"id", "pop", "fresh"} => id'[u] = -1
         /\ available' = <<>>
    BY <1>1, <1>2, <1>3, <1>6 DEF IdsInv
  <1>17. available' \in Seq(Nat) /\ DOMAIN available' = {}
    BY <1>16
  <1> QED
    BY <1>11, <1>12, <1>14, <1>15, <1>16, <1>17 DEF IdsInv

\* Giving an id back, after the second wait: nobody then goes for a new one.
LEMMA GiveStep ==
  ASSUME BarrierInv, IdsInv, NEW t \in Thread, Relinquish(t), id[t] # -1 PROVE IdsInv'
  <1>1. /\ pc[t] = "over" /\ pc' = [pc EXCEPT ![t] = "dead"] /\ UNCHANGED <<num_ids, config>>
        /\ id' = [id EXCEPT ![t] = -1] /\ available' = <<id[t]>> \o available
    BY DEF Relinquish, At, Goto, Other
  <1>2. \A u \in Thread : pc'[u] = IF u = t THEN "dead" ELSE pc[u]
    BY <1>1 DEF BarrierInv, Types
  <1>3. /\ available \in Seq(Nat) /\ id \in [Thread -> Nat \cup {-1}] /\ id[t] \in Nat
        /\ N' = N /\ num_ids \in 0 .. N
    BY <1>1 DEF IdsInv, N
  <1>4. /\ available' \in Seq(Nat) /\ Len(available) \in Nat /\ Len(available') = Len(available) + 1
        /\ available'[1] = id[t]
        /\ \A i \in DOMAIN available' : i \in Nat /\ i >= 1
        /\ \A i \in DOMAIN available' : i # 1 => i - 1 \in DOMAIN available /\ available'[i] = available[i - 1]
    BY <1>1, <1>3
  <1>5. \A u \in Thread : id'[u] = IF u = t THEN -1 ELSE id[u]
    BY <1>1, <1>3
  <1>6. Holders' = Holders \ {t} /\ t \in Holders
    BY <1>5 DEF Holders
  <1>7. num_ids' = Len(available') + Cardinality(Holders')
    <2>1. Cardinality(Holders \ {t}) = Cardinality(Holders) - 1
      BY <1>6, FewHolders, FS_RemoveElement
    <2>2. Cardinality(Holders) \in Nat
      BY FewHolders, FS_CardinalityType
    <2>3. num_ids = Len(available) + Cardinality(Holders)
      BY DEF IdsInv
    <2> QED
      BY <1>1, <1>4, <1>6, <2>1, <2>2, <2>3
  <1>8. id' \in [Thread -> Nat \cup {-1}] /\ num_ids' \in 0 .. N'
    BY <1>1, <1>3
  <1>9. /\ \A u \in Holders : id[u] < num_ids
        /\ \A u \in Holders : \A i \in DOMAIN available : available[i] # id[u]
        /\ \A i \in DOMAIN available : available[i] < num_ids
        /\ \A i, j \in DOMAIN available : available[i] = available[j] => i = j
        /\ \A u, v \in Holders : id[u] = id[v] => u = v
    BY DEF IdsInv
  <1>10. \A i \in DOMAIN available' : available'[i] < num_ids'
    BY <1>1, <1>4, <1>6, <1>9
  <1>11. \A i, j \in DOMAIN available' : available'[i] = available'[j] => i = j
    <2> SUFFICES ASSUME NEW i \in DOMAIN available', NEW j \in DOMAIN available',
                        available'[i] = available'[j]
                 PROVE  i = j
      OBVIOUS
    <2>1. i \in Nat /\ j \in Nat
      BY <1>4
    <2>2. CASE i # 1 /\ j # 1
      <3>1. i - 1 = j - 1
        BY <1>4, <1>9, <2>2
      <3> QED
        BY <2>1, <3>1
    <2>3. CASE i = 1 /\ j # 1
      BY <1>4, <1>6, <1>9, <2>3
    <2>4. CASE i # 1 /\ j = 1
      BY <1>4, <1>6, <1>9, <2>4
    <2> QED
      BY <2>2, <2>3, <2>4
  <1>12. \A u \in Holders' : u \in Holders /\ u \in Thread /\ u # t /\ id'[u] = id[u] /\ id[u] # id[t]
    BY <1>5, <1>6, <1>9 DEF Holders
  <1>13. \A u \in Holders' : id'[u] < num_ids' /\ \A v \in Holders' : id'[u] = id'[v] => u = v
    BY <1>1, <1>9, <1>12
  <1>14. \A u \in Holders' : \A i \in DOMAIN available' : available'[i] # id'[u]
    BY <1>4, <1>9, <1>12
  <1>15. \A u \in Holders' : u = Main \/ pc'[u] \notin {"unborn", "dead"}
    BY <1>2, <1>12 DEF IdsInv
  <1>16. \A u \in Thread : pc'[u] \in {"id", "pop", "fresh"} => id'[u] = -1
    BY <1>2, <1>5 DEF IdsInv
  <1>17. \A u \in Thread : pc'[u] # "fresh"
    <2>1. \A u \in Thread : u \in Spawned \/ u = Main
      BY DEF Thread
    <2>2. Leaving
      BY <1>1, <2>1 DEF BarrierInv, Quiet, Gathering, Running, Working, Born
    <2> QED
      BY <1>2, <2>1, <2>2 DEF Leaving
  <1> QED
    BY <1>1, <1>4, <1>7, <1>8, <1>10, <1>11, <1>13, <1>14, <1>15, <1>16, <1>17 DEF IdsInv

\* No id has been made.
LEMMA IdsBegin == Init => IdsInv
  <1> SUFFICES ASSUME Init PROVE IdsInv
    OBVIOUS
  <1>1. id = [t \in Thread |-> -1] /\ available = <<>> /\ num_ids = 0
    BY DEF Init
  <1>2. Holders = {}
    BY <1>1 DEF Holders
  <1>3. N \in Nat \ {0}
    BY BarrierBegins DEF BarrierInv, Types
  <1>4. num_ids = Len(available) + Cardinality(Holders)
    BY <1>1, <1>2, FS_EmptySet
  <1>5. id \in [Thread -> Nat \cup {-1}] /\ available \in Seq(Nat) /\ num_ids \in 0 .. N
    BY <1>1, <1>3
  <1>6. DOMAIN available = {} /\ \A t \in Thread : id[t] = -1
    BY <1>1
  <1> QED
    BY <1>1, <1>2, <1>4, <1>5, <1>6 DEF IdsInv

\* Every step keeps the ids apart.
LEMMA IdsStep == BarrierInv /\ IdsInv /\ [Next]_vars => IdsInv'
  <1> SUFFICES ASSUME BarrierInv, IdsInv, [Next]_vars PROVE IdsInv'
    OBVIOUS
  <1>1. Types /\ Main \in Thread /\ Main \notin Spawned /\ \A u \in Spawned : u \in Thread
    BY DriverAssumption DEF BarrierInv, Thread
  <1>2. ASSUME UNCHANGED vars PROVE IdsInv'
    BY <1>2 DEF vars, ids, IdsInv, Holders, N
  <1>3. ASSUME NEW t \in Thread, WorkerStep(t) PROVE IdsInv'
    <2> DEFINE Step(l) == pc' = [pc EXCEPT ![t] = l] /\ N' = N /\ UNCHANGED ids
    <2>0. ASSUME NEW l, Step(l), l \notin {"unborn", "dead", "id", "pop", "fresh"} PROVE IdsInv'
      BY <1>1, <2>0, IdsKept
    <2> USE DEF At, Goto, Over, N
    <2>1. CASE ArriveFirst(t)
      <3>1. Step("wait enter")
        BY <2>1 DEF ArriveFirst, Arrive
      <3> QED
        BY <2>0, <3>1
    <2>2. CASE LeaveFirst(t)
      <3>1. Step("work")
        BY <2>2 DEF LeaveFirst, Leave
      <3> QED
        BY <2>0, <3>1
    <2>3. CASE ArriveSecond(t)
      <3>1. Step("wait exit")
        BY <2>3 DEF ArriveSecond, Arrive
      <3> QED
        BY <2>0, <3>1
    <2>4. CASE LeaveSecond(t)
      <3>1. Step("stop") \/ Step("over")
        BY <2>4 DEF LeaveSecond, Leave
      <3> QED
        BY <2>0, <3>1
    <2>5. CASE Begin(t)
      <3>1. Step("op") \/ (Step("id") /\ id[t] = -1)
        BY <2>5 DEF Begin
      <3> HIDE DEF N
      <3>2. CASE Step("op")
        BY <2>0, <3>2
      <3>3. CASE Step("id") /\ id[t] = -1
        BY <1>1, <3>3, IdsKept
      <3> QED
        BY <3>1, <3>2, <3>3
    <2>6. CASE Operate(t)
      <3>1. Step("work")
        BY <2>6 DEF Operate
      <3> QED
        BY <2>0, <3>1
    <2>7. CASE Finish(t)
      <3>1. Step("next") \/ Step("exit")
        BY <2>7 DEF Finish
      <3> QED
        BY <2>0, <3>1
    <2>8. CASE ObjectLoad(t)
      <3>1. N' = N /\ UNCHANGED <<pc, ids>>
        BY <2>8 DEF ObjectLoad, UnchangedButObject
      <3> HIDE DEF N
      <3> QED
        BY <3>1 DEF IdsInv, Holders, ids
    <2>9. CASE ObjectLock(t)
      <3>1. Step("compare")
        BY <2>9 DEF ObjectLock, UnchangedButObject
      <3> QED
        BY <2>0, <3>1
    <2>10. CASE ObjectCompare(t)
      <3>1. Step("store") \/ Step("op")
        BY <2>10 DEF ObjectCompare, UnchangedButObject
      <3> QED
        BY <2>0, <3>1
    <2>11. CASE ObjectStore(t)
      <3>1. Step("work") \/ (N' = N /\ UNCHANGED <<pc, ids>>)
        BY <2>11 DEF ObjectStore, UnchangedButObject
      <3> HIDE DEF N
      <3>2. CASE N' = N /\ UNCHANGED <<pc, ids>>
        BY <3>2 DEF IdsInv, Holders, ids
      <3> QED
        BY <2>0, <3>1, <3>2
    <2>12. CASE ObjectSection(t)
      <3>1. Step("work") \/ Step("op")
        BY <2>12 DEF ObjectSection, UnchangedButObject
      <3> QED
        BY <2>0, <3>1
    <2>13. CASE Acquire(t)
      <3>1. Step("pop") \/ (Step("fresh") /\ available = <<>>)
        BY <2>13 DEF Acquire, Other
      <3>2. id[t] = -1
        BY <2>13 DEF Acquire, IdsInv
      <3> HIDE DEF N
      <3>3. CASE Step("pop")
        BY <1>1, <3>2, <3>3, IdsKept
      <3>4. CASE Step("fresh") /\ available = <<>>
        BY <1>1, <3>2, <3>4, IdsKept
      <3> QED
        BY <3>1, <3>3, <3>4
    <2>14. CASE AcquirePop(t)
      <3>1. CASE available = <<>>
        <4>1. Step("fresh")
          BY <2>14, <3>1 DEF AcquirePop, Other
        <4>2. id[t] = -1
          BY <2>14 DEF AcquirePop, IdsInv
        <4> HIDE DEF N
        <4> QED
          BY <1>1, <3>1, <4>1, <4>2, IdsKept
      <3>2. CASE available # <<>>
        BY <2>14, <3>2, PopStep
      <3> QED
        BY <3>1, <3>2
    <2>15. CASE AcquireFresh(t)
      BY <2>15, FreshStep
    <2>16. CASE Relinquish(t)
      <3>1. CASE id[t] = -1
        <4>1. pc' = [pc EXCEPT ![t] = "dead"] /\ N' = N /\ UNCHANGED <<available, num_ids>>
          BY <2>16, <3>1 DEF Relinquish, Other
        <4>2. UNCHANGED id
          BY <2>16, <3>1 DEF Relinquish, IdsInv
        <4>3. t \notin Holders
          BY <3>1 DEF Holders
        <4> HIDE DEF N
        <4> QED
          BY <1>1, <4>1, <4>2, <4>3, IdsKept DEF ids
      <3>2. CASE id[t] # -1
        BY <2>16, <3>2, GiveStep
      <3> QED
        BY <3>1, <3>2
    <2>17. CASE ObjectConflict(t)
      <3>1. N' = N /\ UNCHANGED <<pc, ids>>
        BY <2>17 DEF ObjectConflict, UnchangedButObject
      <3> HIDE DEF N
      <3> QED
        BY <3>1 DEF IdsInv, Holders, ids
    <2> QED
      BY <1>3, <2>1, <2>2, <2>3, <2>4, <2>5, <2>6, <2>7, <2>8, <2>9, <2>10, <2>11, <2>12,
         <2>13, <2>14, <2>15, <2>16, <2>17 DEF WorkerStep, Scheduled
  <1>4. ASSUME MainStep PROVE IdsInv'
    <2>1. N' = N /\ UNCHANGED ids
      BY <1>4 DEF MainStep, Fill, BarrierInit, Spawn, Start, Stop, Join, Destroy, Report, MainUnchanged, N
    <2>2. CASE Join
      <3> DEFINE h == Head(workers)
      <3>1. pc[h] = "dead" /\ workers # <<>> /\ pc' = [pc EXCEPT ![h] = "unborn"] /\ pc[Main] = "join"
        BY <2>2 DEF Join, At, Goto
      <3>2. h \in Spawned
        <4>1. workers \in Seq(Spawned) /\ workers # <<>>
          BY <1>1, <3>1 DEF Types
        <4> QED
          BY <4>1
      <3> HIDE DEF h
      <3>3. h \in Thread /\ h \notin Holders
        BY <1>1, <3>1, <3>2 DEF IdsInv
      <3> QED
        BY <1>1, <2>1, <3>1, <3>3, IdsKept
    <2>3. CASE ~Join
      <3>1. \E u \in Thread : \E l \in {"work", "spawn", "enter", "join", "report", "next"} :
              pc' = [pc EXCEPT ![u] = l]
        BY <1>1, <1>4, <2>3 DEF MainStep, Fill, BarrierInit, Spawn, Start, Stop, Destroy, Report, Goto
      <3> QED
        BY <1>1, <2>1, <3>1, IdsKept
    <2> QED
      BY <2>2, <2>3
  <1> QED
    BY <1>2, <1>3, <1>4 DEF Next

\* The ids of the threads that live are different, and below n_threads.
THEOREM IdsApart == Spec => []IdsInRange
  <1>1. BarrierInv /\ IdsInv => IdsInRange
    <2> SUFFICES ASSUME BarrierInv, IdsInv, NEW t \in Thread, id[t] # -1
                 PROVE  id[t] < config.n_threads /\ \A u \in Thread \ {t} : id[u] # id[t]
      BY DEF IdsInRange
    <2>1. t \in Holders
      BY DEF Holders
    <2>2. id[t] < num_ids /\ \A u \in Holders : id[t] = id[u] => t = u
      BY <2>1 DEF IdsInv
    <2>3. \A u \in Thread \ {t} : id[u] # id[t]
      BY <2>2 DEF Holders
    <2>4. N \in Nat /\ id[t] \in Int /\ num_ids \in 0 .. N
      BY DEF BarrierInv, Types, IdsInv
    <2>5. id[t] < N
      BY <2>2, <2>4
    <2> QED
      BY <2>3, <2>5 DEF N
  <1> QED
    BY <1>1, BarrierBegins, BarrierStep, IdsBegin, IdsStep, PTL DEF Spec

-----------------------------------------------------------------------------
(* The MWObject.                                                           *)

\* The threads of the one call of benchmark(), and what each has to do.
Team == {Main} \cup Born
Tasks == Team \X (1 .. PerThread)

\* Has t, in the operation it is doing, already stored word i?
Stored(t, i) == ~Busy(t) \/ (pc[t] = "store" /\ i < 5 - Len(old[t]))

\* How many operations of t have still to be counted in counter i.
ToDo(t, i) == left[t] + (IF Stored(t, i) THEN 0 ELSE 1)

\* The operations that are in counter i; a thread counts its own down.
Did(i) == {p \in Tasks : p[2] > ToDo(p[1], i)}

ObjectTypes ==
  /\ config.n_ops \in Nat /\ stages \in {<<>>, <<"update">>} /\ (stages = <<>> => pc[Main] = "next")
  /\ counters \in [1 .. 4 -> Nat] /\ owner \in Thread \cup {None}
  /\ old \in [Thread -> Seq(Nat)] /\ left \in [Thread -> Nat]
  /\ doing \in [Thread -> {None, "mwobject"}]

\* Where an operation is: what the owner of the lock has read is still so, but for the
\* words that it has stored.
Place(t) ==
  /\ left[t] <= PerThread /\ (Busy(t) => left[t] < PerThread) /\ Len(old[t]) <= 4
  /\ doing[t] = "mwobject" <=> Busy(t)
  /\ pc[t] \in {"enter", "wait enter"} => left[t] = PerThread
  /\ pc[t] \in {"exit", "wait exit", "over", "dead"} => left[t] = 0
  /\ pc[t] \in {"compare", "store"} <=> owner = t
  /\ pc[t] \in {"compare", "store"} => config.sync \in ByLock
  /\ pc[t] = "compare" /\ config.sync \in Mcas => Len(old[t]) = 4
  /\ pc[t] = "store" =>
       /\ Len(old[t]) >= 1
       /\ \A j \in 1 .. Len(old[t]) : old[t][j] = counters[4 - Len(old[t]) + j]

\* The points of main from its first wait to its second.
Amid == Working \cup {"wait enter", "exit", "wait exit"}

\* How far the counters are.
Counted ==
  /\ pc[Main] \in {"spawn", "enter"} \/ (pc[Main] = "next" /\ stages # <<>>) =>
       \A i \in 1 .. 4 : counters[i] = 0
  /\ pc[Main] \in Amid => Len(workers) = N - 1 /\ \A i \in 1 .. 4 : counters[i] = Cardinality(Did(i))
  /\ pc[Main] \in {"stop", "join", "report"} => \A i \in 1 .. 4 : counters[i] = N * PerThread

ObjectKnown == ObjectTypes /\ Counted /\ \A t \in Thread : Place(t)

ObjectInv == config.alg = "mwobject" => ObjectKnown

ObjectRun == config.alg = "mwobject" /\ BarrierInv /\ ObjectKnown

\* What the lemmas below have in common.
LEMMA ObjectFacts ==
  ASSUME ObjectRun
  PROVE  /\ Types /\ ObjectTypes /\ Counted /\ PerThread \in Nat /\ N \in Nat \ {0} /\ None \notin Thread
         /\ Main \in Thread /\ Main \notin Spawned
         /\ \A t \in Spawned : t \in Thread
         /\ \A t \in Thread : t \in Spawned \/ t = Main
         /\ pc \in [Thread -> Label]
         /\ \A t \in Thread : /\ Place(t) /\ old[t] \in Seq(Nat) /\ Len(old[t]) \in 0 .. 4
                              /\ left[t] \in Nat /\ \A i \in 1 .. 4 : ToDo(t, i) \in Nat
  <1>1. /\ Types /\ ObjectTypes /\ Counted /\ N \in Nat \ {0} /\ pc \in [Thread -> Label]
        /\ \A t \in Thread : Place(t)
    BY DEF ObjectRun, ObjectKnown, BarrierInv, Types
  <1>2. PerThread \in Nat
    <2>1. \A a \in Nat : \A b \in Nat \ {0} : a \div b \in Nat
      OBVIOUS
    <2>2. config.n_ops \in Nat /\ config.n_threads \in Nat \ {0}
      BY <1>1 DEF ObjectTypes, N
    <2> QED
      BY <2>1, <2>2 DEF PerThread
  <1>3. /\ Main \in Thread /\ Main \notin Spawned /\ \A t \in Spawned : t \in Thread
        /\ \A t \in Thread : t \in Spawned \/ t = Main
    BY DriverAssumption DEF Thread
  <1>4. \A t \in Thread : old[t] \in Seq(Nat) /\ left[t] \in Nat
    BY <1>1 DEF ObjectTypes
  <1>5. \A t \in Thread : Len(old[t]) \in 0 .. 4
    <2> SUFFICES ASSUME NEW t \in Thread PROVE Len(old[t]) \in 0 .. 4
      OBVIOUS
    <2>1. Len(old[t]) \in Nat
      BY <1>4
    <2>2. Len(old[t]) <= 4
      BY <1>1 DEF Place
    <2>3. \A k \in Nat : k <= 4 => k \in 0 .. 4
      OBVIOUS
    <2> QED
      BY <2>1, <2>2, <2>3
  <1>6. \A t \in Thread : \A i \in 1 .. 4 : ToDo(t, i) \in Nat
    BY <1>4 DEF ToDo
  <1> QED
    BY <1>1, <1>2, <1>3, <1>4, <1>5, <1>6, OwnerAssumption

\* The tasks are finitely many, and each thread has as many as the others.
LEMMA TaskCount ==
  ASSUME ObjectRun
  PROVE  /\ IsFiniteSet(Tasks) /\ (Len(workers) = N - 1 => Cardinality(Tasks) = N * PerThread)
         /\ \A i \in 1 .. 4 : Did(i) \in SUBSET Tasks /\ IsFiniteSet(Did(i)) /\ Cardinality(Did(i)) \in Nat
  <1>1. IsFiniteSet(Team) /\ Cardinality(Team) = Len(workers) + 1
    BY ObjectFacts, Living DEF Team
  <1>2. IsFiniteSet(1 .. PerThread) /\ Cardinality(1 .. PerThread) = PerThread
    <2>1. \A k \in Nat : IsFiniteSet(1 .. k) /\ Cardinality(1 .. k) = k
      <3> TAKE k \in Nat
      <3>1. /\ IsFiniteSet(1 .. k)
            /\ Cardinality(1 .. k) = IF 1 > k THEN 0 ELSE k - 1 + 1
        BY FS_Interval
      <3> QED
        BY <3>1
    <2> QED
      BY <2>1, ObjectFacts
  <1>3. IsFiniteSet(Tasks) /\ Cardinality(Tasks) = Cardinality(Team) * Cardinality(1 .. PerThread)
    BY <1>1, <1>2, FS_Product DEF Tasks
  <1>4. Len(workers) = N - 1 => Cardinality(Team) = N
    BY <1>1, ObjectFacts
  <1>5. \A i \in 1 .. 4 : Did(i) \in SUBSET Tasks
    BY DEF Did
  <1>6. \A i \in 1 .. 4 : IsFiniteSet(Did(i)) /\ Cardinality(Did(i)) \in Nat
    BY <1>3, <1>5, FS_Subset, FS_CardinalityType
  <1> QED
    BY <1>2, <1>3, <1>4, <1>5, <1>6

\* Nobody has counted more.
LEMMA DidSame ==
  ASSUME ObjectRun, Tasks' = Tasks, NEW i \in 1 .. 4, \A u \in Team : ToDo(u, i)' = ToDo(u, i)
  PROVE  Did(i)' = Did(i)
  <1>1. \A p \in Tasks : p[1] \in Team
    BY DEF Tasks
  <1> QED
    BY <1>1 DEF Did

\* One thread has counted one operation more.
LEMMA DidMore ==
  ASSUME ObjectRun, Tasks' = Tasks, NEW i \in 1 .. 4, NEW t \in Team,
         \A u \in Team \ {t} : ToDo(u, i)' = ToDo(u, i),
         ToDo(t, i) \in 1 .. PerThread, ToDo(t, i)' = ToDo(t, i) - 1
  PROVE  Cardinality(Did(i)') = Cardinality(Did(i)) + 1
  <1> DEFINE new == <<t, ToDo(t, i)>>
  <1>1. new \in Tasks /\ new[1] = t /\ new[2] = ToDo(t, i)
    BY DEF Tasks
  <1>2. new \notin Did(i)
    BY <1>1, ObjectFacts DEF Did
  <1>3. ASSUME NEW p \in Tasks PROVE p \in Did(i)' <=> p \in Did(i) \/ p = new
    <2>1. p[1] \in Team /\ p[2] \in 1 .. PerThread /\ p = <<p[1], p[2]>>
      BY DEF Tasks
    <2>2. p \in Did(i) <=> p[2] > ToDo(p[1], i)
      BY DEF Did
    <2>3. p \in Did(i)' <=> p[2] > ToDo(p[1], i)'
      <3>1. p \in Tasks'
        OBVIOUS
      <3> QED
        BY <3>1 DEF Did
    <2>4. CASE p[1] = t
      <3>1. p = new <=> p[2] = ToDo(t, i)
        BY <2>1, <2>4
      <3> HIDE DEF new
      <3>2. ToDo(p[1], i)' = ToDo(t, i) - 1 /\ ToDo(p[1], i) = ToDo(t, i)
        BY <2>4
      <3> QED
        BY <2>1, <2>2, <2>3, <3>1, <3>2
    <2>5. CASE p[1] # t
      <3>1. p # new
        BY <1>1, <2>5
      <3> QED
        BY <2>1, <2>2, <2>3, <2>5, <3>1
    <2> QED
      BY <2>4, <2>5
  <1> HIDE DEF new
  <1>4. Did(i)' \subseteq Tasks /\ Did(i) \subseteq Tasks
    BY DEF Did
  <1>5. Did(i)' = Did(i) \cup {new}
    BY <1>1, <1>3, <1>4
  <1> QED
    BY <1>2, <1>5, TaskCount, FS_AddElement

\* What is known of the operations of the threads that a step of t leaves alone, and
\* that do not store while another thread changes a counter.
LEMMA PlaceOthers ==
  ASSUME ObjectRun, NEW t \in Thread, NEW l \in Label, pc' = [pc EXCEPT ![t] = l], UNCHANGED config,
         \A u \in Thread \ {t} : /\ left'[u] = left[u] /\ old'[u] = old[u] /\ doing'[u] = doing[u]
                                 /\ owner' = u <=> owner = u,
         counters' = counters \/ owner = t \/ config.sync \notin ByLock,
         Place(t)'
  PROVE  \A u \in Thread : Place(u)'
  <1> SUFFICES ASSUME NEW u \in Thread, u # t PROVE Place(u)'
    OBVIOUS
  <1>1. Place(u) /\ pc \in [Thread -> Label]
    BY ObjectFacts
  <1>2. pc'[u] = pc[u] /\ left'[u] = left[u] /\ old'[u] = old[u] /\ doing'[u] = doing[u]
    BY <1>1
  <1>3. owner' = u <=> owner = u
    OBVIOUS
  <1>4. PerThread' = PerThread
    BY DEF PerThread
  <1>5. pc[u] = "store" => counters' = counters
    BY <1>1 DEF Place
  <1> QED
    BY <1>1, <1>2, <1>3, <1>4, <1>5 DEF Place, Busy

\* A step of one of the team between the two waits of main.
LEMMA TeamStep ==
  ASSUME ObjectRun, pc[Main] \in Amid, NEW t \in Team, NEW l \in Label, l # "unborn",
         t = Main => l \in Amid, pc' = [pc EXCEPT ![t] = l], UNCHANGED <<config, workers>>, ObjectTypes',
         \A u \in Thread \ {t} : /\ left'[u] = left[u] /\ old'[u] = old[u] /\ doing'[u] = doing[u]
                                 /\ owner' = u <=> owner = u,
         \A i \in 1 .. 4 :
           \/ counters'[i] = counters[i] /\ ToDo(t, i)' = ToDo(t, i)
           \/ /\ counters'[i] = counters[i] + 1
              /\ ToDo(t, i) \in 1 .. PerThread /\ ToDo(t, i)' = ToDo(t, i) - 1,
         counters' = counters \/ owner = t \/ config.sync \notin ByLock,
         Place(t)'
  PROVE  ObjectKnown'
  <1>1. t \in Thread /\ pc[t] # "unborn" /\ Types /\ pc \in [Thread -> Label] /\ Main \in Thread
    BY ObjectFacts DEF Team, Born, Amid, Working
  <1>2. Born' = Born
    BY <1>1, SameBorn
  <1>3. Team' = Team /\ PerThread' = PerThread /\ Tasks' = Tasks /\ N' = N
    BY <1>2 DEF Team, Tasks, PerThread, N
  <1>4. \A u \in Thread : Place(u)'
    BY <1>1, PlaceOthers
  <1>5. pc'[Main] \in Amid
    BY <1>1
  <1>6. Len(workers) = N - 1 /\ \A i \in 1 .. 4 : counters[i] = Cardinality(Did(i))
    BY ObjectFacts DEF Counted
  <1>7. \A u \in Team \ {t} : \A i \in 1 .. 4 : ToDo(u, i)' = ToDo(u, i)
    <2>1. \A u \in Team : u \in Thread
      BY ObjectFacts DEF Team, Born
    <2> QED
      BY <1>1, <2>1 DEF ToDo, Stored, Busy
  <1>8. ASSUME NEW i \in 1 .. 4 PROVE counters'[i] = Cardinality(Did(i)')
    <2>1. CASE counters'[i] = counters[i] /\ ToDo(t, i)' = ToDo(t, i)
      <3>1. Did(i)' = Did(i)
        BY <1>3, <1>7, <2>1, DidSame
      <3> QED
        BY <1>6, <2>1, <3>1
    <2>2. CASE counters'[i] = counters[i] + 1 /\ ToDo(t, i) \in 1 .. PerThread /\ ToDo(t, i)' = ToDo(t, i) - 1
      <3>1. Cardinality(Did(i)') = Cardinality(Did(i)) + 1
        BY <1>3, <1>7, <2>2, DidMore
      <3> QED
        BY <1>6, <2>2, <3>1
    <2> QED
      BY <2>1, <2>2
  <1>9. Counted'
    <2>1. /\ pc'[Main] \notin {"spawn", "enter", "next", "stop", "join", "report"}
          /\ Len(workers') = N' - 1
      BY <1>3, <1>5, <1>6 DEF Amid, Working
    <2>2. \A i \in 1 .. 4 : counters'[i] = Cardinality(Did(i))'
      BY <1>8
    <2> QED
      BY <2>1, <2>2 DEF Counted
  <1> QED
    BY <1>4, <1>9 DEF ObjectKnown

\* The operations of the one call are those between the two waits.
LEMMA AtWork ==
  ASSUME ObjectRun, NEW t \in Thread, pc[t] \in Working \cup {"exit"}
  PROVE  Running /\ t \in Team /\ pc[Main] \in Amid /\ Head(stages) = "update"
  <1>1. Types /\ Main \notin Spawned /\ (t \in Spawned \/ t = Main) /\ ObjectTypes
    BY ObjectFacts
  <1>2. ~Quiet
    <2>1. SUFFICES ASSUME Quiet PROVE FALSE
      OBVIOUS
    <2>2. t = Main
      BY <1>1, <2>1 DEF Quiet, Born, Working
    <2>3. pc[Main] \in Working /\ Head(stages) = "fill"
      BY <2>1, <2>2 DEF Quiet, Working
    <2>4. stages = <<"update">>
      BY <1>1, <2>3 DEF ObjectTypes, Working
    <2> QED
      BY <2>3, <2>4
  <1>3. ~Gathering /\ ~Leaving
    BY <1>1 DEF Gathering, Leaving, Working
  <1>4. Running
    BY <1>2, <1>3 DEF ObjectRun, BarrierInv
  <1>5. pc[Main] \in Amid
    BY <1>4 DEF Running, Amid
  <1>6. stages = <<"update">>
    BY <1>1, <1>5 DEF ObjectTypes, Amid, Working
  <1>7. t \in Team
    BY <1>1 DEF Team, Born, Working
  <1> QED
    BY <1>4, <1>5, <1>6, <1>7

\* A step that only takes a thread on, outside the stores of an operation.
LEMMA MoveStep ==
  ASSUME ObjectRun, NEW t \in Thread, NEW l \in Label, pc' = [pc EXCEPT ![t] = l],
         UNCHANGED <<config, stages, workers, left, doing, object>>,
         pc[t] \notin {"unborn", "compare", "store"},
         l \notin {"unborn", "enter", "wait enter", "compare", "store"},
         Busy(t) <=> l \in {"id", "pop", "fresh", "op"},
         l \in {"exit", "wait exit", "over", "dead"} => left[t] = 0,
         t = Main => pc[t] \in Amid /\ l \in Amid
  PROVE  ObjectKnown'
  <1>1. /\ Types /\ ObjectTypes /\ Counted /\ Place(t) /\ Main \in Thread /\ (t \in Spawned \/ t = Main)
        /\ pc \in [Thread -> Label]
    BY ObjectFacts
  <1>2. pc'[t] = l /\ \A u \in Thread \ {t} : pc'[u] = pc[u]
    BY <1>1
  <1>3. UNCHANGED <<counters, owner, old>> /\ PerThread' = PerThread
    BY DEF object, PerThread
  <1>4. Busy(t)' <=> Busy(t)
    BY <1>2 DEF Busy
  <1>5. Place(t)'
    BY <1>1, <1>2, <1>3, <1>4 DEF Place
  <1>6. pc'[Main] = pc[Main] \/ (pc[Main] \in Amid /\ pc'[Main] \in Amid)
    BY <1>1, <1>2
  <1>7. ObjectTypes'
    <2>1. stages = <<>> => pc[Main] \notin Amid
      BY <1>1 DEF ObjectTypes, Amid, Working
    <2> QED
      BY <1>1, <1>3, <1>6, <2>1 DEF ObjectTypes
  <1>8. CASE pc[Main] \in Amid
    <2>1. t \in Team
      BY <1>1 DEF Team, Born
    <2>2. \A i \in 1 .. 4 : ToDo(t, i)' = ToDo(t, i)
      BY <1>2, <1>3, <1>4 DEF ToDo, Stored
    <2> QED
      BY <1>3, <1>5, <1>7, <1>8, <2>1, <2>2, TeamStep
  <1>9. CASE pc[Main] \notin Amid
    <2>1. pc'[Main] = pc[Main] /\ N' = N
      BY <1>6, <1>9 DEF N
    <2>2. Counted'
      BY <1>1, <1>3, <1>9, <2>1 DEF Counted
    <2>3. \A u \in Thread : Place(u)'
      BY <1>3, <1>5, PlaceOthers
    <2> QED
      BY <1>7, <2>2, <2>3 DEF ObjectKnown
  <1> QED
    BY <1>8, <1>9

\* The waits of the threads, but for those of main at its first and after its second.
LEMMA WaitSteps ==
  ASSUME ObjectRun, NEW t \in Thread,
         LeaveFirst(t) \/ ArriveSecond(t) \/ (LeaveSecond(t) /\ t # Main) \/ Relinquish(t)
  PROVE  ObjectKnown'
  <1>1. Types /\ Place(t) /\ (t \in Spawned \/ t = Main)
    BY ObjectFacts
  <1> USE DEF At, Goto, Label, Working, Amid, Busy
  <1>2. CASE LeaveFirst(t)
    <2>1. pc[t] = "wait enter" /\ pc' = [pc EXCEPT ![t] = "work"] /\ UNCHANGED <<config, stages, workers, left, doing, object>>
      BY <1>2 DEF LeaveFirst, Leave
    <2> QED
      BY <2>1, MoveStep
  <1>3. CASE ArriveSecond(t)
    <2>1. pc[t] = "exit" /\ pc' = [pc EXCEPT ![t] = "wait exit"] /\ UNCHANGED <<config, stages, workers, left, doing, object>>
      BY <1>3 DEF ArriveSecond, Arrive
    <2>2. left[t] = 0
      BY <1>1, <2>1 DEF Place
    <2> QED
      BY <2>1, <2>2, MoveStep
  <1>4. CASE LeaveSecond(t) /\ t # Main
    <2>1. pc[t] = "wait exit" /\ pc' = [pc EXCEPT ![t] = "over"] /\ UNCHANGED <<config, stages, workers, left, doing, object>>
      BY <1>4 DEF LeaveSecond, Leave
    <2>2. left[t] = 0
      BY <1>1, <2>1 DEF Place
    <2> QED
      BY <1>4, <2>1, <2>2, MoveStep
  <1>5. CASE Relinquish(t)
    <2>1. pc[t] = "over" /\ pc' = [pc EXCEPT ![t] = "dead"] /\ UNCHANGED <<config, stages, workers, left, doing, object>>
      BY <1>5 DEF Relinquish, Other, machine
    <2>2. left[t] = 0
      BY <1>1, <2>1 DEF Place
    <2>3. t # Main
      BY <1>1, <2>1 DEF ObjectRun, BarrierInv, Quiet, Gathering, Running, Leaving
    <2> QED
      BY <2>1, <2>2, <2>3, MoveStep
  <1> QED
    BY <1>2, <1>3, <1>4, <1>5

\* Getting an id.
LEMMA IdSteps ==
  ASSUME ObjectRun, NEW t \in Thread, Acquire(t) \/ AcquirePop(t) \/ AcquireFresh(t) PROVE ObjectKnown'
  <1> USE DEF At, Goto, Label, Working, Busy
  <1>1. PICK l \in {"pop", "fresh", "op"} :
          /\ pc[t] \in {"id", "pop", "fresh"} /\ pc' = [pc EXCEPT ![t] = l]
          /\ UNCHANGED <<config, stages, workers, left, doing, object>>
    BY DEF Acquire, AcquirePop, AcquireFresh, Other, machine
  <1>2. pc[Main] \in Amid
    BY <1>1, AtWork
  <1>3. t = Main => pc[t] \in Amid /\ l \in Amid
    BY <1>1, <1>2 DEF Amid
  <1> QED
    BY <1>1, <1>3, MoveStep

\* The operations of a thread are over.
LEMMA EndOfWork ==
  ASSUME ObjectRun, NEW t \in Thread, Finish(t) PROVE ObjectKnown'
  <1>1. pc[t] = "work" /\ left[t] = 0
    BY DEF Finish, At
  <1>2. Head(stages) = "update" /\ pc[Main] \in Amid
    BY <1>1, AtWork DEF Working
  <1>3. pc' = [pc EXCEPT ![t] = "exit"] /\ UNCHANGED <<config, stages, workers, left, doing, object>>
    BY <1>2 DEF Finish, Goto, machine
  <1>4. "exit" \in Label /\ t = Main => "exit" \in Amid
    BY DEF Label, Amid
  <1> QED
    BY <1>1, <1>2, <1>3, MoveStep DEF Label, Working, Amid, Busy

\* An operation begins.
LEMMA BeginStep ==
  ASSUME ObjectRun, NEW t \in Thread, Begin(t) PROVE ObjectKnown'
  <1>1. pc[t] = "work" /\ left[t] > 0 /\ left' = [left EXCEPT ![t] = left[t] - 1]
    BY DEF Begin, At
  <1>2. /\ Head(stages) = "update" /\ pc[Main] \in Amid /\ t \in Team /\ Types /\ ObjectTypes /\ Place(t)
        /\ Main \in Thread /\ pc \in [Thread -> Label] /\ left[t] \in Nat /\ PerThread \in Nat
    BY <1>1, AtWork, ObjectFacts DEF Working
  <1>3. PICK l \in {"id", "op"} :
          /\ pc' = [pc EXCEPT ![t] = l] /\ UNCHANGED <<config, stages, workers, object>>
          /\ \E random \in 0 .. 10 * ValueRange - 1 : doing' = [doing EXCEPT ![t] = Choice(t, random)]
    BY DEF Begin, Goto, machine
  <1>4. doing' = [doing EXCEPT ![t] = "mwobject"]
    <2>1. \A random : Choice(t, random) = "mwobject"
      BY <1>2 DEF Choice, ObjectRun
    <2> QED
      BY <1>3, <2>1
  <1>5. /\ pc'[t] = l /\ (\A u \in Thread \ {t} : pc'[u] = pc[u])
        /\ UNCHANGED <<counters, owner, old>> /\ PerThread' = PerThread
    BY <1>2, <1>3 DEF object, PerThread
  <1>6. /\ left'[t] = left[t] - 1 /\ doing'[t] = "mwobject" /\ left' \in [Thread -> Nat]
        /\ \A u \in Thread \ {t} : left'[u] = left[u] /\ doing'[u] = doing[u]
    BY <1>1, <1>2, <1>4 DEF ObjectTypes
  <1>7. ObjectTypes'
    <2>1. stages # <<>>
      BY <1>2 DEF ObjectTypes, Amid, Working
    <2>2. doing' \in [Thread -> {None, "mwobject"}]
      BY <1>2, <1>4 DEF ObjectTypes
    <2> QED
      BY <1>2, <1>3, <1>5, <1>6, <2>1, <2>2 DEF ObjectTypes
  <1>8. Place(t)'
    <2>1. Busy(t)'
      BY <1>3, <1>5 DEF Busy
    <2>2. left'[t] < PerThread'
      BY <1>1, <1>2, <1>5, <1>6 DEF Place
    <2>3. left'[t] <= PerThread'
      BY <1>2, <1>5, <1>6, <2>2
    <2> QED
      BY <1>1, <1>2, <1>3, <1>5, <1>6, <2>1, <2>2, <2>3 DEF Place
  <1>9. \A i \in 1 .. 4 : ToDo(t, i)' = ToDo(t, i)
    BY <1>1, <1>2, <1>3, <1>5, <1>6 DEF ToDo, Stored, Busy
  <1>10. l \in Label /\ l \in Amid /\ l # "unborn"
    BY DEF Label, Working, Amid
  <1> QED
    BY <1>2, <1>3, <1>5, <1>6, <1>7, <1>8, <1>9, <1>10, TeamStep

\* A step in an operation that is not a store.
LEMMA ReadStep ==
  ASSUME ObjectRun, NEW t \in Thread, NEW l \in {"op", "compare", "store"},
         pc[t] \in {"op", "compare"}, pc' = [pc EXCEPT ![t] = l],
         UNCHANGED <<config, stages, workers, left, doing, counters>>,
         NEW s \in Seq(Nat), Len(s) <= 4, old' = [old EXCEPT ![t] = s], owner' \in Thread \cup {None},
         \A u \in Thread \ {t} : owner' = u <=> owner = u,
         owner' = t <=> l # "op",
         l # "op" => config.sync \in ByLock,
         l # "op" /\ config.sync \in Mcas => Len(s) = 4,
         l = "store" => Len(s) = 4 /\ \A j \in 1 .. 4 : s[j] = counters[j]
  PROVE  ObjectKnown'
  <1>1. /\ ObjectTypes /\ pc \in [Thread -> Label] /\ Main \in Thread /\ Place(t)
        /\ left[t] \in Nat /\ PerThread \in Nat
    BY ObjectFacts
  <1>2. Running /\ t \in Team /\ pc[Main] \in Amid /\ Head(stages) = "update"
    BY AtWork DEF Working
  <1>3. /\ pc'[t] = l /\ (\A u \in Thread \ {t} : pc'[u] = pc[u] /\ old'[u] = old[u])
        /\ PerThread' = PerThread /\ old'[t] = s /\ old' \in [Thread -> Seq(Nat)]
    BY <1>1 DEF PerThread, ObjectTypes
  <1>4. l \in Label /\ l \in Amid /\ l # "unborn"
    BY DEF Label, Working, Amid
  <1>5. ObjectTypes'
    <2>1. stages # <<>>
      BY <1>1, <1>2 DEF ObjectTypes, Amid, Working
    <2> QED
      BY <1>1, <1>3, <2>1 DEF ObjectTypes
  <1>6. Busy(t) /\ Busy(t)'
    BY <1>3 DEF Busy
  <1>7. pc'[t] = "store" => /\ Len(old'[t]) >= 1
                            /\ \A j \in 1 .. Len(old'[t]) : old'[t][j] = counters'[4 - Len(old'[t]) + j]
    <2> SUFFICES ASSUME l = "store"
                 PROVE  Len(s) >= 1 /\ \A j \in 1 .. Len(s) : s[j] = counters[4 - Len(s) + j]
      BY <1>3
    <2>1. Len(s) = 4
      OBVIOUS
    <2>2. \A j \in 1 .. 4 : 4 - 4 + j = j /\ s[j] = counters[j]
      OBVIOUS
    <2> QED
      BY <2>1, <2>2
  <1>8. Place(t)'
    BY <1>1, <1>3, <1>6, <1>7 DEF Place
  <1>9. \A i \in 1 .. 4 : ToDo(t, i)' = ToDo(t, i)
    <2>1. \A i \in 1 .. 4 : ~Stored(t, i)
      BY <1>6 DEF Stored
    <2>2. \A i \in 1 .. 4 : ~Stored(t, i)'
      <3> SUFFICES ASSUME NEW i \in 1 .. 4, l = "store" PROVE ~(i < 5 - Len(s))
        BY <1>3, <1>6 DEF Stored
      <3>1. Len(s) = 4
        OBVIOUS
      <3>2. \A k \in 1 .. 4 : ~(k < 5 - 4)
        OBVIOUS
      <3> QED
        BY <3>1, <3>2
    <2> QED
      BY <2>1, <2>2 DEF ToDo
  <1> QED
    BY <1>2, <1>3, <1>4, <1>5, <1>8, <1>9, TeamStep

\* Loads, the lock, and the comparison.
LEMMA ReadSteps ==
  ASSUME ObjectRun, NEW t \in Thread, ObjectLoad(t) \/ ObjectLock(t) \/ ObjectCompare(t) PROVE ObjectKnown'
  <1>1. /\ ObjectTypes /\ pc \in [Thread -> Label] /\ Place(t) /\ None \notin Thread
        /\ old[t] \in Seq(Nat) /\ Len(old[t]) \in 0 .. 4
    BY ObjectFacts
  <1>2. counters \in [1 .. 4 -> Nat] /\ old \in [Thread -> Seq(Nat)] /\ owner \in Thread \cup {None}
    BY <1>1 DEF ObjectTypes
  <1>3. CASE ObjectLoad(t)
    <2> DEFINE s == Append(old[t], counters[Len(old[t]) + 1])
    <2>1. /\ pc[t] = "op" /\ Len(old[t]) < 4 /\ old' = [old EXCEPT ![t] = s]
          /\ UNCHANGED <<config, stages, workers, left, pc, doing, counters, owner>>
      BY <1>3 DEF ObjectLoad, At, Loads, UnchangedButObject, machine
    <2>2. counters[Len(old[t]) + 1] \in Nat
      BY <1>1, <1>2, <2>1
    <2>3. s \in Seq(Nat) /\ Len(s) <= 4
      BY <1>1, <2>1, <2>2
    <2>4. pc' = [pc EXCEPT ![t] = "op"]
      BY <1>1, <2>1
    <2>5. owner # t
      BY <1>1, <2>1 DEF Place
    <2> HIDE DEF s
    <2> QED
      BY <1>2, <2>1, <2>3, <2>4, <2>5, ReadStep
  <1>4. CASE ObjectLock(t)
    <2>1. /\ pc[t] = "op" /\ ~Loads(t) /\ config.sync \in ByLock /\ owner = None /\ owner' = t
          /\ pc' = [pc EXCEPT ![t] = "compare"]
          /\ UNCHANGED <<config, stages, workers, left, doing, counters, old>>
      BY <1>4 DEF ObjectLock, At, Goto, UnchangedButObject, machine
    <2>2. config.sync \in Mcas => Len(old[t]) = 4
      <3>1. \A k \in 0 .. 4 : ~(k < 4) => k = 4
        OBVIOUS
      <3>2. config.sync \in Mcas => ~(Len(old[t]) < 4)
        BY <2>1 DEF Loads
      <3> QED
        BY <1>1, <3>1, <3>2
    <2>3. Len(old[t]) <= 4 /\ old' = [old EXCEPT ![t] = old[t]]
      <3>1. Len(old[t]) <= 4
        BY <1>1 DEF Place
      <3>2. old' = [old EXCEPT ![t] = old[t]]
        BY <1>2, <2>1
      <3> QED
        BY <3>1, <3>2
    <2>4. \A u \in Thread \ {t} : owner' = u <=> owner = u
      BY <1>1, <2>1
    <2> QED
      BY <1>1, <2>1, <2>2, <2>3, <2>4, ReadStep
  <1>5. CASE ObjectCompare(t)
    <2>1. pc[t] = "compare" /\ UNCHANGED <<config, stages, workers, left, doing, counters>>
      BY <1>5 DEF ObjectCompare, At, UnchangedButObject, machine
    <2>2. owner = t /\ config.sync \in ByLock /\ (config.sync \in Mcas => Len(old[t]) = 4)
      BY <1>1, <2>1 DEF Place
    <2>3. CASE Same(t)
      <3> DEFINE s == Read(t)
      <3>1. /\ s \in Seq(Nat) /\ Len(s) = 4 /\ \A j \in 1 .. 4 : s[j] = counters[j]
        <4>1. CASE config.sync \in Mcas
          BY <1>1, <2>2, <2>3, <4>1 DEF Same, Read
        <4>2. CASE config.sync \notin Mcas
          <5>1. s = [i \in 1 .. 4 |-> counters[i]]
            BY <4>2 DEF Read
          <5> HIDE DEF s
          <5> QED
            BY <1>2, <5>1
        <4> QED
          BY <4>1, <4>2
      <3>2. pc' = [pc EXCEPT ![t] = "store"] /\ old' = [old EXCEPT ![t] = s] /\ UNCHANGED owner
        BY <1>5, <2>3 DEF ObjectCompare, Goto
      <3> HIDE DEF s
      <3>3. Len(s) <= 4
        BY <3>1
      <3> QED
        BY <1>2, <2>1, <2>2, <3>1, <3>2, <3>3, ReadStep
    <2>4. CASE ~Same(t)
      <3>1. pc' = [pc EXCEPT ![t] = "op"] /\ old' = [old EXCEPT ![t] = <<>>] /\ owner' = None
        BY <1>5, <2>4 DEF ObjectCompare, Goto
      <3>2. <<>> \in Seq(Nat) /\ Len(<<>>) <= 4
        OBVIOUS
      <3>3. \A u \in Thread \ {t} : owner' = u <=> owner = u
        BY <1>1, <2>2, <3>1
      <3>4. owner' # t
        BY <1>1, <3>1
      <3> QED
        BY <2>1, <3>1, <3>2, <3>3, <3>4, ReadStep
    <2> QED
      BY <2>3, <2>4
  <1> QED
    BY <1>3, <1>4, <1>5

\* A word that is stored is one thing less to do.
LEMMA OneLess ==
  ASSUME ObjectRun, NEW t \in Thread, NEW i \in 1 .. 4, left[t] < PerThread, left' = left,
         ~Stored(t, i), Stored(t, i)'
  PROVE  ToDo(t, i) \in 1 .. PerThread /\ ToDo(t, i)' = ToDo(t, i) - 1
  <1>1. left[t] \in Nat /\ PerThread \in Nat
    BY ObjectFacts
  <1>2. ToDo(t, i) = left[t] + 1
    BY DEF ToDo
  <1>3. ToDo(t, i)' = left[t] + 0
    BY DEF ToDo
  <1>4. \A a, b \in Nat : a < b => a + 1 \in 1 .. b /\ a + 0 = a + 1 - 1
    OBVIOUS
  <1>5. left[t] + 1 \in 1 .. PerThread /\ left[t] + 0 = left[t] + 1 - 1
    BY <1>1, <1>4
  <1>6. ToDo(t, i) \in 1 .. PerThread
    BY <1>2, <1>5
  <1>7. ToDo(t, i)' = left[t] + 1 - 1
    BY <1>3, <1>5
  <1>8. left[t] + 1 - 1 = ToDo(t, i) - 1
    <2>1. \A k, m \in Nat : k = m + 1 => m + 1 - 1 = k - 1
      OBVIOUS
    <2>2. ToDo(t, i) \in Nat
      BY ObjectFacts
    <2> QED
      BY <1>1, <1>2, <2>1, <2>2
  <1> QED
    BY <1>6, <1>7, <1>8

\* The next word is stored under the lock.
LEMMA StoreStep ==
  ASSUME ObjectRun, NEW t \in Thread, ObjectStore(t) PROVE ObjectKnown'
  <1> DEFINE n == Len(old[t])
             w == 5 - n
             l == IF n = 1 THEN "work" ELSE "store"
  <1>1. /\ ObjectTypes /\ pc \in [Thread -> Label] /\ Main \in Thread /\ Place(t) /\ None \notin Thread
        /\ old[t] \in Seq(Nat) /\ n \in 0 .. 4 /\ left[t] \in Nat /\ PerThread \in Nat
    BY ObjectFacts
  <1>2. pc[t] = "store" /\ UNCHANGED <<config, stages, workers, left>>
    BY DEF ObjectStore, At, UnchangedButObject, machine
  <1>3. Running /\ t \in Team /\ pc[Main] \in Amid /\ Head(stages) = "update"
    BY <1>2, AtWork DEF Working
  <1>4. counters \in [1 .. 4 -> Nat] /\ old \in [Thread -> Seq(Nat)] /\ owner \in Thread \cup {None}
    BY <1>1 DEF ObjectTypes
  <1>5. /\ owner = t /\ config.sync \in ByLock /\ left[t] < PerThread /\ doing[t] = "mwobject"
        /\ \A j \in 1 .. n : old[t][j] = counters[4 - n + j]
        /\ n >= 1
    BY <1>1, <1>2 DEF Place, Busy
  <1>6. n \in 1 .. 4
    <2>1. \A k \in 0 .. 4 : k >= 1 => k \in 1 .. 4
      OBVIOUS
    <2> QED
      BY <1>1, <1>5, <2>1
  <1>7. /\ Head(old[t]) = old[t][1] /\ Tail(old[t]) \in Seq(Nat) /\ Len(Tail(old[t])) = n - 1
        /\ \A j \in 1 .. n - 1 : Tail(old[t])[j] = old[t][j + 1]
    <2>1. n # 0
      BY <1>6
    <2>2. old[t] # <<>>
      BY <1>1, <2>1
    <2> QED
      BY <1>1, <2>2
  <1> DEFINE r == Tail(old[t])
  <1>8. /\ counters' = [counters EXCEPT ![w] = Head(old[t]) + 1] /\ old' = [old EXCEPT ![t] = r]
        /\ pc' = [pc EXCEPT ![t] = l]
        /\ n = 1 => owner' = None /\ doing' = [doing EXCEPT ![t] = None]
        /\ n # 1 => UNCHANGED <<owner, doing>>
    <2>1. CASE n = 1
      BY <2>1 DEF ObjectStore, Over, Goto
    <2>2. CASE n # 1
      <3>1. UNCHANGED <<pc, owner, doing>>
        BY <2>2 DEF ObjectStore
      <3>2. pc' = [pc EXCEPT ![t] = "store"]
        BY <1>1, <1>2, <3>1
      <3> QED
        BY <2>2, <3>1, <3>2 DEF ObjectStore
    <2> QED
      BY <2>1, <2>2
  <1>9. /\ w \in 1 .. 4 /\ n - 1 \in 0 .. 3
        /\ n # 1 => n - 1 >= 1
        /\ 4 - n + 1 = w
    <2>1. \A k \in 1 .. 4 : 5 - k \in 1 .. 4 /\ k - 1 \in 0 .. 3 /\ (k # 1 => k - 1 >= 1) /\ 4 - k + 1 = 5 - k
      OBVIOUS
    <2> QED
      BY <1>6, <2>1
  <1>10. Head(old[t]) = counters[w]
    <2>1. 1 \in 1 .. n
      <3>1. \A k \in 1 .. 4 : 1 \in 1 .. k
        OBVIOUS
      <3> QED
        BY <1>6, <3>1
    <2> QED
      BY <1>5, <1>7, <1>9, <2>1
  <1>11. /\ counters' \in [1 .. 4 -> Nat]
         /\ \A i \in 1 .. 4 : counters'[i] = IF i = w THEN counters[i] + 1 ELSE counters[i]
    <2>1. counters[w] \in Nat /\ counters' = [counters EXCEPT ![w] = counters[w] + 1]
      BY <1>4, <1>8, <1>9, <1>10
    <2>2. w \in 1 .. 4
      BY <1>9
    <2> HIDE DEF w
    <2>3. \A i \in 1 .. 4 : counters'[i] = IF i = w THEN counters[i] + 1 ELSE counters[i]
      BY <1>4, <2>1, <2>2
    <2>4. counters[w] + 1 \in Nat
      BY <2>1
    <2>5. counters' \in [1 .. 4 -> Nat]
      BY <1>4, <2>1, <2>4
    <2> QED
      BY <2>3, <2>5
  <1>12. \A j \in 1 .. n - 1 : r[j] = counters'[4 - (n - 1) + j]
    <2> TAKE j \in 1 .. n - 1
    <2>1. /\ j + 1 \in 1 .. n /\ 4 - n + (j + 1) = 4 - (n - 1) + j
          /\ 4 - (n - 1) + j \in 1 .. 4 /\ 4 - (n - 1) + j # w
      <3>1. \A k \in 1 .. 4 : \A m \in 1 .. k - 1 :
              /\ m + 1 \in 1 .. k /\ 4 - k + (m + 1) = 4 - (k - 1) + m
              /\ 4 - (k - 1) + m \in 1 .. 4 /\ 4 - (k - 1) + m # 5 - k
        OBVIOUS
      <3> QED
        BY <1>6, <3>1
    <2>2. r[j] = old[t][j + 1] /\ old[t][j + 1] = counters[4 - n + (j + 1)]
      BY <1>5, <1>7, <2>1
    <2> HIDE DEF w, r
    <2>3. counters'[4 - (n - 1) + j] = counters[4 - (n - 1) + j]
      BY <1>11, <2>1
    <2> QED
      BY <2>1, <2>2, <2>3
  <1>13. \A i \in 1 .. 4 : (i < 5 - n <=> i < w) /\ (i < 5 - (n - 1) <=> i <= w) /\ (n = 1 => i <= w)
    <2>1. \A k \in 1 .. 4 : \A i \in 1 .. 4 :
            (i < 5 - (k - 1) <=> i <= 5 - k) /\ (k = 1 => i <= 5 - k)
      OBVIOUS
    <2> QED
      BY <1>6, <2>1
  <1> HIDE DEF r, w, l
  <1>14. /\ pc'[t] = l /\ old'[t] = r /\ \A u \in Thread \ {t} : pc'[u] = pc[u] /\ old'[u] = old[u]
         /\ PerThread' = PerThread /\ old' \in [Thread -> Seq(Nat)]
    BY <1>1, <1>2, <1>4, <1>7, <1>8 DEF PerThread, r
  <1>15. /\ l \in {"work", "store"} /\ (l = "work" <=> n = 1)
         /\ l \in Label /\ l \in Amid /\ l # "unborn"
    BY DEF l, Label, Working, Amid
  <1> HIDE DEF n
  <1>16. /\ owner' \in Thread \cup {None} /\ (\A u \in Thread \ {t} : owner' = u <=> owner = u)
         /\ owner' = t <=> l = "store"
    BY <1>1, <1>4, <1>5, <1>8, <1>15
  <1>17. /\ doing' \in [Thread -> {None, "mwobject"}] /\ (\A u \in Thread \ {t} : doing'[u] = doing[u])
         /\ doing'[t] = "mwobject" <=> l = "store"
    <2>1. doing \in [Thread -> {None, "mwobject"}] /\ None # "mwobject"
      BY <1>1 DEF ObjectTypes, None
    <2> QED
      BY <1>5, <1>8, <1>15, <2>1
  <1>18. Busy(t) /\ (Busy(t)' <=> l = "store")
    BY <1>2, <1>14, <1>15 DEF Busy
  <1>19. ObjectTypes'
    <2>1. stages # <<>>
      BY <1>1, <1>3 DEF ObjectTypes, Amid, Working
    <2> QED
      BY <1>1, <1>2, <1>11, <1>14, <1>16, <1>17, <2>1 DEF ObjectTypes
  <1>20. Len(r) = n - 1 /\ Len(r) <= 4 /\ (l = "store" => Len(r) >= 1)
    BY <1>7, <1>9, <1>15 DEF r, n
  <1>21. pc'[t] = "store" => /\ Len(old'[t]) >= 1
                             /\ \A j \in 1 .. Len(old'[t]) : old'[t][j] = counters'[4 - Len(old'[t]) + j]
    BY <1>12, <1>14, <1>20
  <1>22. Place(t)'
    BY <1>1, <1>2, <1>5, <1>14, <1>15, <1>16, <1>17, <1>18, <1>20, <1>21 DEF Place
  <1>23. \A i \in 1 .. 4 : (Stored(t, i) <=> i < w) /\ (Stored(t, i)' <=> i <= w)
    <2> TAKE i \in 1 .. 4
    <2>1. Stored(t, i) <=> i < 5 - n
      BY <1>2, <1>18 DEF Stored, n
    <2>2. Stored(t, i)' <=> l # "store" \/ i < 5 - Len(r)
      BY <1>14, <1>18 DEF Stored
    <2> QED
      BY <1>13, <1>15, <1>20, <2>1, <2>2
  <1>24. ASSUME NEW i \in 1 .. 4
         PROVE  \/ counters'[i] = counters[i] /\ ToDo(t, i)' = ToDo(t, i)
                \/ /\ counters'[i] = counters[i] + 1
                   /\ ToDo(t, i) \in 1 .. PerThread /\ ToDo(t, i)' = ToDo(t, i) - 1
    <2>1. CASE i = w
      <3>1. ~Stored(t, i) /\ Stored(t, i)'
        BY <1>9, <1>23, <2>1
      <3>2. ToDo(t, i) \in 1 .. PerThread /\ ToDo(t, i)' = ToDo(t, i) - 1
        BY <1>2, <1>5, <3>1, OneLess
      <3>3. counters'[i] = counters[i] + 1
        BY <1>11, <2>1
      <3> QED
        BY <3>2, <3>3
    <2>2. CASE i # w
      <3>1. Stored(t, i) <=> Stored(t, i)'
        BY <1>9, <1>23, <2>2
      <3>2. ToDo(t, i)' = ToDo(t, i)
        BY <1>2, <3>1 DEF ToDo
      <3>3. counters'[i] = counters[i]
        BY <1>11, <2>2
      <3> QED
        BY <3>2, <3>3
    <2> QED
      BY <2>1, <2>2
  <1>25. \A u \in Thread \ {t} : /\ left'[u] = left[u] /\ old'[u] = old[u] /\ doing'[u] = doing[u]
                                 /\ owner' = u <=> owner = u
    BY <1>2, <1>14, <1>16, <1>17
  <1> QED
    BY <1>2, <1>3, <1>5, <1>8, <1>15, <1>19, <1>22, <1>24, <1>25, TeamStep

\* A qcas fails by a conflict: the copies of the words are dropped.
LEMMA ConflictStep ==
  ASSUME ObjectRun, NEW t \in Thread, ObjectConflict(t) PROVE ObjectKnown'
  <1>1. /\ ObjectTypes /\ pc \in [Thread -> Label] /\ Place(t)
        /\ left[t] \in Nat /\ PerThread \in Nat
    BY ObjectFacts
  <1>2. /\ pc[t] = "op" /\ old' = [old EXCEPT ![t] = <<>>]
        /\ UNCHANGED <<config, stages, workers, left, owner, pc, counters, doing>>
    BY DEF ObjectConflict, At, UnchangedButObject, machine
  <1>3. pc' = [pc EXCEPT ![t] = "op"]
    BY <1>1, <1>2
  <1>4. left[t] < PerThread /\ owner # t
    BY <1>1, <1>2 DEF Place, Busy
  <1>5. <<>> \in Seq(Nat) /\ Len(<<>>) <= 4 /\ owner' \in Thread \cup {None}
    BY <1>1, <1>2 DEF ObjectTypes
  <1> QED
    BY <1>2, <1>3, <1>4, <1>5, ReadStep

\* All four words in a section.
LEMMA SectionStep ==
  ASSUME ObjectRun, NEW t \in Thread, ObjectSection(t) PROVE ObjectKnown'
  <1>1. /\ ObjectTypes /\ pc \in [Thread -> Label] /\ Main \in Thread /\ Place(t) /\ None \notin Thread
        /\ old[t] \in Seq(Nat) /\ Len(old[t]) \in 0 .. 4 /\ left[t] \in Nat /\ PerThread \in Nat
    BY ObjectFacts
  <1>2. /\ pc[t] = "op" /\ ~Loads(t) /\ config.sync \notin ByLock /\ old' = [old EXCEPT ![t] = <<>>]
        /\ UNCHANGED <<config, stages, workers, left, owner>>
    BY DEF ObjectSection, At, UnchangedButObject, machine
  <1>3. Running /\ t \in Team /\ pc[Main] \in Amid /\ Head(stages) = "update"
    BY <1>2, AtWork DEF Working
  <1>4. /\ counters \in [1 .. 4 -> Nat] /\ old \in [Thread -> Seq(Nat)] /\ stages # <<>>
        /\ doing \in [Thread -> {None, "mwobject"}]
    BY <1>1, <1>3 DEF ObjectTypes, Amid, Working
  <1>5. doing[t] = "mwobject" /\ left[t] < PerThread /\ owner # t
    BY <1>1, <1>2 DEF Place, Busy
  <1>6. /\ old'[t] = <<>> /\ Len(<<>>) = 0 /\ <<>> \in Seq(Nat) /\ old' \in [Thread -> Seq(Nat)]
        /\ \A u \in Thread \ {t} : old'[u] = old[u]
    BY <1>2, <1>4
  <1>7. PerThread' = PerThread
    BY <1>2 DEF PerThread
  <1>8. CASE ~Same(t)
    <2>1. pc' = [pc EXCEPT ![t] = "op"] /\ UNCHANGED <<counters, doing>>
      BY <1>8 DEF ObjectSection, Goto
    <2>2. <<>> \in Seq(Nat) /\ Len(<<>>) <= 4 /\ owner' \in Thread \cup {None}
      BY <1>1, <1>2 DEF ObjectTypes
    <2> QED
      BY <1>2, <1>5, <2>1, <2>2, ReadStep
  <1>9. CASE Same(t)
    <2>1. /\ counters' = [i \in 1 .. 4 |-> Read(t)[i] + 1]
          /\ pc' = [pc EXCEPT ![t] = "work"] /\ doing' = [doing EXCEPT ![t] = None]
      BY <1>9 DEF ObjectSection, Over, Goto
    <2>2. \A i \in 1 .. 4 : Read(t)[i] = counters[i]
      BY <1>9 DEF Same, Read
    <2>3. \A i \in 1 .. 4 : counters'[i] = counters[i] + 1
      <3>1. \A i \in 1 .. 4 : counters'[i] = Read(t)[i] + 1
        BY <2>1
      <3> QED
        BY <2>2, <3>1
    <2>4. counters' \in [1 .. 4 -> Nat]
      <3>1. counters' = [i \in 1 .. 4 |-> counters[i] + 1]
        BY <2>1, <2>2
      <3>2. \A i \in 1 .. 4 : counters[i] + 1 \in Nat
        BY <1>4
      <3> QED
        BY <3>1, <3>2
    <2>5. pc'[t] = "work" /\ \A u \in Thread \ {t} : pc'[u] = pc[u]
      BY <1>1, <2>1
    <2>6. /\ doing' \in [Thread -> {None, "mwobject"}] /\ doing'[t] # "mwobject"
          /\ \A u \in Thread \ {t} : doing'[u] = doing[u]
      BY <1>4, <2>1 DEF None
    <2>7. "work" \in Label /\ "work" \in Amid
      BY DEF Label, Working, Amid
    <2>8. Busy(t) /\ ~Busy(t)'
      BY <1>2, <2>5 DEF Busy
    <2>9. ObjectTypes'
      BY <1>1, <1>2, <1>4, <1>6, <2>4, <2>5, <2>6 DEF ObjectTypes
    <2>10. Place(t)'
      BY <1>1, <1>2, <1>5, <1>6, <1>7, <2>5, <2>6, <2>8 DEF Place
    <2>11. ASSUME NEW i \in 1 .. 4
           PROVE  /\ counters'[i] = counters[i] + 1
                  /\ ToDo(t, i) \in 1 .. PerThread /\ ToDo(t, i)' = ToDo(t, i) - 1
      <3>1. ~Stored(t, i) /\ Stored(t, i)'
        BY <1>2, <2>8 DEF Stored
      <3>2. ToDo(t, i) \in 1 .. PerThread /\ ToDo(t, i)' = ToDo(t, i) - 1
        BY <1>2, <1>5, <3>1, OneLess
      <3> QED
        BY <2>3, <3>2
    <2>12. \A u \in Thread \ {t} : /\ left'[u] = left[u] /\ old'[u] = old[u] /\ doing'[u] = doing[u]
                                   /\ owner' = u <=> owner = u
      BY <1>2, <1>6, <2>6
    <2> QED
      BY <1>2, <1>3, <2>1, <2>7, <2>9, <2>10, <2>11, <2>12, TeamStep
  <1> QED
    BY <1>8, <1>9

\* The first wait: with main at it the threads of the call are chosen, and none of them
\* has counted anything.
LEMMA GatherStep ==
  ASSUME ObjectRun, NEW t \in Thread, ArriveFirst(t) PROVE ObjectKnown'
  <1>1. /\ Types /\ ObjectTypes /\ Counted /\ pc \in [Thread -> Label] /\ Main \in Thread /\ Main \notin Spawned
        /\ (t \in Spawned \/ t = Main) /\ Place(t) /\ PerThread \in Nat /\ N \in Nat
        /\ \A u \in Spawned : u \in Thread
    BY ObjectFacts
  <1>2. /\ pc[t] = "enter" /\ pc' = [pc EXCEPT ![t] = "wait enter"]
        /\ UNCHANGED <<config, stages, workers, left, doing, counters, owner, old>>
    BY DEF ArriveFirst, Arrive, At, Goto, object
  <1>3. Gathering
    BY <1>1, <1>2 DEF ObjectRun, BarrierInv, Quiet, Running, Leaving, Working, Born
  <1>4. pc'[t] = "wait enter" /\ \A u \in Thread \ {t} : pc'[u] = pc[u]
    BY <1>1, <1>2
  <1>5. PerThread' = PerThread /\ N' = N
    BY <1>2 DEF PerThread, N
  <1>6. left[t] = PerThread /\ ~Busy(t) /\ ~Busy(t)'
    BY <1>1, <1>2, <1>4 DEF Place, Busy
  <1>7. Place(t)'
    BY <1>1, <1>2, <1>4, <1>5, <1>6 DEF Place
  <1>8. "wait enter" \in Label /\ "wait enter" # "unborn" /\ "wait enter" \in Amid
    BY DEF Label, Amid
  <1>9. \A u \in Thread : Place(u)'
    BY <1>2, <1>7, <1>8, PlaceOthers
  <1>10. stages # <<>>
    <2>1. stages = <<>> => pc[Main] = "next"
      BY <1>1 DEF ObjectTypes
    <2> QED
      BY <1>3, <2>1 DEF Gathering
  <1>11. ObjectTypes'
    BY <1>1, <1>2, <1>10 DEF ObjectTypes
  <1>12. CASE t # Main
    <2>1. pc'[Main] = pc[Main]
      BY <1>1, <1>4, <1>12
    <2>2. CASE pc[Main] \in Amid
      <3>1. t \in Team
        BY <1>1, <1>2 DEF Team, Born
      <3>2. \A i \in 1 .. 4 : ToDo(t, i)' = ToDo(t, i)
        BY <1>2, <1>6 DEF ToDo, Stored
      <3> QED
        BY <1>2, <1>7, <1>8, <1>11, <2>2, <3>1, <3>2, TeamStep
    <2>3. CASE pc[Main] \notin Amid
      <3>1. Counted'
        BY <1>1, <1>2, <1>5, <2>1, <2>3 DEF Counted
      <3> QED
        BY <1>9, <1>11, <3>1 DEF ObjectKnown
    <2> QED
      BY <2>2, <2>3
  <1>13. CASE t = Main
    <2>1. Born' = Born /\ Len(workers) = N - 1 /\ \A i \in 1 .. 4 : counters[i] = 0
      <3>1. Born' = Born
        BY <1>1, <1>2, <1>8, SameBorn
      <3> QED
        BY <1>1, <1>2, <1>3, <1>13, <3>1 DEF Gathering, Counted
    <2>2. \A u \in Team : u \in Thread /\ pc[u] \in {"enter", "wait enter"}
      <3>1. pc[Main] = "enter"
        BY <1>2, <1>13
      <3>2. \A u \in Born : pc[u] \in {"enter", "wait enter"} /\ u \in Thread
        BY <1>1, <1>3 DEF Gathering, Born
      <3> QED
        BY <1>1, <3>1, <3>2 DEF Team
    <2>3. \A u \in Team : pc'[u] \in {"enter", "wait enter"} /\ left[u] = PerThread
      BY <1>4, <2>2, ObjectFacts DEF Place
    <2>4. \A i \in 1 .. 4 : Did(i)' = {}
      <3> SUFFICES ASSUME NEW i \in 1 .. 4, NEW p \in Tasks', p[2] > ToDo(p[1], i)' PROVE FALSE
        BY DEF Did
      <3>1. p[1] \in Team /\ p[2] \in 1 .. PerThread
        BY <1>5, <2>1 DEF Tasks, Team
      <3>2. ~Busy(p[1])'
        BY <2>3, <3>1 DEF Busy
      <3>3. ToDo(p[1], i)' = left'[p[1]] + 0
        BY <3>2 DEF ToDo, Stored
      <3>4. left'[p[1]] = PerThread
        BY <1>2, <2>3, <3>1
      <3> QED
        BY <1>1, <3>1, <3>3, <3>4
    <2>5. \A i \in 1 .. 4 : counters'[i] = Cardinality(Did(i))'
      BY <1>2, <2>1, <2>4, FS_EmptySet
    <2>6. Counted'
      BY <1>2, <1>4, <1>5, <1>13, <2>1, <2>5 DEF Counted, Amid
    <2> QED
      BY <1>9, <1>11, <2>6 DEF ObjectKnown
  <1> QED
    BY <1>12, <1>13

\* The second wait is over for main: all have done all of their operations.
LEMMA AllDone ==
  ASSUME ObjectRun, LeaveSecond(Main) PROVE ObjectKnown'
  <1>1. /\ Types /\ ObjectTypes /\ Counted /\ pc \in [Thread -> Label] /\ Main \in Thread /\ Main \notin Spawned
        /\ Place(Main) /\ PerThread \in Nat /\ N \in Nat /\ \A u \in Spawned : u \in Thread
    BY ObjectFacts
  <1>2. /\ pc[Main] = "wait exit" /\ pc' = [pc EXCEPT ![Main] = "stop"] /\ Main \in barrier.leaving
        /\ UNCHANGED <<config, stages, workers, left, doing, counters, owner, old>>
    BY DEF LeaveSecond, Leave, At, Goto, object
  <1>3. Leaving
    BY <1>1, <1>2 DEF ObjectRun, BarrierInv, Quiet, Gathering, Running, AtLabel, Working
  <1>4. pc'[Main] = "stop" /\ PerThread' = PerThread /\ N' = N
    BY <1>1, <1>2 DEF PerThread, N
  <1>5. Place(Main)'
    BY <1>1, <1>2, <1>4 DEF Place, Busy
  <1>6. \A u \in Thread : Place(u)'
    <2>1. "stop" \in Label
      BY DEF Label
    <2> QED
      BY <1>1, <1>2, <1>5, <2>1, PlaceOthers
  <1>7. Len(workers) = N - 1 /\ \A i \in 1 .. 4 : counters[i] = Cardinality(Did(i))
    BY <1>1, <1>2 DEF Counted, Amid
  <1>8. \A u \in Team : pc[u] \in {"wait exit", "over", "dead"} /\ left[u] = 0
    <2>1. \A u \in Team : u \in Thread /\ pc[u] \in {"wait exit", "over", "dead"}
      BY <1>1, <1>2, <1>3 DEF Leaving, Team, Born
    <2> QED
      BY <2>1, ObjectFacts DEF Place
  <1>9. \A i \in 1 .. 4 : Did(i) = Tasks
    <2> SUFFICES ASSUME NEW i \in 1 .. 4, NEW p \in Tasks PROVE p[2] > ToDo(p[1], i)
      BY DEF Did
    <2>1. p[1] \in Team /\ p[2] \in 1 .. PerThread
      BY DEF Tasks
    <2>2. ~Busy(p[1])
      BY <1>8, <2>1 DEF Busy
    <2>3. ToDo(p[1], i) = 0
      <3>1. ToDo(p[1], i) = left[p[1]] + 0
        BY <2>2 DEF ToDo, Stored
      <3>2. left[p[1]] = 0
        BY <1>8, <2>1
      <3> QED
        BY <3>1, <3>2
    <2> QED
      BY <1>1, <2>1, <2>3
  <1>10. \A i \in 1 .. 4 : counters[i] = N * PerThread
    BY <1>7, <1>9, TaskCount
  <1>11. Counted'
    BY <1>2, <1>4, <1>10 DEF Counted, Amid, Working
  <1>12. ObjectTypes'
    <2>1. stages # <<>>
      BY <1>1, <1>2 DEF ObjectTypes
    <2> QED
      BY <1>1, <1>2, <2>1 DEF ObjectTypes
  <1> QED
    BY <1>6, <1>11, <1>12 DEF ObjectKnown

\* The points of a thread outside its two waits and the operations between them.
Outside == {"unborn", "next", "spawn", "enter", "stop", "join", "report", "dead"}

\* What main does with itself, or with a thread that it starts or has joined.
LEMMA OutsideStep ==
  ASSUME ObjectRun, NEW t \in Thread, NEW l \in Outside, l # "dead", pc[t] \in Outside,
         pc' = [pc EXCEPT ![t] = l], UNCHANGED <<config, doing, object>>,
         left' \in [Thread -> Nat], \A u \in Thread \ {t} : left'[u] = left[u],
         left'[t] <= PerThread, l = "enter" => left'[t] = PerThread,
         stages' \in {<<>>, <<"update">>}, stages' = <<>> => pc'[Main] = "next"
  PROVE  ObjectTypes' /\ \A u \in Thread : Place(u)'
  <1>1. /\ ObjectTypes /\ pc \in [Thread -> Label] /\ Place(t)
        /\ l \in Label /\ UNCHANGED <<counters, owner, old>> /\ PerThread' = PerThread
    BY ObjectFacts DEF object, Outside, Label, PerThread
  <1>2. ObjectTypes'
    BY <1>1 DEF ObjectTypes
  <1>3. pc'[t] = l /\ ~Busy(t) /\ ~Busy(t)'
    BY <1>1 DEF Outside, Busy
  <1>4. Place(t)'
    BY <1>1, <1>3 DEF Place, Outside
  <1>5. \A u \in Thread \ {t} : /\ left'[u] = left[u] /\ old'[u] = old[u] /\ doing'[u] = doing[u]
                                /\ owner' = u <=> owner = u
    BY <1>1
  <1>6. \A u \in Thread : Place(u)'
    BY <1>1, <1>4, <1>5, PlaceOthers
  <1> QED
    BY <1>2, <1>6

\* Main before its first wait: no structure is filled, and no counter is touched.
LEMMA BeforeSteps ==
  ASSUME ObjectRun, Fill \/ BarrierInit \/ (\E t \in Spawned : Spawn(t)) \/ Start PROVE ObjectKnown'
  <1>1. /\ ObjectTypes /\ Counted /\ pc \in [Thread -> Label] /\ Main \in Thread /\ PerThread \in Nat
        /\ Main \notin Spawned /\ (\A t \in Spawned : t \in Thread)
        /\ left \in [Thread -> Nat] /\ \A t \in Thread : left[t] <= PerThread
    BY ObjectFacts DEF ObjectTypes, Place
  <1>2. ASSUME NEW t \in Thread, NEW l \in {"spawn", "enter"}, pc[t] \in {"unborn", "next", "spawn"},
               pc' = [pc EXCEPT ![t] = l], UNCHANGED <<config, stages, doing, object>>, stages # <<>>,
               left' = left \/ left' = [left EXCEPT ![t] = PerThread], l = "enter" => left' # left \/ left[t] = PerThread,
               \A i \in 1 .. 4 : counters[i] = 0, pc'[Main] \in {"spawn", "enter"}
        PROVE  ObjectKnown'
    <2>1. left' \in [Thread -> Nat] /\ (\A u \in Thread \ {t} : left'[u] = left[u]) /\ left'[t] <= PerThread
      BY <1>1, <1>2
    <2>2. l = "enter" => left'[t] = PerThread
      BY <1>1, <1>2
    <2>3. l \in Outside /\ l # "dead" /\ pc[t] \in Outside
      BY <1>2 DEF Outside
    <2>4. stages' \in {<<>>, <<"update">>} /\ (stages' = <<>> => pc'[Main] = "next")
      BY <1>1, <1>2 DEF ObjectTypes
    <2>5. ObjectTypes' /\ \A u \in Thread : Place(u)'
      BY <1>2, <2>1, <2>2, <2>3, <2>4, OutsideStep
    <2>6. Counted'
      BY <1>2 DEF Counted, Amid, Working, object
    <2> QED
      BY <2>5, <2>6 DEF ObjectKnown
  <1>3. ~Fill
    BY <1>1 DEF Fill, ObjectTypes
  <1>4. CASE BarrierInit
    <2>1. /\ pc[Main] = "next" /\ stages # <<>> /\ pc' = [pc EXCEPT ![Main] = "spawn"] /\ left' = left
          /\ UNCHANGED <<config, stages, doing, object>>
      BY <1>4 DEF BarrierInit, At, Goto, MainUnchanged
    <2>2. (\A i \in 1 .. 4 : counters[i] = 0) /\ pc'[Main] = "spawn"
      BY <1>1, <2>1 DEF Counted
    <2> QED
      BY <1>1, <1>2, <2>1, <2>2
  <1>5. ASSUME NEW t \in Spawned, Spawn(t) PROVE ObjectKnown'
    <2>1. /\ pc[Main] = "spawn" /\ pc[t] = "unborn" /\ pc' = [pc EXCEPT ![t] = "enter"]
          /\ left' = [left EXCEPT ![t] = PerThread] /\ UNCHANGED <<config, stages, doing, object>>
      BY <1>5 DEF Spawn, At, Goto, MainUnchanged
    <2>2. (\A i \in 1 .. 4 : counters[i] = 0) /\ stages # <<>>
      BY <1>1, <2>1 DEF Counted, ObjectTypes
    <2>3. pc'[Main] = "spawn" /\ t \in Thread
      BY <1>1, <2>1
    <2>4. left' # left \/ left[t] = PerThread
      BY <1>1, <2>1, <2>3
    <2> QED
      BY <1>2, <2>1, <2>2, <2>3, <2>4
  <1>6. CASE Start
    <2>1. /\ pc[Main] = "spawn" /\ pc' = [pc EXCEPT ![Main] = "enter"]
          /\ left' = [left EXCEPT ![Main] = PerThread] /\ UNCHANGED <<config, stages, doing, object>>
      BY <1>6 DEF Start, At, Goto, MainUnchanged
    <2>2. (\A i \in 1 .. 4 : counters[i] = 0) /\ stages # <<>>
      BY <1>1, <2>1 DEF Counted, ObjectTypes
    <2>3. pc'[Main] = "enter"
      BY <1>1, <2>1
    <2>4. left' # left \/ left[Main] = PerThread
      BY <1>1, <2>1
    <2> QED
      BY <1>1, <1>2, <2>1, <2>2, <2>3, <2>4
  <1> QED
    BY <1>3, <1>4, <1>5, <1>6

\* Main after its second wait: the counters stay as they are.
LEMMA AfterSteps ==
  ASSUME ObjectRun, Stop \/ Join \/ Destroy \/ Report PROVE ObjectKnown'
  <1>1. /\ Types /\ ObjectTypes /\ Counted /\ pc \in [Thread -> Label] /\ Main \in Thread
        /\ Main \notin Spawned /\ (\A t \in Spawned : t \in Thread)
        /\ left \in [Thread -> Nat] /\ \A t \in Thread : left[t] <= PerThread
    BY ObjectFacts DEF ObjectTypes, Place
  <1>2. ASSUME NEW t \in Thread, NEW l \in {"unborn", "next", "join", "report"},
               pc[t] \in {"dead", "stop", "join", "report"}, pc' = [pc EXCEPT ![t] = l],
               UNCHANGED <<config, left, doing, object>>,
               stages' \in {<<>>, <<"update">>}, stages' = <<>> <=> pc'[Main] = "next",
               pc[Main] \in {"stop", "join", "report"}, pc'[Main] \in {"next", "join", "report"}
        PROVE  ObjectKnown'
    <2>1. l \in Outside /\ l # "dead" /\ l # "enter" /\ pc[t] \in Outside /\ left'[t] <= PerThread
      BY <1>1, <1>2 DEF Outside
    <2>2. ObjectTypes' /\ \A u \in Thread : Place(u)'
      BY <1>1, <1>2, <2>1, OutsideStep
    <2>3. Counted'
      BY <1>1, <1>2 DEF Counted, Amid, Working, object, N, PerThread
    <2> QED
      BY <2>2, <2>3 DEF ObjectKnown
  <1>3. pc[Main] \in {"stop", "join", "report"} =>
          stages = <<"update">> /\ stages # <<>> /\ stages \in {<<>>, <<"update">>} /\ Tail(stages) = <<>>
    <2>1. Tail(<<"update">>) = <<>> /\ <<"update">> # <<>>
      OBVIOUS
    <2> QED
      BY <1>1, <2>1 DEF ObjectTypes
  <1>4. CASE Stop
    <2>1. /\ pc[Main] = "stop" /\ pc' = [pc EXCEPT ![Main] = "join"]
          /\ UNCHANGED <<config, stages, left, doing, object>>
      BY <1>4 DEF Stop, At, Goto, MainUnchanged
    <2>2. pc'[Main] = "join"
      BY <1>1, <2>1
    <2> QED
      BY <1>1, <1>2, <1>3, <2>1, <2>2
  <1>5. CASE Join
    <2> DEFINE h == Head(workers)
    <2>1. /\ pc[Main] = "join" /\ pc[h] = "dead" /\ pc' = [pc EXCEPT ![h] = "unborn"]
          /\ UNCHANGED <<config, stages, left, doing, object>>
      BY <1>5 DEF Join, At, Goto, MainUnchanged
    <2>2. h \in Spawned
      BY <1>1, <1>5 DEF Join, Types
    <2> HIDE DEF h
    <2>3. pc'[Main] = "join" /\ h \in Thread
      BY <1>1, <2>1, <2>2
    <2> QED
      BY <1>1, <1>2, <1>3, <2>1, <2>3
  <1>6. CASE Destroy
    <2>1. /\ pc[Main] = "join" /\ pc' = [pc EXCEPT ![Main] = "report"]
          /\ UNCHANGED <<config, stages, left, doing, object>>
      BY <1>6 DEF Destroy, At, Goto, MainUnchanged
    <2>2. pc'[Main] = "report"
      BY <1>1, <2>1
    <2> QED
      BY <1>1, <1>2, <1>3, <2>1, <2>2
  <1>7. CASE Report
    <2>1. /\ pc[Main] = "report" /\ pc' = [pc EXCEPT ![Main] = "next"] /\ stages' = Tail(stages)
          /\ UNCHANGED <<config, left, doing, object>>
      BY <1>7 DEF Report, At, Goto, MainUnchanged
    <2>2. pc'[Main] = "next" /\ stages' = <<>>
      BY <1>1, <1>3, <2>1
    <2> QED
      BY <1>1, <1>2, <2>1, <2>2
  <1> QED
    BY <1>4, <1>5, <1>6, <1>7

\* No operation has been done, and no counter counts one.
LEMMA ObjectBegins == Init => ObjectInv
  <1> SUFFICES ASSUME Init, config.alg = "mwobject" PROVE ObjectKnown
    BY DEF ObjectInv
  <1>1. config.n_ops \in Nat /\ PerThread \in Nat
    <2>1. config.n_ops \in Ops /\ config.n_threads \in 1 .. Cardinality(Spawned) + 1
      BY DEF Init
    <2>2. config.n_ops \in Nat
      BY <2>1, DriverAssumption
    <2>3. config.n_threads \in Nat \ {0}
      <3>1. Cardinality(Spawned) \in Nat
        BY DriverAssumption, FS_CardinalityType
      <3> QED
        BY <2>1, <3>1
    <2>4. \A a \in Nat : \A b \in Nat \ {0} : a \div b \in Nat
      OBVIOUS
    <2> QED
      BY <2>2, <2>3, <2>4 DEF PerThread
  <1>2. Main \in Thread /\ Main \notin Spawned /\ \A t \in Thread : t # None
    BY DriverAssumption, OwnerAssumption DEF Thread
  <1>3. stages \in {<<>>, <<"update">>}
    BY DEF Init, Stages
  <1>4. /\ pc = [t \in Thread |-> IF t = Main THEN "next" ELSE "unborn"]
        /\ left = [t \in Thread |-> 0] /\ doing = [t \in Thread |-> None]
        /\ counters = [i \in 1 .. 4 |-> 0] /\ owner = None /\ old = [t \in Thread |-> <<>>]
    BY DEF Init
  <1>5. pc[Main] = "next"
    BY <1>2, <1>4
  <1>6. ObjectTypes
    <2>1. <<>> \in Seq(Nat)
      OBVIOUS
    <2> QED
      BY <1>1, <1>3, <1>4, <1>5, <2>1 DEF ObjectTypes
  <1>7. Counted
    BY <1>4, <1>5 DEF Counted, Amid, Working
  <1>8. ASSUME NEW t \in Thread PROVE Place(t)
    <2>1. pc[t] \in {"next", "unborn"} /\ left[t] = 0 /\ doing[t] = None /\ old[t] = <<>> /\ owner # t
      BY <1>2, <1>4
    <2>2. Len(<<>>) <= 4 /\ None # "mwobject"
      BY DEF None
    <2>3. ~Busy(t)
      BY <2>1 DEF Busy
    <2>4. left[t] <= PerThread /\ Len(old[t]) <= 4
      <3>1. \A k \in Nat : 0 <= k
        OBVIOUS
      <3> QED
        BY <1>1, <2>1, <2>2, <3>1
    <2> QED
      BY <2>1, <2>2, <2>3, <2>4 DEF Place
  <1> QED
    BY <1>6, <1>7, <1>8 DEF ObjectKnown

\* Every step keeps what is known of the counters.
LEMMA ObjectStep == BarrierInv /\ ObjectInv /\ [Next]_vars => ObjectInv'
  <1> SUFFICES ASSUME BarrierInv, ObjectInv, [Next]_vars, config'.alg = "mwobject" PROVE ObjectKnown'
    BY DEF ObjectInv
  <1>1. UNCHANGED config
    BY DEF Next, vars, WorkerStep, Scheduled, MainStep, ArriveFirst, LeaveFirst, ArriveSecond, LeaveSecond, Arrive, Leave,
           Begin, Operate, Finish, ObjectLoad, ObjectLock, ObjectCompare, ObjectStore, ObjectSection,
           ObjectConflict, UnchangedButObject, Acquire, AcquirePop, AcquireFresh, Relinquish, Other, Fill, BarrierInit,
           Spawn, Start, Stop, Join, Destroy, Report, MainUnchanged
  <1>2. ObjectRun
    BY <1>1 DEF ObjectInv, ObjectRun
  <1>3. ASSUME NEW t \in Thread, WorkerStep(t) PROVE ObjectKnown'
    <2>1. CASE ArriveFirst(t)
      BY <1>2, <2>1, GatherStep
    <2>2. CASE LeaveFirst(t) \/ ArriveSecond(t) \/ Relinquish(t)
      BY <1>2, <2>2, WaitSteps
    <2>3. CASE LeaveSecond(t)
      BY <1>2, <2>3, WaitSteps, AllDone
    <2>4. CASE Begin(t)
      BY <1>2, <2>4, BeginStep
    <2>5. CASE Operate(t)
      <3>1. Place(t)
        BY <1>2, ObjectFacts
      <3> QED
        BY <2>5, <3>1 DEF Operate, At, Place, Busy
    <2>6. CASE Finish(t)
      BY <1>2, <2>6, EndOfWork
    <2>7. CASE ObjectLoad(t) \/ ObjectLock(t) \/ ObjectCompare(t)
      BY <1>2, <2>7, ReadSteps
    <2>8. CASE ObjectStore(t)
      BY <1>2, <2>8, StoreStep
    <2>9. CASE ObjectSection(t)
      BY <1>2, <2>9, SectionStep
    <2>10. CASE Acquire(t) \/ AcquirePop(t) \/ AcquireFresh(t)
      BY <1>2, <2>10, IdSteps
    <2>11. CASE ObjectConflict(t)
      BY <1>2, <2>11, ConflictStep
    <2> QED
      BY <1>3, <2>1, <2>2, <2>3, <2>4, <2>5, <2>6, <2>7, <2>8, <2>9, <2>10, <2>11 DEF WorkerStep, Scheduled
  <1>4. CASE MainStep
    BY <1>2, <1>4, BeforeSteps, AfterSteps DEF MainStep
  <1>5. CASE UNCHANGED vars
    <2>1. /\ UNCHANGED <<config, stages, pc, left, doing, workers, counters, owner, old>>
          /\ ObjectTypes /\ Counted /\ \A t \in Thread : Place(t)
      BY <1>2, <1>5 DEF vars, object, machine, ObjectRun, ObjectKnown
    <2>2. PerThread' = PerThread /\ N' = N
      BY <2>1 DEF PerThread, N
    <2>3. ObjectTypes'
      BY <2>1 DEF ObjectTypes
    <2>4. \A t \in Thread : Busy(t)' <=> Busy(t)
      BY <2>1 DEF Busy
    <2>5. \A t \in Thread : Place(t)'
      BY <2>1, <2>2, <2>4 DEF Place
    <2>6. \A i \in 1 .. 4 : Did(i)' = Did(i)
      BY <2>1, <2>2 DEF Did, Tasks, Team, Born, ToDo, Stored, Busy
    <2>7. Counted'
      BY <2>1, <2>2, <2>6 DEF Counted
    <2> QED
      BY <2>3, <2>5, <2>7 DEF ObjectKnown
  <1> QED
    BY <1>3, <1>4, <1>5 DEF Next

\* Whatever the number of threads, of operations, and the way in which they exclude each
\* other, when main reports each counter has been incremented once for every operation.
THEOREM CountersExact == Spec => []MWObjectExact
  <1>1. BarrierInv /\ ObjectInv => MWObjectExact
    <2> SUFFICES ASSUME BarrierInv, ObjectInv, pc[Main] = "report", config.alg = "mwobject"
                 PROVE  \A i \in 1 .. 4 : counters[i] = config.n_threads * PerThread
      BY DEF MWObjectExact, At
    <2>1. Counted
      BY DEF ObjectInv, ObjectKnown
    <2> QED
      BY <2>1 DEF Counted, N
  <1> QED
    BY <1>1, BarrierBegins, BarrierStep, ObjectBegins, ObjectStep, PTL DEF Spec
=============================================================================
