-------------------------------- MODULE Driver --------------------------------
(***************************************************************************)
(* benchmark.h, benchmarks.cpp and the thread ids of parlay: main fills a  *)
(* structure, starts the other threads, and measures what all of them do   *)
(* between two waits at a barrier, stage by stage.                         *)
(***************************************************************************)
EXTENDS Integers, Sequences, FiniteSets

CONSTANTS
  Main,
  Spawned,    \* the other threads
  Configs,    \* the pairs <<sync, algorithm>> that main may be called with
  Ops,        \* values of --ops
  Prefill,    \* DATA_PREFILL
  ValueRange  \* DATA_VALUE_RANGE_MAX

Thread == {Main} \cup Spawned

ASSUME DriverAssumption ==
  /\ Main \notin Spawned /\ IsFiniteSet(Spawned)
  /\ Prefill \in Nat \ {0} /\ ValueRange \in Nat \ {0} /\ Ops \subseteq Nat

VARIABLES
  config,     \* the Configuration: sync, alg, n_threads, n_ops
  stages,     \* what is left of the calls of benchmark() and of the fills before them
  pc, left, doing,      \* of each thread: its point, its operations to do, the one it does
  workers,    \* the threads spawned and not yet joined, in order
  barrier,    \* is it initialised, for how many, who waits, who may leave
  clock,      \* between start_time and end_time
  counters, owner, old, \* the MWObject, its lock, and each thread's local copies
  id, available, num_ids   \* ThreadIdPool

machine == <<workers, barrier, clock>>
object  == <<counters, owner, old>>
ids     == <<id, available, num_ids>>
vars    == <<config, stages, pc, left, doing, machine, object, ids>>

None == "none"

ASSUME OwnerAssumption == None \notin Thread

-----------------------------------------------------------------------------
(* What is run.                                                            *)

NotImplemented ==
  {"lockfree", "htm-mcas", "flock-mcas"} \X {"mwobject", "arrayswap"}
  \cup {"flock-mcas"} \X {"sorted-list", "hashmap"}

SetStages == <<"fill", "read", "update", "fill", "mixed">>

Stages(sync, alg) ==
  CASE <<sync, alg>> \in NotImplemented         -> <<>>
    [] alg \in {"mwobject", "arrayswap"}         -> <<"update">>
    [] alg \in {"stack", "queue", "deque"}       -> <<"fill", "update">>
    [] alg \in {"sorted-list", "hashmap", "bst"} -> SetStages

Flock == {"lockfree-flock", "flock-mcas"}
Insert(alg) == IF alg = "hashmap" THEN "insert_or_assign" ELSE "insert"
Look(alg)   == CASE alg = "sorted-list" -> "count" [] alg = "hashmap" -> "contains" [] alg = "bst" -> "get_min"

SetChoice(stage, alg, random) ==
  LET draw == (random % ((IF stage = "update" THEN 2 ELSE 10) * ValueRange)) \div ValueRange
  IN CASE stage = "read" -> Look(alg)
       [] draw = 0       -> Insert(alg)
       [] draw = 1       -> "remove"
       [] OTHER          -> Look(alg)

PushOrPop(random) == IF (random % (2 * ValueRange)) \div ValueRange = 0 THEN "push" ELSE "pop"

\* benchmark_deque draws twice from one number.
DequeChoice(random) ==
  LET choice1 == (random % (2 * ValueRange)) \div ValueRange
      choice2 == (random % (2 * ValueRange)) \div ValueRange
  IN IF choice1 = 0 THEN IF choice2 = 0 THEN "push_back" ELSE "push_front"
     ELSE IF choice2 = 0 THEN "pop_back" ELSE "pop_front"

LockfreeDequeChoice(t, random) ==
  IF t # Main THEN "steal"
  ELSE PushOrPop(random)

Choice(t, random) ==
  LET alg == config.alg  stage == Head(stages) IN
  CASE stage = "fill" -> IF alg = "deque" THEN "push_back"
                         ELSE IF alg \in {"stack", "queue"} THEN "push" ELSE Insert(alg)
    [] alg \in {"mwobject", "arrayswap"} /\ stage # "fill" -> alg
    [] alg = "deque" /\ config.sync = "lockfree" /\ stage # "fill" -> LockfreeDequeChoice(t, random)
    [] alg = "deque" /\ config.sync # "lockfree" /\ stage # "fill" -> DequeChoice(random)
    [] alg \in {"stack", "queue"} /\ stage # "fill" -> PushOrPop(random)
    [] OTHER -> SetChoice(stage, alg, random)

-----------------------------------------------------------------------------
(* The barrier.                                                            *)

Init ==
  /\ \E c \in Configs, n \in 1 .. Cardinality(Spawned) + 1, o \in Ops :
       config = [sync |-> c[1], alg |-> c[2], n_threads |-> n, n_ops |-> o]
  /\ stages = Stages(config.sync, config.alg)
  /\ pc = [t \in Thread |-> IF t = Main THEN "next" ELSE "unborn"]
  /\ left = [t \in Thread |-> 0] /\ doing = [t \in Thread |-> None]
  /\ workers = <<>> /\ clock = FALSE
  /\ barrier = [up |-> FALSE, count |-> 0, waiting |-> {}, leaving |-> {}]
  /\ counters = [i \in 1 .. 4 |-> 0] /\ owner = None /\ old = [t \in Thread |-> <<>>]
  /\ id = [t \in Thread |-> -1] /\ available = <<>> /\ num_ids = 0

At(t, l)   == pc[t] = l
Goto(t, l) == pc' = [pc EXCEPT ![t] = l]
PerThread  == config.n_ops \div config.n_threads

\* pthread_barrier_wait at one of the two places: the last to come releases all.
Arrive(t, here, wait) ==
  /\ At(t, here) /\ Goto(t, wait)
  /\ LET w == barrier.waiting \cup {t} IN
     barrier' = IF Cardinality(w) = barrier.count
                THEN [up |-> barrier.up, count |-> barrier.count,
                      waiting |-> {}, leaving |-> barrier.leaving \cup w]
                ELSE [barrier EXCEPT !.waiting = w]
  /\ UNCHANGED <<config, stages, left, doing, workers, clock, object, ids>>

Leave(t, wait, there) ==
  /\ At(t, wait) /\ t \in barrier.leaving /\ Goto(t, there)
  /\ barrier' = [barrier EXCEPT !.leaving = @ \ {t}]
  /\ UNCHANGED <<config, stages, left, doing, workers, clock, object, ids>>

ArriveFirst(t)  == Arrive(t, "enter", "wait enter")
LeaveFirst(t)   == Leave(t, "wait enter", "work")

\* Faulty ArriveSecond: there is no second barrier.
ArriveNever(t) ==
  /\ At(t, "exit") /\ Goto(t, IF t = Main THEN "stop" ELSE "over")
  /\ UNCHANGED <<config, stages, left, doing, machine, object, ids>>

ArriveSecond(t) == Arrive(t, "exit", "wait exit")
LeaveSecond(t)  == Leave(t, "wait exit", IF t = Main THEN "stop" ELSE "over")

-----------------------------------------------------------------------------
(* The operations of a worker, and of main when it fills.                  *)

Begin(t) ==
  /\ At(t, "work") /\ left[t] > 0
  /\ \E random \in 0 .. 10 * ValueRange - 1 : doing' = [doing EXCEPT ![t] = Choice(t, random)]
  /\ left' = [left EXCEPT ![t] = @ - 1]
  /\ Goto(t, IF config.sync \in Flock /\ id[t] = -1 /\ ~(config.sync = "flock-mcas" /\ doing'[t] = "get_min")
             THEN "id" ELSE "op")
  /\ UNCHANGED <<config, stages, machine, object, ids>>

Over(t) == Goto(t, "work") /\ doing' = [doing EXCEPT ![t] = None]

\* An operation of a modelled structure returns, if it does.
Operate(t) ==
  /\ At(t, "op") /\ doing[t] # "mwobject" /\ Over(t)
  /\ UNCHANGED <<config, stages, left, machine, object, ids>>

Finish(t) ==
  /\ At(t, "work") /\ left[t] = 0
  /\ IF Head(stages) = "fill" THEN Goto(t, "next") /\ stages' = Tail(stages)
     ELSE Goto(t, "exit") /\ UNCHANGED stages
  /\ UNCHANGED <<config, left, doing, machine, object, ids>>

-----------------------------------------------------------------------------
(* The MWObject: four counters that an operation increments.               *)

Mcas == {"lockfree-mcas", "mcas-no-if", "mcas-htm", "mcas-htm-no-if"}
ByLock == {"lock", "lockfree-mcas", "mcas-no-if", "lockfree-flock"}   \* the others use htm
Object(t) == doing[t] = "mwobject"
Loads(t) == config.sync \in Mcas /\ Len(old[t]) < 4
UnchangedButObject == UNCHANGED <<config, stages, left, machine, ids>>

\* The loads before qcas, unprotected.
ObjectLoad(t) ==
  /\ At(t, "op") /\ Object(t) /\ Loads(t)
  /\ old' = [old EXCEPT ![t] = Append(@, counters[Len(@) + 1])]
  /\ UNCHANGED <<pc, doing, counters, owner>> /\ UnchangedButObject

\* The mutex of the object or that of qcas, or flock's lock.
ObjectLock(t) ==
  /\ At(t, "op") /\ Object(t) /\ ~Loads(t) /\ config.sync \in ByLock
  /\ owner = None /\ owner' = t /\ Goto(t, "compare")
  /\ UNCHANGED <<doing, counters, old>> /\ UnchangedButObject

\* Faulty Same: qcas compares only its first word.
SameFirst(t) == config.sync \in Mcas => counters[1] = old[t][1]

Same(t) == config.sync \in Mcas => \A i \in 1 .. 4 : counters[i] = old[t][i]
Read(t) == IF config.sync \in Mcas THEN old[t] ELSE [i \in 1 .. 4 |-> counters[i]]

ObjectCompare(t) ==
  /\ At(t, "compare")
  /\ IF Same(t) THEN Goto(t, "store") /\ old' = [old EXCEPT ![t] = Read(t)] /\ UNCHANGED owner
     ELSE Goto(t, "op") /\ old' = [old EXCEPT ![t] = <<>>] /\ owner' = None
  /\ UNCHANGED <<doing, counters>> /\ UnchangedButObject

\* Word by word: old[t] is what is left to do.
ObjectStore(t) ==
  /\ At(t, "store")
  /\ counters' = [counters EXCEPT ![5 - Len(old[t])] = Head(old[t]) + 1]
  /\ old' = [old EXCEPT ![t] = Tail(@)]
  /\ IF Len(old[t]) = 1 THEN owner' = None /\ Over(t) ELSE UNCHANGED <<pc, doing, owner>>
  /\ UnchangedButObject

\* In a section of tm.h.
ObjectSection(t) ==
  /\ At(t, "op") /\ Object(t) /\ ~Loads(t) /\ config.sync \notin ByLock
  /\ old' = [old EXCEPT ![t] = <<>>] /\ UNCHANGED owner
  /\ IF Same(t) THEN counters' = [i \in 1 .. 4 |-> Read(t)[i] + 1] /\ Over(t)
     ELSE Goto(t, "op") /\ UNCHANGED <<counters, doing>>
  /\ UnchangedButObject

\* Its qcas of mcas-htm.h or mcas-htm-no-if.h fails by a conflict, and is tried again.
ObjectConflict(t) ==
  /\ At(t, "op") /\ Object(t) /\ ~Loads(t) /\ config.sync \in {"mcas-htm", "mcas-htm-no-if"}
  /\ old' = [old EXCEPT ![t] = <<>>]
  /\ UNCHANGED <<pc, doing, counters, owner>> /\ UnchangedButObject

-----------------------------------------------------------------------------
(* ThreadIdPool: a thread has an id from its first operation on.           *)

Other == <<config, stages, left, doing, machine, object>>

Acquire(t) ==
  At(t, "id") /\ Goto(t, IF available = <<>> THEN "fresh" ELSE "pop") /\ UNCHANGED <<Other, ids>>

AcquirePop(t) ==
  /\ At(t, "pop")
  /\ IF available = <<>> THEN Goto(t, "fresh") /\ UNCHANGED ids
     ELSE /\ id' = [id EXCEPT ![t] = Head(available)] /\ available' = Tail(available)
          /\ Goto(t, "op") /\ UNCHANGED num_ids
  /\ UNCHANGED Other

AcquireFresh(t) ==
  /\ At(t, "fresh") /\ Goto(t, "op")
  /\ id' = [id EXCEPT ![t] = num_ids] /\ num_ids' = num_ids + 1
  /\ UNCHANGED <<available, Other>>

\* Faulty Relinquish: the id is lost.
RelinquishNot(t) ==
  At(t, "over") /\ Goto(t, "dead") /\ id' = [id EXCEPT ![t] = -1]
  /\ UNCHANGED <<available, num_ids, Other>>

\* The destructor of the thread's ThreadIdOwner.
Relinquish(t) ==
  /\ At(t, "over") /\ Goto(t, "dead")
  /\ available' = IF id[t] = -1 THEN available ELSE <<id[t]>> \o available
  /\ id' = [id EXCEPT ![t] = -1]
  /\ UNCHANGED <<num_ids, Other>>

-----------------------------------------------------------------------------
(* What main does.                                                         *)

MainUnchanged == UNCHANGED <<config, doing, object, ids>>

Fill ==
  /\ At(Main, "next") /\ stages # <<>> /\ Head(stages) = "fill" /\ Goto(Main, "work")
  /\ left' = [left EXCEPT ![Main] = Prefill]
  /\ UNCHANGED <<stages, machine>> /\ MainUnchanged

\* Faulty BarrierInit: main is not counted among the threads.
BarrierInitMore ==
  /\ At(Main, "next") /\ stages # <<>> /\ Head(stages) # "fill" /\ Goto(Main, "spawn")
  /\ barrier' = [up |-> TRUE, count |-> config.n_threads + 1, waiting |-> {}, leaving |-> {}]
  /\ UNCHANGED <<stages, left, workers, clock>> /\ MainUnchanged

BarrierInit ==
  /\ At(Main, "next") /\ stages # <<>> /\ Head(stages) # "fill" /\ Goto(Main, "spawn")
  /\ barrier' = [up |-> TRUE, count |-> config.n_threads, waiting |-> {}, leaving |-> {}]
  /\ UNCHANGED <<stages, left, workers, clock>> /\ MainUnchanged

Spawn(t) ==
  /\ At(Main, "spawn") /\ Len(workers) < config.n_threads - 1
  /\ pc[t] = "unborn" /\ Goto(t, "enter")
  /\ left' = [left EXCEPT ![t] = PerThread] /\ workers' = Append(workers, t)
  /\ UNCHANGED <<stages, barrier, clock>> /\ MainUnchanged

Start ==
  /\ At(Main, "spawn") /\ Len(workers) = config.n_threads - 1 /\ Goto(Main, "enter")
  /\ clock' = TRUE /\ left' = [left EXCEPT ![Main] = PerThread]
  /\ UNCHANGED <<stages, workers, barrier>> /\ MainUnchanged

Stop ==
  /\ At(Main, "stop") /\ Goto(Main, "join") /\ clock' = FALSE
  /\ UNCHANGED <<stages, left, workers, barrier>> /\ MainUnchanged

\* Faulty Join: main does not wait for the threads.
JoinNot ==
  /\ At(Main, "join") /\ workers # <<>> /\ workers' = Tail(workers)
  /\ UNCHANGED <<stages, left, pc, barrier, clock>> /\ MainUnchanged

Join ==
  /\ At(Main, "join") /\ workers # <<>> /\ pc[Head(workers)] = "dead"
  /\ Goto(Head(workers), "unborn") /\ workers' = Tail(workers)
  /\ UNCHANGED <<stages, left, barrier, clock>> /\ MainUnchanged

Destroy ==
  /\ At(Main, "join") /\ workers = <<>> /\ Goto(Main, "report")
  /\ barrier' = [barrier EXCEPT !.up = FALSE]
  /\ UNCHANGED <<stages, left, workers, clock>> /\ MainUnchanged

Report ==
  /\ At(Main, "report") /\ Goto(Main, "next") /\ stages' = Tail(stages)
  /\ UNCHANGED <<left, machine>> /\ MainUnchanged

Finished == At(Main, "next") /\ stages = <<>>

-----------------------------------------------------------------------------

\* The steps a thread makes when it is scheduled.
Scheduled(t) ==
  \/ ArriveFirst(t) \/ LeaveFirst(t) \/ ArriveSecond(t) \/ LeaveSecond(t)
  \/ Begin(t) \/ Finish(t)
  \/ ObjectLoad(t) \/ ObjectLock(t) \/ ObjectCompare(t) \/ ObjectStore(t) \/ ObjectSection(t)
  \/ Acquire(t) \/ AcquirePop(t) \/ AcquireFresh(t) \/ Relinquish(t)

WorkerStep(t) == Scheduled(t) \/ Operate(t) \/ ObjectConflict(t)

MainStep ==
  \/ Fill \/ BarrierInit \/ (\E t \in Spawned : Spawn(t)) \/ Start
  \/ Stop \/ Join \/ Destroy \/ Report

Next == (\E t \in Thread : WorkerStep(t)) \/ MainStep \/ (Finished /\ UNCHANGED vars)

Spec == Init /\ [][Next]_vars

\* Every thread is scheduled, and the qcas of the MWObject does not fail by conflicts
\* for ever.  That an operation of another structure returns is not assumed.
FairSpec ==
  /\ Spec /\ WF_vars(MainStep)
  /\ \A t \in Thread : WF_vars(Scheduled(t)) /\ SF_vars(ObjectSection(t))

-----------------------------------------------------------------------------
(* Properties.                                                             *)

\* When benchmark() reports, each MWObject counter has been incremented once for every
\* operation that was to be done: no qcas, section or lock lost or doubled one.
MWObjectExact ==
  At(Main, "report") /\ config.alg = "mwobject" =>
    \A i \in 1 .. 4 : counters[i] = config.n_threads * PerThread

\* Operations are done between start_time and end_time, by every thread; and
\* while main fills a structure nobody else lives.
Busy(t) == pc[t] \in {"id", "pop", "fresh", "op", "compare", "store"}
MeasuredWindow ==
  \A t \in Thread : Busy(t) =>
    IF Head(stages) = "fill" THEN t = Main /\ \A u \in Spawned : pc[u] = "unborn" ELSE clock

\* No thread is at a barrier that is not initialised or is destroyed, and one that
\* waits belongs to the round that is under way.
BarrierLive ==
  \A t \in Thread :
    /\ pc[t] \in {"enter", "wait enter", "exit", "wait exit"} => barrier.up
    /\ pc[t] \in {"wait enter", "wait exit"} => t \in barrier.waiting \cup barrier.leaving

\* The ids of the threads that live are different, and below n_threads: so epoch.h and
\* acquired_pool.h, which have num_workers() = PARLAY_NUM_THREADS slots, give each its own.
IdsInRange ==
  \A t \in Thread : id[t] # -1 =>
    id[t] < config.n_threads /\ \A u \in Thread \ {t} : id[u] # id[t]

\* The program ends, whatever it was called with, unless an operation of a structure
\* never returns: no thread waits for ever at a barrier, for the id pool, in a join or in
\* the MWObject.  (contains of the hash maps over an mcas may not return.)
Terminates == (\A t \in Thread : WF_vars(Operate(t))) => <>Finished
=============================================================================
