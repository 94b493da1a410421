-------------------------- MODULE FlockLockProofs --------------------------
(***************************************************************************)
(* Helping is safe for every number of threads, descriptors and calls: who *)
(* runs a section, its owner or a helper, runs it from a descriptor that   *)
(* the pool does not hand out before it is done.                           *)
(* And a section takes effect once, whoever runs it, while the tags of the *)
(* word that it stores do not wrap: FlockLock implements SectionSpec.      *)
(***************************************************************************)
EXTENDS FlockLock, TLAPS

\* Where a thread helps, and where it has a descriptor of its own.
Helping == {"acquire?", "acquire", "still now?"}
Holding == {"cas", "reread", "done?", "reload", "still?", "retire", "retire later"} \cup Helping \cup Running
Points  == {"idle", "allocate", "return"} \cup Holding

Holds(t) == pc[t] \in Holding
Mine(t)  == My(t).mine

\* What the locals of a thread are at each point.
LocalsOf(t) ==
  /\ pc[t] \in Points
  /\ pc[t] = "allocate" =>
       /\ "current" \in DOMAIN loc[t]
       /\ Locked(My(t).current) => My(t).current.d \in Slot /\ My(t).current = Taken(My(t).current.d)
  /\ Holds(t) => {"current", "mine"} \subseteq DOMAIN loc[t]
  /\ pc[t] \in {"still?"} \cup Helping =>
       "d" \in DOMAIN loc[t] /\ My(t).d \in Slot /\ My(t).current = Taken(My(t).d)
  /\ pc[t] \in Running =>
       {"d", "after"} \subseteq DOMAIN loc[t] /\ My(t).d \in Slot /\ My(t).after \in {"retire", "reload"}

Shapes ==
  /\ DOMAIN pc = Thread /\ DOMAIN loc = Thread /\ DOMAIN desc = Slot
  /\ \A d \in Slot : "acquired" \in DOMAIN desc[d]
  /\ Locked(lck) => lck.d \in Slot /\ lck = Taken(lck.d)

\* A descriptor is in the pool, or retired once, or some thread's own.
Apart ==
  /\ free \subseteq Slot
  /\ \A t \in Thread : Holds(t) =>
       /\ Mine(t) \in Slot /\ Mine(t) \notin free /\ \A r \in retired : r[1] # Mine(t)
       /\ \A u \in Thread : Holds(u) /\ Mine(u) = Mine(t) => u = t
  /\ \A r \in retired : r[1] \in Slot /\ r[1] \notin free
  /\ \A r, q \in retired : r[1] = q[1] => r = q

\* t runs its own section; t may have its descriptor in the lock.
OwnRun(t) == pc[t] \in Running /\ My(t).d = Mine(t)
HasPut(t) == pc[t] \in {"reread", "done?"} \/ OwnRun(t)

\* Who takes the lock has not let go of it before its descriptor is out.
LockOf(t) ==
  /\ pc[t] = "done?" /\ lck = Taken(Mine(t)) => My(t).current = lck
  /\ pc[t] \in Helping => My(t).d # Mine(t)
LockOwned == Locked(lck) => \E t \in Thread : HasPut(t) /\ Mine(t) = lck.d

\* A retired descriptor that is not handed out while t is inside with_epoch.
Waits(t, d) == \E r \in retired : r[1] = d /\ t \in r[2]

\* A helper has marked the descriptor, or come too late to need it: it is retired.
SparedOf(t) ==
  /\ pc[t] = "still now?" => desc[My(t).d].acquired \/ Waits(t, My(t).d)
  /\ pc[t] \in Running /\ ~OwnRun(t) =>
       \/ desc[My(t).d].acquired /\ \E u \in Thread : Holds(u) /\ Mine(u) = My(t).d
       \/ Waits(t, My(t).d)

IInv == Shapes /\ Apart /\ LockOwned /\ \A t \in Thread : LocalsOf(t) /\ LockOf(t) /\ SparedOf(t)

-----------------------------------------------------------------------------
(* Steps of a call.                                                        *)

\* Go moves t and sets some of its locals.
LEMMA GoDoes ==
  ASSUME NEW t \in Thread, NEW l, NEW locals, Shapes, Go(t, l, locals)
  PROVE  /\ pc'[t] = l /\ DOMAIN pc' = Thread /\ DOMAIN loc' = Thread
         /\ \A u \in Thread \ {t} : pc'[u] = pc[u] /\ loc'[u] = loc[u]
         /\ DOMAIN loc'[t] = DOMAIN loc[t] \cup DOMAIN locals
         /\ \A x \in DOMAIN locals : loc'[t][x] = locals[x]
         /\ \A x \in DOMAIN loc[t] : x \notin DOMAIN locals => loc'[t][x] = loc[t][x]
  <1> DEFINE new == [x \in DOMAIN loc[t] \cup DOMAIN locals |-> IF x \in DOMAIN locals THEN locals[x] ELSE loc[t][x]]
  <1>1. pc' = [pc EXCEPT ![t] = l] /\ loc' = [loc EXCEPT ![t] = new] /\ DOMAIN pc = Thread /\ DOMAIN loc = Thread
    BY DEF Go, Shapes
  <1>2. /\ DOMAIN new = DOMAIN loc[t] \cup DOMAIN locals
        /\ \A x \in DOMAIN new : new[x] = IF x \in DOMAIN locals THEN locals[x] ELSE loc[t][x]
    OBVIOUS
  <1> HIDE DEF new
  <1>3. loc'[t] = new /\ \A u \in Thread \ {t} : loc'[u] = loc[u]
    BY <1>1
  <1> QED
    BY <1>1, <1>2, <1>3

\* The descriptors are still there, and none has lost its mark.
MarksKept ==
  /\ DOMAIN desc' = Slot /\ \A d \in Slot : "acquired" \in DOMAIN desc'[d]
  /\ \A d \in Slot : desc[d].acquired => desc'[d].acquired

OthersStay(t) ==
  /\ DOMAIN pc' = Thread /\ DOMAIN loc' = Thread
  /\ \A u \in Thread \ {t} : pc'[u] = pc[u] /\ loc'[u] = loc[u]

\* What is known of the locals of a thread stays while it does nothing.
LEMMA LocalsStay ==
  ASSUME NEW u, pc'[u] = pc[u], loc'[u] = loc[u], LocalsOf(u)
  PROVE  LocalsOf(u)' /\ (Holds(u)' <=> Holds(u)) /\ Mine(u)' = Mine(u) /\ (OwnRun(u)' <=> OwnRun(u))
         /\ (HasPut(u)' <=> HasPut(u)) /\ My(u)' = My(u)
  BY DEF LocalsOf, Holds, Mine, My, OwnRun, HasPut

\* Whose descriptor is in the lock.
LEMMA LockHolder ==
  ASSUME IInv, NEW t \in Thread, Holds(t), lck = Taken(Mine(t)) PROVE HasPut(t)
  <1>1. Mine(t) \in Slot
    BY DEF IInv, Apart
  <1>2. lck.d = Mine(t) /\ Locked(lck)
    BY <1>1, FlockAssumption DEF Taken, Locked
  <1>3. PICK u \in Thread : HasPut(u) /\ Mine(u) = lck.d
    BY <1>2 DEF IInv, LockOwned
  <1>4. Holds(u)
    BY <1>3 DEF HasPut, OwnRun, Holds, Holding
  <1>5. u = t
    BY <1>2, <1>3, <1>4 DEF IInv, Apart
  <1> QED
    BY <1>3, <1>5

\* What a step has to respect while its thread has a descriptor, and the pool is left.
LEMMA HoldingStep ==
  ASSUME IInv, NEW t \in Thread, OthersStay(t), MarksKept, UNCHANGED <<free, retired>>,
         Holds(t), Holds(t)', Mine(t)' = Mine(t), LocalsOf(t)', LockOf(t)',
         \/ lck' = lck /\ (HasPut(t) /\ lck = Taken(Mine(t)) => HasPut(t)')
         \/ lck'.d = 0
         \/ lck' = Taken(Mine(t)) /\ HasPut(t)',
         pc'[t] = "still now?" => desc'[My(t)'.d].acquired \/ Waits(t, My(t)'.d),
         pc'[t] \in Running /\ ~OwnRun(t)' =>
            \/ desc[My(t)'.d].acquired /\ \E u \in Thread : Holds(u) /\ Mine(u) = My(t)'.d
            \/ Waits(t, My(t)'.d)
  PROVE  IInv'
  <1>1. /\ Shapes /\ Apart /\ LockOwned /\ \A u \in Thread : LocalsOf(u) /\ LockOf(u) /\ SparedOf(u)
    BY DEF IInv
  <1>2. \A u \in Thread \ {t} :
          /\ LocalsOf(u)' /\ (Holds(u)' <=> Holds(u)) /\ Mine(u)' = Mine(u) /\ (OwnRun(u)' <=> OwnRun(u))
          /\ (HasPut(u)' <=> HasPut(u)) /\ My(u)' = My(u) /\ pc'[u] = pc[u]
    BY <1>1, LocalsStay DEF OthersStay
  <1>3. \A u \in Thread : (Holds(u)' <=> Holds(u)) /\ Mine(u)' = Mine(u)
    BY <1>2
  <1>4. \A u \in Thread : \A d : Waits(u, d)' <=> Waits(u, d)
    BY DEF Waits
  <1>5. Mine(t) \in Slot /\ Mine(t) # 0
    BY <1>1, FlockAssumption DEF Apart
  <1>6. Shapes'
    <2>1. Locked(lck)' => lck'.d \in Slot /\ lck' = Taken(lck'.d)
      <3>1. CASE lck' = lck
        BY <1>1, <3>1 DEF Shapes, Locked
      <3>2. CASE lck'.d = 0
        BY <3>2 DEF Locked
      <3>3. CASE lck' = Taken(Mine(t))
        BY <1>5, <3>3 DEF Taken
      <3> QED
        BY <3>1, <3>2, <3>3
    <2> QED
      BY <2>1 DEF Shapes, OthersStay, MarksKept, Taken
  <1>7. Apart'
    BY <1>1, <1>3 DEF Apart
  <1>8. LockOwned'
    <2> SUFFICES ASSUME Locked(lck)' PROVE \E u \in Thread : HasPut(u)' /\ Mine(u)' = lck'.d
      BY DEF LockOwned
    <2>1. lck'.d # 0
      BY DEF Locked
    <2>2. CASE lck' = lck /\ (HasPut(t) /\ lck = Taken(Mine(t)) => HasPut(t)')
      <3>1. Locked(lck) /\ lck = Taken(lck.d)
        BY <1>1, <2>1, <2>2 DEF Locked, Shapes
      <3>2. PICK u \in Thread : HasPut(u) /\ Mine(u) = lck.d
        BY <1>1, <3>1 DEF LockOwned
      <3>3. HasPut(u)'
        BY <1>2, <2>2, <3>1, <3>2
      <3> QED
        BY <1>3, <2>2, <3>2, <3>3
    <2>3. CASE lck' = Taken(Mine(t)) /\ HasPut(t)'
      <3>1. lck'.d = Mine(t)'
        BY <2>3 DEF Taken
      <3> QED
        BY <2>3, <3>1
    <2> QED
      BY <2>1, <2>2, <2>3
  <1>9. ASSUME NEW u \in Thread \ {t} PROVE LockOf(u)'
    <2>1. pc[u] = "done?" /\ lck' = Taken(Mine(u)) => lck = Taken(Mine(u)) /\ lck' = lck
      <3> SUFFICES ASSUME pc[u] = "done?", lck' = Taken(Mine(u)) PROVE lck' = lck
        OBVIOUS
      <3>1. Holds(u) /\ Mine(u) \in Slot /\ Mine(u) # Mine(t) /\ Mine(u) # 0
        BY <1>1, FlockAssumption DEF Holds, Holding, Apart
      <3>2. lck'.d = Mine(u)
        BY DEF Taken
      <3>3. lck' # Taken(Mine(t))
        BY <3>1, <3>2 DEF Taken
      <3> QED
        BY <3>1, <3>2, <3>3
    <2> QED
      BY <1>1, <1>2, <2>1 DEF LockOf
  <1>10. ASSUME NEW u \in Thread \ {t} PROVE SparedOf(u)'
    <2>1. SparedOf(u) /\ pc'[u] = pc[u] /\ My(u)' = My(u) /\ (OwnRun(u)' <=> OwnRun(u)) /\ LocalsOf(u)
      BY <1>1, <1>2
    <2>2. pc[u] \in {"still now?"} \cup Running => (desc[My(u).d].acquired => desc'[My(u).d].acquired)
      BY <2>1 DEF LocalsOf, Helping, MarksKept
    <2> QED
      BY <1>3, <1>4, <2>1, <2>2 DEF SparedOf
  <1>11. SparedOf(t)'
    <2>1. pc'[t] \in Running => (desc[My(t)'.d].acquired => desc'[My(t)'.d].acquired)
      BY DEF LocalsOf, MarksKept
    <2> QED
      BY <1>3, <1>4, <2>1 DEF SparedOf
  <1> QED
    BY <1>2, <1>6, <1>7, <1>8, <1>9, <1>10, <1>11 DEF IInv

\* Jump moves t and leaves its locals.
LEMMA JumpDoes ==
  ASSUME NEW t \in Thread, NEW l, Shapes, Jump(t, l)
  PROVE  OthersStay(t) /\ pc'[t] = l /\ loc' = loc /\ My(t)' = My(t)
  BY DEF Jump, Shapes, OthersStay, My

\* The changes of descriptors that keep the marks.
LEMMA Marks ==
  ASSUME Shapes, NEW d \in Slot, NEW i, NEW v,
         \/ desc' = desc
         \/ desc' = [desc EXCEPT ![d].log[i] = v]
         \/ desc' = [desc EXCEPT ![d].counter = v]
         \/ desc' = [desc EXCEPT ![d].done = TRUE]
         \/ desc' = [desc EXCEPT ![d].acquired = TRUE]
  PROVE  MarksKept
  <1> USE DEF Shapes, MarksKept
  <1>1. CASE desc' = desc
    BY <1>1
  <1>2. CASE desc' = [desc EXCEPT ![d].log[i] = v]
    BY <1>2
  <1>3. CASE desc' = [desc EXCEPT ![d].counter = v]
    BY <1>3
  <1>4. CASE desc' = [desc EXCEPT ![d].done = TRUE]
    BY <1>4
  <1>5. CASE desc' = [desc EXCEPT ![d].acquired = TRUE]
    BY <1>5
  <1> QED
    BY <1>1, <1>2, <1>3, <1>4, <1>5

\* What a thread with a descriptor knows.
LEMMA Known ==
  ASSUME IInv, NEW t \in Thread, Holds(t)
  PROVE  /\ Shapes /\ LocalsOf(t) /\ LockOf(t) /\ SparedOf(t)
         /\ {"current", "mine"} \subseteq DOMAIN loc[t] /\ Mine(t) \in Slot /\ Mine(t) \notin free
         /\ pc[t] \in {"still?"} \cup Helping \cup Running => "d" \in DOMAIN loc[t] /\ My(t).d \in Slot
         /\ pc[t] \in Running => "after" \in DOMAIN loc[t] /\ My(t).after \in {"retire", "reload"}
  BY DEF IInv, LocalsOf, Apart

-----------------------------------------------------------------------------
(* The section.                                                            *)

\* What a step inside the section has to respect.
LEMMA InSection ==
  ASSUME IInv, NEW t \in Thread, pc[t] \in Running, pc'[t] \in Running, OthersStay(t), MarksKept,
         UNCHANGED <<lck, free, retired>>,
         \A x \in {"current", "mine", "d", "after"} : x \in DOMAIN loc'[t] /\ loc'[t][x] = loc[t][x]
  PROVE  IInv'
  <1>1. Holds(t) /\ Holds(t)'
    BY DEF Holds, Holding
  <1>2. /\ LocalsOf(t) /\ LockOf(t) /\ SparedOf(t)
        /\ My(t).d \in Slot /\ My(t).after \in {"retire", "reload"}
    BY <1>1, Known
  <1>3. /\ My(t)'.current = My(t).current /\ Mine(t)' = Mine(t) /\ My(t)'.d = My(t).d
        /\ My(t)'.after = My(t).after
    BY DEF My, Mine
  <1>4. OwnRun(t)' <=> OwnRun(t)
    BY <1>3 DEF OwnRun
  <1>5. LocalsOf(t)'
    <2>1. pc'[t] \in Points /\ pc'[t] \notin {"allocate"} /\ pc'[t] \notin {"still?"} \cup Helping
      BY DEF Running, Helping, Points, Holding
    <2>2. {"current", "mine"} \subseteq DOMAIN loc'[t] /\ {"d", "after"} \subseteq DOMAIN loc'[t]
      OBVIOUS
    <2> QED
      BY <1>2, <1>3, <2>1, <2>2 DEF LocalsOf
  <1>6. LockOf(t)'
    BY <1>2, <1>3, <1>4 DEF LockOf, Running, Helping
  <1>7. HasPut(t) => HasPut(t)'
    BY <1>4 DEF HasPut, Running
  <1>8. pc'[t] # "still now?"
    BY DEF Running
  <1>9. pc'[t] \in Running /\ ~OwnRun(t)' =>
            \/ desc[My(t)'.d].acquired /\ \E u \in Thread : Holds(u) /\ Mine(u) = My(t)'.d
            \/ Waits(t, My(t)'.d)
    BY <1>2, <1>3, <1>4 DEF SparedOf
  <1> QED
    BY <1>1, <1>3, <1>5, <1>6, <1>7, <1>8, <1>9, HoldingStep

\* The steps of the section.
LEMMA SectionSteps ==
  ASSUME IInv, NEW t \in Thread, RunStep(t), ~RunClear(t) PROVE IInv'
  <1>1. pc[t] \in Running /\ pc'[t] \in Running /\ UNCHANGED <<lck, free, retired>>
    <2>1. Shapes
      BY DEF IInv
    <2>2. pc[t] \in Running /\ UNCHANGED <<lck, free, retired>>
      BY DEF RunStep, RunLoad, RunCommitLoad, RunLoadAgain, RunCommitAgain, RunNext, RunPanic, RunAnnounce, RunSkip,
             RunStore, RunMark, RunUnannounce, RunDone, At, Running
    <2>3. pc'[t] \in Running
      BY <2>1 DEF RunStep, RunLoad, RunCommitLoad, RunLoadAgain, RunCommitAgain, RunNext, RunPanic, RunAnnounce, RunSkip,
             RunStore, RunMark, RunUnannounce, RunDone, Go, Jump, Shapes, Running
    <2> QED
      BY <2>2, <2>3
  <1>2. /\ Shapes /\ Holds(t) /\ {"current", "mine", "d", "after"} \subseteq DOMAIN loc[t] /\ My(t).d \in Slot
    <2>1. Holds(t)
      BY <1>1 DEF Holds, Holding
    <2> QED
      BY <1>1, <2>1, Known
  <1>3. MarksKept
    <2>1. /\ \/ desc' = desc
             \/ \E i, v : desc' = [desc EXCEPT ![My(t).d].log[i] = v]
             \/ desc' = [desc EXCEPT ![My(t).d].done = TRUE]
      BY DEF RunStep, RunLoad, RunCommitLoad, RunLoadAgain, RunCommitAgain, RunNext, RunPanic, RunAnnounce, RunSkip,
             RunStore, RunMark, RunUnannounce, RunDone, Commit
    <2> QED
      BY <1>2, <2>1, Marks
  <1>4. OthersStay(t) /\ \A x \in {"current", "mine", "d", "after"} : x \in DOMAIN loc'[t] /\ loc'[t][x] = loc[t][x]
    <2>1. ASSUME NEW l, NEW r, Go(t, l, r), DOMAIN r \subseteq {"seen", "x", "old", "tag"}
          PROVE  OthersStay(t) /\ \A x \in {"current", "mine", "d", "after"} : x \in DOMAIN loc'[t] /\ loc'[t][x] = loc[t][x]
      BY <1>2, <2>1, GoDoes DEF OthersStay
    <2>2. ASSUME NEW l, Jump(t, l)
          PROVE  OthersStay(t) /\ \A x \in {"current", "mine", "d", "after"} : x \in DOMAIN loc'[t] /\ loc'[t][x] = loc[t][x]
      BY <1>2, <2>2, JumpDoes
    <2>3. \/ \E l : Jump(t, l)
          \/ \E l, v : Go(t, l, [seen |-> v]) \/ Go(t, l, [x |-> v]) \/ Go(t, l, [old |-> v]) \/ Go(t, l, [tag |-> v])
      BY DEF RunStep, RunLoad, RunCommitLoad, RunLoadAgain, RunCommitAgain, RunNext, RunPanic, RunAnnounce, RunSkip,
             RunStore, RunMark, RunUnannounce, RunDone
    <2>4. \A v : /\ DOMAIN [seen |-> v] = {"seen"} /\ DOMAIN [x |-> v] = {"x"}
                 /\ DOMAIN [old |-> v] = {"old"} /\ DOMAIN [tag |-> v] = {"tag"}
      OBVIOUS
    <2> QED
      BY <2>1, <2>2, <2>3, <2>4
  <1> QED
    BY <1>1, <1>3, <1>4, InSection

\* clear: the descriptor is taken out of the lock if it is still there.
LEMMA ClearStep ==
  ASSUME IInv, NEW t \in Thread, RunClear(t) PROVE IInv'
  <1>1. /\ pc[t] = "clear" /\ Jump(t, My(t).after) /\ UNCHANGED <<desc, free, retired>>
        /\ lck' = IF lck = Taken(My(t).d) THEN Count(D(t).counter + 1) ELSE lck
    BY DEF RunClear, At
  <1>2. Holds(t) /\ pc[t] \in Running
    BY <1>1 DEF Holds, Holding, Running
  <1>3. Shapes /\ LocalsOf(t) /\ My(t).after \in {"retire", "reload"} /\ Mine(t) \in Slot
    BY <1>2, Known
  <1>4. OthersStay(t) /\ pc'[t] \in {"retire", "reload"} /\ loc' = loc /\ My(t)' = My(t)
    BY <1>1, <1>3, JumpDoes
  <1>5. MarksKept
    BY <1>1, <1>3, Marks
  <1>6. Holds(t)' /\ pc'[t] \notin Helping /\ pc'[t] \notin Running /\ pc'[t] \in Points
    BY <1>4 DEF Holds, Holding, Helping, Running, Points
  <1>7. LocalsOf(t)' /\ LockOf(t)' /\ Mine(t)' = Mine(t)
    BY <1>2, <1>3, <1>4, <1>6 DEF LocalsOf, LockOf, Mine
  <1>8. \/ lck' = lck /\ (HasPut(t) /\ lck = Taken(Mine(t)) => HasPut(t)')
        \/ lck'.d = 0
    <2>1. CASE lck = Taken(My(t).d)
      BY <1>1, <2>1 DEF Count
    <2>2. CASE lck # Taken(My(t).d)
      BY <1>1, <2>2 DEF HasPut, OwnRun
    <2> QED
      BY <2>1, <2>2
  <1> QED
    BY <1>1, <1>2, <1>4, <1>5, <1>6, <1>7, <1>8, HoldingStep

-----------------------------------------------------------------------------
(* The lock.                                                               *)

\* A descriptor is put into the lock.
LEMMA CasStep ==
  ASSUME IInv, NEW t \in Thread, Cas(t) PROVE IInv'
  <1>1. /\ pc[t] = "cas" /\ UNCHANGED <<free, retired>>
        /\ desc' = [desc EXCEPT ![Mine(t)].counter = My(t).current.count]
        /\ lck' = IF lck = My(t).current THEN Taken(Mine(t)) ELSE lck
    BY DEF Cas, At, Other, Mine
  <1>2. Holds(t) /\ ~HasPut(t)
    BY <1>1 DEF Holds, Holding, HasPut, OwnRun, Running
  <1>3. Shapes /\ LocalsOf(t) /\ Mine(t) \in Slot /\ {"current", "mine"} \subseteq DOMAIN loc[t]
    BY <1>2, Known
  <1>4. MarksKept
    BY <1>1, <1>3, Marks
  <1>5. CASE My(t).op = "try_lock" \/ lck # My(t).current
    <2>1. Jump(t, "reread") \/ Jump(t, "reload")
      BY <1>5 DEF Cas
    <2>2. OthersStay(t) /\ pc'[t] \in {"reread", "reload"} /\ loc' = loc /\ My(t)' = My(t)
      BY <1>3, <2>1, JumpDoes
    <2>3. Holds(t)' /\ pc'[t] \notin Helping /\ pc'[t] \notin Running /\ pc'[t] \in Points
      BY <2>2 DEF Holds, Holding, Helping, Running, Points
    <2>4. LocalsOf(t)' /\ LockOf(t)' /\ Mine(t)' = Mine(t)
      BY <1>3, <2>2, <2>3 DEF LocalsOf, LockOf, Mine
    <2>5. lck' = lck \/ (lck' = Taken(Mine(t)) /\ HasPut(t)')
      <3>1. CASE lck = My(t).current
        <4>1. Jump(t, "reread")
          BY <1>5, <3>1 DEF Cas
        <4>2. pc'[t] = "reread"
          BY <1>3, <4>1, JumpDoes
        <4> QED
          BY <1>1, <3>1, <4>2 DEF HasPut
      <3>2. CASE lck # My(t).current
        BY <1>1, <3>2
      <3> QED
        BY <3>1, <3>2
    <2> QED
      BY <1>1, <1>2, <1>4, <2>2, <2>3, <2>4, <2>5, HoldingStep
  <1>6. CASE My(t).op # "try_lock" /\ lck = My(t).current
    <2>1. Go(t, "run", [d |-> Mine(t), after |-> "retire", won |-> TRUE]) /\ lck' = Taken(Mine(t))
      BY <1>1, <1>6 DEF Cas, Mine
    <2>2. /\ OthersStay(t) /\ pc'[t] = "run" /\ {"d", "after", "current", "mine"} \subseteq DOMAIN loc'[t]
          /\ My(t)'.d = Mine(t) /\ My(t)'.after = "retire" /\ Mine(t)' = Mine(t)
      <3> DEFINE r == [d |-> Mine(t), after |-> "retire", won |-> TRUE]
      <3>1. DOMAIN r = {"d", "after", "won"} /\ r["d"] = Mine(t) /\ r["after"] = "retire"
        OBVIOUS
      <3> HIDE DEF r
      <3>2. Go(t, "run", r)
        BY <2>1 DEF r
      <3> QED
        BY <1>3, <3>1, <3>2, GoDoes DEF OthersStay, My, Mine
    <2>3. Holds(t)' /\ pc'[t] \notin Helping \cup {"still?"} /\ pc'[t] \in Running /\ pc'[t] \in Points
      BY <2>2 DEF Holds, Holding, Helping, Running, Points
    <2>4. LocalsOf(t)' /\ LockOf(t)' /\ OwnRun(t)'
      BY <1>3, <2>2, <2>3 DEF LocalsOf, LockOf, OwnRun
    <2> QED
      BY <1>1, <1>2, <1>4, <2>1, <2>2, <2>3, <2>4, HoldingStep DEF HasPut
  <1> QED
    BY <1>5, <1>6

\* try_lock reads the lock again.
LEMMA RereadStep ==
  ASSUME IInv, NEW t \in Thread, Reread(t) PROVE IInv'
  <1>1. pc[t] = "reread" /\ UNCHANGED <<lck, desc, free, retired>> /\ Go(t, "done?", [current |-> lck])
    BY DEF Reread, At, Other
  <1>2. Holds(t)
    BY <1>1 DEF Holds, Holding
  <1>3. Shapes /\ LocalsOf(t) /\ Mine(t) \in Slot /\ {"current", "mine"} \subseteq DOMAIN loc[t]
    BY <1>2, Known
  <1>4. MarksKept
    BY <1>1, <1>3, Marks
  <1>5. /\ OthersStay(t) /\ pc'[t] = "done?" /\ {"current", "mine"} \subseteq DOMAIN loc'[t]
        /\ My(t)'.current = lck /\ Mine(t)' = Mine(t)
    <2> DEFINE r == [current |-> lck]
    <2>1. DOMAIN r = {"current"} /\ r["current"] = lck
      OBVIOUS
    <2> HIDE DEF r
    <2>2. Go(t, "done?", r)
      BY <1>1 DEF r
    <2> QED
      BY <1>3, <2>1, <2>2, GoDoes DEF OthersStay, My, Mine
  <1>6. Holds(t)' /\ pc'[t] \notin Helping /\ pc'[t] \notin Running /\ pc'[t] \in Points
    BY <1>5 DEF Holds, Holding, Helping, Running, Points
  <1>7. LocalsOf(t)' /\ LockOf(t)' /\ HasPut(t)'
    BY <1>1, <1>5, <1>6 DEF LocalsOf, LockOf, HasPut
  <1> QED
    BY <1>1, <1>2, <1>4, <1>5, <1>6, <1>7, HoldingStep

\* try_lock runs its section, or gives up because it does not have the lock.
LEMMA TryTakenStep ==
  ASSUME IInv, NEW t \in Thread, TryTaken(t) PROVE IInv'
  <1>1. pc[t] = "done?" /\ UNCHANGED <<lck, desc, free, retired>>
    BY DEF TryTaken, At, Other
  <1>2. Holds(t)
    BY <1>1 DEF Holds, Holding
  <1>3. Shapes /\ LocalsOf(t) /\ LockOf(t) /\ Mine(t) \in Slot /\ {"current", "mine"} \subseteq DOMAIN loc[t]
    BY <1>2, Known
  <1>4. MarksKept
    BY <1>1, <1>3, Marks
  <1>5. CASE desc[Mine(t)].done \/ My(t).current = Taken(Mine(t))
    <2>1. Go(t, "run", [d |-> Mine(t), after |-> "retire", won |-> TRUE])
      BY <1>5 DEF TryTaken, Mine
    <2>2. /\ OthersStay(t) /\ pc'[t] = "run" /\ {"d", "after", "current", "mine"} \subseteq DOMAIN loc'[t]
          /\ My(t)'.d = Mine(t) /\ My(t)'.after = "retire" /\ Mine(t)' = Mine(t)
      <3> DEFINE r == [d |-> Mine(t), after |-> "retire", won |-> TRUE]
      <3>1. DOMAIN r = {"d", "after", "won"} /\ r["d"] = Mine(t) /\ r["after"] = "retire"
        OBVIOUS
      <3> HIDE DEF r
      <3>2. Go(t, "run", r)
        BY <2>1 DEF r
      <3> QED
        BY <1>3, <3>1, <3>2, GoDoes DEF OthersStay, My, Mine
    <2>3. Holds(t)' /\ pc'[t] \notin Helping \cup {"still?"} /\ pc'[t] \in Running /\ pc'[t] \in Points
      BY <2>2 DEF Holds, Holding, Helping, Running, Points
    <2>4. LocalsOf(t)' /\ LockOf(t)' /\ OwnRun(t)'
      BY <1>3, <2>2, <2>3 DEF LocalsOf, LockOf, OwnRun
    <2> QED
      BY <1>1, <1>2, <1>4, <2>2, <2>3, <2>4, HoldingStep DEF HasPut
  <1>6. CASE ~(desc[Mine(t)].done \/ My(t).current = Taken(Mine(t)))
    <2>1. Jump(t, "retire")
      BY <1>6 DEF TryTaken, Mine
    <2>2. OthersStay(t) /\ pc'[t] = "retire" /\ loc' = loc /\ My(t)' = My(t)
      BY <1>3, <2>1, JumpDoes
    <2>3. Holds(t)' /\ pc'[t] \notin Helping /\ pc'[t] \notin Running /\ pc'[t] \in Points
      BY <2>2 DEF Holds, Holding, Helping, Running, Points
    <2>4. LocalsOf(t)' /\ LockOf(t)' /\ Mine(t)' = Mine(t)
      BY <1>3, <2>2, <2>3 DEF LocalsOf, LockOf, Mine
    <2>5. lck # Taken(Mine(t))
      BY <1>1, <1>3, <1>6 DEF LockOf
    <2> QED
      BY <1>1, <1>2, <1>4, <2>2, <2>3, <2>4, <2>5, HoldingStep
  <1> QED
    BY <1>5, <1>6

\* with_lock goes around its loop.
LEMMA ReloadStep ==
  ASSUME IInv, NEW t \in Thread, Reload(t) PROVE IInv'
  <1>1. /\ pc[t] = "reload" /\ UNCHANGED <<lck, desc, free, retired>>
        /\ Go(t, IF Locked(lck) THEN "still?" ELSE "cas", [current |-> lck, d |-> lck.d])
    BY DEF Reload, At, Other
  <1>2. Holds(t) /\ ~HasPut(t)
    BY <1>1 DEF Holds, Holding, HasPut, OwnRun, Running
  <1>3. Shapes /\ LocalsOf(t) /\ Mine(t) \in Slot /\ {"current", "mine"} \subseteq DOMAIN loc[t]
    BY <1>2, Known
  <1>4. MarksKept
    BY <1>1, <1>3, Marks
  <1>5. /\ OthersStay(t) /\ pc'[t] = (IF Locked(lck) THEN "still?" ELSE "cas")
        /\ {"current", "mine", "d"} \subseteq DOMAIN loc'[t]
        /\ My(t)'.current = lck /\ My(t)'.d = lck.d /\ Mine(t)' = Mine(t)
    <2> DEFINE r == [current |-> lck, d |-> lck.d]
               l == IF Locked(lck) THEN "still?" ELSE "cas"
    <2>1. DOMAIN r = {"current", "d"} /\ r["current"] = lck /\ r["d"] = lck.d
      OBVIOUS
    <2> HIDE DEF r, l
    <2>2. Go(t, l, r)
      BY <1>1 DEF r, l
    <2>3. /\ OthersStay(t) /\ pc'[t] = l /\ {"current", "mine", "d"} \subseteq DOMAIN loc'[t]
          /\ My(t)'.current = lck /\ My(t)'.d = lck.d /\ Mine(t)' = Mine(t)
      BY <1>3, <2>1, <2>2, GoDoes DEF OthersStay, My, Mine
    <2> QED
      BY <2>3 DEF l
  <1>6. Holds(t)' /\ pc'[t] \notin Helping /\ pc'[t] \notin Running /\ pc'[t] \in Points
    BY <1>5 DEF Holds, Holding, Helping, Running, Points
  <1>7. pc'[t] = "still?" => lck.d \in Slot /\ lck = Taken(lck.d)
    BY <1>3, <1>5 DEF Shapes
  <1>8. LocalsOf(t)' /\ LockOf(t)'
    <2>1. pc'[t] \notin {"allocate", "done?"}
      BY <1>5
    <2> QED
      BY <1>5, <1>6, <1>7, <2>1 DEF LocalsOf, LockOf
  <1> QED
    BY <1>1, <1>2, <1>4, <1>5, <1>6, <1>8, HoldingStep

-----------------------------------------------------------------------------
(* Helping.                                                                *)

\* The steps of help_descriptor up to the last test of the lock.
LEMMA HelpSteps ==
  ASSUME IInv, NEW t \in Thread, HelpStill(t) \/ HelpAcquireTest(t) \/ HelpAcquire(t) PROVE IInv'
  <1>1. /\ pc[t] \in {"still?", "acquire?", "acquire"} /\ UNCHANGED <<lck, free, retired>>
        /\ desc' = desc \/ desc' = [desc EXCEPT ![My(t).d].acquired = TRUE]
    BY DEF HelpStill, HelpAcquireTest, HelpAcquire, At, Other
  <1>2. Holds(t) /\ ~HasPut(t)
    BY <1>1 DEF Holds, Holding, Helping, HasPut, OwnRun, Running
  <1>3. /\ Shapes /\ LocalsOf(t) /\ LockOf(t) /\ Mine(t) \in Slot /\ {"current", "mine"} \subseteq DOMAIN loc[t]
        /\ "d" \in DOMAIN loc[t] /\ My(t).d \in Slot /\ My(t).current = Taken(My(t).d)
    <2>1. Shapes /\ LocalsOf(t) /\ LockOf(t) /\ Mine(t) \in Slot /\ {"current", "mine"} \subseteq DOMAIN loc[t]
      BY <1>2, Known
    <2> QED
      BY <1>1, <2>1 DEF LocalsOf, Helping
  <1>4. MarksKept
    BY <1>1, <1>3, Marks
  <1>5. /\ OthersStay(t) /\ pc'[t] \in {"acquire?", "acquire", "still now?", "retire", "reload"} /\ loc' = loc
        /\ My(t)' = My(t)
    <2>1. \E l \in {"acquire?", "acquire", "still now?", "retire", "reload"} : Jump(t, l)
      BY DEF HelpStill, HelpAcquireTest, HelpAcquire, AfterHelp
    <2> QED
      BY <1>3, <2>1, JumpDoes
  <1>6. Holds(t)' /\ pc'[t] \notin Running /\ pc'[t] \in Points
    BY <1>5 DEF Holds, Holding, Helping, Running, Points
  <1>7. pc'[t] \in Helping => My(t).d # Mine(t)
    <2>1. CASE HelpStill(t)
      <3>1. SUFFICES ASSUME pc'[t] \in Helping, My(t).d = Mine(t) PROVE FALSE
        OBVIOUS
      <3>2. lck = My(t).current
        <4>1. Jump(t, IF lck = My(t).current THEN "acquire?" ELSE AfterHelp(t)) /\ AfterHelp(t) \in {"retire", "reload"}
          BY <2>1 DEF HelpStill, AfterHelp
        <4>2. pc'[t] = IF lck = My(t).current THEN "acquire?" ELSE AfterHelp(t)
          BY <1>3, <4>1, JumpDoes
        <4> QED
          BY <3>1, <4>1, <4>2 DEF Helping
      <3>3. lck = Taken(Mine(t))
        BY <1>3, <3>1, <3>2
      <3> QED
        BY <1>2, <3>3, LockHolder
    <2>2. CASE HelpAcquireTest(t) \/ HelpAcquire(t)
      <3>1. pc[t] \in Helping
        BY <2>2 DEF HelpAcquireTest, HelpAcquire, At, Helping
      <3> QED
        BY <1>3, <3>1 DEF LockOf
    <2> QED
      BY <2>1, <2>2
  <1>8. LocalsOf(t)' /\ LockOf(t)' /\ Mine(t)' = Mine(t)
    <2>1. pc'[t] \notin {"allocate", "done?"} /\ Mine(t)' = Mine(t)
      BY <1>5 DEF Mine
    <2> QED
      BY <1>3, <1>5, <1>6, <1>7, <2>1 DEF LocalsOf, LockOf
  <1>9. pc'[t] = "still now?" => desc'[My(t).d].acquired
    <2>1. CASE HelpStill(t)
      <3>1. \E l \in {"acquire?", "retire", "reload"} : Jump(t, l)
        BY <2>1 DEF HelpStill, AfterHelp
      <3> QED
        BY <1>3, <3>1, JumpDoes
    <2>2. CASE HelpAcquireTest(t)
      <3>1. Jump(t, IF D(t).acquired THEN "still now?" ELSE "acquire") /\ desc' = desc
        BY <2>2 DEF HelpAcquireTest
      <3>2. pc'[t] = IF D(t).acquired THEN "still now?" ELSE "acquire"
        BY <1>3, <3>1, JumpDoes
      <3> QED
        BY <3>1, <3>2 DEF D
    <2>3. CASE HelpAcquire(t)
      <3>1. desc' = [desc EXCEPT ![My(t).d].acquired = TRUE]
        BY <2>3 DEF HelpAcquire
      <3> QED
        BY <1>3, <3>1 DEF Shapes
    <2> QED
      BY <2>1, <2>2, <2>3
  <1> QED
    BY <1>1, <1>2, <1>4, <1>5, <1>6, <1>8, <1>9, HoldingStep

\* The last test: if the descriptor is in the lock now, its owner has yet to retire it, and
\* will find the mark.
LEMMA StillNowStep ==
  ASSUME IInv, NEW t \in Thread, HelpStillNow(t) PROVE IInv'
  <1>1. pc[t] = "still now?" /\ UNCHANGED <<lck, desc, free, retired>>
    BY DEF HelpStillNow, At, Other
  <1>2. Holds(t) /\ ~HasPut(t)
    BY <1>1 DEF Holds, Holding, Helping, HasPut, OwnRun, Running
  <1>3. /\ Shapes /\ LocalsOf(t) /\ LockOf(t) /\ Mine(t) \in Slot /\ {"current", "mine"} \subseteq DOMAIN loc[t]
        /\ "d" \in DOMAIN loc[t] /\ My(t).d \in Slot /\ My(t).current = Taken(My(t).d) /\ My(t).d # Mine(t)
        /\ desc[My(t).d].acquired \/ Waits(t, My(t).d)
    <2>1. /\ Shapes /\ LocalsOf(t) /\ LockOf(t) /\ SparedOf(t) /\ Mine(t) \in Slot
          /\ {"current", "mine"} \subseteq DOMAIN loc[t]
      BY <1>2, Known
    <2>2. "d" \in DOMAIN loc[t] /\ My(t).d \in Slot /\ My(t).current = Taken(My(t).d)
      BY <1>1, <2>1 DEF LocalsOf, Helping
    <2> QED
      BY <1>1, <2>1, <2>2 DEF LockOf, SparedOf, Helping
  <1>4. MarksKept
    BY <1>1, <1>3, Marks
  <1>5. CASE lck = My(t).current
    <2>1. Go(t, "run", [after |-> AfterHelp(t)]) /\ AfterHelp(t) \in {"retire", "reload"}
      BY <1>5 DEF HelpStillNow, AfterHelp
    <2>2. /\ OthersStay(t) /\ pc'[t] = "run" /\ {"current", "mine", "d", "after"} \subseteq DOMAIN loc'[t]
          /\ My(t)'.d = My(t).d /\ My(t)'.after \in {"retire", "reload"} /\ Mine(t)' = Mine(t)
      <3> DEFINE r == [after |-> AfterHelp(t)]
      <3>1. DOMAIN r = {"after"} /\ r["after"] = AfterHelp(t)
        OBVIOUS
      <3> HIDE DEF r
      <3>2. Go(t, "run", r)
        BY <2>1 DEF r
      <3> QED
        BY <1>3, <2>1, <3>1, <3>2, GoDoes DEF OthersStay, My, Mine
    <2>3. Holds(t)' /\ pc'[t] \notin Helping \cup {"still?"} /\ pc'[t] \in Running /\ pc'[t] \in Points
      BY <2>2 DEF Holds, Holding, Helping, Running, Points
    <2>4. LocalsOf(t)' /\ LockOf(t)'
      BY <1>3, <2>2, <2>3 DEF LocalsOf, LockOf
    <2>5. \E u \in Thread : Holds(u) /\ Mine(u) = My(t).d
      <3>1. lck.d = My(t).d /\ Locked(lck)
        BY <1>3, <1>5, FlockAssumption DEF Taken, Locked
      <3>2. PICK u \in Thread : HasPut(u) /\ Mine(u) = lck.d
        BY <3>1 DEF IInv, LockOwned
      <3>3. Holds(u)
        BY <3>2 DEF HasPut, OwnRun, Holds, Holding
      <3> QED
        BY <3>1, <3>2, <3>3
    <2> QED
      BY <1>1, <1>2, <1>3, <1>4, <2>2, <2>3, <2>4, <2>5, HoldingStep
  <1>6. CASE lck # My(t).current
    <2>1. Jump(t, AfterHelp(t)) /\ AfterHelp(t) \in {"retire", "reload"}
      BY <1>6 DEF HelpStillNow, AfterHelp
    <2>2. OthersStay(t) /\ pc'[t] \in {"retire", "reload"} /\ loc' = loc /\ My(t)' = My(t)
      BY <1>3, <2>1, JumpDoes
    <2>3. Holds(t)' /\ pc'[t] \notin Helping /\ pc'[t] \notin Running /\ pc'[t] \in Points
      BY <2>2 DEF Holds, Holding, Helping, Running, Points
    <2>4. LocalsOf(t)' /\ LockOf(t)' /\ Mine(t)' = Mine(t)
      BY <1>3, <2>2, <2>3 DEF LocalsOf, LockOf, Mine
    <2> QED
      BY <1>1, <1>2, <1>4, <2>2, <2>3, <2>4, HoldingStep
  <1> QED
    BY <1>5, <1>6

-----------------------------------------------------------------------------
(* The pool.                                                               *)

\* What a step has to respect that begins or ends with no descriptor of t's own: the parts
\* of the invariant that are not about t.
LEMMA PoolStep ==
  ASSUME IInv, NEW t \in Thread, OthersStay(t), UNCHANGED lck, ~(Holds(t) /\ lck = Taken(Mine(t))),
         Shapes', Apart', LocalsOf(t)', LockOf(t)', SparedOf(t)',
         \A u \in Thread \ {t} : SparedOf(u)'
  PROVE  IInv'
  <1>1. /\ Shapes /\ LockOwned /\ \A u \in Thread : LocalsOf(u) /\ LockOf(u)
    BY DEF IInv
  <1>2. \A u \in Thread \ {t} :
          /\ LocalsOf(u)' /\ Mine(u)' = Mine(u) /\ (OwnRun(u)' <=> OwnRun(u))
          /\ (HasPut(u)' <=> HasPut(u)) /\ My(u)' = My(u) /\ pc'[u] = pc[u]
    BY <1>1, LocalsStay DEF OthersStay
  <1>3. LockOwned'
    <2> SUFFICES ASSUME Locked(lck) PROVE \E u \in Thread : HasPut(u)' /\ Mine(u)' = lck.d
      BY DEF LockOwned, Locked
    <2>1. PICK u \in Thread : HasPut(u) /\ Mine(u) = lck.d
      BY <1>1 DEF LockOwned
    <2>2. Holds(u) /\ lck = Taken(lck.d)
      BY <1>1, <2>1 DEF HasPut, OwnRun, Holds, Holding, Shapes
    <2>3. u # t
      BY <2>1, <2>2
    <2> QED
      BY <1>2, <2>1, <2>3
  <1>4. \A u \in Thread \ {t} : LockOf(u)'
    BY <1>1, <1>2 DEF LockOf
  <1> QED
    BY <1>2, <1>3, <1>4 DEF IInv

\* Who has no descriptor of its own is of no use to a helper.
LEMMA SparedStay ==
  ASSUME IInv, NEW t \in Thread, OthersStay(t), MarksKept, UNCHANGED retired, ~Holds(t)
  PROVE  \A u \in Thread \ {t} : SparedOf(u)'
  <1>1. \A u \in Thread : LocalsOf(u) /\ SparedOf(u)
    BY DEF IInv
  <1>2. \A u \in Thread \ {t} :
          /\ (Holds(u)' <=> Holds(u)) /\ Mine(u)' = Mine(u) /\ (OwnRun(u)' <=> OwnRun(u))
          /\ My(u)' = My(u) /\ pc'[u] = pc[u]
    BY <1>1, LocalsStay DEF OthersStay
  <1>3. \A u \in Thread : \A d : Waits(u, d)' <=> Waits(u, d)
    BY DEF Waits
  <1> SUFFICES ASSUME NEW u \in Thread \ {t} PROVE SparedOf(u)'
    OBVIOUS
  <1>4. pc[u] \in {"still now?"} \cup Running => (desc[My(u).d].acquired => desc'[My(u).d].acquired)
    BY <1>1 DEF LocalsOf, Helping, MarksKept
  <1>5. ASSUME NEW v \in Thread, Holds(v) PROVE v # t /\ Holds(v)' /\ Mine(v)' = Mine(v)
    BY <1>2, <1>5
  <1> QED
    BY <1>1, <1>2, <1>3, <1>4, <1>5 DEF SparedOf

\* A call begins.
LEMMA CallStarts ==
  ASSUME IInv, NEW t \in Thread, Call(t) PROVE IInv'
  <1>1. /\ pc[t] = "idle" /\ UNCHANGED <<lck, desc, free, retired>>
        /\ \E op : Go(t, "allocate", [op |-> op, call |-> todo, current |-> lck])
    BY DEF Call, At
  <1>2. Shapes /\ Apart /\ ~Holds(t)
    BY <1>1 DEF IInv, Holds, Holding, Helping, Running
  <1>3. OthersStay(t) /\ pc'[t] = "allocate" /\ "current" \in DOMAIN loc'[t] /\ My(t)'.current = lck
    <2>1. PICK op : Go(t, "allocate", [op |-> op, call |-> todo, current |-> lck])
      BY <1>1
    <2> DEFINE r == [op |-> op, call |-> todo, current |-> lck]
    <2>2. DOMAIN r = {"op", "call", "current"} /\ r["current"] = lck
      OBVIOUS
    <2> HIDE DEF r
    <2>3. Go(t, "allocate", r)
      BY <2>1 DEF r
    <2> QED
      BY <1>2, <2>2, <2>3, GoDoes DEF OthersStay, My
  <1>4. ~Holds(t)' /\ pc'[t] \in Points /\ pc'[t] \notin {"still?", "still now?", "done?"} \cup Helping \cup Running
    BY <1>3 DEF Holds, Holding, Helping, Running, Points
  <1>5. MarksKept
    BY <1>1, <1>2 DEF MarksKept, Shapes
  <1>6. Shapes'
    BY <1>1, <1>2, <1>3 DEF Shapes, OthersStay, Locked, Taken
  <1>7. Apart'
    <2>1. \A u \in Thread : Holds(u)' => Holds(u) /\ Mine(u)' = Mine(u)
      <3>1. \A u \in Thread \ {t} : LocalsOf(u) /\ pc'[u] = pc[u] /\ loc'[u] = loc[u]
        BY <1>3 DEF IInv, OthersStay
      <3> QED
        BY <1>4, <3>1, LocalsStay
    <2> QED
      BY <1>1, <1>2, <2>1 DEF Apart
  <1>8. LocalsOf(t)'
    <2>1. Locked(My(t)'.current) => My(t)'.current.d \in Slot /\ My(t)'.current = Taken(My(t)'.current.d)
      BY <1>2, <1>3 DEF Shapes
    <2> QED
      BY <1>3, <1>4, <2>1 DEF LocalsOf, Locked, Taken
  <1>9. LockOf(t)' /\ SparedOf(t)'
    BY <1>4 DEF LockOf, SparedOf
  <1>10. \A u \in Thread \ {t} : SparedOf(u)'
    BY <1>1, <1>2, <1>3, <1>5, SparedStay
  <1> QED
    BY <1>1, <1>2, <1>3, <1>6, <1>7, <1>8, <1>9, <1>10, PoolStep

\* The pool hands out a descriptor; its mark is as the memory was.
LEMMA AllocateStep ==
  ASSUME IInv, NEW t \in Thread, Allocate(t) PROVE IInv'
  <1>1. pc[t] = "allocate" /\ UNCHANGED <<lck, retired>>
    BY DEF Allocate, At
  <1> DEFINE le == My(t).current
  <1>2. PICK d \in free :
          /\ free' = free \ {d}
          /\ desc' = [desc EXCEPT ![d] = [counter |-> le.count, done |-> FALSE, acquired |-> @.acquired,
                                     log |-> <<Null, Null, Null>>, call |-> My(t).call]]
          /\ Go(t, IF ~Locked(le) THEN "cas" ELSE "still?", [mine |-> d, d |-> le.d])
    BY DEF Allocate
  <1>3. /\ Shapes /\ Apart /\ ~Holds(t) /\ LocalsOf(t) /\ "current" \in DOMAIN loc[t]
        /\ Locked(le) => le.d \in Slot /\ le = Taken(le.d)
    <2>1. Shapes /\ Apart /\ LocalsOf(t) /\ ~Holds(t)
      BY <1>1 DEF IInv, Holds, Holding, Helping, Running
    <2> QED
      BY <1>1, <2>1 DEF LocalsOf
  <1> HIDE DEF le
  <1>4. d \in Slot
    BY <1>2, <1>3 DEF Apart
  <1>5. MarksKept
    <2> DEFINE new == [counter |-> le.count, done |-> FALSE, acquired |-> desc[d].acquired,
                       log |-> <<Null, Null, Null>>, call |-> My(t).call]
    <2>1. "acquired" \in DOMAIN new /\ new.acquired = desc[d].acquired
      OBVIOUS
    <2>2. desc' = [desc EXCEPT ![d] = new]
      BY <1>2
    <2> HIDE DEF new
    <2> QED
      BY <1>3, <1>4, <2>1, <2>2 DEF MarksKept, Shapes
  <1>6. /\ OthersStay(t) /\ pc'[t] = (IF ~Locked(le) THEN "cas" ELSE "still?")
        /\ {"current", "mine", "d"} \subseteq DOMAIN loc'[t]
        /\ My(t)'.current = le /\ Mine(t)' = d /\ My(t)'.d = le.d
    <2> DEFINE r == [mine |-> d, d |-> le.d]
               l == IF ~Locked(le) THEN "cas" ELSE "still?"
    <2>1. DOMAIN r = {"mine", "d"} /\ r["mine"] = d /\ r["d"] = le.d
      OBVIOUS
    <2> HIDE DEF r, l
    <2>2. Go(t, l, r)
      BY <1>2 DEF r, l
    <2>3. /\ OthersStay(t) /\ pc'[t] = l /\ {"current", "mine", "d"} \subseteq DOMAIN loc'[t]
          /\ My(t)'.current = My(t).current /\ Mine(t)' = d /\ My(t)'.d = le.d
      BY <1>3, <2>1, <2>2, GoDoes DEF OthersStay, My, Mine
    <2> QED
      BY <2>3 DEF l, le
  <1>7. Holds(t)' /\ pc'[t] \in Points /\ pc'[t] \notin {"allocate", "still now?", "done?"} \cup Helping \cup Running
    BY <1>6 DEF Holds, Holding, Helping, Running, Points
  <1>8. Shapes'
    BY <1>1, <1>3, <1>5, <1>6 DEF Shapes, OthersStay, MarksKept, Locked, Taken
  <1>9. Apart'
    <2>1. \A u \in Thread \ {t} : (Holds(u)' <=> Holds(u)) /\ Mine(u)' = Mine(u)
      <3>1. \A u \in Thread \ {t} : LocalsOf(u) /\ pc'[u] = pc[u] /\ loc'[u] = loc[u]
        BY <1>6 DEF IInv, OthersStay
      <3> QED
        BY <3>1, LocalsStay
    <2>2. \A u \in Thread \ {t} : Holds(u)' => Mine(u)' # d
      BY <1>2, <1>3, <2>1 DEF Apart
    <2>3. \A r \in retired : r[1] # d
      BY <1>2, <1>3 DEF Apart
    <2>4. free' \subseteq Slot /\ \A r \in retired' : r[1] \in Slot /\ r[1] \notin free'
      BY <1>1, <1>2, <1>3 DEF Apart
    <2>5. \A r, q \in retired' : r[1] = q[1] => r = q
      BY <1>1, <1>3 DEF Apart
    <2>6. ASSUME NEW u \in Thread, Holds(u)'
          PROVE  /\ Mine(u)' \in Slot /\ Mine(u)' \notin free' /\ \A r \in retired' : r[1] # Mine(u)'
                 /\ \A v \in Thread : Holds(v)' /\ Mine(v)' = Mine(u)' => v = u
      <3>1. CASE u = t
        BY <1>1, <1>2, <1>4, <1>6, <2>2, <2>3, <3>1
      <3>2. CASE u # t
        <4>1. Holds(u) /\ Mine(u)' = Mine(u)
          BY <2>1, <2>6, <3>2
        <4>2. Mine(u) \in Slot /\ Mine(u) \notin free' /\ \A r \in retired' : r[1] # Mine(u)
          BY <1>1, <1>2, <1>3, <4>1 DEF Apart
        <4>3. \A v \in Thread \ {t} : Holds(v)' /\ Mine(v)' = Mine(u)' => v = u
          BY <1>3, <2>1, <4>1 DEF Apart
        <4>4. Mine(t)' # Mine(u)'
          BY <1>6, <2>2, <2>6, <3>2
        <4> QED
          BY <4>1, <4>2, <4>3, <4>4
      <3> QED
        BY <3>1, <3>2
    <2> QED
      BY <2>4, <2>5, <2>6 DEF Apart
  <1>10. LocalsOf(t)'
    <2>1. pc'[t] = "still?" => Locked(le)
      BY <1>6
    <2> QED
      BY <1>3, <1>6, <1>7, <2>1 DEF LocalsOf, Taken
  <1>11. LockOf(t)' /\ SparedOf(t)'
    BY <1>7 DEF LockOf, SparedOf
  <1>12. \A u \in Thread \ {t} : SparedOf(u)'
    BY <1>1, <1>3, <1>5, <1>6, SparedStay
  <1> QED
    BY <1>1, <1>3, <1>6, <1>8, <1>9, <1>10, <1>11, <1>12, PoolStep

\* retire, the test of the mark: a descriptor that nobody marked goes back at once.
LEMMA RetireTestStep ==
  ASSUME IInv, NEW t \in Thread, RetireTest(t) PROVE IInv'
  <1>1. pc[t] = "retire" /\ UNCHANGED <<lck, desc, retired>>
    BY DEF RetireTest, At
  <1>2. Holds(t) /\ ~HasPut(t)
    BY <1>1 DEF Holds, Holding, HasPut, OwnRun, Running
  <1>3. Shapes /\ Apart /\ LocalsOf(t) /\ Mine(t) \in Slot /\ {"current", "mine"} \subseteq DOMAIN loc[t]
    BY <1>2, Known DEF IInv
  <1>4. MarksKept
    BY <1>1, <1>3, Marks
  <1>5. CASE desc[Mine(t)].acquired
    <2>1. Jump(t, "retire later") /\ UNCHANGED free
      BY <1>5 DEF RetireTest, Mine
    <2>2. OthersStay(t) /\ pc'[t] = "retire later" /\ loc' = loc /\ My(t)' = My(t)
      BY <1>3, <2>1, JumpDoes
    <2>3. Holds(t)' /\ pc'[t] \notin Helping /\ pc'[t] \notin Running /\ pc'[t] \in Points
      BY <2>2 DEF Holds, Holding, Helping, Running, Points
    <2>4. LocalsOf(t)' /\ LockOf(t)' /\ Mine(t)' = Mine(t)
      BY <1>3, <2>2, <2>3 DEF LocalsOf, LockOf, Mine
    <2> QED
      BY <1>1, <1>2, <1>4, <2>1, <2>2, <2>3, <2>4, HoldingStep
  <1>6. CASE ~desc[Mine(t)].acquired
    <2>1. Jump(t, "return") /\ free' = free \cup {Mine(t)}
      BY <1>6 DEF RetireTest, Mine
    <2>2. OthersStay(t) /\ pc'[t] = "return" /\ loc' = loc /\ My(t)' = My(t)
      BY <1>3, <2>1, JumpDoes
    <2>3. ~Holds(t)' /\ pc'[t] \in Points /\ pc'[t] \notin {"allocate", "still?", "still now?", "done?"} \cup Helping \cup Running
      BY <2>2 DEF Holds, Holding, Helping, Running, Points
    <2>4. \A u \in Thread \ {t} :
            /\ (Holds(u)' <=> Holds(u)) /\ Mine(u)' = Mine(u) /\ (OwnRun(u)' <=> OwnRun(u))
            /\ My(u)' = My(u) /\ pc'[u] = pc[u]
      <3>1. \A u \in Thread \ {t} : LocalsOf(u) /\ pc'[u] = pc[u] /\ loc'[u] = loc[u]
        BY <2>2 DEF IInv, OthersStay
      <3> QED
        BY <3>1, LocalsStay
    <2>5. Shapes'
      BY <1>1, <1>3, <2>2 DEF Shapes, OthersStay, Locked, Taken
    <2>6. Apart'
      <3>1. \A u \in Thread \ {t} : Holds(u) => Mine(u) # Mine(t)
        BY <1>2, <1>3 DEF Apart
      <3>2. \A r \in retired : r[1] # Mine(t)
        BY <1>2, <1>3 DEF Apart
      <3>3. free' \subseteq Slot /\ \A r \in retired' : r[1] \in Slot /\ r[1] \notin free'
        BY <1>1, <1>3, <2>1, <3>2 DEF Apart
      <3>4. \A r, q \in retired' : r[1] = q[1] => r = q
        BY <1>1, <1>3 DEF Apart
      <3>5. ASSUME NEW u \in Thread, Holds(u)'
            PROVE  /\ Mine(u)' \in Slot /\ Mine(u)' \notin free' /\ \A r \in retired' : r[1] # Mine(u)'
                   /\ \A v \in Thread : Holds(v)' /\ Mine(v)' = Mine(u)' => v = u
        <4>1. u # t /\ Holds(u) /\ Mine(u)' = Mine(u) /\ Mine(u) # Mine(t)
          BY <2>3, <2>4, <3>1, <3>5
        <4>2. Mine(u) \in Slot /\ Mine(u) \notin free' /\ \A r \in retired' : r[1] # Mine(u)
          BY <1>1, <1>3, <2>1, <4>1 DEF Apart
        <4>3. \A v \in Thread : Holds(v)' /\ Mine(v)' = Mine(u) => v = u
          BY <1>3, <2>3, <2>4, <4>1 DEF Apart
        <4> QED
          BY <4>1, <4>2, <4>3
      <3> QED
        BY <3>3, <3>4, <3>5 DEF Apart
    <2>7. LocalsOf(t)' /\ LockOf(t)' /\ SparedOf(t)'
      BY <2>3 DEF LocalsOf, LockOf, SparedOf
    <2>8. \A u, d : Waits(u, d)' <=> Waits(u, d)
      BY <1>1 DEF Waits
    <2>9. ASSUME NEW u \in Thread \ {t} PROVE SparedOf(u)'
      <3>1. SparedOf(u) /\ desc' = desc
        BY <1>1 DEF IInv
      <3>2. ASSUME NEW v \in Thread, Holds(v), Mine(v) = My(u).d, desc[My(u).d].acquired
            PROVE  Holds(v)' /\ Mine(v)' = My(u).d
        BY <1>6, <2>4, <3>2
      <3> QED
        BY <2>4, <2>8, <3>1, <3>2 DEF SparedOf
    <2>10. ~(Holds(t) /\ lck = Taken(Mine(t)))
      BY <1>2, LockHolder
    <2> QED
      BY <1>1, <2>2, <2>5, <2>6, <2>7, <2>9, <2>10, PoolStep
  <1> QED
    BY <1>5, <1>6

\* retire, a marked descriptor: it waits for everyone who is inside with_epoch.
LEMMA RetireLaterStep ==
  ASSUME IInv, NEW t \in Thread, RetireLater(t) PROVE IInv'
  <1> DEFINE entry == <<Mine(t), {u \in Thread : pc[u] # "idle"}>>
  <1>1. /\ pc[t] = "retire later" /\ UNCHANGED <<lck, free>> /\ Jump(t, "return")
        /\ desc' = [desc EXCEPT ![Mine(t)].acquired = FALSE] /\ retired' = retired \cup {entry}
    BY DEF RetireLater, At, Mine
  <1>2. Holds(t) /\ ~HasPut(t)
    BY <1>1 DEF Holds, Holding, HasPut, OwnRun, Running
  <1>3. Shapes /\ Apart /\ LocalsOf(t) /\ Mine(t) \in Slot
    BY <1>2, Known DEF IInv
  <1>4. OthersStay(t) /\ pc'[t] = "return" /\ loc' = loc /\ My(t)' = My(t)
    BY <1>1, <1>3, JumpDoes
  <1>5. ~Holds(t)' /\ pc'[t] \in Points /\ pc'[t] \notin {"allocate", "still?", "still now?", "done?"} \cup Helping \cup Running
    BY <1>4 DEF Holds, Holding, Helping, Running, Points
  <1>6. \A u \in Thread \ {t} :
          /\ (Holds(u)' <=> Holds(u)) /\ Mine(u)' = Mine(u) /\ (OwnRun(u)' <=> OwnRun(u))
          /\ My(u)' = My(u) /\ pc'[u] = pc[u]
    <2>1. \A u \in Thread \ {t} : LocalsOf(u) /\ pc'[u] = pc[u] /\ loc'[u] = loc[u]
      BY <1>4 DEF IInv, OthersStay
    <2> QED
      BY <2>1, LocalsStay
  <1>7. /\ DOMAIN desc' = Slot /\ \A d \in Slot : "acquired" \in DOMAIN desc'[d]
        /\ \A d \in Slot : d # Mine(t) => desc'[d] = desc[d]
    BY <1>1, <1>3 DEF Shapes
  <1>8. Shapes'
    BY <1>1, <1>3, <1>4, <1>7 DEF Shapes, OthersStay, Locked, Taken
  <1>9. entry[1] = Mine(t) /\ entry[2] = {u \in Thread : pc[u] # "idle"}
    OBVIOUS
  <1> HIDE DEF entry
  <1>10. Apart'
    <2>1. \A u \in Thread \ {t} : Holds(u) => Mine(u) # Mine(t)
      BY <1>2, <1>3 DEF Apart
    <2>2. Mine(t) \notin free /\ \A r \in retired : r[1] # Mine(t)
      BY <1>2, <1>3 DEF Apart
    <2>3. free' \subseteq Slot /\ \A r \in retired' : r[1] \in Slot /\ r[1] \notin free'
      BY <1>1, <1>3, <1>9, <2>2 DEF Apart
    <2>4. \A r, q \in retired' : r[1] = q[1] => r = q
      BY <1>1, <1>3, <1>9, <2>2 DEF Apart
    <2>5. ASSUME NEW u \in Thread, Holds(u)'
          PROVE  /\ Mine(u)' \in Slot /\ Mine(u)' \notin free' /\ \A r \in retired' : r[1] # Mine(u)'
                 /\ \A v \in Thread : Holds(v)' /\ Mine(v)' = Mine(u)' => v = u
      <3>1. u # t /\ Holds(u) /\ Mine(u)' = Mine(u) /\ Mine(u) # Mine(t)
        BY <1>5, <1>6, <2>1, <2>5
      <3>2. Mine(u) \in Slot /\ Mine(u) \notin free' /\ \A r \in retired' : r[1] # Mine(u)
        BY <1>1, <1>3, <1>9, <3>1 DEF Apart
      <3>3. \A v \in Thread : Holds(v)' /\ Mine(v)' = Mine(u) => v = u
        BY <1>3, <1>5, <1>6, <3>1 DEF Apart
      <3> QED
        BY <3>1, <3>2, <3>3
    <2> QED
      BY <2>3, <2>4, <2>5 DEF Apart
  <1>11. LocalsOf(t)' /\ LockOf(t)' /\ SparedOf(t)'
    BY <1>5 DEF LocalsOf, LockOf, SparedOf
  <1>12. ASSUME NEW u \in Thread \ {t} PROVE SparedOf(u)'
    <2>1. SparedOf(u) /\ LocalsOf(u)
      BY DEF IInv
    <2>2. \A d : Waits(u, d) => Waits(u, d)'
      BY <1>1 DEF Waits
    <2>3. \A d : pc[u] # "idle" /\ d = Mine(t) => Waits(u, d)'
      <3>1. entry \in retired' /\ (pc[u] # "idle" => u \in entry[2])
        BY <1>1, <1>9
      <3> QED
        BY <1>9, <3>1 DEF Waits
    <2>4. pc[u] \in {"still now?"} \cup Running => pc[u] # "idle" /\ My(u).d \in Slot
      BY <2>1 DEF LocalsOf, Helping, Running
    <2>5. CASE My(u).d = Mine(t)
      BY <1>6, <2>3, <2>4, <2>5 DEF SparedOf
    <2>6. CASE My(u).d # Mine(t)
      <3>1. ASSUME NEW v \in Thread, Holds(v), Mine(v) = My(u).d PROVE Holds(v)' /\ Mine(v)' = My(u).d
        BY <1>6, <2>6, <3>1
      <3>2. pc[u] \in {"still now?"} \cup Running => desc'[My(u).d] = desc[My(u).d]
        BY <1>7, <2>4, <2>6
      <3> QED
        BY <1>6, <2>1, <2>2, <3>1, <3>2 DEF SparedOf
    <2> QED
      BY <2>5, <2>6
  <1>13. ~(Holds(t) /\ lck = Taken(Mine(t)))
    BY <1>2, LockHolder
  <1> QED
    BY <1>1, <1>4, <1>8, <1>10, <1>11, <1>12, <1>13, PoolStep

\* Leaving with_epoch frees what waited for t alone; who else is waited for is so still.
LEMMA ReturnStep ==
  ASSUME IInv, NEW t \in Thread, Return(t) PROVE IInv'
  <1> DEFINE left == {<<r[1], r[2] \ {t}>> : r \in retired}
  <1>1. /\ pc[t] = "return" /\ UNCHANGED <<lck, desc>>
        /\ pc' = [pc EXCEPT ![t] = "idle"] /\ loc' = [loc EXCEPT ![t] = <<>>]
        /\ retired' = {r \in left : r[2] # {}}
        /\ free' = free \cup {r[1] : r \in {q \in left : q[2] = {}}}
    BY DEF Return, At
  <1>2. Shapes /\ Apart /\ ~Holds(t)
    BY <1>1 DEF IInv, Holds, Holding, Helping, Running
  <1>3. OthersStay(t) /\ pc'[t] = "idle"
    BY <1>1, <1>2 DEF OthersStay, Shapes
  <1>4. ~Holds(t)' /\ pc'[t] \in Points /\ pc'[t] \notin {"allocate", "still?", "still now?", "done?"} \cup Helping \cup Running
    BY <1>3 DEF Holds, Holding, Helping, Running, Points
  <1>5. \A u \in Thread \ {t} :
          /\ (Holds(u)' <=> Holds(u)) /\ Mine(u)' = Mine(u) /\ (OwnRun(u)' <=> OwnRun(u))
          /\ My(u)' = My(u) /\ pc'[u] = pc[u]
    <2>1. \A u \in Thread \ {t} : LocalsOf(u) /\ pc'[u] = pc[u] /\ loc'[u] = loc[u]
      BY <1>3 DEF IInv, OthersStay
    <2> QED
      BY <2>1, LocalsStay
  <1>6. \A l \in left : \E r \in retired : l = <<r[1], r[2] \ {t}>> /\ l[1] = r[1] /\ l[2] = r[2] \ {t}
    OBVIOUS
  <1>7. \A r \in retired : \E l \in left : l[1] = r[1] /\ l[2] = r[2] \ {t}
    <2> SUFFICES ASSUME NEW r \in retired PROVE \E l \in left : l[1] = r[1] /\ l[2] = r[2] \ {t}
      OBVIOUS
    <2>1. <<r[1], r[2] \ {t}>> \in left
      OBVIOUS
    <2>2. <<r[1], r[2] \ {t}>>[1] = r[1] /\ <<r[1], r[2] \ {t}>>[2] = r[2] \ {t}
      OBVIOUS
    <2> HIDE DEF left
    <2> QED
      BY <2>1, <2>2
  <1>8. \A l, k \in left : l[1] = k[1] => l = k
    <2> HIDE DEF left
    <2> SUFFICES ASSUME NEW l \in left, NEW k \in left, l[1] = k[1] PROVE l = k
      OBVIOUS
    <2>1. PICK r \in retired : l = <<r[1], r[2] \ {t}>> /\ l[1] = r[1]
      BY <1>6
    <2>2. PICK q \in retired : k = <<q[1], q[2] \ {t}>> /\ k[1] = q[1]
      BY <1>6
    <2>3. r = q
      BY <1>2, <2>1, <2>2 DEF Apart
    <2> QED
      BY <2>1, <2>2, <2>3
  <1>9. \A l \in left : l[1] \in Slot /\ l[1] \notin free /\ \A u \in Thread : Holds(u) => Mine(u) # l[1]
    <2> HIDE DEF left
    <2> QED
      BY <1>2, <1>6 DEF Apart
  <1> HIDE DEF left
  <1>10. Shapes'
    BY <1>1, <1>2, <1>3 DEF Shapes, OthersStay, Locked, Taken
  <1>11. Apart'
    <2>1. free' \subseteq Slot
      BY <1>1, <1>2, <1>9 DEF Apart
    <2>2. \A r \in retired' : r[1] \in Slot /\ r[1] \notin free'
      BY <1>1, <1>8, <1>9
    <2>3. \A r, q \in retired' : r[1] = q[1] => r = q
      BY <1>1, <1>8
    <2>4. ASSUME NEW u \in Thread, Holds(u)'
          PROVE  /\ Mine(u)' \in Slot /\ Mine(u)' \notin free' /\ \A r \in retired' : r[1] # Mine(u)'
                 /\ \A v \in Thread : Holds(v)' /\ Mine(v)' = Mine(u)' => v = u
      <3>1. u # t /\ Holds(u) /\ Mine(u)' = Mine(u)
        BY <1>4, <1>5, <2>4
      <3>2. Mine(u) \in Slot /\ Mine(u) \notin free
        BY <1>2, <3>1 DEF Apart
      <3>3. Mine(u) \notin free' /\ \A r \in retired' : r[1] # Mine(u)
        BY <1>1, <1>9, <3>1, <3>2
      <3>4. \A v \in Thread : Holds(v)' /\ Mine(v)' = Mine(u) => v = u
        BY <1>2, <1>4, <1>5, <3>1 DEF Apart
      <3> QED
        BY <3>1, <3>2, <3>3, <3>4
    <2> QED
      BY <2>1, <2>2, <2>3, <2>4 DEF Apart
  <1>12. LocalsOf(t)' /\ LockOf(t)' /\ SparedOf(t)'
    BY <1>4 DEF LocalsOf, LockOf, SparedOf
  <1>13. ASSUME NEW u \in Thread \ {t} PROVE SparedOf(u)'
    <2>1. SparedOf(u)
      BY DEF IInv
    <2>2. \A d : Waits(u, d) => Waits(u, d)'
      <3> SUFFICES ASSUME NEW d, Waits(u, d) PROVE Waits(u, d)'
        OBVIOUS
      <3>1. PICK r \in retired : r[1] = d /\ u \in r[2]
        BY DEF Waits
      <3>2. PICK l \in left : l[1] = d /\ l[2] = r[2] \ {t}
        BY <1>7, <3>1
      <3>3. l \in retired' /\ u \in l[2]
        BY <1>1, <3>1, <3>2
      <3> QED
        BY <3>2, <3>3 DEF Waits
    <2>3. ASSUME NEW v \in Thread, Holds(v) PROVE Holds(v)' /\ Mine(v)' = Mine(v)
      BY <1>2, <1>5, <2>3
    <2> QED
      BY <1>1, <1>5, <2>1, <2>2, <2>3 DEF SparedOf
  <1> QED
    BY <1>1, <1>2, <1>3, <1>10, <1>11, <1>12, <1>13, PoolStep

-----------------------------------------------------------------------------
(* The theorems.                                                           *)

\* At the start all descriptors are in the pool and the lock is free.
LEMMA Begins == Init => IInv
  <1> SUFFICES ASSUME Init PROVE IInv
    OBVIOUS
  <1>1. \A t \in Thread : pc[t] = "idle"
    BY DEF Init
  <1>2. \A t \in Thread : ~Holds(t) /\ pc[t] \in Points
                          /\ pc[t] \notin {"allocate", "still?", "still now?", "done?"} \cup Helping \cup Running
    BY <1>1 DEF Holds, Holding, Helping, Running, Points
  <1>3. Shapes
    <2>1. DOMAIN pc = Thread /\ DOMAIN loc = Thread /\ DOMAIN desc = Slot /\ lck = Count(0)
      BY DEF Init
    <2>2. \A d \in Slot : "acquired" \in DOMAIN desc[d]
      BY DEF Init
    <2>3. ~Locked(lck)
      BY <2>1 DEF Count, Locked
    <2> QED
      BY <2>1, <2>2, <2>3 DEF Shapes
  <1>4. Apart /\ LockOwned
    BY <1>2 DEF Apart, LockOwned, Init, Locked, Count
  <1>5. \A t \in Thread : LocalsOf(t) /\ LockOf(t) /\ SparedOf(t)
    BY <1>2 DEF LocalsOf, LockOf, SparedOf
  <1> QED
    BY <1>3, <1>4, <1>5 DEF IInv

\* Every step of a call keeps the invariant.
LEMMA Continues == IInv /\ [Next]_vars => IInv'
  <1> SUFFICES ASSUME IInv, [Next]_vars PROVE IInv'
    OBVIOUS
  <1>1. CASE Next
    <2>1. PICK t \in Thread : Call(t) \/ Step(t)
      BY <1>1 DEF Next
    <2>2. CASE Call(t)
      BY <2>2, CallStarts
    <2>3. CASE RunStep(t)
      BY <2>3, SectionSteps, ClearStep
    <2>4. CASE CallStep(t)
      BY <2>4, AllocateStep, CasStep, RereadStep, TryTakenStep, ReloadStep, HelpSteps, StillNowStep,
         RetireTestStep, RetireLaterStep, ReturnStep DEF CallStep
    <2> QED
      BY <2>1, <2>2, <2>3, <2>4 DEF Step
  <1>2. CASE UNCHANGED vars
    BY <1>2 DEF vars, IInv, Shapes, Apart, LockOwned, LocalsOf, LockOf, SparedOf, Holds, Mine, My, HasPut, OwnRun, Waits
  <1> QED
    BY <1>1, <1>2

\* The pool, the lock and the helpers agree on whose each descriptor is, however many threads
\* take the lock, help and give up.
THEOREM Invariance == Spec => []IInv
  BY Begins, Continues, PTL DEF Spec

\* Nobody runs a section whose descriptor is back in the pool: not its owner, and no helper
\* however late (help_descriptor, lf_lock.h; retire, acquired_pool.h).
THEOREM HelpersRunLive == Spec => []RunsLiveDescriptor
  <1>1. IInv => RunsLiveDescriptor
    <2> SUFFICES ASSUME IInv, NEW t \in Thread, pc[t] \in Running PROVE My(t).d \notin free
      BY DEF RunsLiveDescriptor
    <2>1. Apart /\ SparedOf(t)
      BY DEF IInv
    <2>2. CASE OwnRun(t)
      <3>1. Holds(t) /\ My(t).d = Mine(t)
        BY <2>2 DEF OwnRun, Holds, Holding
      <3> QED
        BY <2>1, <3>1 DEF Apart
    <2>3. CASE ~OwnRun(t)
      BY <2>1, <2>3 DEF Apart, SparedOf, Waits
    <2> QED
      BY <2>2, <2>3
  <1> QED
    BY <1>1, Invariance, PTL
-----------------------------------------------------------------------------
(* A section takes effect once.                                            *)

\* While tags last, no word comes back: c only ever gets a higher tag.
TagsLast == c.tag + 2 < TagMod

Lg(d, i) == desc[d].log[i]
Done(d)  == desc[d].done

Word(w)  == w.val \in Nat /\ w.tag \in Nat \ {0}
Past(d)  == Lg(d, 2) # Null /\ Lg(d, 2).tag < c.tag     \* its store has happened
Blank(d) == Lg(d, 1) = Null /\ ~Done(d)                 \* nobody has run its section

Logged  == {"load again", "commit again"} \cup {"next", "panic", "announce", "skip?", "store", "mark", "unannounce", "done", "clear"}
Loaded  == {"next", "panic", "announce", "skip?", "store", "mark", "unannounce", "done", "clear"}

\* The log is filled in order, and its marks are true.
LogOf(d) ==
  /\ {"done", "log", "call"} \subseteq DOMAIN desc[d] /\ DOMAIN desc[d].log = 1 .. 3
  /\ Lg(d, 1) # Null => Word(Lg(d, 1))
  /\ Lg(d, 2) # Null => Word(Lg(d, 2)) /\ Lg(d, 1) # Null /\ Lg(d, 2).tag <= c.tag
  /\ Lg(d, 3) # Null => Past(d)
  /\ Done(d) => Lg(d, 3) # Null

Words ==
  /\ Word(c) /\ DOMAIN ann = Thread /\ \A t \in Thread : ann[t] \in Int /\ ann[t] <= c.tag
  /\ DOMAIN effect = 1 .. MaxCalls /\ todo \in 0 .. MaxCalls /\ \A k \in 1 .. todo : effect[k] = None

\* Each call has its number, and no other call has it.
CallOf(t) == pc[t] # "idle" =>
  /\ {"op", "call"} \subseteq DOMAIN loc[t] /\ My(t).call \in 1 .. MaxCalls /\ My(t).call > todo
  /\ My(t).op \in {"try_lock", "with_lock"}
CallsApart == \A t, u \in Thread : pc[t] # "idle" /\ pc[u] # "idle" /\ My(t).call = My(u).call => t = u

\* The section of t's descriptor: before its store the log has what c is, after it the effect
\* is what was loaded.  A descriptor out of the lock has not been run, or is done.
SectionOf(t) == Holds(t) =>
  /\ desc[Mine(t)].call = My(t).call
  /\ Past(Mine(t)) => effect[My(t).call] = Lg(Mine(t), 1).val
  /\ ~Past(Mine(t)) =>
       /\ effect[My(t).call] = None
       /\ \A i \in {1, 2} : Lg(Mine(t), i) # Null => Lg(Mine(t), i) = c
  /\ lck # Taken(Mine(t)) => Blank(Mine(t)) \/ Done(Mine(t))

\* How far t's call is.
PhaseOf(t) ==
  /\ pc[t] = "allocate" => effect[My(t).call] = None
  /\ pc[t] \in {"idle", "allocate"} \/ (Holds(t) /\ pc[t] \notin {"retire", "retire later"} /\ ~OwnRun(t)) => "won" \notin DOMAIN loc[t]
  /\ Holds(t) /\ pc[t] \notin {"reread", "done?", "retire", "retire later"} /\ ~OwnRun(t) => Blank(Mine(t))
  /\ pc[t] = "cas" => My(t).current.d = 0
  /\ pc[t] \in {"reread", "done?"} => My(t).op = "try_lock"
  /\ pc[t] = "done?" /\ My(t).current = Taken(Mine(t)) => lck = Taken(Mine(t)) \/ Done(Mine(t))
  /\ OwnRun(t) => "won" \in DOMAIN loc[t] /\ My(t).after = "retire"
  /\ pc[t] \in Running /\ ~OwnRun(t) /\ My(t).after = "retire" => My(t).op = "try_lock"
  /\ pc[t] \in {"retire", "retire later", "return"} =>
       IF "won" \in DOMAIN loc[t]
       THEN "x" \in DOMAIN loc[t] /\ effect[My(t).call] # None /\ effect[My(t).call] = My(t).x
       ELSE effect[My(t).call] = None /\ My(t).op = "try_lock"

\* Who runs a section follows its log.
RunLog(t, d) ==
  /\ pc[t] \in Running => lck = Taken(d) \/ Done(d)
  /\ pc[t] = "commit load" => "seen" \in DOMAIN loc[t] /\ (Lg(d, 1) = Null => My(t).seen = c)
  /\ pc[t] \in Logged => "x" \in DOMAIN loc[t] /\ Lg(d, 1) # Null /\ My(t).x = Lg(d, 1).val
  /\ pc[t] = "commit again" => "seen" \in DOMAIN loc[t] /\ (Lg(d, 2) = Null => My(t).seen = c)
  /\ pc[t] \in Loaded => "old" \in DOMAIN loc[t] /\ Lg(d, 2) # Null /\ My(t).old = Lg(d, 2)
  /\ pc[t] = "panic" => My(t).old # c
  /\ pc[t] \in {"announce", "skip?", "store"} =>
       "tag" \in DOMAIN loc[t] /\ (My(t).old = c => My(t).tag \in Nat /\ My(t).tag > c.tag)
  /\ pc[t] = "mark" => Past(d)
  /\ pc[t] \in {"unannounce", "done"} => Lg(d, 3) # Null
  /\ pc[t] = "clear" => Done(d)
RunOf(t) == RunLog(t, My(t).d)

JInv ==
  /\ Words /\ CallsApart /\ \A d \in Slot : LogOf(d)
  /\ \A t \in Thread : CallOf(t) /\ SectionOf(t) /\ PhaseOf(t) /\ RunOf(t)

\* The log of a descriptor stays.
SameLog(d) ==
  /\ DOMAIN desc'[d] = DOMAIN desc[d] /\ desc'[d].log = desc[d].log /\ desc'[d].done = desc[d].done
  /\ desc'[d].call = desc[d].call

\* What is said of a descriptor whose log stays, while c stays.
LEMMA LogStays ==
  ASSUME NEW d, SameLog(d), c' = c
  PROVE  /\ \A i : Lg(d, i)' = Lg(d, i)
         /\ (Done(d)' <=> Done(d)) /\ (Past(d)' <=> Past(d)) /\ (Blank(d)' <=> Blank(d)) /\ (LogOf(d)' <=> LogOf(d))
  BY DEF SameLog, Lg, Done, Past, Blank, LogOf

\* What stays with a thread that does nothing.
LEMMA ThreadStays ==
  ASSUME IInv, NEW t \in Thread, OthersStay(t), NEW u \in Thread \ {t}
  PROVE  /\ pc'[u] = pc[u] /\ loc'[u] = loc[u] /\ My(u)' = My(u) /\ Mine(u)' = Mine(u)
         /\ (Holds(u)' <=> Holds(u)) /\ (OwnRun(u)' <=> OwnRun(u)) /\ (HasPut(u)' <=> HasPut(u))
  <1>1. LocalsOf(u) /\ pc'[u] = pc[u] /\ loc'[u] = loc[u]
    BY DEF IInv, OthersStay
  <1> QED
    BY <1>1, LocalsStay

\* What JInv says of one thread, unfolded.
LEMMA JKnown ==
  ASSUME JInv, NEW t \in Thread
  PROVE  /\ Words /\ CallsApart /\ \A d \in Slot : LogOf(d)
         /\ CallOf(t) /\ SectionOf(t) /\ PhaseOf(t) /\ RunOf(t)
  BY DEF JInv

\* Calls keep their numbers.
LEMMA CallsStay ==
  ASSUME IInv, JInv, NEW t \in Thread, OthersStay(t), UNCHANGED <<c, effect, todo>>,
         pc[t] # "idle", pc'[t] # "idle", DOMAIN ann' = Thread, \A u \in Thread : ann'[u] \in Int /\ ann'[u] <= c.tag,
         \A x \in {"op", "call"} : x \in DOMAIN loc'[t] /\ loc'[t][x] = loc[t][x]
  PROVE  Words' /\ CallsApart' /\ \A u \in Thread : CallOf(u)' /\ My(u)'.call = My(u).call
  <1>1. \A u \in Thread : CallOf(u) /\ (pc'[u] # "idle" <=> pc[u] # "idle") /\ My(u)'.call = My(u).call
    BY ThreadStays, JKnown DEF My
  <1>2. Words'
    BY JKnown DEF Words, Word
  <1>3. CallsApart'
    BY <1>1, JKnown DEF CallsApart
  <1>4. \A u \in Thread \ {t} : CallOf(u)'
    BY <1>1, ThreadStays DEF CallOf
  <1>5. CallOf(t)'
    BY <1>1 DEF CallOf, My
  <1> QED
    BY <1>1, <1>2, <1>3, <1>4, <1>5

\* What a thread knows of a section that it runs stays while others fill the log, and while c
\* changes only once the log has it.
LEMMA RunStays ==
  ASSUME NEW u, NEW e, pc'[u] = pc[u], loc'[u] = loc[u], RunLog(u, e),
         Lg(e, 1) # Null => Lg(e, 1)' = Lg(e, 1), Lg(e, 2) # Null => Lg(e, 2)' = Lg(e, 2),
         Lg(e, 3) # Null => Lg(e, 3)' # Null,
         Done(e) => Done(e)', Past(e) => Past(e)', lck = Taken(e) => lck' = Taken(e) \/ Done(e)',
         pc[u] = "commit load" /\ Lg(e, 1) = Null => c' = c,
         pc[u] = "commit again" /\ Lg(e, 2) = Null => c' = c,
         pc[u] \in {"panic", "announce", "skip?", "store"} /\ My(u).old = c' => c' = c
  PROVE  RunLog(u, e)'
  <1>1. My(u)' = My(u)
    BY DEF My
  <1>2. pc[u] \in {"panic", "announce", "skip?", "store"} => pc[u] \in Loaded
    BY DEF Loaded
  <1> QED
    BY <1>1, <1>2 DEF RunLog

\* A thread that runs no section knows nothing of one.
LEMMA NoRun ==
  ASSUME NEW u, NEW e, pc[u] \notin Running PROVE RunLog(u, e)
  <1>1. /\ pc[u] \notin Logged /\ pc[u] \notin Loaded
        /\ pc[u] \notin {"commit load", "commit again", "panic", "announce", "skip?", "store", "mark", "unannounce", "done", "clear"}
    BY DEF Running, Logged, Loaded
  <1> QED
    BY <1>1 DEF RunLog

\* The phase of a thread that does nothing stays: e is its own descriptor.
LEMMA PhaseStays ==
  ASSUME NEW u, NEW e, Holds(u) => e = Mine(u), pc'[u] = pc[u], loc'[u] = loc[u], PhaseOf(u),
         pc[u] \in {"allocate", "retire", "retire later", "return"} => effect'[My(u).call] = effect[My(u).call],
         Holds(u) /\ ~HasPut(u) /\ Blank(e) => Blank(e)',
         Holds(u) /\ (lck = Taken(e) \/ Done(e)) => lck' = Taken(e) \/ Done(e)'
  PROVE  PhaseOf(u)'
  <1>1. My(u)' = My(u) /\ Mine(u)' = Mine(u) /\ (Holds(u)' <=> Holds(u)) /\ (OwnRun(u)' <=> OwnRun(u))
    BY DEF My, Mine, Holds, OwnRun
  <1>2. Holds(u) => (Blank(Mine(u))' <=> Blank(e)') /\ (Done(Mine(u))' <=> Done(e)')
    BY <1>1 DEF Blank, Done, Lg
  <1>3. Holds(u) /\ pc[u] \notin {"reread", "done?", "retire", "retire later"} /\ ~OwnRun(u) => Blank(Mine(u))'
    BY <1>2 DEF PhaseOf, HasPut
  <1>4. pc[u] = "done?" /\ My(u).current = Taken(Mine(u)) => lck' = Taken(Mine(u)) \/ Done(Mine(u))'
    <2>1. pc[u] = "done?" => Holds(u)
      BY DEF Holds, Holding
    <2> QED
      BY <1>2, <2>1 DEF PhaseOf
  <1> QED
    BY <1>1, <1>3, <1>4 DEF PhaseOf

\* What a step of a section has to respect, which fills the log of its descriptor d.
LEMMA SectionStep ==
  ASSUME IInv, JInv, NEW t \in Thread, NEW d \in Slot, d = My(t).d,
         pc[t] \in Running, pc'[t] \in Running, OthersStay(t), UNCHANGED <<lck, c, effect, todo>>,
         \A x \in {"current", "mine", "d", "after", "op", "call"} : x \in DOMAIN loc'[t] /\ loc'[t][x] = loc[t][x],
         "won" \in DOMAIN loc'[t] <=> "won" \in DOMAIN loc[t],
         DOMAIN ann' = Thread, \A u \in Thread : ann'[u] \in Int /\ ann'[u] <= c.tag,
         \A e \in Slot \ {d} : SameLog(e),
         desc'[d].call = desc[d].call, LogOf(d)',
         \A i \in {1, 2} : Lg(d, i) # Null => Lg(d, i)' = Lg(d, i), Lg(d, 3) # Null => Lg(d, 3)' # Null,
         \A i \in {1, 2} : Lg(d, i) = Null => Lg(d, i)' \in {Null, c},
         Done(d) => Done(d)',
         RunOf(t)'
  PROVE  JInv'
  <1>1. /\ Words /\ CallsApart /\ \A e \in Slot : LogOf(e)
        /\ \A u \in Thread : CallOf(u) /\ SectionOf(u) /\ PhaseOf(u) /\ RunOf(u)
    BY DEF JInv
  <1>2. \A u \in Thread \ {t} :
          /\ pc'[u] = pc[u] /\ loc'[u] = loc[u] /\ My(u)' = My(u) /\ Mine(u)' = Mine(u)
          /\ (Holds(u)' <=> Holds(u)) /\ (OwnRun(u)' <=> OwnRun(u)) /\ (HasPut(u)' <=> HasPut(u))
    BY ThreadStays
  <1>3. /\ Holds(t) /\ Holds(t)' /\ Mine(t)' = Mine(t) /\ (OwnRun(t)' <=> OwnRun(t))
        /\ My(t)'.after = My(t).after /\ My(t)'.op = My(t).op /\ My(t)'.d = d
    BY DEF Holds, Holding, Mine, My, OwnRun
  <1>4. pc[t] # "idle" /\ pc'[t] # "idle" /\ pc[t] # "allocate" /\ pc'[t] # "allocate"
    BY DEF Running
  <1>5. Words' /\ CallsApart' /\ \A u \in Thread : CallOf(u)' /\ My(u)'.call = My(u).call
    BY <1>4, CallsStay
  <1>6. lck = Taken(d) \/ Done(d)
    BY <1>1 DEF RunOf, RunLog
  <1>7. \A e \in Slot : Past(e)' <=> Past(e)
    <2>1. \A e \in Slot \ {d} : Past(e)' <=> Past(e)
      BY LogStays
    <2>2. Past(d)' <=> Past(d)
      <3>1. c.tag \in Nat
        BY <1>1 DEF Words, Word
      <3>2. Lg(d, 2) # Null => Lg(d, 2)' = Lg(d, 2)
        OBVIOUS
      <3>3. Lg(d, 2) = Null => Lg(d, 2)' \in {Null, c}
        OBVIOUS
      <3> QED
        BY <3>1, <3>2, <3>3 DEF Past
    <2> QED
      BY <2>1, <2>2
  <1>8. \A e \in Slot : LogOf(e)'
    BY <1>1, LogStays
  <1>9. \A u \in Thread : (Holds(u)' <=> Holds(u)) /\ Mine(u)' = Mine(u)
    BY <1>2, <1>3
  <1>10. \A u \in Thread : Holds(u) => Mine(u) \in Slot
    BY DEF IInv, Apart
  <1>11. ASSUME NEW u \in Thread PROVE SectionOf(u)'
    <2> SUFFICES ASSUME Holds(u) PROVE SectionOf(u)'
      BY <1>9 DEF SectionOf
    <2> PICK e \in Slot : e = Mine(u)
      BY <1>10
    <2>1. SectionOf(u)
      BY <1>1
    <2>2. CASE e = d
      <3>1. /\ desc[d].call = My(u).call
            /\ Past(d) => effect[My(u).call] = Lg(d, 1).val
            /\ ~Past(d) => effect[My(u).call] = None /\ \A i \in {1, 2} : Lg(d, i) # Null => Lg(d, i) = c
        BY <2>1, <2>2 DEF SectionOf
      <3>2. Past(d) => Lg(d, 1) # Null
        BY <1>1 DEF LogOf, Past
      <3>3. Past(d) => effect[My(u).call] = Lg(d, 1)'.val
        BY <3>1, <3>2
      <3>4. ~Past(d) => \A i \in {1, 2} : Lg(d, i)' # Null => Lg(d, i)' = c
        BY <3>1
      <3>5. lck # Taken(d) => Done(d)'
        BY <1>6
      <3> QED
        BY <1>5, <1>7, <1>9, <2>2, <3>1, <3>3, <3>4, <3>5 DEF SectionOf
    <2>3. CASE e # d
      <3>1. SameLog(e) /\ \A i : Lg(e, i)' = Lg(e, i)
        BY <2>3, LogStays
      <3>2. (Done(e)' <=> Done(e)) /\ (Blank(e)' <=> Blank(e)) /\ desc'[e].call = desc[e].call
        BY <2>3, LogStays DEF SameLog
      <3> QED
        BY <1>5, <1>7, <1>9, <2>1, <3>1, <3>2 DEF SectionOf
    <2> QED
      BY <2>2, <2>3
  <1>12. ASSUME NEW u \in Thread, NEW e \in Slot, e = Mine(u), Holds(u), ~HasPut(u), Blank(e) PROVE Blank(e)'
    <2>1. e # d
      BY <1>6, <1>12, LockHolder DEF Blank
    <2> QED
      BY <1>12, <2>1, LogStays
  <1>13. ASSUME NEW e \in Slot, Done(e) PROVE Done(e)'
    BY <1>13, LogStays
  <1>14. ASSUME NEW u \in Thread \ {t} PROVE PhaseOf(u)'
    <2> PICK e : Holds(u) => e = Mine(u) /\ e \in Slot
      BY <1>10
    <2>1. Holds(u) /\ ~HasPut(u) /\ Blank(e) => Blank(e)'
      BY <1>12
    <2>2. Holds(u) /\ Done(e) => Done(e)'
      BY <1>13
    <2> QED
      BY <1>1, <1>2, <2>1, <2>2, PhaseStays
  <1>15. PhaseOf(t)'
    <2>1. /\ pc[t] \notin {"cas", "reread", "done?", "retire", "retire later", "return"}
          /\ pc'[t] \notin {"cas", "reread", "done?", "retire", "retire later", "return"}
      BY DEF Running
    <2>2. PhaseOf(t)
      BY <1>1
    <2>3. /\ ~OwnRun(t) => "won" \notin DOMAIN loc[t] /\ (My(t).after = "retire" => My(t).op = "try_lock")
          /\ OwnRun(t) => "won" \in DOMAIN loc[t] /\ My(t).after = "retire"
      BY <1>3, <2>1, <2>2 DEF PhaseOf
    <2>4. ~OwnRun(t) => Blank(Mine(t))'
      <3>1. ~OwnRun(t) => ~HasPut(t) /\ Blank(Mine(t))
        BY <1>3, <2>1, <2>2 DEF HasPut, PhaseOf
      <3> PICK e \in Slot : e = Mine(t)
        BY <1>3, <1>10
      <3>2. ~OwnRun(t) => Blank(e)'
        BY <1>3, <1>12, <3>1
      <3> QED
        BY <1>3, <3>2 DEF Blank, Lg, Done
    <2> QED
      BY <1>3, <1>4, <2>1, <2>3, <2>4 DEF PhaseOf
  <1>16. ASSUME NEW u \in Thread \ {t} PROVE RunOf(u)'
    <2>1. CASE pc[u] \notin Running
      BY <1>2, <2>1, NoRun DEF RunOf, RunLog, Running, Logged, Loaded
    <2>2. CASE pc[u] \in Running
      <3>1. My(u).d \in Slot
        BY <2>2 DEF IInv, LocalsOf
      <3> PICK e \in Slot : e = My(u).d
        BY <3>1
      <3>2. /\ \A i \in {1, 2} : Lg(e, i) # Null => Lg(e, i)' = Lg(e, i)
            /\ Lg(e, 3) # Null => Lg(e, 3)' # Null
        BY LogStays
      <3>3. (Done(e) => Done(e)') /\ (Past(e)' <=> Past(e))
        BY <1>7, <1>13
      <3>4. RunOf(u)
        BY <1>1
      <3>5. pc'[u] = pc[u] /\ loc'[u] = loc[u] /\ My(u)' = My(u)
        BY <1>2
      <3>6. /\ Lg(e, 1) # Null => Lg(e, 1)' = Lg(e, 1)
            /\ Lg(e, 2) # Null => Lg(e, 2)' = Lg(e, 2)
            /\ Lg(e, 3) # Null => Lg(e, 3)' # Null
        BY <3>2
      <3>7. RunLog(u, e)
        BY <3>4 DEF RunOf
      <3>8. RunLog(u, e)'
        BY <1>6, <3>3, <3>5, <3>6, <3>7, RunStays
      <3> QED
        BY <3>5, <3>8 DEF RunOf, RunLog, Lg, Done, Past
    <2> QED
      BY <2>1, <2>2
  <1> QED
    BY <1>5, <1>8, <1>11, <1>14, <1>15, <1>16 DEF JInv

\* A section sets only locals of its own.
LEMMA SectionLocals ==
  ASSUME IInv, NEW t \in Thread, RunStep(t), ~RunClear(t)
  PROVE  /\ pc[t] \in Running /\ pc'[t] \in Running /\ OthersStay(t) /\ UNCHANGED lck
         /\ (CallOf(t) => \A x \in {"current", "mine", "d", "after", "op", "call"} : x \in DOMAIN loc'[t] /\ loc'[t][x] = loc[t][x])
         /\ ("won" \in DOMAIN loc'[t] <=> "won" \in DOMAIN loc[t])
  <1>1. pc[t] \in Running /\ pc'[t] \in Running /\ Shapes /\ UNCHANGED lck
    <2>1. Shapes
      BY DEF IInv
    <2>2. pc[t] \in Running /\ UNCHANGED lck
      BY DEF RunStep, RunLoad, RunCommitLoad, RunLoadAgain, RunCommitAgain, RunNext, RunPanic, RunAnnounce, RunSkip,
             RunStore, RunMark, RunUnannounce, RunDone, At, Running
    <2>3. pc'[t] \in Running
      BY <2>1 DEF RunStep, RunLoad, RunCommitLoad, RunLoadAgain, RunCommitAgain, RunNext, RunPanic, RunAnnounce, RunSkip,
             RunStore, RunMark, RunUnannounce, RunDone, Go, Jump, Shapes, Running
    <2> QED
      BY <2>1, <2>2, <2>3
  <1>2. {"current", "mine", "d", "after"} \subseteq DOMAIN loc[t]
    <2>1. Holds(t)
      BY <1>1 DEF Holds, Holding
    <2> QED
      BY <1>1, <2>1, Known
  <1>3. CallOf(t) => {"op", "call"} \subseteq DOMAIN loc[t]
    BY <1>1 DEF CallOf, Running
  <1>4. \/ \E l : Jump(t, l)
        \/ \E l, v : Go(t, l, [seen |-> v]) \/ Go(t, l, [x |-> v]) \/ Go(t, l, [old |-> v]) \/ Go(t, l, [tag |-> v])
    BY DEF RunStep, RunLoad, RunCommitLoad, RunLoadAgain, RunCommitAgain, RunNext, RunPanic, RunAnnounce, RunSkip,
           RunStore, RunMark, RunUnannounce, RunDone
  <1>5. \A v : /\ DOMAIN [seen |-> v] = {"seen"} /\ DOMAIN [x |-> v] = {"x"}
               /\ DOMAIN [old |-> v] = {"old"} /\ DOMAIN [tag |-> v] = {"tag"}
    OBVIOUS
  <1>6. ASSUME NEW l, NEW r, Go(t, l, r), DOMAIN r \subseteq {"seen", "x", "old", "tag"}
        PROVE  OthersStay(t) /\ ("won" \in DOMAIN loc'[t] <=> "won" \in DOMAIN loc[t])
               /\ \A x \in DOMAIN loc[t] : x \notin {"seen", "x", "old", "tag"} => x \in DOMAIN loc'[t] /\ loc'[t][x] = loc[t][x]
    BY <1>1, <1>6, GoDoes DEF OthersStay
  <1>7. ASSUME NEW l, Jump(t, l) PROVE OthersStay(t) /\ loc'[t] = loc[t]
    BY <1>1, <1>7, JumpDoes
  <1>8. OthersStay(t) /\ ("won" \in DOMAIN loc'[t] <=> "won" \in DOMAIN loc[t])
        /\ \A x \in DOMAIN loc[t] : x \notin {"seen", "x", "old", "tag"} => x \in DOMAIN loc'[t] /\ loc'[t][x] = loc[t][x]
    BY <1>4, <1>5, <1>6, <1>7
  <1> QED
    BY <1>1, <1>2, <1>3, <1>8

\* One entry of the log of d is set.
SetsLog(d, i, v) ==
  /\ Lg(d, i)' = v /\ \A j \in {1, 2, 3} \ {i} : Lg(d, j)' = Lg(d, j)
  /\ (Done(d)' <=> Done(d)) /\ desc'[d].call = desc[d].call
  /\ {"done", "log", "call"} \subseteq DOMAIN desc'[d] /\ DOMAIN desc'[d].log = 1 .. 3
  /\ \A e \in Slot \ {d} : SameLog(e)

\* EXCEPT does that.
LEMMA LogSet ==
  ASSUME Shapes, NEW d \in Slot, LogOf(d), NEW i \in {1, 2, 3}, NEW v, desc' = [desc EXCEPT ![d].log[i] = v]
  PROVE  /\ SetsLog(d, i, v)
  <1>1. DOMAIN desc = Slot /\ {"done", "log", "call"} \subseteq DOMAIN desc[d] /\ DOMAIN desc[d].log = 1 .. 3
    BY DEF Shapes, LogOf
  <1>2. \A e \in Slot \ {d} : desc'[e] = desc[e]
    BY <1>1
  <1>3. desc'[d] = [desc[d] EXCEPT !.log[i] = v]
    BY <1>1
  <1>4. DOMAIN desc'[d] = DOMAIN desc[d] /\ desc'[d].done = desc[d].done /\ desc'[d].call = desc[d].call
        /\ desc'[d].log = [desc[d].log EXCEPT ![i] = v]
    BY <1>1, <1>3
  <1>5. DOMAIN desc'[d].log = 1 .. 3 /\ desc'[d].log[i] = v /\ \A j \in {1, 2, 3} \ {i} : desc'[d].log[j] = desc[d].log[j]
    BY <1>1, <1>4
  <1> QED
    BY <1>1, <1>2, <1>4, <1>5 DEF Lg, Done, SameLog, SetsLog

\* The thread of a section, and its descriptor.
LEMMA Runner ==
  ASSUME IInv, JInv, NEW t \in Thread, pc[t] \in Running
  PROVE  /\ Shapes /\ Words /\ My(t).d \in Slot /\ LogOf(My(t).d) /\ RunLog(t, My(t).d) /\ CallOf(t)
         /\ (lck = Taken(My(t).d) \/ Done(My(t).d))
  <1>1. Holds(t)
    BY DEF Holds, Holding
  <1>2. My(t).d \in Slot /\ Shapes
    BY <1>1, Known
  <1>3. Words /\ LogOf(My(t).d) /\ RunLog(t, My(t).d) /\ CallOf(t)
    BY <1>2 DEF JInv, RunOf
  <1> QED
    BY <1>2, <1>3 DEF RunLog

\* A step of a section that leaves the log, whatever it sets.
LEMMA ReadStep ==
  ASSUME IInv, JInv, NEW t \in Thread, RunStep(t), ~RunClear(t), UNCHANGED <<desc, c, effect, todo>>,
         DOMAIN ann' = Thread, \A u \in Thread : ann'[u] \in Int /\ ann'[u] <= c.tag,
         RunLog(t, My(t).d)'
  PROVE  JInv'
  <1>1. /\ pc[t] \in Running /\ pc'[t] \in Running /\ OthersStay(t) /\ UNCHANGED lck
        /\ \A x \in {"current", "mine", "d", "after", "op", "call"} : x \in DOMAIN loc'[t] /\ loc'[t][x] = loc[t][x]
        /\ ("won" \in DOMAIN loc'[t] <=> "won" \in DOMAIN loc[t])
    BY SectionLocals, JKnown
  <1> PICK d \in Slot : d = My(t).d
    BY <1>1, Runner
  <1>2. LogOf(d)
    BY JKnown
  <1>3. \A e \in Slot : SameLog(e)
    BY DEF SameLog
  <1>4. LogOf(d)' /\ (Done(d) => Done(d)')
    BY <1>2, <1>3, LogStays
  <1>5. \A i : Lg(d, i)' = Lg(d, i)
    BY DEF Lg
  <1>6. RunOf(t)'
    BY DEF RunOf
  <1> QED
    BY <1>1, <1>3, <1>4, <1>5, <1>6, SectionStep

\* Tags, as long as they last: the next one is above, and panics only if someone else is ahead.
LEMMA NextTag ==
  ASSUME NEW n \in Nat \ {0}, n + 2 < TagMod
  PROVE  NoPanic(IncTag(n)) \in Nat /\ NoPanic(IncTag(n)) > n
  <1>1. (n + 2) % TagMod = n + 2
    BY TagAssumption
  <1>2. IncTag(n) = n + 2
    BY <1>1 DEF IncTag
  <1>3. (n + 2) % 2 \in 0 .. 1
    OBVIOUS
  <1> QED
    BY <1>2, <1>3 DEF NoPanic

\* Who panics is behind: c has moved since its word was there.
LEMMA PanicBehind ==
  ASSUME Words, NEW n \in Nat \ {0}, n + 2 < TagMod, Panics(n) PROVE n < c.tag
  <1>1. PICK a \in Announced : a >= NoPanic(IncTag(n))
    BY DEF Panics
  <1>2. a \in Int /\ a <= c.tag /\ c.tag \in Nat
    BY <1>1 DEF Announced, Words, Word
  <1> QED
    BY <1>1, <1>2, NextTag

\* The loads of a section, until they are committed.
LEMMA JLoads ==
  ASSUME IInv, JInv, NEW t \in Thread, UNCHANGED todo, RunLoad(t) \/ RunLoadAgain(t) PROVE JInv'
  <1>1. RunStep(t) /\ ~RunClear(t) /\ UNCHANGED <<desc, c, effect, ann, lck>> /\ pc[t] \in {"run", "load again"}
    BY DEF RunStep, RunLoad, RunLoadAgain, RunClear, At
  <1>2. pc[t] \in Running
    BY <1>1 DEF Running
  <1> PICK d \in Slot : d = My(t).d
    BY <1>2, Runner
  <1>3. Shapes /\ Words /\ RunLog(t, d) /\ (lck = Taken(d) \/ Done(d))
    BY <1>2, Runner
  <1>4. My(t)'.d = d
    BY <1>1, <1>2, SectionLocals, Runner DEF My
  <1> DEFINE r == [seen |-> c]
             l == IF pc[t] = "run" THEN "commit load" ELSE "commit again"
  <1>5. DOMAIN r = {"seen"} /\ r["seen"] = c
    OBVIOUS
  <1>6. l = "commit load" \/ (l = "commit again" /\ pc[t] \in Logged)
    BY <1>1 DEF Logged
  <1>7. Go(t, l, r)
    BY DEF RunLoad, RunLoadAgain, At
  <1> HIDE DEF r, l
  <1>8. /\ pc'[t] = l /\ "seen" \in DOMAIN loc'[t] /\ My(t)'.seen = c
        /\ "x" \in DOMAIN loc[t] => "x" \in DOMAIN loc'[t] /\ My(t)'.x = My(t).x
    BY <1>3, <1>5, <1>7, GoDoes DEF My
  <1>9. RunLog(t, d)'
    BY <1>1, <1>3, <1>6, <1>8 DEF RunLog, Running, Logged, Loaded, Lg, Done
  <1> QED
    BY <1>1, <1>3, <1>4, <1>9, ReadStep DEF Words, RunLog, Lg, Done, Past

\* The new tag, and the test of the log.
LEMMA JTags ==
  ASSUME IInv, JInv, TagsLast, NEW t \in Thread, UNCHANGED todo, RunNext(t) \/ RunPanic(t) PROVE JInv'
  <1>1. RunStep(t) /\ ~RunClear(t) /\ UNCHANGED <<desc, c, effect, ann, lck>> /\ pc[t] \in {"next", "panic"}
    BY DEF RunStep, RunNext, RunPanic, RunClear, At
  <1>2. pc[t] \in Running /\ pc[t] \in Logged /\ pc[t] \in Loaded
    BY <1>1 DEF Running, Logged, Loaded
  <1> PICK d \in Slot : d = My(t).d
    BY <1>2, Runner
  <1>3. Shapes /\ Words /\ LogOf(d) /\ RunLog(t, d) /\ (lck = Taken(d) \/ Done(d))
    BY <1>2, Runner
  <1>4. My(t)'.d = d
    BY <1>1, <1>2, SectionLocals, Runner DEF My
  <1>5. /\ "x" \in DOMAIN loc[t] /\ Lg(d, 1) # Null /\ My(t).x = Lg(d, 1).val
        /\ "old" \in DOMAIN loc[t] /\ Lg(d, 2) # Null /\ My(t).old = Lg(d, 2)
        /\ My(t).old.tag \in Nat \ {0} /\ My(t).old.tag <= c.tag /\ c.tag \in Nat
    BY <1>2, <1>3 DEF RunLog, LogOf, Words, Word
  <1>6. My(t).old.tag + 2 < TagMod
    BY <1>5, TagAssumption DEF TagsLast
  <1>7. CASE RunNext(t) /\ Panics(My(t).old.tag)
    <2>1. Jump(t, "panic")
      BY <1>7 DEF RunNext
    <2>2. pc'[t] = "panic" /\ loc' = loc /\ My(t)' = My(t)
      BY <1>3, <2>1, JumpDoes
    <2>3. My(t).old # c
      BY <1>3, <1>5, <1>6, <1>7, PanicBehind
    <2>4. RunLog(t, d)'
      BY <1>1, <1>3, <1>5, <2>2, <2>3 DEF RunLog, Running, Logged, Loaded, Lg, Done
    <2> QED
      BY <1>1, <1>3, <1>4, <2>4, ReadStep DEF Words, RunLog, Lg, Done, Past
  <1>8. CASE RunPanic(t) \/ ~Panics(My(t).old.tag)
    <2>1. PICK v : Go(t, "announce", [tag |-> v]) /\ (My(t).old = c => v \in Nat /\ v > c.tag)
      <3>1. CASE RunPanic(t)
        <4>1. My(t).old # c
          BY <1>3, <3>1 DEF RunLog, RunPanic, At
        <4> QED
          BY <3>1, <4>1 DEF RunPanic
      <3>2. CASE RunNext(t) /\ ~Panics(My(t).old.tag)
        BY <1>5, <1>6, <3>2, NextTag DEF RunNext
      <3> QED
        BY <1>8, <3>1, <3>2
    <2> DEFINE r == [tag |-> v]
    <2>2. DOMAIN r = {"tag"} /\ r["tag"] = v
      OBVIOUS
    <2> HIDE DEF r
    <2>3. Go(t, "announce", r)
      BY <2>1 DEF r
    <2>4. /\ pc'[t] = "announce" /\ "tag" \in DOMAIN loc'[t] /\ My(t)'.tag = v
          /\ "x" \in DOMAIN loc'[t] /\ My(t)'.x = My(t).x /\ "old" \in DOMAIN loc'[t] /\ My(t)'.old = My(t).old
      BY <1>3, <1>5, <2>2, <2>3, GoDoes DEF My
    <2>5. RunLog(t, d)'
      BY <1>1, <1>3, <1>5, <2>1, <2>4 DEF RunLog, Running, Logged, Loaded, Lg, Done
    <2> QED
      BY <1>1, <1>3, <1>4, <2>5, ReadStep DEF Words, RunLog, Lg, Done, Past
  <1> QED
    BY <1>7, <1>8

\* The announcement, the test of the log, and the end of the announcement.
LEMMA JAnnounces ==
  ASSUME IInv, JInv, NEW t \in Thread, UNCHANGED todo, RunAnnounce(t) \/ RunSkip(t) \/ RunUnannounce(t) PROVE JInv'
  <1>1. /\ RunStep(t) /\ ~RunClear(t) /\ UNCHANGED <<desc, c, effect, lck>> /\ pc[t] \in {"announce", "skip?", "unannounce"}
        /\ ann' = ann \/ \E v \in {My(t).old.tag, 0} : ann' = [ann EXCEPT ![t] = v]
    BY DEF RunStep, RunAnnounce, RunSkip, RunUnannounce, RunClear, At
  <1>2. pc[t] \in Running /\ pc[t] \in Logged /\ pc[t] \in Loaded
    BY <1>1 DEF Running, Logged, Loaded
  <1> PICK d \in Slot : d = My(t).d
    BY <1>2, Runner
  <1>3. Shapes /\ Words /\ LogOf(d) /\ RunLog(t, d) /\ (lck = Taken(d) \/ Done(d))
    BY <1>2, Runner
  <1>4. /\ "x" \in DOMAIN loc[t] /\ Lg(d, 1) # Null /\ My(t).x = Lg(d, 1).val
        /\ "old" \in DOMAIN loc[t] /\ Lg(d, 2) # Null /\ My(t).old = Lg(d, 2)
        /\ My(t).old.tag \in Nat \ {0} /\ My(t).old.tag <= c.tag /\ c.tag \in Nat
    BY <1>2, <1>3 DEF RunLog, LogOf, Words, Word
  <1>5. DOMAIN ann' = Thread /\ \A u \in Thread : ann'[u] \in Int /\ ann'[u] <= c.tag
    BY <1>1, <1>3, <1>4 DEF Words
  <1>6. PICK l \in {"skip?", "store", "unannounce", "done"} :
          /\ Jump(t, l)
          /\ l \in {"skip?", "store"} => pc[t] \in {"announce", "skip?"}
          /\ l \in {"unannounce", "done"} => Lg(d, 3) # Null
    <2>1. CASE RunAnnounce(t)
      BY <2>1 DEF RunAnnounce, At
    <2>2. CASE RunSkip(t)
      BY <2>2 DEF RunSkip, At, D, Lg
    <2>3. CASE RunUnannounce(t)
      BY <1>3, <2>3 DEF RunUnannounce, At, RunLog
    <2> QED
      BY <2>1, <2>2, <2>3
  <1>7. pc'[t] = l /\ loc' = loc /\ My(t)' = My(t)
    BY <1>3, <1>6, JumpDoes
  <1>8. l \in {"skip?", "store"} => "tag" \in DOMAIN loc[t] /\ (My(t).old = c => My(t).tag \in Nat /\ My(t).tag > c.tag)
    BY <1>3, <1>6 DEF RunLog
  <1>9. RunLog(t, d)'
    <2>1. l \notin {"commit load", "commit again", "panic", "announce", "mark", "clear"}
      OBVIOUS
    <2> QED
      BY <1>1, <1>3, <1>4, <1>6, <1>7, <1>8, <2>1 DEF RunLog, Lg, Done
  <1> QED
    BY <1>1, <1>5, <1>7, <1>9, ReadStep DEF RunLog, Lg, Done, Past

\* A word is not an empty entry.
LEMMA WordsDiffer == ASSUME NEW w, Word(w) PROVE w # Null
  <1>1. Null.tag = 0
    BY DEF Null
  <1>2. w.tag # 0
    BY DEF Word
  <1> QED
    BY <1>1, <1>2

\* The first to commit sets the entry; then it has the word w, and all go on with that.
LEMMA CommitSets ==
  ASSUME Shapes, Words, NEW t \in Thread, NEW d \in Slot, d = My(t).d, LogOf(d), NEW i \in {1, 2}, NEW s,
         Lg(d, i) = Null => s = c, Commit(t, i, s),
         NEW w, w = Committed(t, i, s)
  PROVE  /\ SetsLog(d, i, w)
         /\ Word(w) /\ w # Null /\ (Lg(d, i) # Null => w = Lg(d, i)) /\ (Lg(d, i) = Null => w = c)
  <1>1. CASE Lg(d, i) = Null
    <2>1. desc' = [desc EXCEPT ![d].log[i] = c] /\ w = c
      BY <1>1 DEF Commit, Committed, D, Lg
    <2>2. /\ SetsLog(d, i, c)
      <3>1. i \in {1, 2, 3}
        OBVIOUS
      <3> QED
        BY <2>1, <3>1, LogSet
    <2>3. Word(c) /\ c # Null
      BY WordsDiffer DEF Words
    <2> QED
      BY <1>1, <2>1, <2>2, <2>3
  <1>2. CASE Lg(d, i) # Null
    <2>1. desc' = desc /\ w = Lg(d, i)
      BY <1>2 DEF Commit, Committed, D, Lg
    <2>2. Word(w)
      BY <1>2, <2>1 DEF LogOf
    <2> QED
      BY <1>2, <2>1, <2>2 DEF Lg, Done, SameLog, LogOf, SetsLog
  <1> QED
    BY <1>1, <1>2

\* The commit of the first load.
LEMMA JCommitLoad ==
  ASSUME IInv, JInv, NEW t \in Thread, UNCHANGED todo, RunCommitLoad(t) PROVE JInv'
  <1>1. RunStep(t) /\ ~RunClear(t) /\ UNCHANGED <<c, effect, ann, lck>> /\ pc[t] = "commit load"
    BY DEF RunStep, RunCommitLoad, RunClear, At
  <1>2. pc[t] \in Running
    BY <1>1 DEF Running
  <1> PICK d \in Slot : d = My(t).d
    BY <1>2, Runner
  <1>3. Shapes /\ Words /\ LogOf(d) /\ RunLog(t, d) /\ (lck = Taken(d) \/ Done(d))
    BY <1>2, Runner
  <1>4. /\ pc'[t] \in Running /\ OthersStay(t)
        /\ \A x \in {"current", "mine", "d", "after", "op", "call"} : x \in DOMAIN loc'[t] /\ loc'[t][x] = loc[t][x]
        /\ ("won" \in DOMAIN loc'[t] <=> "won" \in DOMAIN loc[t])
    BY <1>1, <1>2, SectionLocals, Runner
  <1> PICK s : s = My(t).seen
    OBVIOUS
  <1> PICK w : w = Committed(t, 1, s)
    OBVIOUS
  <1>5. Commit(t, 1, s) /\ Go(t, "load again", [x |-> w.val]) /\ (Lg(d, 1) = Null => s = c)
    BY <1>1, <1>3 DEF RunCommitLoad, RunLog, Commit, Committed
  <1>6. /\ SetsLog(d, 1, w)
        /\ Word(w) /\ w # Null /\ (Lg(d, 1) # Null => w = Lg(d, 1)) /\ (Lg(d, 1) = Null => w = c)
    <2>1. 1 \in {1, 2} /\ Commit(t, 1, s) /\ (Lg(d, 1) = Null => s = c) /\ Shapes /\ Words /\ LogOf(d)
      BY <1>3, <1>5
    <2> QED
      BY <2>1, CommitSets
  <1>7. /\ Lg(d, 1)' = w /\ Lg(d, 2)' = Lg(d, 2) /\ Lg(d, 3)' = Lg(d, 3)
        /\ (Done(d)' <=> Done(d)) /\ desc'[d].call = desc[d].call
        /\ {"done", "log", "call"} \subseteq DOMAIN desc'[d] /\ DOMAIN desc'[d].log = 1 .. 3
        /\ \A e \in Slot \ {d} : SameLog(e)
        /\ c' = c
    <2>1. {1, 2, 3} \ {1} = {2, 3} /\ {1, 2, 3} \ {2} = {1, 3}
      OBVIOUS
    <2> QED
      BY <1>1, <1>6, <2>1 DEF SetsLog
  <1>8. LogOf(d)'
    BY <1>3, <1>6, <1>7 DEF LogOf, Past
  <1>9. pc'[t] = "load again" /\ "x" \in DOMAIN loc'[t] /\ My(t)'.x = w.val /\ My(t)'.d = d
    <2> DEFINE r == [x |-> w.val]
               l == "load again"
    <2>1. DOMAIN r = {"x"} /\ r["x"] = w.val
      OBVIOUS
    <2>2. Go(t, l, r)
      BY <1>5
    <2> HIDE DEF r, l
    <2>3. /\ pc'[t] = l /\ DOMAIN loc'[t] = DOMAIN loc[t] \cup DOMAIN r
          /\ \A f \in DOMAIN r : loc'[t][f] = r[f]
      BY <1>3, <2>2, GoDoes
    <2> QED
      BY <1>4, <2>1, <2>3 DEF My, l
  <1>10. RunLog(t, d)'
    <2>1. Lg(d, 1)' # Null /\ My(t)'.x = Lg(d, 1)'.val /\ (lck' = Taken(d) \/ Done(d)')
      <3>1. lck' = lck
        BY <1>1
      <3>2. lck = Taken(d) \/ Done(d)
        BY <1>3
      <3> QED
        BY <1>6, <1>7, <1>9, <3>1, <3>2
    <2> QED
      BY <1>9, <2>1 DEF RunLog, Running, Logged, Loaded
  <1>11. RunOf(t)'
    BY <1>9, <1>10 DEF RunOf, RunLog, Lg, Done, Past
  <1>12. /\ \A i \in {1, 2} : Lg(d, i) # Null => Lg(d, i)' = Lg(d, i)
         /\ \A i \in {1, 2} : Lg(d, i) = Null => Lg(d, i)' \in {Null, c}
         /\ Lg(d, 3) # Null => Lg(d, 3)' # Null
    BY <1>6, <1>7
  <1>13. DOMAIN ann' = Thread /\ \A u \in Thread : ann'[u] \in Int /\ ann'[u] <= c.tag
    BY <1>1, <1>3 DEF Words
  <1> QED
    BY <1>1, <1>2, <1>4, <1>7, <1>8, <1>11, <1>12, <1>13, SectionStep

\* The commit of the load that the store compares with.
LEMMA JCommitAgain ==
  ASSUME IInv, JInv, NEW t \in Thread, UNCHANGED todo, RunCommitAgain(t) PROVE JInv'
  <1>1. RunStep(t) /\ ~RunClear(t) /\ UNCHANGED <<c, effect, ann, lck>> /\ pc[t] = "commit again"
    BY DEF RunStep, RunCommitAgain, RunClear, At
  <1>2. pc[t] \in Running /\ pc[t] \in Logged
    BY <1>1 DEF Running, Logged
  <1> PICK d \in Slot : d = My(t).d
    BY <1>2, Runner
  <1>3. Shapes /\ Words /\ LogOf(d) /\ RunLog(t, d) /\ (lck = Taken(d) \/ Done(d))
    BY <1>2, Runner
  <1>4. /\ pc'[t] \in Running /\ OthersStay(t)
        /\ \A x \in {"current", "mine", "d", "after", "op", "call"} : x \in DOMAIN loc'[t] /\ loc'[t][x] = loc[t][x]
        /\ ("won" \in DOMAIN loc'[t] <=> "won" \in DOMAIN loc[t])
    BY <1>1, <1>2, SectionLocals, Runner
  <1> PICK s : s = My(t).seen
    OBVIOUS
  <1> PICK w : w = Committed(t, 2, s)
    OBVIOUS
  <1>5. /\ Commit(t, 2, s) /\ Go(t, "next", [old |-> w]) /\ (Lg(d, 2) = Null => s = c)
        /\ "x" \in DOMAIN loc[t] /\ Lg(d, 1) # Null /\ My(t).x = Lg(d, 1).val
    BY <1>1, <1>2, <1>3 DEF RunCommitAgain, RunLog, Commit, Committed
  <1>6. /\ SetsLog(d, 2, w)
        /\ Word(w) /\ w # Null /\ (Lg(d, 2) # Null => w = Lg(d, 2)) /\ (Lg(d, 2) = Null => w = c)
    <2>1. 2 \in {1, 2}
      OBVIOUS
    <2> QED
      BY <1>3, <1>5, <2>1, CommitSets
  <1>7. /\ Lg(d, 2)' = w /\ Lg(d, 1)' = Lg(d, 1) /\ Lg(d, 3)' = Lg(d, 3)
        /\ (Done(d)' <=> Done(d)) /\ desc'[d].call = desc[d].call
        /\ {"done", "log", "call"} \subseteq DOMAIN desc'[d] /\ DOMAIN desc'[d].log = 1 .. 3
        /\ \A e \in Slot \ {d} : SameLog(e)
        /\ c' = c
    <2>1. {1, 2, 3} \ {1} = {2, 3} /\ {1, 2, 3} \ {2} = {1, 3}
      OBVIOUS
    <2> QED
      BY <1>1, <1>6, <2>1 DEF SetsLog
  <1>8. LogOf(d)'
    <2>1. w.tag <= c.tag
      BY <1>3, <1>6 DEF LogOf, Words, Word
    <2>2. Lg(d, 3) # Null => Lg(d, 2) # Null
      BY <1>3 DEF LogOf, Past
    <2>3. Past(d) => Past(d)'
      BY <1>6, <1>7 DEF Past
    <2> QED
      BY <1>3, <1>5, <1>6, <1>7, <2>1, <2>2, <2>3 DEF LogOf
  <1>9. /\ pc'[t] = "next" /\ "old" \in DOMAIN loc'[t] /\ My(t)'.old = w /\ My(t)'.d = d
        /\ "x" \in DOMAIN loc'[t] /\ My(t)'.x = My(t).x
    <2> DEFINE r == [old |-> w]
    <2>1. DOMAIN r = {"old"} /\ r["old"] = w
      OBVIOUS
    <2> HIDE DEF r
    <2>2. Go(t, "next", r)
      BY <1>5 DEF r
    <2> QED
      BY <1>3, <1>4, <1>5, <2>1, <2>2, GoDoes DEF My
  <1>10. RunLog(t, d)'
    <2>1. /\ Lg(d, 1)' # Null /\ My(t)'.x = Lg(d, 1)'.val /\ (lck' = Taken(d) \/ Done(d)')
          /\ Lg(d, 2)' # Null /\ My(t)'.old = Lg(d, 2)'
      BY <1>1, <1>3, <1>5, <1>6, <1>7, <1>9
    <2> QED
      BY <1>9, <2>1 DEF RunLog, Running, Logged, Loaded
  <1>11. RunOf(t)'
    BY <1>9, <1>10 DEF RunOf, RunLog, Lg, Done, Past
  <1>12. /\ \A i \in {1, 2} : Lg(d, i) # Null => Lg(d, i)' = Lg(d, i)
         /\ \A i \in {1, 2} : Lg(d, i) = Null => Lg(d, i)' \in {Null, c}
         /\ Lg(d, 3) # Null => Lg(d, 3)' # Null
    BY <1>6, <1>7
  <1>13. DOMAIN ann' = Thread /\ \A u \in Thread : ann'[u] \in Int /\ ann'[u] <= c.tag
    BY <1>1, <1>3 DEF Words
  <1> QED
    BY <1>1, <1>2, <1>4, <1>7, <1>8, <1>11, <1>12, <1>13, SectionStep

\* The marks: the store is behind, and the section is done.
LEMMA JMarks ==
  ASSUME IInv, JInv, NEW t \in Thread, UNCHANGED todo, RunMark(t) \/ RunDone(t) PROVE JInv'
  <1>1. RunStep(t) /\ ~RunClear(t) /\ UNCHANGED <<c, effect, ann, lck>> /\ pc[t] \in {"mark", "done"}
    BY DEF RunStep, RunMark, RunDone, RunClear, At
  <1>2. pc[t] \in Running /\ pc[t] \in Logged /\ pc[t] \in Loaded
    BY <1>1 DEF Running, Logged, Loaded
  <1> PICK d \in Slot : d = My(t).d
    BY <1>2, Runner
  <1>3. Shapes /\ Words /\ LogOf(d) /\ RunLog(t, d) /\ (lck = Taken(d) \/ Done(d))
    BY <1>2, Runner
  <1>4. /\ pc'[t] \in Running /\ OthersStay(t)
        /\ \A x \in {"current", "mine", "d", "after", "op", "call"} : x \in DOMAIN loc'[t] /\ loc'[t][x] = loc[t][x]
        /\ ("won" \in DOMAIN loc'[t] <=> "won" \in DOMAIN loc[t])
    BY <1>1, <1>2, SectionLocals, Runner
  <1>5. Mark # Null
    <2>1. Mark.val = 1 /\ Null.val = 0
      BY DEF Mark, Null
    <2> QED
      BY <2>1
  <1>6. PICK l \in {"unannounce", "clear"} :
          /\ Jump(t, l) /\ Lg(d, 1)' = Lg(d, 1) /\ Lg(d, 2)' = Lg(d, 2) /\ Lg(d, 3)' \in {Mark, Lg(d, 3)}
          /\ l = "unannounce" => Lg(d, 3)' # Null
          /\ l = "clear" => Done(d)'
          /\ Done(d) => Done(d)'
          /\ Lg(d, 3)' # Null => Past(d)
          /\ Done(d)' => Lg(d, 3)' # Null
          /\ desc'[d].call = desc[d].call
          /\ {"done", "log", "call"} \subseteq DOMAIN desc'[d] /\ DOMAIN desc'[d].log = 1 .. 3
          /\ \A e \in Slot \ {d} : SameLog(e)
    <2>1. CASE RunMark(t)
      <3>1. desc' = [desc EXCEPT ![d].log[3] = Mark] /\ Jump(t, "unannounce") /\ Past(d)
        BY <1>3, <2>1 DEF RunMark, RunLog, At
      <3>2. 3 \in {1, 2, 3}
        OBVIOUS
      <3>3. /\ SetsLog(d, 3, Mark)
        BY <1>3, <3>1, <3>2, LogSet
      <3> QED
        BY <1>5, <3>1, <3>3 DEF SetsLog
    <2>2. CASE RunDone(t)
      <3>1. desc' = [desc EXCEPT ![d].done = TRUE] /\ Jump(t, "clear") /\ Lg(d, 3) # Null
        BY <1>3, <2>2 DEF RunDone, RunLog, At
      <3>2. \A e \in Slot \ {d} : desc'[e] = desc[e]
        BY <1>3, <3>1 DEF Shapes
      <3>3. desc'[d] = [desc[d] EXCEPT !.done = TRUE]
        BY <1>3, <3>1 DEF Shapes
      <3>4. DOMAIN desc'[d] = DOMAIN desc[d] /\ desc'[d].log = desc[d].log /\ desc'[d].call = desc[d].call /\ desc'[d].done
        BY <1>3, <3>3 DEF LogOf
      <3> QED
        BY <1>3, <3>1, <3>2, <3>4 DEF Lg, Done, SameLog, LogOf
    <2> QED
      BY <2>1, <2>2
  <1>7. pc'[t] = l /\ loc' = loc /\ My(t)' = My(t) /\ c' = c
    BY <1>1, <1>3, <1>6, JumpDoes
  <1>8. LogOf(d)'
    <2>1. Past(d)' <=> Past(d)
      BY <1>6, <1>7 DEF Past
    <2> QED
      BY <1>3, <1>6, <1>7, <2>1 DEF LogOf
  <1>9. RunLog(t, d)'
    <2>1. /\ "x" \in DOMAIN loc[t] /\ Lg(d, 1) # Null /\ My(t).x = Lg(d, 1).val
          /\ "old" \in DOMAIN loc[t] /\ Lg(d, 2) # Null /\ My(t).old = Lg(d, 2)
      BY <1>2, <1>3 DEF RunLog
    <2>2. l \notin {"commit load", "commit again", "panic", "announce", "skip?", "store", "mark", "done"}
      OBVIOUS
    <2>3. lck' = Taken(d) \/ Done(d)'
      BY <1>1, <1>3, <1>6
    <2> QED
      BY <1>6, <1>7, <2>1, <2>2, <2>3 DEF RunLog
  <1>10. RunOf(t)'
    BY <1>7, <1>9 DEF RunOf, RunLog, Lg, Done, Past
  <1>11. /\ \A i \in {1, 2} : Lg(d, i) # Null => Lg(d, i)' = Lg(d, i)
         /\ \A i \in {1, 2} : Lg(d, i) = Null => Lg(d, i)' \in {Null, c}
         /\ Lg(d, 3) # Null => Lg(d, 3)' # Null
    BY <1>6
  <1>12. DOMAIN ann' = Thread /\ \A u \in Thread : ann'[u] \in Int /\ ann'[u] <= c.tag
    BY <1>1, <1>3 DEF Words
  <1> QED
    BY <1>1, <1>2, <1>4, <1>6, <1>8, <1>10, <1>11, <1>12, SectionStep

\* What a step of a call has to respect that leaves the logs and c, and takes only what is done
\* out of the lock.
LEMMA CallStepKeeps ==
  ASSUME IInv, JInv, NEW t \in Thread, OthersStay(t), \A d \in Slot : SameLog(d),
         UNCHANGED <<c, effect, todo, ann>>, \A d \in Slot : lck = Taken(d) => lck' = Taken(d) \/ Done(d), pc[t] # "idle", pc'[t] # "idle",
         \A x \in {"op", "call"} : x \in DOMAIN loc'[t] /\ loc'[t][x] = loc[t][x],
         Holds(t)' => Holds(t) /\ Mine(t)' = Mine(t), PhaseOf(t)', RunOf(t)'
  PROVE  JInv'
  <1>1. /\ Words /\ CallsApart /\ \A e \in Slot : LogOf(e)
        /\ \A u \in Thread : CallOf(u) /\ SectionOf(u) /\ PhaseOf(u) /\ RunOf(u)
    BY DEF JInv
  <1>2. \A u \in Thread \ {t} :
          /\ pc'[u] = pc[u] /\ loc'[u] = loc[u] /\ My(u)' = My(u) /\ Mine(u)' = Mine(u)
          /\ (Holds(u)' <=> Holds(u)) /\ (OwnRun(u)' <=> OwnRun(u)) /\ (HasPut(u)' <=> HasPut(u))
    BY ThreadStays
  <1>3. Words' /\ CallsApart' /\ \A u \in Thread : CallOf(u)' /\ My(u)'.call = My(u).call
    <2>1. DOMAIN ann' = Thread /\ \A u \in Thread : ann'[u] \in Int /\ ann'[u] <= c.tag
      BY <1>1 DEF Words
    <2> QED
      BY <2>1, CallsStay
  <1>4. \A e \in Slot :
          /\ \A i : Lg(e, i)' = Lg(e, i)
          /\ (Done(e)' <=> Done(e)) /\ (Past(e)' <=> Past(e)) /\ (Blank(e)' <=> Blank(e)) /\ (LogOf(e)' <=> LogOf(e))
          /\ desc'[e].call = desc[e].call
    BY LogStays DEF SameLog
  <1>5. \A u \in Thread : Holds(u) => Mine(u) \in Slot
    BY DEF IInv, Apart
  <1>6. ASSUME NEW u \in Thread PROVE SectionOf(u)'
    <2> SUFFICES ASSUME Holds(u)' PROVE SectionOf(u)'
      BY DEF SectionOf
    <2>1. Holds(u) /\ Mine(u)' = Mine(u)
      BY <1>2
    <2> PICK e \in Slot : e = Mine(u)
      BY <1>5, <2>1
    <2>2. SectionOf(u)
      BY <1>1
    <2>3. Lg(e, 1)' = Lg(e, 1) /\ Lg(e, 2)' = Lg(e, 2)
      BY <1>4
    <2>4. (Done(e)' <=> Done(e)) /\ (Past(e)' <=> Past(e)) /\ (Blank(e)' <=> Blank(e)) /\ desc'[e].call = desc[e].call
      BY <1>4
    <2> QED
      BY <1>3, <2>1, <2>2, <2>3, <2>4 DEF SectionOf
  <1>7. ASSUME NEW u \in Thread \ {t} PROVE PhaseOf(u)'
    <2> PICK e : Holds(u) => e = Mine(u) /\ e \in Slot
      BY <1>5
    <2>1. Holds(u) => (Blank(e)' <=> Blank(e)) /\ (Done(e)' <=> Done(e))
      BY <1>4
    <2> QED
      BY <1>1, <1>2, <2>1, PhaseStays
  <1>8. ASSUME NEW u \in Thread \ {t} PROVE RunOf(u)'
    <2>1. CASE pc[u] \notin Running
      BY <1>2, <2>1, NoRun DEF RunOf, RunLog, Running, Logged, Loaded
    <2>2. CASE pc[u] \in Running
      <3>1. My(u).d \in Slot
        BY <2>2 DEF IInv, LocalsOf
      <3> PICK e \in Slot : e = My(u).d
        BY <3>1
      <3>2. Lg(e, 1)' = Lg(e, 1) /\ Lg(e, 2)' = Lg(e, 2) /\ Lg(e, 3)' = Lg(e, 3)
        BY <1>4
      <3>3. (Done(e)' <=> Done(e)) /\ (Past(e)' <=> Past(e))
        BY <1>4
      <3>4. RunLog(u, e)
        BY <1>1 DEF RunOf
      <3>5. RunLog(u, e)'
        BY <1>2, <3>2, <3>3, <3>4, RunStays
      <3> QED
        BY <1>2, <3>5 DEF RunOf, RunLog, Lg, Done, Past
    <2> QED
      BY <2>1, <2>2
  <1> QED
    BY <1>1, <1>3, <1>4, <1>6, <1>7, <1>8 DEF JInv

\* What a thread with a descriptor of its own knows of its call.
LEMMA Caller ==
  ASSUME IInv, JInv, NEW t \in Thread, Holds(t)
  PROVE  /\ Shapes /\ Words /\ pc[t] # "idle" /\ CallOf(t) /\ SectionOf(t) /\ PhaseOf(t)
         /\ {"op", "call", "current", "mine"} \subseteq DOMAIN loc[t] /\ Mine(t) \in Slot /\ LogOf(Mine(t))
         /\ Blank(Mine(t)) => effect[My(t).call] = None
  <1>1. pc[t] # "idle"
    BY DEF Holds, Holding, Helping, Running
  <1>2. /\ Shapes /\ Words /\ CallOf(t) /\ SectionOf(t) /\ PhaseOf(t)
        /\ {"current", "mine"} \subseteq DOMAIN loc[t] /\ Mine(t) \in Slot
    BY Known, JKnown
  <1>3. LogOf(Mine(t))
    BY <1>2, JKnown
  <1>4. Blank(Mine(t)) => ~Past(Mine(t))
    BY <1>3 DEF LogOf, Blank, Past
  <1> QED
    BY <1>1, <1>2, <1>3, <1>4 DEF CallOf, SectionOf

\* A step that runs no section leaves RunOf empty.
LEMMA NotRunning == ASSUME NEW t, pc'[t] \notin Running PROVE RunOf(t)'
  <1>1. /\ pc'[t] \notin Logged /\ pc'[t] \notin Loaded
        /\ pc'[t] \notin {"commit load", "commit again", "panic", "announce", "skip?", "store", "mark", "unannounce", "done", "clear"}
    BY DEF Running, Logged, Loaded
  <1> QED
    BY <1>1 DEF RunOf, RunLog

\* At the first step of a section it is in the lock, or done.
LEMMA StartsRun ==
  ASSUME NEW t, NEW d, pc'[t] = "run", My(t)'.d = d, lck' = Taken(d) \/ Done(d)' PROVE RunOf(t)'
  <1>1. /\ pc'[t] \notin Logged /\ pc'[t] \notin Loaded
        /\ pc'[t] \notin {"commit load", "commit again", "panic", "announce", "skip?", "store", "mark", "unannounce", "done", "clear"}
    BY DEF Logged, Loaded
  <1> QED
    BY <1>1 DEF RunOf, RunLog, Done

\* try_lock reads the lock again.
LEMMA JReread ==
  ASSUME IInv, JInv, NEW t \in Thread, UNCHANGED todo, Reread(t) PROVE JInv'
  <1>1. pc[t] = "reread" /\ UNCHANGED <<lck, desc, c, effect, ann>> /\ Go(t, "done?", [current |-> lck])
    BY DEF Reread, At, Other
  <1>2. Holds(t)
    BY <1>1 DEF Holds, Holding
  <1>3. /\ Shapes /\ pc[t] # "idle" /\ PhaseOf(t) /\ {"op", "call", "current", "mine"} \subseteq DOMAIN loc[t]
    BY <1>2, Caller
  <1>4. /\ OthersStay(t) /\ pc'[t] = "done?" /\ My(t)'.current = lck /\ Mine(t)' = Mine(t)
        /\ \A x \in {"op", "call"} : x \in DOMAIN loc'[t] /\ loc'[t][x] = loc[t][x]
        /\ ("won" \in DOMAIN loc'[t] <=> "won" \in DOMAIN loc[t])
    <2> DEFINE r == [current |-> lck]
    <2>1. DOMAIN r = {"current"} /\ r["current"] = lck
      OBVIOUS
    <2> HIDE DEF r
    <2>2. Go(t, "done?", r)
      BY <1>1 DEF r
    <2> QED
      BY <1>3, <2>1, <2>2, GoDoes DEF OthersStay, My, Mine
  <1>5. pc'[t] \notin Running /\ ~OwnRun(t) /\ ~OwnRun(t)'
    BY <1>1, <1>4 DEF Running, OwnRun
  <1>6. PhaseOf(t)'
    <2>1. My(t)'.op = My(t).op /\ My(t).op = "try_lock" /\ "won" \notin DOMAIN loc'[t]
      BY <1>1, <1>2, <1>3, <1>4, <1>5 DEF PhaseOf, My
    <2> QED
      BY <1>1, <1>4, <1>5, <2>1 DEF PhaseOf
  <1>7. \A d \in Slot : SameLog(d)
    BY <1>1 DEF SameLog
  <1> QED
    BY <1>1, <1>2, <1>3, <1>4, <1>5, <1>6, <1>7, CallStepKeeps, NotRunning

\* try_lock runs its section, which is in the lock or done, or gives up when nobody has run it.
LEMMA JTryTaken ==
  ASSUME IInv, JInv, NEW t \in Thread, UNCHANGED todo, TryTaken(t) PROVE JInv'
  <1>1. pc[t] = "done?" /\ UNCHANGED <<lck, desc, c, effect, ann>>
    BY DEF TryTaken, At, Other
  <1>2. Holds(t) /\ ~OwnRun(t)
    BY <1>1 DEF Holds, Holding, OwnRun, Running
  <1>3. /\ Shapes /\ pc[t] # "idle" /\ PhaseOf(t) /\ SectionOf(t) /\ {"op", "call", "current", "mine"} \subseteq DOMAIN loc[t]
        /\ Mine(t) \in Slot /\ (Blank(Mine(t)) => effect[My(t).call] = None)
    BY <1>2, Caller
  <1>4. \A d \in Slot : SameLog(d)
    BY <1>1 DEF SameLog
  <1>5. My(t).op = "try_lock" /\ "won" \notin DOMAIN loc[t]
    BY <1>1, <1>2, <1>3 DEF PhaseOf
  <1> PICK d \in Slot : d = Mine(t)
    BY <1>3
  <1>6. CASE desc[d].done \/ My(t).current = Taken(d)
    <2>1. Go(t, "run", [d |-> d, after |-> "retire", won |-> TRUE])
      BY <1>6 DEF TryTaken, Mine
    <2>2. /\ OthersStay(t) /\ pc'[t] = "run" /\ My(t)'.d = d /\ My(t)'.after = "retire" /\ Mine(t)' = d
          /\ \A x \in {"op", "call"} : x \in DOMAIN loc'[t] /\ loc'[t][x] = loc[t][x]
          /\ "won" \in DOMAIN loc'[t]
      <3> DEFINE r == [d |-> d, after |-> "retire", won |-> TRUE]
      <3>1. DOMAIN r = {"d", "after", "won"} /\ r["d"] = d /\ r["after"] = "retire"
        OBVIOUS
      <3> HIDE DEF r
      <3>2. Go(t, "run", r)
        BY <2>1 DEF r
      <3> QED
        BY <1>3, <3>1, <3>2, GoDoes DEF OthersStay, My, Mine
    <2>3. OwnRun(t)'
      BY <2>2 DEF OwnRun, Running
    <2>4. lck = Taken(d) \/ Done(d)
      BY <1>1, <1>3, <1>6 DEF PhaseOf, Done
    <2>5. PhaseOf(t)'
      BY <2>2, <2>3 DEF PhaseOf
    <2>6. RunOf(t)'
      BY <1>1, <2>2, <2>4, StartsRun DEF Done
    <2> QED
      BY <1>1, <1>2, <1>3, <1>4, <2>2, <2>5, <2>6, CallStepKeeps
  <1>7. CASE ~(desc[d].done \/ My(t).current = Taken(d))
    <2>1. Jump(t, "retire")
      BY <1>7 DEF TryTaken, Mine
    <2>2. OthersStay(t) /\ pc'[t] = "retire" /\ loc' = loc /\ My(t)' = My(t)
      BY <1>3, <2>1, JumpDoes
    <2>3. pc'[t] \notin Running /\ ~OwnRun(t)' /\ Mine(t)' = Mine(t)
      BY <2>2 DEF Running, OwnRun, Mine
    <2>4. lck # Taken(d)
      BY <1>1, <1>2, <1>7, Known DEF LockOf
    <2>5. effect[My(t).call] = None
      BY <1>2, <1>3, <1>7, <2>4 DEF SectionOf, Done
    <2>6. PhaseOf(t)'
      BY <1>1, <1>5, <2>2, <2>3, <2>5 DEF PhaseOf
    <2>7. \A x \in {"op", "call"} : x \in DOMAIN loc'[t] /\ loc'[t][x] = loc[t][x]
      BY <1>3, <2>2
    <2> QED
      BY <1>1, <1>2, <1>3, <1>4, <2>2, <2>3, <2>6, <2>7, CallStepKeeps, NotRunning
  <1> QED
    BY <1>6, <1>7

\* with_lock goes around its loop, and nobody has run its section.
LEMMA JReload ==
  ASSUME IInv, JInv, NEW t \in Thread, UNCHANGED todo, Reload(t) PROVE JInv'
  <1>1. /\ pc[t] = "reload" /\ UNCHANGED <<lck, desc, c, effect, ann>>
        /\ Go(t, IF Locked(lck) THEN "still?" ELSE "cas", [current |-> lck, d |-> lck.d])
    BY DEF Reload, At, Other
  <1>2. Holds(t) /\ ~OwnRun(t)
    BY <1>1 DEF Holds, Holding, OwnRun, Running
  <1>3. /\ Shapes /\ pc[t] # "idle" /\ PhaseOf(t) /\ {"op", "call", "current", "mine"} \subseteq DOMAIN loc[t]
    BY <1>2, Caller
  <1>4. "won" \notin DOMAIN loc[t] /\ Blank(Mine(t))
    BY <1>1, <1>2, <1>3 DEF PhaseOf
  <1>5. /\ OthersStay(t) /\ pc'[t] \in {"cas", "still?"} /\ Mine(t)' = Mine(t)
        /\ pc'[t] = "cas" => My(t)'.current.d = 0
        /\ \A x \in {"op", "call"} : x \in DOMAIN loc'[t] /\ loc'[t][x] = loc[t][x]
        /\ "won" \notin DOMAIN loc'[t]
    <2> DEFINE r == [current |-> lck, d |-> lck.d]
               l == IF Locked(lck) THEN "still?" ELSE "cas"
    <2>1. DOMAIN r = {"current", "d"} /\ r["current"] = lck
      OBVIOUS
    <2>2. Go(t, l, r)
      BY <1>1
    <2> HIDE DEF r, l
    <2>3. /\ OthersStay(t) /\ pc'[t] = l /\ Mine(t)' = Mine(t) /\ My(t)'.current = lck
          /\ \A x \in {"op", "call"} : x \in DOMAIN loc'[t] /\ loc'[t][x] = loc[t][x]
          /\ "won" \notin DOMAIN loc'[t]
      BY <1>3, <1>4, <2>1, <2>2, GoDoes DEF OthersStay, My, Mine
    <2> QED
      BY <2>3 DEF l, Locked
  <1>6. pc'[t] \notin Running /\ ~OwnRun(t)' /\ (Blank(Mine(t))' <=> Blank(Mine(t)))
    BY <1>1, <1>5 DEF Running, OwnRun, Blank, Lg, Done
  <1>7. PhaseOf(t)'
    BY <1>4, <1>5, <1>6 DEF PhaseOf
  <1>8. \A d \in Slot : SameLog(d)
    BY <1>1 DEF SameLog
  <1> QED
    BY <1>1, <1>2, <1>3, <1>5, <1>6, <1>7, <1>8, CallStepKeeps, NotRunning

\* A mark leaves the log.
LEMMA MarkLeaves ==
  ASSUME Shapes, \A d \in Slot : LogOf(d), NEW m \in Slot, NEW v,
         desc' = desc \/ desc' = [desc EXCEPT ![m].acquired = v]
  PROVE  \A d \in Slot : SameLog(d)
  <1> SUFFICES ASSUME NEW d \in Slot PROVE SameLog(d)
    OBVIOUS
  <1>1. CASE desc' = desc \/ d # m
    BY <1>1 DEF Shapes, SameLog
  <1>2. CASE desc' = [desc EXCEPT ![m].acquired = v] /\ d = m
    <2>1. desc'[d] = [desc[d] EXCEPT !.acquired = v]
      BY <1>2 DEF Shapes
    <2>2. {"done", "log", "call"} \subseteq DOMAIN desc[d]
      BY DEF LogOf
    <2> QED
      BY <2>1, <2>2 DEF SameLog
  <1> QED
    BY <1>1, <1>2

\* The steps of help_descriptor up to the last test: nobody has run the helper's own section.
LEMMA JHelps ==
  ASSUME IInv, JInv, NEW t \in Thread, UNCHANGED todo,
         HelpStill(t) \/ HelpAcquireTest(t) \/ HelpAcquire(t) \/ (HelpStillNow(t) /\ lck # My(t).current)
  PROVE  JInv'
  <1>1. /\ pc[t] \in {"still?", "acquire?", "acquire", "still now?"} /\ UNCHANGED <<lck, c, effect, ann>>
        /\ desc' = desc \/ desc' = [desc EXCEPT ![My(t).d].acquired = TRUE]
    BY DEF HelpStill, HelpAcquireTest, HelpAcquire, HelpStillNow, At, Other
  <1>2. Holds(t) /\ ~OwnRun(t)
    BY <1>1 DEF Holds, Holding, Helping, OwnRun, Running
  <1>3. /\ Shapes /\ pc[t] # "idle" /\ PhaseOf(t) /\ {"op", "call", "current", "mine"} \subseteq DOMAIN loc[t]
        /\ Mine(t) \in Slot /\ (Blank(Mine(t)) => effect[My(t).call] = None) /\ CallOf(t)
    BY <1>2, Caller
  <1>4. "won" \notin DOMAIN loc[t] /\ Blank(Mine(t)) /\ effect[My(t).call] = None
    BY <1>1, <1>2, <1>3 DEF PhaseOf
  <1>5. My(t).d \in Slot
    BY <1>1, <1>2, Known DEF Helping
  <1>6. \A d \in Slot : SameLog(d)
    BY <1>1, <1>3, <1>5, MarkLeaves, JKnown
  <1>7. PICK l \in {"acquire?", "acquire", "still now?", "retire", "reload"} :
          Jump(t, l) /\ (l = "retire" => My(t).op = "try_lock")
    BY DEF HelpStill, HelpAcquireTest, HelpAcquire, HelpStillNow, AfterHelp
  <1>8. OthersStay(t) /\ pc'[t] = l /\ loc' = loc /\ My(t)' = My(t) /\ Mine(t)' = Mine(t)
    BY <1>3, <1>7, JumpDoes DEF Mine
  <1>9. pc'[t] \notin Running /\ pc'[t] # "idle" /\ ~OwnRun(t)'
    BY <1>8 DEF Running, OwnRun
  <1>10. Blank(Mine(t))'
    <2> PICK d \in Slot : d = Mine(t)
      BY <1>3
    <2>1. Blank(d)'
      BY <1>1, <1>4, <1>6, LogStays
    <2> QED
      BY <1>8, <2>1 DEF Blank, Lg, Done
  <1>11. PhaseOf(t)'
    <2>1. My(t)'.op = My(t).op /\ effect'[My(t)'.call] = None /\ "won" \notin DOMAIN loc'[t]
      BY <1>1, <1>4, <1>8
    <2>2. pc'[t] \notin {"allocate", "cas", "reread", "done?", "retire later", "return"}
      BY <1>8
    <2> QED
      BY <1>7, <1>8, <1>9, <1>10, <2>1, <2>2 DEF PhaseOf
  <1>12. \A x \in {"op", "call"} : x \in DOMAIN loc'[t] /\ loc'[t][x] = loc[t][x]
    BY <1>3, <1>8
  <1> QED
    BY <1>1, <1>2, <1>3, <1>6, <1>8, <1>9, <1>11, <1>12, CallStepKeeps, NotRunning

\* A helper begins a section that is in the lock.
LEMMA JHelpRuns ==
  ASSUME IInv, JInv, NEW t \in Thread, UNCHANGED todo, HelpStillNow(t), lck = My(t).current PROVE JInv'
  <1>1. /\ pc[t] = "still now?" /\ UNCHANGED <<lck, desc, c, effect, ann>> /\ Go(t, "run", [after |-> AfterHelp(t)])
    BY DEF HelpStillNow, At, Other
  <1>2. Holds(t) /\ ~OwnRun(t)
    BY <1>1 DEF Holds, Holding, Helping, OwnRun, Running
  <1>3. /\ Shapes /\ pc[t] # "idle" /\ PhaseOf(t) /\ {"op", "call", "current", "mine"} \subseteq DOMAIN loc[t] /\ Mine(t) \in Slot
    BY <1>2, Caller
  <1>4. "won" \notin DOMAIN loc[t] /\ Blank(Mine(t))
    BY <1>1, <1>2, <1>3 DEF PhaseOf
  <1>5. "d" \in DOMAIN loc[t] /\ My(t).current = Taken(My(t).d) /\ My(t).d # Mine(t)
    BY <1>1, <1>2, Known DEF LocalsOf, LockOf, Helping
  <1> PICK d : d = My(t).d
    OBVIOUS
  <1>6. /\ OthersStay(t) /\ pc'[t] = "run" /\ My(t)'.d = d /\ My(t)'.after = AfterHelp(t) /\ Mine(t)' = Mine(t)
        /\ \A x \in {"op", "call"} : x \in DOMAIN loc'[t] /\ loc'[t][x] = loc[t][x]
        /\ "won" \notin DOMAIN loc'[t]
    <2> DEFINE r == [after |-> AfterHelp(t)]
    <2>1. DOMAIN r = {"after"} /\ r["after"] = AfterHelp(t)
      OBVIOUS
    <2>2. Go(t, "run", r)
      BY <1>1
    <2> HIDE DEF r
    <2> QED
      BY <1>3, <1>4, <1>5, <2>1, <2>2, GoDoes DEF OthersStay, My, Mine
  <1>7. ~OwnRun(t)' /\ (Blank(Mine(t))' <=> Blank(Mine(t)))
    BY <1>1, <1>5, <1>6 DEF OwnRun, Blank, Lg, Done
  <1>8. PhaseOf(t)'
    <2>1. My(t)'.after = "retire" => My(t)'.op = "try_lock"
      BY <1>6 DEF AfterHelp, My
    <2> QED
      BY <1>4, <1>6, <1>7, <2>1 DEF PhaseOf
  <1>9. RunOf(t)'
    BY <1>1, <1>5, <1>6, StartsRun
  <1>10. \A e \in Slot : SameLog(e)
    BY <1>1 DEF SameLog
  <1> QED
    BY <1>1, <1>2, <1>3, <1>6, <1>8, <1>9, <1>10, CallStepKeeps

\* retire: how the call ended stays as it is.
LEMMA JRetires ==
  ASSUME IInv, JInv, NEW t \in Thread, UNCHANGED todo, RetireTest(t) \/ RetireLater(t) PROVE JInv'
  <1>1. /\ pc[t] \in {"retire", "retire later"} /\ UNCHANGED <<lck, c, effect, ann>>
        /\ desc' = desc \/ desc' = [desc EXCEPT ![Mine(t)].acquired = FALSE]
    BY DEF RetireTest, RetireLater, At, Mine
  <1>2. Holds(t) /\ ~OwnRun(t)
    BY <1>1 DEF Holds, Holding, OwnRun, Running
  <1>3. /\ Shapes /\ pc[t] # "idle" /\ PhaseOf(t) /\ {"op", "call", "current", "mine"} \subseteq DOMAIN loc[t] /\ Mine(t) \in Slot
    BY <1>2, Caller
  <1>4. \A d \in Slot : SameLog(d)
    BY <1>1, <1>3, MarkLeaves, JKnown
  <1>5. PICK l \in {"retire later", "return"} : Jump(t, l)
    BY DEF RetireTest, RetireLater
  <1>6. OthersStay(t) /\ pc'[t] = l /\ loc' = loc /\ My(t)' = My(t) /\ Mine(t)' = Mine(t)
    BY <1>3, <1>5, JumpDoes DEF Mine
  <1>7. pc'[t] \notin Running /\ pc'[t] # "idle" /\ ~OwnRun(t)'
    BY <1>6 DEF Running, OwnRun
  <1>8. PhaseOf(t)'
    <2>1. pc'[t] \notin {"allocate", "cas", "reread", "done?"}
      BY <1>6
    <2>2. Holds(t)' => pc'[t] \in {"retire", "retire later"}
      BY <1>6 DEF Holds, Holding, Helping, Running
    <2> QED
      BY <1>1, <1>3, <1>6, <1>7, <2>1, <2>2 DEF PhaseOf
  <1>9. \A x \in {"op", "call"} : x \in DOMAIN loc'[t] /\ loc'[t][x] = loc[t][x]
    BY <1>3, <1>6
  <1> QED
    BY <1>1, <1>2, <1>3, <1>4, <1>6, <1>7, <1>8, <1>9, CallStepKeeps, NotRunning

\* The phase of a thread inside a section stays, if its own has not been run meanwhile.
LEMMA PhaseRuns ==
  ASSUME NEW t, NEW e, e = Mine(t), pc[t] \in Running, pc'[t] \in Running, PhaseOf(t),
         \A x \in {"mine", "d", "after", "op"} : x \in DOMAIN loc'[t] /\ loc'[t][x] = loc[t][x],
         "won" \in DOMAIN loc'[t] <=> "won" \in DOMAIN loc[t],
         ~OwnRun(t) /\ Blank(e) => Blank(e)'
  PROVE  PhaseOf(t)'
  <1>1. /\ pc[t] \notin {"idle", "allocate", "cas", "reread", "done?", "retire", "retire later", "return"}
        /\ pc'[t] \notin {"idle", "allocate", "cas", "reread", "done?", "retire", "retire later", "return"}
    BY DEF Running
  <1>2. Holds(t) /\ Holds(t)' /\ Mine(t)' = Mine(t) /\ (OwnRun(t)' <=> OwnRun(t))
        /\ My(t)'.after = My(t).after /\ My(t)'.op = My(t).op
    BY DEF Holds, Holding, Mine, My, OwnRun
  <1>3. /\ ~OwnRun(t) => "won" \notin DOMAIN loc[t] /\ (My(t).after = "retire" => My(t).op = "try_lock")
        /\ OwnRun(t) => "won" \in DOMAIN loc[t] /\ My(t).after = "retire"
        /\ ~OwnRun(t) => Blank(e)
    BY <1>1, <1>2 DEF PhaseOf
  <1>4. ~OwnRun(t) => Blank(Mine(t))'
    BY <1>2, <1>3 DEF Blank, Lg, Done
  <1> QED
    BY <1>1, <1>2, <1>3, <1>4 DEF PhaseOf

\* The store that fails: the section has had its effect.
LEMMA JStoreFails ==
  ASSUME IInv, JInv, NEW t \in Thread, UNCHANGED todo, RunStore(t), c # My(t).old PROVE JInv'
  <1>1. RunStep(t) /\ ~RunClear(t) /\ UNCHANGED <<desc, c, effect, ann, lck>> /\ pc[t] = "store" /\ Jump(t, "mark")
    BY DEF RunStep, RunStore, RunClear, At
  <1>2. pc[t] \in Running /\ pc[t] \in Logged /\ pc[t] \in Loaded
    BY <1>1 DEF Running, Logged, Loaded
  <1> PICK d \in Slot : d = My(t).d
    BY <1>2, Runner
  <1>3. Shapes /\ Words /\ LogOf(d) /\ RunLog(t, d) /\ (lck = Taken(d) \/ Done(d))
    BY <1>2, Runner
  <1>4. /\ "x" \in DOMAIN loc[t] /\ Lg(d, 1) # Null /\ My(t).x = Lg(d, 1).val
        /\ "old" \in DOMAIN loc[t] /\ Lg(d, 2) # Null /\ My(t).old = Lg(d, 2)
    BY <1>2, <1>3 DEF RunLog
  <1>5. Past(d)
    <2>1. CASE Done(d)
      BY <1>3, <2>1 DEF LogOf
    <2>2. CASE lck = Taken(d)
      <3>1. lck.d = d /\ Locked(lck)
        BY <2>2, FlockAssumption DEF Taken, Locked
      <3>2. PICK u \in Thread : HasPut(u) /\ Mine(u) = lck.d
        BY <3>1 DEF IInv, LockOwned
      <3>3. Holds(u) /\ Mine(u) = d
        BY <3>1, <3>2 DEF HasPut, OwnRun, Holds, Holding
      <3>4. ~Past(d) => Lg(d, 2) = c
        BY <1>4, <3>3, JKnown DEF SectionOf
      <3> QED
        BY <1>4, <3>4
    <2> QED
      BY <1>3, <2>1, <2>2
  <1>6. pc'[t] = "mark" /\ loc' = loc /\ My(t)' = My(t)
    BY <1>1, <1>3, JumpDoes
  <1>7. RunLog(t, d)'
    <2>1. Past(d)'
      BY <1>1, <1>5 DEF Past, Lg
    <2> QED
      BY <1>1, <1>3, <1>4, <1>6, <2>1 DEF RunLog, Lg, Done
  <1>8. DOMAIN ann' = Thread /\ \A u \in Thread : ann'[u] \in Int /\ ann'[u] <= c.tag
    BY <1>1, <1>3 DEF Words
  <1> QED
    BY <1>1, <1>6, <1>7, <1>8, ReadStep DEF RunLog, Lg, Done, Past

\* The store that takes effect: u, whose descriptor is in the lock, gets its effect; the word
\* that was loaded is the one that is there.
LEMMA StoreHits ==
  ASSUME IInv, JInv, NEW t \in Thread, RunStore(t), c = My(t).old,
         NEW d \in Slot, d = My(t).d
  PROVE  /\ lck = Taken(d) /\ ~Past(d) /\ ~Done(d) /\ Lg(d, 1) # Null /\ Lg(d, 2) # Null /\ Lg(d, 2) = c
         /\ Lg(d, 1) = c /\ Word(c) /\ My(t).x = c.val /\ My(t).tag \in Nat /\ My(t).tag > c.tag
         /\ \E u \in Thread : HasPut(u) /\ Holds(u) /\ Mine(u) = d /\ desc[d].call = My(u).call
                              /\ effect[My(u).call] = None
  <1>1. pc[t] = "store"
    BY DEF RunStore, At
  <1>2. pc[t] \in Running /\ pc[t] \in Logged /\ pc[t] \in Loaded
    BY <1>1 DEF Running, Logged, Loaded
  <1>3. Shapes /\ Words /\ LogOf(d) /\ RunLog(t, d) /\ (lck = Taken(d) \/ Done(d))
    BY <1>2, Runner
  <1>4. /\ Lg(d, 1) # Null /\ My(t).x = Lg(d, 1).val /\ Lg(d, 2) # Null /\ Lg(d, 2) = c
        /\ My(t).tag \in Nat /\ My(t).tag > c.tag
    BY <1>1, <1>2, <1>3 DEF RunLog
  <1>5. ~Past(d) /\ ~Done(d) /\ lck = Taken(d)
    BY <1>3, <1>4 DEF Past, LogOf, Words, Word
  <1>6. lck.d = d /\ Locked(lck)
    BY <1>5, FlockAssumption DEF Taken, Locked
  <1>7. PICK u \in Thread : HasPut(u) /\ Mine(u) = lck.d
    BY <1>6 DEF IInv, LockOwned
  <1>8. Holds(u) /\ Mine(u) = d /\ SectionOf(u)
    BY <1>6, <1>7, JKnown DEF HasPut, OwnRun, Holds, Holding
  <1>9. /\ desc[d].call = My(u).call /\ effect[My(u).call] = None
        /\ \A i \in {1, 2} : Lg(d, i) # Null => Lg(d, i) = c
    BY <1>5, <1>8 DEF SectionOf
  <1> QED
    BY <1>3, <1>4, <1>5, <1>7, <1>8, <1>9 DEF Words

\* The store that takes effect keeps the invariant: whoever else runs this section finds it
\* past, and no other section has begun and is not done.
LEMMA JStoreHits ==
  ASSUME IInv, JInv, NEW t \in Thread, UNCHANGED todo, RunStore(t), c = My(t).old PROVE JInv'
  <1>1. /\ RunStep(t) /\ ~RunClear(t) /\ UNCHANGED <<desc, ann, lck>> /\ pc[t] = "store" /\ Jump(t, "mark")
        /\ c' = [val |-> (My(t).x + 1) % Values, tag |-> My(t).tag]
        /\ effect' = [effect EXCEPT ![D(t).call] = My(t).x]
    BY DEF RunStep, RunStore, RunClear, At
  <1>2. pc[t] \in Running /\ pc[t] \in Logged /\ pc[t] \in Loaded
    BY <1>1 DEF Running, Logged, Loaded
  <1> PICK d \in Slot : d = My(t).d
    BY <1>2, Runner
  <1>3. /\ Shapes /\ Words /\ CallsApart /\ LogOf(d) /\ RunLog(t, d) /\ CallOf(t)
        /\ \A e \in Slot : LogOf(e)
        /\ \A v \in Thread : CallOf(v) /\ SectionOf(v) /\ PhaseOf(v) /\ RunOf(v)
    BY <1>2, Runner DEF JInv
  <1>4. /\ lck = Taken(d) /\ ~Past(d) /\ ~Done(d) /\ Lg(d, 1) # Null /\ Lg(d, 2) # Null /\ Lg(d, 2) = c
        /\ Lg(d, 1) = c /\ Word(c) /\ My(t).x = c.val /\ My(t).tag \in Nat /\ My(t).tag > c.tag
    BY StoreHits
  <1>5. PICK u \in Thread : HasPut(u) /\ Holds(u) /\ Mine(u) = d /\ desc[d].call = My(u).call
                            /\ effect[My(u).call] = None
    BY StoreHits
  <1> PICK k : k = My(u).call
    OBVIOUS
  <1>6. /\ pc'[t] = "mark" /\ loc' = loc /\ My(t)' = My(t) /\ OthersStay(t)
    BY <1>1, <1>3, JumpDoes
  <1>7. \A v \in Thread \ {t} :
          /\ pc'[v] = pc[v] /\ loc'[v] = loc[v] /\ My(v)' = My(v) /\ Mine(v)' = Mine(v)
          /\ (Holds(v)' <=> Holds(v)) /\ (OwnRun(v)' <=> OwnRun(v)) /\ (HasPut(v)' <=> HasPut(v))
    BY <1>6, ThreadStays
  <1>8. pc[u] # "idle" /\ k \in 1 .. MaxCalls /\ k > todo
    <2>1. pc[u] # "idle"
      BY <1>5, Caller
    <2> QED
      BY <1>3, <2>1 DEF CallOf
  <1>9. /\ effect'[k] = c.val /\ DOMAIN effect' = 1 .. MaxCalls
        /\ \A n \in 1 .. MaxCalls : n # k => effect'[n] = effect[n]
    <2>1. effect' = [effect EXCEPT ![k] = c.val]
      BY <1>1, <1>4, <1>5 DEF D
    <2> QED
      BY <1>3, <1>8, <2>1 DEF Words
  <1>10. \A v \in Thread : v # u /\ pc[v] # "idle" => effect'[My(v).call] = effect[My(v).call]
    BY <1>3, <1>8, <1>9 DEF CallOf, CallsApart
  <1>11. Word(c') /\ c'.tag > c.tag /\ c'.tag \in Nat /\ c.tag \in Nat
    <2>1. c.val + 1 \in Nat /\ c.tag \in Nat
      BY <1>4 DEF Word
    <2>2. (c.val + 1) % Values \in Nat
      BY <2>1, FlockAssumption
    <2>3. c'.val = (c.val + 1) % Values /\ c'.tag = My(t).tag
      BY <1>1, <1>4
    <2> QED
      BY <1>4, <2>1, <2>2, <2>3 DEF Word
  <1>12. Words'
    <2>1. DOMAIN ann' = Thread /\ \A v \in Thread : ann'[v] \in Int /\ ann'[v] <= c'.tag
      BY <1>1, <1>3, <1>11 DEF Words
    <2>2. todo' \in 0 .. MaxCalls /\ \A n \in 1 .. todo' : effect'[n] = None
      <3> SUFFICES ASSUME NEW n \in 1 .. todo PROVE effect'[n] = None
        BY <1>3 DEF Words
      <3>1. n # k /\ n \in 1 .. MaxCalls /\ effect[n] = None
        <4>1. todo \in 0 .. MaxCalls /\ MaxCalls \in Nat /\ effect[n] = None
          BY <1>3, FlockAssumption DEF Words
        <4>2. todo \in Int /\ n \in Int /\ k \in Int /\ n <= todo /\ todo <= MaxCalls /\ 1 <= n
          BY <1>8, <4>1
        <4> QED
          BY <1>8, <4>1, <4>2
      <3> QED
        BY <1>9, <3>1
    <2> QED
      BY <1>9, <1>11, <2>1, <2>2 DEF Words, Word
  <1>13. CallsApart' /\ \A v \in Thread : CallOf(v)' /\ My(v)' = My(v) /\ (pc'[v] = "idle" <=> pc[v] = "idle")
    <2>1. \A v \in Thread : My(v)' = My(v) /\ (pc'[v] = "idle" <=> pc[v] = "idle")
      BY <1>1, <1>6, <1>7
    <2> QED
      BY <1>3, <1>6, <2>1 DEF CallsApart, CallOf
  <1>14. \A e \in Slot : /\ \A i : Lg(e, i)' = Lg(e, i)
                         /\ (Done(e)' <=> Done(e)) /\ (Blank(e)' <=> Blank(e)) /\ desc'[e].call = desc[e].call
    BY <1>1 DEF Lg, Done, Blank
  <1>15. ASSUME NEW e \in Slot PROVE LogOf(e)' /\ (Past(e) => Past(e)') /\ (Lg(e, 2) # Null => Past(e)')
    <2>1. LogOf(e)
      BY <1>3
    <2>2. Lg(e, 2) # Null => Lg(e, 2).tag \in Nat /\ Lg(e, 2).tag < c'.tag
      BY <1>11, <2>1 DEF LogOf, Word
    <2>3. Lg(e, 2) # Null => Past(e)'
      BY <1>14, <2>2 DEF Past
    <2>4. Past(e) => Lg(e, 2) # Null
      BY DEF Past
    <2>5. desc'[e] = desc[e]
      BY <1>1
    <2>6. Lg(e, 1)' = Lg(e, 1) /\ Lg(e, 2)' = Lg(e, 2) /\ Lg(e, 3)' = Lg(e, 3)
      BY <1>14
    <2>7. /\ Lg(e, 2)' # Null => Lg(e, 2)'.tag <= c'.tag
          /\ Lg(e, 3)' # Null => Past(e)'
      BY <1>11, <2>1, <2>2, <2>3, <2>4, <2>6 DEF LogOf
    <2> QED
      BY <1>14, <2>1, <2>3, <2>4, <2>5, <2>6, <2>7 DEF LogOf
  <1>16. \A v \in Thread : Holds(v) => Mine(v) \in Slot
    BY DEF IInv, Apart
  <1>17. \A e \in Slot : e # d => lck # Taken(e)
    <2> SUFFICES ASSUME NEW e \in Slot, e # d, lck = Taken(e) PROVE FALSE
      OBVIOUS
    <2>1. lck.d = e /\ lck.d = d
      BY <1>4 DEF Taken
    <2> QED
      BY <2>1
  <1>18. \A v \in Thread : (Holds(v)' <=> Holds(v)) /\ Mine(v)' = Mine(v)
    <2>1. (Holds(t)' <=> Holds(t)) /\ Mine(t)' = Mine(t)
      BY <1>1, <1>6 DEF Holds, Holding, Running, Mine
    <2> QED
      BY <1>7, <2>1
  <1>19. ASSUME NEW v \in Thread PROVE SectionOf(v)'
    <2> SUFFICES ASSUME Holds(v) PROVE SectionOf(v)'
      BY <1>18 DEF SectionOf
    <2> PICK e \in Slot : e = Mine(v)
      BY <1>16
    <2>1. SectionOf(v) /\ LogOf(e) /\ pc[v] # "idle"
      BY <1>3, Caller
    <2>2. CASE v = u
      <3>1. e = d /\ Past(e)'
        BY <1>4, <1>5, <1>15, <2>2
      <3>2. effect'[My(v).call] = Lg(e, 1).val
        BY <1>4, <1>9, <2>2, <3>1
      <3>3. desc'[e].call = My(v).call /\ Lg(e, 1)' = Lg(e, 1) /\ lck' = Taken(e)
        BY <1>1, <1>4, <1>5, <1>14, <2>2, <3>1
      <3> QED
        BY <1>13, <1>18, <3>1, <3>2, <3>3 DEF SectionOf
    <2>3. CASE v # u
      <3>1. e # d
        BY <1>5, <2>3 DEF IInv, Apart
      <3>2. lck # Taken(e) /\ (Blank(e) \/ Done(e))
        BY <1>17, <2>1, <3>1 DEF SectionOf
      <3>3. effect'[My(v).call] = effect[My(v).call]
        BY <1>10, <2>1, <2>3
      <3>4. Done(e) => Past(e) /\ Past(e)'
        BY <1>15, <2>1 DEF LogOf
      <3>5. Lg(e, 1)' = Lg(e, 1) /\ Lg(e, 2)' = Lg(e, 2) /\ desc'[e].call = desc[e].call
            /\ (Done(e)' <=> Done(e)) /\ (Blank(e)' <=> Blank(e))
        BY <1>14
      <3>6. CASE Done(e)
        BY <1>13, <1>18, <2>1, <3>2, <3>3, <3>4, <3>5, <3>6 DEF SectionOf
      <3>7. CASE Blank(e)
        <4>1. Lg(e, 1) = Null /\ Lg(e, 2) = Null
          BY <2>1, <3>7 DEF Blank, LogOf
        <4>2. ~Past(e) /\ ~Past(e)'
          BY <3>5, <4>1 DEF Past
        <4>3. \A i \in {1, 2} : Lg(e, i)' = Null
          BY <3>5, <4>1
        <4> QED
          BY <1>13, <1>18, <2>1, <3>2, <3>3, <3>5, <3>7, <4>2, <4>3 DEF SectionOf
      <3> QED
        BY <3>2, <3>6, <3>7
    <2> QED
      BY <2>2, <2>3
  <1>20. ASSUME NEW v \in Thread \ {t} PROVE PhaseOf(v)'
    <2> PICK e : Holds(v) => e = Mine(v) /\ e \in Slot
      BY <1>16
    <2>1. Holds(v) => (Blank(e)' <=> Blank(e)) /\ (Done(e)' <=> Done(e))
      BY <1>14
    <2>2. pc[v] \in {"allocate", "retire", "retire later", "return"} => v # u /\ pc[v] # "idle"
      BY <1>5 DEF HasPut, OwnRun, Running
    <2>3. pc[v] \in {"allocate", "retire", "retire later", "return"} => effect'[My(v).call] = effect[My(v).call]
      BY <1>10, <2>2
    <2> QED
      BY <1>1, <1>3, <1>7, <2>1, <2>3, PhaseStays
  <1>21. PhaseOf(t)'
    <2> PICK e \in Slot : e = Mine(t)
      BY <1>2, <1>16 DEF Holds, Holding
    <2>1. Blank(e)' <=> Blank(e)
      BY <1>14
    <2>2. \A x \in {"mine", "d", "after", "op"} : x \in DOMAIN loc'[t] /\ loc'[t][x] = loc[t][x]
      <3>1. Holds(t)
        BY <1>2 DEF Holds, Holding
      <3>2. {"op", "mine", "d", "after"} \subseteq DOMAIN loc[t]
        BY <1>2, <3>1, Known, Caller
      <3> QED
        BY <1>6, <3>2
    <2>3. pc'[t] \in Running
      BY <1>6 DEF Running
    <2> QED
      BY <1>2, <1>3, <1>6, <2>1, <2>2, <2>3, PhaseRuns
  <1>22. ASSUME NEW v \in Thread \ {t} PROVE RunOf(v)'
    <2>1. CASE pc[v] \notin Running
      BY <1>7, <2>1, NoRun DEF RunOf, RunLog, Running, Logged, Loaded
    <2>2. CASE pc[v] \in Running
      <3>1. My(v).d \in Slot
        BY <2>2 DEF IInv, LocalsOf
      <3> PICK e \in Slot : e = My(v).d
        BY <3>1
      <3>2. Lg(e, 1)' = Lg(e, 1) /\ Lg(e, 2)' = Lg(e, 2) /\ Lg(e, 3)' = Lg(e, 3)
        BY <1>14
      <3>3. (Done(e)' <=> Done(e)) /\ (Past(e) => Past(e)') /\ LogOf(e)
        BY <1>3, <1>14, <1>15
      <3>4. RunLog(v, e) /\ (lck = Taken(e) \/ Done(e))
        BY <1>3, <2>2 DEF RunOf, RunLog
      <3>5. Lg(e, 1) # Null /\ Lg(e, 2) # Null
        <4>1. CASE e = d
          BY <1>4, <4>1
        <4>2. CASE e # d
          BY <1>17, <3>3, <3>4, <4>2 DEF LogOf, Past
        <4> QED
          BY <4>1, <4>2
      <3>6. pc[v] \in {"panic", "announce", "skip?", "store"} => My(v).old # c'
        <4> SUFFICES ASSUME pc[v] \in Loaded PROVE My(v).old # c'
          BY DEF Loaded
        <4>1. My(v).old = Lg(e, 2)
          BY <3>4 DEF RunLog
        <4>2. Lg(e, 2).tag <= c.tag /\ Lg(e, 2).tag \in Nat
          BY <3>3, <3>5 DEF LogOf, Word
        <4> QED
          BY <1>11, <4>1, <4>2
      <3>7. RunLog(v, e)'
        BY <1>1, <1>7, <3>2, <3>3, <3>4, <3>5, <3>6, RunStays
      <3> QED
        BY <1>7, <3>7 DEF RunOf, RunLog, Lg, Done, Past
    <2> QED
      BY <2>1, <2>2
  <1>23. RunOf(t)'
    <2>1. /\ "x" \in DOMAIN loc[t] /\ My(t).x = Lg(d, 1).val /\ "old" \in DOMAIN loc[t] /\ My(t).old = Lg(d, 2)
      BY <1>2, <1>3 DEF RunLog
    <2>2. Lg(d, 1)' = Lg(d, 1) /\ Lg(d, 2)' = Lg(d, 2) /\ Past(d)' /\ lck' = Taken(d)
      BY <1>1, <1>4, <1>14, <1>15
    <2>3. RunLog(t, d)'
      BY <1>4, <1>6, <2>1, <2>2 DEF RunLog
    <2> QED
      BY <1>6, <2>3 DEF RunOf, RunLog, Lg, Done, Past
  <1> QED
    BY <1>12, <1>13, <1>15, <1>19, <1>20, <1>21, <1>22, <1>23 DEF JInv

\* clear: the section is done, and its owner knows what it has loaded.
LEMMA JClears ==
  ASSUME IInv, JInv, NEW t \in Thread, UNCHANGED todo, RunClear(t) PROVE JInv'
  <1>1. /\ pc[t] = "clear" /\ Jump(t, My(t).after) /\ UNCHANGED <<desc, c, effect, ann>>
        /\ lck' = IF lck = Taken(My(t).d) THEN Count(D(t).counter + 1) ELSE lck
    BY DEF RunClear, At
  <1>2. pc[t] \in Running /\ pc[t] \in Logged
    BY <1>1 DEF Running, Logged
  <1>3. Holds(t)
    BY <1>2 DEF Holds, Holding
  <1> PICK d \in Slot : d = My(t).d
    BY <1>2, Runner
  <1>4. Shapes /\ Words /\ LogOf(d) /\ RunLog(t, d)
    BY <1>2, Runner
  <1>5. /\ PhaseOf(t) /\ SectionOf(t) /\ {"op", "call", "current", "mine"} \subseteq DOMAIN loc[t]
        /\ (Blank(Mine(t)) => effect[My(t).call] = None) /\ My(t).after \in {"retire", "reload"} /\ pc[t] # "idle"
    BY <1>2, <1>3, Caller, Known
  <1>6. /\ Done(d) /\ Past(d) /\ "x" \in DOMAIN loc[t] /\ My(t).x = Lg(d, 1).val /\ My(t).x \in Nat
    BY <1>1, <1>2, <1>4 DEF RunLog, LogOf, Word
  <1>7. OthersStay(t) /\ pc'[t] \in {"retire", "reload"} /\ pc'[t] = My(t).after /\ loc' = loc /\ My(t)' = My(t) /\ Mine(t)' = Mine(t)
    BY <1>1, <1>4, <1>5, JumpDoes DEF Mine
  <1>8. pc'[t] \notin Running /\ pc'[t] # "idle" /\ ~OwnRun(t)'
    BY <1>7 DEF Running, OwnRun
  <1>9. \A e \in Slot : SameLog(e)
    BY <1>1 DEF SameLog
  <1>10. \A e \in Slot : lck = Taken(e) => lck' = Taken(e) \/ Done(e)
    <2> SUFFICES ASSUME NEW e \in Slot, lck = Taken(e), e # d PROVE lck' = Taken(e)
      BY <1>6
    <2>1. lck # Taken(d)
      <3>1. Taken(e).d = e /\ Taken(d).d = d
        BY DEF Taken
      <3> QED
        BY <3>1
    <2> QED
      BY <1>1, <2>1
  <1>11. PhaseOf(t)'
    <2>1. CASE OwnRun(t)
      <3>1. "won" \in DOMAIN loc[t] /\ pc'[t] = "retire" /\ d = Mine(t)
        BY <1>5, <1>7, <2>1 DEF PhaseOf, OwnRun
      <3>2. effect[My(t).call] = My(t).x /\ None \notin Nat
        BY <1>3, <1>5, <1>6, <3>1 DEF SectionOf, None
      <3> QED
        BY <1>1, <1>6, <1>7, <1>8, <3>1, <3>2 DEF PhaseOf
    <2>2. CASE ~OwnRun(t)
      <3>1. "won" \notin DOMAIN loc[t] /\ Blank(Mine(t)) /\ (My(t).after = "retire" => My(t).op = "try_lock")
        BY <1>1, <1>2, <1>3, <1>5, <2>2 DEF PhaseOf
      <3>2. effect'[My(t)'.call] = None /\ Blank(Mine(t))'
        BY <1>1, <1>5, <1>7, <3>1 DEF Blank, Lg, Done
      <3>3. pc'[t] = "retire" => My(t)'.op = "try_lock"
        BY <1>7, <3>1
      <3> QED
        BY <1>7, <1>8, <3>1, <3>2, <3>3 DEF PhaseOf
    <2> QED
      BY <2>1, <2>2
  <1>12. \A x \in {"op", "call"} : x \in DOMAIN loc'[t] /\ loc'[t][x] = loc[t][x]
    BY <1>5, <1>7
  <1> QED
    BY <1>1, <1>3, <1>5, <1>7, <1>8, <1>9, <1>10, <1>11, <1>12, CallStepKeeps, NotRunning

\* The compare-and-swap that takes the lock finds it free, and puts in a section that nobody has run.
LEMMA JCas ==
  ASSUME IInv, JInv, NEW t \in Thread, UNCHANGED todo, Cas(t) PROVE JInv'
  <1>1. /\ pc[t] = "cas" /\ UNCHANGED <<c, effect, ann>>
        /\ desc' = [desc EXCEPT ![Mine(t)].counter = My(t).current.count]
        /\ lck' = IF lck = My(t).current THEN Taken(Mine(t)) ELSE lck
    BY DEF Cas, At, Other, Mine
  <1>2. Holds(t) /\ ~OwnRun(t)
    BY <1>1 DEF Holds, Holding, OwnRun, Running
  <1>3. /\ Shapes /\ pc[t] # "idle" /\ PhaseOf(t) /\ {"op", "call", "current", "mine"} \subseteq DOMAIN loc[t] /\ Mine(t) \in Slot
    BY <1>2, Caller
  <1>4. "won" \notin DOMAIN loc[t] /\ Blank(Mine(t)) /\ My(t).current.d = 0
    BY <1>1, <1>2, <1>3 DEF PhaseOf
  <1> PICK m \in Slot : m = Mine(t)
    BY <1>3
  <1>5. \A e \in Slot : SameLog(e)
    <2>1. \A e \in Slot \ {m} : desc'[e] = desc[e]
      BY <1>1, <1>3 DEF Shapes
    <2>2. desc'[m] = [desc[m] EXCEPT !.counter = My(t).current.count]
      BY <1>1, <1>3 DEF Shapes
    <2>3. {"done", "log", "call"} \subseteq DOMAIN desc[m]
      BY JKnown DEF LogOf
    <2> QED
      BY <2>1, <2>2, <2>3 DEF SameLog
  <1>6. \A e \in Slot : lck = Taken(e) => lck' = Taken(e) \/ Done(e)
    <2> SUFFICES ASSUME NEW e \in Slot, lck = Taken(e) PROVE lck' = Taken(e)
      OBVIOUS
    <2>1. lck.d = e /\ e # 0
      BY FlockAssumption DEF Taken
    <2> QED
      BY <1>1, <1>4, <2>1
  <1>7. Blank(m)'
    BY <1>1, <1>4, <1>5, LogStays
  <1>8. CASE My(t).op = "try_lock" \/ lck # My(t).current
    <2>1. PICK l \in {"reread", "reload"} : Jump(t, l) /\ (l = "reread" => My(t).op = "try_lock")
      BY <1>8 DEF Cas
    <2>2. OthersStay(t) /\ pc'[t] = l /\ loc' = loc /\ My(t)' = My(t) /\ Mine(t)' = m
      BY <1>3, <2>1, JumpDoes DEF Mine
    <2>3. pc'[t] \notin Running /\ pc'[t] # "idle" /\ ~OwnRun(t)'
      BY <2>2 DEF Running, OwnRun
    <2>4. PhaseOf(t)'
      <3>1. Blank(Mine(t))'
        BY <1>7, <2>2 DEF Blank, Lg, Done
      <3>2. My(t)'.op = My(t).op /\ pc'[t] \notin {"idle", "allocate", "cas", "done?", "retire", "retire later", "return"}
        BY <2>2
      <3> QED
        BY <1>4, <2>1, <2>2, <2>3, <3>1, <3>2 DEF PhaseOf
    <2>5. \A x \in {"op", "call"} : x \in DOMAIN loc'[t] /\ loc'[t][x] = loc[t][x]
      BY <1>3, <2>2
    <2> QED
      BY <1>1, <1>2, <1>3, <1>5, <1>6, <2>2, <2>3, <2>4, <2>5, CallStepKeeps, NotRunning
  <1>9. CASE My(t).op # "try_lock" /\ lck = My(t).current
    <2>1. Go(t, "run", [d |-> m, after |-> "retire", won |-> TRUE]) /\ lck' = Taken(m)
      BY <1>1, <1>9 DEF Cas, Mine
    <2>2. /\ OthersStay(t) /\ pc'[t] = "run" /\ My(t)'.d = m /\ My(t)'.after = "retire" /\ Mine(t)' = m
          /\ \A x \in {"op", "call"} : x \in DOMAIN loc'[t] /\ loc'[t][x] = loc[t][x]
          /\ "won" \in DOMAIN loc'[t]
      <3> DEFINE r == [d |-> m, after |-> "retire", won |-> TRUE]
      <3>1. DOMAIN r = {"d", "after", "won"} /\ r["d"] = m /\ r["after"] = "retire"
        OBVIOUS
      <3> HIDE DEF r
      <3>2. Go(t, "run", r)
        BY <2>1 DEF r
      <3> QED
        BY <1>3, <3>1, <3>2, GoDoes DEF OthersStay, My, Mine
    <2>3. OwnRun(t)'
      BY <2>2 DEF OwnRun, Running
    <2>4. PhaseOf(t)'
      BY <2>2, <2>3 DEF PhaseOf
    <2>5. RunOf(t)'
      BY <2>1, <2>2, StartsRun
    <2> QED
      BY <1>1, <1>2, <1>3, <1>5, <1>6, <2>2, <2>4, <2>5, CallStepKeeps
  <1> QED
    BY <1>8, <1>9

\* Who runs a section has a descriptor that is not in the pool.
LEMMA RunsLive == ASSUME IInv, NEW u \in Thread, pc[u] \in Running PROVE My(u).d \in Slot /\ My(u).d \notin free
  <1>1. Apart /\ SparedOf(u) /\ LocalsOf(u)
    BY DEF IInv
  <1>2. CASE OwnRun(u)
    <2>1. Holds(u) /\ My(u).d = Mine(u)
      BY <1>2 DEF OwnRun, Holds, Holding
    <2> QED
      BY <1>1, <2>1 DEF Apart
  <1>3. CASE ~OwnRun(u)
    BY <1>1, <1>3 DEF Apart, SparedOf, Waits, LocalsOf
  <1> QED
    BY <1>2, <1>3

\* What a step outside the section leaves of the other calls: it writes a log only if it is in
\* the pool.
LEMMA OthersKeep ==
  ASSUME IInv, JInv, NEW t \in Thread, OthersStay(t), UNCHANGED <<lck, c>>,
         \A e \in Slot : e \notin free => SameLog(e),
         \A u \in Thread \ {t} : pc[u] # "idle" => effect'[My(u).call] = effect[My(u).call]
  PROVE  \A u \in Thread \ {t} : SectionOf(u)' /\ PhaseOf(u)' /\ RunOf(u)'
  <1>1. \A u \in Thread : SectionOf(u) /\ PhaseOf(u) /\ RunOf(u)
    BY DEF JInv
  <1>2. \A u \in Thread \ {t} :
          /\ pc'[u] = pc[u] /\ loc'[u] = loc[u] /\ My(u)' = My(u) /\ Mine(u)' = Mine(u)
          /\ (Holds(u)' <=> Holds(u)) /\ (OwnRun(u)' <=> OwnRun(u)) /\ (HasPut(u)' <=> HasPut(u))
    BY ThreadStays
  <1>3. \A e \in Slot : e \notin free =>
          /\ \A i : Lg(e, i)' = Lg(e, i)
          /\ (Done(e)' <=> Done(e)) /\ (Past(e)' <=> Past(e)) /\ (Blank(e)' <=> Blank(e))
          /\ desc'[e].call = desc[e].call
    BY LogStays DEF SameLog
  <1>4. \A u \in Thread : Holds(u) => Mine(u) \in Slot /\ Mine(u) \notin free /\ pc[u] # "idle"
    BY DEF IInv, Apart, Holds, Holding, Helping, Running
  <1>5. ASSUME NEW u \in Thread \ {t} PROVE SectionOf(u)'
    <2> SUFFICES ASSUME Holds(u) PROVE SectionOf(u)'
      BY <1>2 DEF SectionOf
    <2> PICK e \in Slot : e = Mine(u) /\ e \notin free
      BY <1>4
    <2>1. SectionOf(u) /\ effect'[My(u).call] = effect[My(u).call]
      BY <1>1, <1>4
    <2>2. Lg(e, 1)' = Lg(e, 1) /\ Lg(e, 2)' = Lg(e, 2)
      BY <1>3
    <2>3. (Done(e)' <=> Done(e)) /\ (Past(e)' <=> Past(e)) /\ (Blank(e)' <=> Blank(e)) /\ desc'[e].call = desc[e].call
      BY <1>3
    <2> QED
      BY <1>2, <2>1, <2>2, <2>3 DEF SectionOf
  <1>6. ASSUME NEW u \in Thread \ {t} PROVE PhaseOf(u)'
    <2> PICK e : Holds(u) => e = Mine(u) /\ e \in Slot /\ e \notin free
      BY <1>4
    <2>1. Holds(u) => (Blank(e)' <=> Blank(e)) /\ (Done(e)' <=> Done(e))
      BY <1>3
    <2>2. pc[u] \in {"allocate", "retire", "retire later", "return"} => effect'[My(u).call] = effect[My(u).call]
      OBVIOUS
    <2> QED
      BY <1>1, <1>2, <2>1, <2>2, PhaseStays
  <1>7. ASSUME NEW u \in Thread \ {t} PROVE RunOf(u)'
    <2>1. CASE pc[u] \notin Running
      BY <1>2, <2>1, NotRunning
    <2>2. CASE pc[u] \in Running
      <3> PICK e \in Slot : e = My(u).d /\ e \notin free
        BY <2>2, RunsLive
      <3>1. Lg(e, 1)' = Lg(e, 1) /\ Lg(e, 2)' = Lg(e, 2) /\ Lg(e, 3)' = Lg(e, 3)
        BY <1>3
      <3>2. (Done(e)' <=> Done(e)) /\ (Past(e)' <=> Past(e))
        BY <1>3
      <3>3. RunLog(u, e)
        BY <1>1 DEF RunOf
      <3>4. RunLog(u, e)'
        BY <1>2, <3>1, <3>2, <3>3, RunStays
      <3> QED
        BY <1>2, <3>4 DEF RunOf, RunLog, Lg, Done, Past
    <2> QED
      BY <2>1, <2>2
  <1> QED
    BY <1>5, <1>6, <1>7

\* A call begins: it has a number of its own, and no effect yet.
LEMMA JCall ==
  ASSUME IInv, JInv, NEW t \in Thread, Call(t) PROVE JInv'
  <1>1. /\ pc[t] = "idle" /\ todo > 0 /\ todo' = todo - 1 /\ UNCHANGED <<lck, desc, c, ann, effect>>
        /\ \E op \in Ops[t] : Go(t, "allocate", [op |-> op, call |-> todo, current |-> lck])
    BY DEF Call, At
  <1>2. /\ Shapes /\ Words /\ CallsApart /\ PhaseOf(t) /\ \A e \in Slot : LogOf(e)
        /\ \A u \in Thread : CallOf(u)
    BY DEF IInv, JInv
  <1>3. /\ OthersStay(t) /\ pc'[t] = "allocate" /\ {"op", "call"} \subseteq DOMAIN loc'[t]
        /\ My(t)'.op \in {"try_lock", "with_lock"} /\ My(t)'.call = todo /\ "won" \notin DOMAIN loc'[t]
    <2>1. PICK op \in Ops[t] : Go(t, "allocate", [op |-> op, call |-> todo, current |-> lck])
      BY <1>1
    <2> DEFINE r == [op |-> op, call |-> todo, current |-> lck]
    <2>2. DOMAIN r = {"op", "call", "current"} /\ r["op"] = op /\ r["call"] = todo
      OBVIOUS
    <2> HIDE DEF r
    <2>3. Go(t, "allocate", r)
      BY <2>1 DEF r
    <2>4. "won" \notin DOMAIN loc[t]
      BY <1>1, <1>2 DEF PhaseOf
    <2>5. op \in {"try_lock", "with_lock"}
      BY <2>1, OpsAssumption
    <2> QED
      BY <1>2, <2>2, <2>3, <2>4, <2>5, GoDoes DEF OthersStay, My
  <1>4. todo \in 1 .. MaxCalls /\ todo' \in 0 .. MaxCalls /\ todo > todo' /\ \A k \in 1 .. todo' : k \in 1 .. todo
    BY <1>1, <1>2, FlockAssumption DEF Words
  <1>5. Words' /\ effect'[todo] = None
    BY <1>1, <1>2, <1>4 DEF Words, Word
  <1>6. ASSUME NEW u \in Thread \ {t}, pc'[u] # "idle"
        PROVE  pc[u] # "idle" /\ My(u)' = My(u) /\ My(u).call > todo /\ CallOf(u)'
    <2>1. pc[u] # "idle" /\ My(u)' = My(u) /\ loc'[u] = loc[u] /\ CallOf(u)
      BY <1>2, <1>3, <1>6, ThreadStays
    <2>2. My(u).call \in 1 .. MaxCalls /\ My(u).call > todo
      BY <2>1 DEF CallOf
    <2>3. My(u).call > todo'
      BY <1>1, <1>2, <2>2, FlockAssumption DEF Words
    <2> QED
      BY <2>1, <2>2, <2>3 DEF CallOf
  <1>7. \A u \in Thread : CallOf(u)'
    <2>1. CallOf(t)'
      BY <1>3, <1>4 DEF CallOf, My
    <2>2. \A u \in Thread \ {t} : CallOf(u)'
      BY <1>6 DEF CallOf
    <2> QED
      BY <2>1, <2>2
  <1>8. CallsApart'
    <2>1. \A u \in Thread \ {t} : pc'[u] # "idle" => My(u)'.call # My(t)'.call
      <3> SUFFICES ASSUME NEW u \in Thread \ {t}, pc'[u] # "idle" PROVE My(u)'.call # My(t)'.call
        OBVIOUS
      <3>1. My(u)'.call > todo /\ My(t)'.call = todo /\ todo \in Int
        BY <1>3, <1>4, <1>6
      <3> QED
        BY <3>1
    <2>2. \A u, v \in Thread \ {t} : pc'[u] # "idle" /\ pc'[v] # "idle" /\ My(u)'.call = My(v)'.call => u = v
      BY <1>2, <1>6 DEF CallsApart
    <2> QED
      BY <2>1, <2>2 DEF CallsApart
  <1>9. \A e \in Slot : SameLog(e)
    BY <1>1 DEF SameLog
  <1>10. \A e \in Slot : LogOf(e)'
    BY <1>1, <1>2, <1>9, LogStays
  <1>11. \A u \in Thread \ {t} : SectionOf(u)' /\ PhaseOf(u)' /\ RunOf(u)'
    BY <1>1, <1>3, <1>9, OthersKeep
  <1>12. ~Holds(t)' /\ ~OwnRun(t)' /\ pc'[t] \notin Running
    BY <1>3 DEF Holds, Holding, Helping, Running, OwnRun
  <1>13. SectionOf(t)' /\ PhaseOf(t)' /\ RunOf(t)'
    <2>1. PhaseOf(t)'
      BY <1>3, <1>5, <1>12 DEF PhaseOf, My
    <2> QED
      BY <1>12, <2>1, NotRunning DEF SectionOf
  <1> QED
    BY <1>5, <1>7, <1>8, <1>10, <1>11, <1>13 DEF JInv

\* A call returns: its effect is forgotten, and nobody else's is.
LEMMA JReturn ==
  ASSUME IInv, JInv, NEW t \in Thread, UNCHANGED todo, Return(t) PROVE JInv'
  <1>1. /\ pc[t] = "return" /\ UNCHANGED <<lck, desc, c, ann>>
        /\ pc' = [pc EXCEPT ![t] = "idle"] /\ loc' = [loc EXCEPT ![t] = <<>>]
        /\ effect' = [effect EXCEPT ![My(t).call] = None]
    BY DEF Return, At
  <1>2. /\ Shapes /\ Words /\ CallsApart /\ \A e \in Slot : LogOf(e)
        /\ \A u \in Thread : CallOf(u)
    BY DEF IInv, JInv
  <1>3. /\ OthersStay(t) /\ pc'[t] = "idle" /\ loc'[t] = <<>>
    BY <1>1, <1>2 DEF OthersStay, Shapes
  <1>4. "won" \notin DOMAIN loc'[t]
    BY <1>3
  <1>5. /\ My(t).call \in 1 .. MaxCalls /\ effect'[My(t).call] = None /\ DOMAIN effect' = 1 .. MaxCalls
        /\ \A k \in 1 .. MaxCalls : k # My(t).call => effect'[k] = effect[k]
    <2>1. My(t).call \in 1 .. MaxCalls
      BY <1>1, <1>2 DEF CallOf
    <2> QED
      BY <1>1, <1>2, <2>1 DEF Words
  <1>6. \A u \in Thread \ {t} : pc[u] # "idle" => effect'[My(u).call] = effect[My(u).call]
    <2> SUFFICES ASSUME NEW u \in Thread \ {t}, pc[u] # "idle" PROVE effect'[My(u).call] = effect[My(u).call]
      OBVIOUS
    <2>1. My(u).call \in 1 .. MaxCalls
      BY <1>2 DEF CallOf
    <2>2. My(u).call # My(t).call
      BY <1>1, <1>2 DEF CallsApart
    <2> QED
      BY <1>5, <2>1, <2>2
  <1>7. Words'
    <2>1. \A k \in 1 .. todo : k \in 1 .. MaxCalls
      BY <1>2, FlockAssumption DEF Words
    <2>2. \A k \in 1 .. todo : effect'[k] = None
      BY <1>2, <1>5, <2>1 DEF Words
    <2> QED
      BY <1>1, <1>2, <1>5, <2>2 DEF Words, Word
  <1>8. \A u \in Thread : CallOf(u)' /\ (pc'[u] # "idle" => u # t /\ pc[u] # "idle" /\ My(u)' = My(u))
    <2>1. \A u \in Thread \ {t} : pc'[u] = pc[u] /\ loc'[u] = loc[u] /\ My(u)' = My(u)
      BY <1>3, ThreadStays
    <2> QED
      BY <1>2, <1>3, <2>1 DEF CallOf
  <1>9. CallsApart'
    BY <1>2, <1>8 DEF CallsApart
  <1>10. \A e \in Slot : SameLog(e)
    BY <1>1 DEF SameLog
  <1>11. \A e \in Slot : LogOf(e)'
    BY <1>1, <1>2, <1>10, LogStays
  <1>12. \A u \in Thread \ {t} : SectionOf(u)' /\ PhaseOf(u)' /\ RunOf(u)'
    BY <1>1, <1>3, <1>6, <1>10, OthersKeep
  <1>13. ~Holds(t)' /\ ~OwnRun(t)' /\ pc'[t] \notin Running
    BY <1>3 DEF Holds, Holding, Helping, Running, OwnRun
  <1>14. SectionOf(t)' /\ PhaseOf(t)' /\ RunOf(t)'
    <2>1. PhaseOf(t)'
      BY <1>3, <1>4, <1>13 DEF PhaseOf
    <2> QED
      BY <1>13, <2>1, NotRunning DEF SectionOf
  <1> QED
    BY <1>7, <1>8, <1>9, <1>11, <1>12, <1>14 DEF JInv

\* A descriptor that the pool hands out begins with an empty log, and is not in the lock.
LEMMA JAllocate ==
  ASSUME IInv, JInv, NEW t \in Thread, UNCHANGED todo, Allocate(t) PROVE JInv'
  <1>1. pc[t] = "allocate" /\ UNCHANGED <<lck, c, ann, effect>>
    BY DEF Allocate, At
  <1> DEFINE le == My(t).current
             clean == <<Null, Null, Null>>
  <1>2. PICK d \in free :
          /\ desc' = [desc EXCEPT ![d] = [counter |-> le.count, done |-> FALSE, acquired |-> @.acquired,
                                     log |-> <<Null, Null, Null>>, call |-> My(t).call]]
          /\ Go(t, IF ~Locked(le) THEN "cas" ELSE "still?", [mine |-> d, d |-> le.d])
    BY DEF Allocate
  <1>3. /\ Shapes /\ Apart /\ Words /\ CallOf(t) /\ PhaseOf(t) /\ "current" \in DOMAIN loc[t]
        /\ \A e \in Slot : LogOf(e)
    <2>1. Shapes /\ Apart /\ LocalsOf(t)
      BY DEF IInv
    <2> QED
      BY <1>1, <2>1, JKnown DEF LocalsOf
  <1>4. d \in Slot
    BY <1>2, <1>3 DEF Apart
  <1>5. /\ {"done", "log", "call"} \subseteq DOMAIN desc'[d] /\ desc'[d].done = FALSE /\ desc'[d].log = clean
        /\ desc'[d].call = My(t).call /\ \A e \in Slot \ {d} : desc'[e] = desc[e]
    <2> DEFINE new == [counter |-> le.count, done |-> FALSE, acquired |-> desc[d].acquired,
                       log |-> <<Null, Null, Null>>, call |-> My(t).call]
    <2>1. {"done", "log", "call"} \subseteq DOMAIN new /\ new.done = FALSE /\ new.log = clean /\ new.call = My(t).call
      OBVIOUS
    <2>2. desc' = [desc EXCEPT ![d] = new]
      BY <1>2
    <2> HIDE DEF new, clean
    <2> QED
      BY <1>3, <1>4, <2>1, <2>2 DEF Shapes
  <1>6. DOMAIN clean = 1 .. 3 /\ clean[1] = Null /\ clean[2] = Null /\ clean[3] = Null
    OBVIOUS
  <1> HIDE DEF clean
  <1>7. Lg(d, 1)' = Null /\ Lg(d, 2)' = Null /\ Lg(d, 3)' = Null /\ ~Done(d)'
    BY <1>5, <1>6 DEF Lg, Done
  <1>8. LogOf(d)' /\ Blank(d)' /\ ~Past(d)'
    <2>1. Blank(d)' /\ ~Past(d)'
      BY <1>7 DEF Blank, Past
    <2>2. {"done", "log", "call"} \subseteq DOMAIN desc'[d] /\ DOMAIN desc'[d].log = 1 .. 3
      BY <1>5, <1>6
    <2> QED
      BY <1>7, <2>1, <2>2 DEF LogOf
  <1>9. \A e \in Slot : e \notin free => SameLog(e)
    BY <1>2, <1>5 DEF SameLog
  <1>10. \A e \in Slot : LogOf(e)'
    <2>1. \A e \in Slot \ {d} : SameLog(e)
      BY <1>5 DEF SameLog
    <2>2. \A e \in Slot \ {d} : LogOf(e)'
      BY <1>1, <1>3, <2>1, LogStays
    <2> QED
      BY <1>8, <2>2
  <1>11. /\ OthersStay(t) /\ pc'[t] \in {"cas", "still?"} /\ (pc'[t] = "cas" => ~Locked(le))
         /\ \A x \in {"op", "call"} : x \in DOMAIN loc'[t] /\ loc'[t][x] = loc[t][x]
         /\ My(t)'.current = le /\ Mine(t)' = d /\ "won" \notin DOMAIN loc'[t]
    <2> DEFINE r == [mine |-> d, d |-> le.d]
               l == IF ~Locked(le) THEN "cas" ELSE "still?"
    <2>1. DOMAIN r = {"mine", "d"} /\ r["mine"] = d
      OBVIOUS
    <2>2. Go(t, l, r)
      BY <1>2
    <2> HIDE DEF r, l
    <2>3. "won" \notin DOMAIN loc[t] /\ {"op", "call"} \subseteq DOMAIN loc[t]
      BY <1>1, <1>3 DEF PhaseOf, CallOf
    <2>4. /\ OthersStay(t) /\ pc'[t] = l /\ My(t)'.current = le /\ Mine(t)' = d /\ "won" \notin DOMAIN loc'[t]
          /\ \A x \in {"op", "call"} : x \in DOMAIN loc'[t] /\ loc'[t][x] = loc[t][x]
      BY <1>3, <2>1, <2>2, <2>3, GoDoes DEF OthersStay, My, Mine
    <2> QED
      BY <2>4 DEF l
  <1>12. Words' /\ CallsApart' /\ \A u \in Thread : CallOf(u)' /\ My(u)'.call = My(u).call
    <2>1. DOMAIN ann' = Thread /\ \A u \in Thread : ann'[u] \in Int /\ ann'[u] <= c.tag
      BY <1>1, <1>3 DEF Words
    <2>2. pc[t] # "idle" /\ pc'[t] # "idle"
      BY <1>1, <1>11
    <2> QED
      BY <1>1, <1>11, <2>1, <2>2, CallsStay
  <1>13. \A u \in Thread \ {t} : SectionOf(u)' /\ PhaseOf(u)' /\ RunOf(u)'
    BY <1>1, <1>9, <1>11, OthersKeep
  <1>14. /\ pc'[t] \notin Running /\ ~OwnRun(t)' /\ Holds(t)' /\ My(t)'.call = My(t).call
         /\ effect'[My(t)'.call] = None
    <2>1. effect[My(t).call] = None
      BY <1>1, <1>3 DEF PhaseOf
    <2> QED
      BY <1>1, <1>11, <1>12, <2>1 DEF Running, Holding, Holds, OwnRun
  <1>15. Blank(Mine(t))' /\ ~Past(Mine(t))'
    BY <1>8, <1>11 DEF Blank, Past, Lg, Done
  <1>16. SectionOf(t)'
    <2>1. desc'[Mine(t)'].call = My(t)'.call
      BY <1>5, <1>11, <1>14
    <2>2. Lg(Mine(t), 1)' = Null /\ Lg(Mine(t), 2)' = Null
      BY <1>7, <1>11 DEF Lg
    <2> QED
      BY <1>14, <1>15, <2>1, <2>2 DEF SectionOf
  <1>17. PhaseOf(t)'
    <2>1. pc'[t] = "cas" => My(t)'.current.d = 0
      BY <1>11 DEF Locked
    <2> QED
      BY <1>11, <1>14, <1>15, <2>1 DEF PhaseOf
  <1> QED
    BY <1>10, <1>12, <1>13, <1>14, <1>16, <1>17, NotRunning DEF JInv

\* At the start no section has been run.
LEMMA JBegins == Init => JInv
  <1> SUFFICES ASSUME Init PROVE JInv
    OBVIOUS
  <1>1. \A t \in Thread : pc[t] = "idle" /\ loc[t] = <<>>
    BY DEF Init
  <1>2. \A t \in Thread : ~Holds(t) /\ ~OwnRun(t) /\ pc[t] \notin Running /\ "won" \notin DOMAIN loc[t]
    <2>1. "won" \notin DOMAIN <<>>
      OBVIOUS
    <2>2. \A t \in Thread : ~Holds(t) /\ ~OwnRun(t) /\ pc[t] \notin Running
      BY <1>1 DEF Holds, Holding, Helping, Running, OwnRun
    <2> QED
      BY <1>1, <2>1, <2>2
  <1>3. Words
    <2>1. c.val = 0 /\ c.tag = FirstTag /\ ann = [t \in Thread |-> 0] /\ effect = [i \in 1 .. MaxCalls |-> None]
          /\ todo = MaxCalls
      BY DEF Init
    <2>2. FirstTag \in Nat \ {0} /\ MaxCalls \in Nat /\ MaxCalls \in 0 .. MaxCalls
      BY FlockAssumption
    <2>3. Word(c) /\ \A t \in Thread : ann[t] \in Int /\ ann[t] <= c.tag
      BY <2>1, <2>2 DEF Word
    <2> QED
      BY <2>1, <2>2, <2>3 DEF Words
  <1>4. ASSUME NEW d \in Slot PROVE LogOf(d)
    <2> DEFINE clean == <<Null, Null, Null>>
               new == [counter |-> 0, done |-> FALSE, acquired |-> FALSE, log |-> <<Null, Null, Null>>, call |-> 0]
    <2>1. {"done", "log", "call"} \subseteq DOMAIN new /\ new.done = FALSE /\ new.log = clean
      OBVIOUS
    <2>2. DOMAIN clean = 1 .. 3 /\ clean[1] = Null /\ clean[2] = Null /\ clean[3] = Null
      OBVIOUS
    <2>3. desc[d] = new
      BY DEF Init
    <2> HIDE DEF new, clean
    <2>4. Lg(d, 1) = Null /\ Lg(d, 2) = Null /\ Lg(d, 3) = Null /\ ~Done(d)
      BY <2>1, <2>2, <2>3 DEF Lg, Done
    <2> QED
      BY <2>1, <2>2, <2>3, <2>4 DEF LogOf
  <1>5. CallsApart /\ \A t \in Thread : CallOf(t) /\ SectionOf(t)
    BY <1>1, <1>2 DEF CallsApart, CallOf, SectionOf
  <1>6. \A t \in Thread : PhaseOf(t)
    BY <1>1, <1>2 DEF PhaseOf
  <1>7. \A t \in Thread : RunOf(t)
    BY <1>2, NoRun DEF RunOf
  <1> QED
    BY <1>3, <1>4, <1>5, <1>6, <1>7 DEF JInv

\* Every step keeps what is known of the sections, while tags last.
LEMMA JContinues == IInv /\ JInv /\ TagsLast /\ [Next]_vars => JInv'
  <1> SUFFICES ASSUME IInv, JInv, TagsLast, [Next]_vars PROVE JInv'
    OBVIOUS
  <1>1. CASE Next
    <2>1. PICK t \in Thread : Call(t) \/ Step(t)
      BY <1>1 DEF Next
    <2>2. CASE Call(t)
      BY <2>2, JCall
    <2>3. CASE RunStep(t) /\ UNCHANGED todo
      <3>1. CASE RunLoad(t) \/ RunLoadAgain(t)
        BY <2>3, <3>1, JLoads
      <3>2. CASE RunCommitLoad(t)
        BY <2>3, <3>2, JCommitLoad
      <3>3. CASE RunCommitAgain(t)
        BY <2>3, <3>3, JCommitAgain
      <3>4. CASE RunNext(t) \/ RunPanic(t)
        BY <2>3, <3>4, JTags
      <3>5. CASE RunAnnounce(t) \/ RunSkip(t) \/ RunUnannounce(t)
        BY <2>3, <3>5, JAnnounces
      <3>6. CASE RunStore(t)
        BY <2>3, <3>6, JStoreFails, JStoreHits
      <3>7. CASE RunMark(t) \/ RunDone(t)
        BY <2>3, <3>7, JMarks
      <3>8. CASE RunClear(t)
        BY <2>3, <3>8, JClears
      <3> QED
        BY <2>3, <3>1, <3>2, <3>3, <3>4, <3>5, <3>6, <3>7, <3>8 DEF RunStep
    <2>4. CASE CallStep(t) /\ UNCHANGED todo
      <3>1. CASE HelpStill(t) \/ HelpAcquireTest(t) \/ HelpAcquire(t) \/ HelpStillNow(t)
        BY <2>4, <3>1, JHelps, JHelpRuns
      <3> QED
        BY <2>4, <3>1, JAllocate, JCas, JReread, JTryTaken, JReload, JRetires, JReturn DEF CallStep
    <2> QED
      BY <2>1, <2>2, <2>3, <2>4 DEF Step
  <1>2. CASE UNCHANGED vars
    <2>1. UNCHANGED <<lck, desc, c, ann, pc, loc, todo, effect>>
      BY <1>2 DEF vars
    <2>2. Words' /\ CallsApart' /\ \A d \in Slot : LogOf(d)'
      BY <2>1 DEF JInv, Words, Word, CallsApart, My, LogOf, Lg, Past, Done
    <2>3. ASSUME NEW t \in Thread PROVE CallOf(t)' /\ SectionOf(t)'
      BY <2>1 DEF JInv, CallOf, SectionOf, My, Mine, Holds, Lg, Past, Done, Blank
    <2>4. ASSUME NEW t \in Thread PROVE PhaseOf(t)'
      BY <2>1 DEF JInv, PhaseOf, My, Mine, Holds, OwnRun, Lg, Done, Blank
    <2>5. ASSUME NEW t \in Thread PROVE RunOf(t)'
      BY <2>1 DEF JInv, RunOf, RunLog, My, Lg, Past, Done
    <2> QED
      BY <2>2, <2>3, <2>4, <2>5 DEF JInv
  <1> QED
    BY <1>1, <1>2

-----------------------------------------------------------------------------
(* The refinement of SectionSpec.                                          *)

\* SectionSpec's call, and a step of SectionSpec or none.
StateOf(t) ==
  IF At(t, "idle") THEN [state |-> "idle"]
  ELSE IF effect[My(t).call] = None THEN [state |-> "called", op |-> My(t).op]
  ELSE [state |-> "done", x |-> effect[My(t).call]]
States == [t \in Thread |-> StateOf(t)]
Promised == Sections!Next \/ (States' = States /\ c'.val = c.val /\ result' = result)

\* One call changes.
LEMMA StatesBut ==
  ASSUME NEW t \in Thread, \A u \in Thread \ {t} : StateOf(u)' = StateOf(u), NEW v, StateOf(t)' = v
  PROVE  States' = [States EXCEPT ![t] = v]
  <1>1. States' = [u \in Thread |-> StateOf(u)']
    BY DEF States
  <1>2. [States EXCEPT ![t] = v] = [u \in Thread |-> IF u = t THEN v ELSE StateOf(u)]
    BY DEF States
  <1> HIDE DEF States
  <1>3. \A u \in Thread : StateOf(u)' = IF u = t THEN v ELSE StateOf(u)
    OBVIOUS
  <1> QED
    BY <1>1, <1>2, <1>3

\* A call that does nothing stays as it is, if its effect does.
LEMMA StateStays ==
  ASSUME NEW u, pc'[u] = "idle" <=> pc[u] = "idle",
         pc[u] # "idle" => My(u)'.op = My(u).op /\ My(u)'.call = My(u).call /\ effect'[My(u).call] = effect[My(u).call]
  PROVE  StateOf(u)' = StateOf(u)
  <1>1. CASE pc[u] = "idle"
    BY <1>1 DEF StateOf, At
  <1>2. CASE pc[u] # "idle"
    BY <1>2 DEF StateOf, At
  <1> QED
    BY <1>1, <1>2

\* The steps of SectionSpec.
LEMMA Calls ==
  ASSUME NEW t \in Thread, NEW op \in {"try_lock", "with_lock"}, StateOf(t) = [state |-> "idle"], c'.val = c.val,
         States' = [States EXCEPT ![t] = [state |-> "called", op |-> op]], result' = [result EXCEPT ![t] = None]
  PROVE  Sections!Next
  <1>1. Sections!Call(t)
    BY DEF Sections!Call, Sections!Idle, Sections!None, None, States, StateOf
  <1> QED
    BY <1>1 DEF Sections!Next

\* The moment of its effect.
LEMMA TakesEffect ==
  ASSUME NEW t \in Thread, StateOf(t).state = "called", States' = [States EXCEPT ![t] = [state |-> "done", x |-> c.val]],
         c'.val = (c.val + 1) % Values, result' = result
  PROVE  Sections!Next
  <1>1. Sections!Effect(t)
    BY DEF Sections!Effect, States, StateOf
  <1> QED
    BY <1>1 DEF Sections!Next

\* The return of what its section loaded.
LEMMA Returns ==
  ASSUME NEW t \in Thread, StateOf(t).state = "done", States' = [States EXCEPT ![t] = [state |-> "idle"]],
         c'.val = c.val, result' = [result EXCEPT ![t] = StateOf(t).x]
  PROVE  Sections!Next
  <1>1. Sections!Return(t)
    BY DEF Sections!Return, Sections!Idle, States, StateOf
  <1> QED
    BY <1>1 DEF Sections!Next

\* The return of a try_lock whose section has not been run.
LEMMA GivesUp ==
  ASSUME NEW t \in Thread, StateOf(t).state = "called", StateOf(t).op = "try_lock",
         States' = [States EXCEPT ![t] = [state |-> "idle"]], c'.val = c.val, result' = [result EXCEPT ![t] = None]
  PROVE  Sections!Next
  <1>1. Sections!GiveUp(t)
    BY DEF Sections!GiveUp, Sections!Idle, Sections!None, None, States, StateOf
  <1> QED
    BY <1>1 DEF Sections!Next

\* A call sets only locals of its own.
LEMMA CallLocals ==
  ASSUME IInv, JInv, NEW t \in Thread, RunClear(t) \/ (CallStep(t) /\ ~Return(t))
  PROVE  /\ OthersStay(t) /\ pc[t] # "idle" /\ pc'[t] # "idle" /\ UNCHANGED <<c, effect, result>>
         /\ My(t)'.op = My(t).op /\ My(t)'.call = My(t).call
  <1>1. Shapes /\ CallOf(t) /\ LocalsOf(t)
    BY DEF IInv, JInv
  <1>2. pc[t] # "idle" /\ UNCHANGED <<c, effect, result>>
    BY DEF RunClear, CallStep, Allocate, Cas, Reread, TryTaken, Reload, HelpStill, HelpAcquireTest, HelpAcquire,
           HelpStillNow, RetireTest, RetireLater, At, Other
  <1>3. pc'[t] # "idle"
    <2>1. pc[t] = "clear" => My(t).after \in {"retire", "reload"}
      BY <1>1 DEF LocalsOf, Running
    <2>2. CASE RunClear(t)
      BY <1>1, <2>1, <2>2, JumpDoes DEF RunClear, At
    <2>3. CASE CallStep(t) /\ ~Return(t)
      BY <1>1, <2>3 DEF CallStep, Allocate, Cas, Reread, TryTaken, Reload, HelpStill, HelpAcquireTest, HelpAcquire,
           HelpStillNow, RetireTest, RetireLater, AfterHelp, Go, Jump, Shapes
    <2> QED
      BY <2>2, <2>3
  <1>4. \/ \E l : Jump(t, l)
        \/ \E l, v, w, x : \/ Go(t, l, [mine |-> v, d |-> w]) \/ Go(t, l, [d |-> v, after |-> w, won |-> x])
                          \/ Go(t, l, [current |-> v]) \/ Go(t, l, [current |-> v, d |-> w]) \/ Go(t, l, [after |-> v])
    BY DEF RunClear, CallStep, Allocate, Cas, Reread, TryTaken, Reload, HelpStill, HelpAcquireTest, HelpAcquire,
           HelpStillNow, RetireTest, RetireLater
  <1>5. \A v, w, x : /\ DOMAIN [mine |-> v, d |-> w] = {"mine", "d"}
                     /\ DOMAIN [d |-> v, after |-> w, won |-> x] = {"d", "after", "won"}
                     /\ DOMAIN [current |-> v] = {"current"} /\ DOMAIN [current |-> v, d |-> w] = {"current", "d"}
                     /\ DOMAIN [after |-> v] = {"after"}
    OBVIOUS
  <1>6. {"op", "call"} \subseteq DOMAIN loc[t]
    BY <1>1, <1>2 DEF CallOf
  <1>7. ASSUME NEW l, NEW r, Go(t, l, r), DOMAIN r \subseteq {"mine", "d", "after", "won", "current"}
        PROVE  OthersStay(t) /\ My(t)'.op = My(t).op /\ My(t)'.call = My(t).call
    BY <1>1, <1>6, <1>7, GoDoes DEF OthersStay, My
  <1>8. ASSUME NEW l, Jump(t, l) PROVE OthersStay(t) /\ My(t)' = My(t)
    BY <1>1, <1>8, JumpDoes
  <1>9. OthersStay(t) /\ My(t)'.op = My(t).op /\ My(t)'.call = My(t).call
    BY <1>4, <1>5, <1>7, <1>8
  <1> QED
    BY <1>2, <1>3, <1>9

\* A step that has no effect and ends no call is none of SectionSpec's.
LEMMA Stutters ==
  ASSUME IInv, NEW t \in Thread, OthersStay(t), pc[t] # "idle", pc'[t] # "idle", UNCHANGED <<c, effect, result>>,
         My(t)'.op = My(t).op, My(t)'.call = My(t).call
  PROVE  Promised
  <1>1. \A u \in Thread \ {t} : pc'[u] = pc[u] /\ My(u)' = My(u)
    BY ThreadStays
  <1>2. \A u \in Thread : StateOf(u)' = StateOf(u)
    BY <1>1, StateStays
  <1>3. States' = States
    BY <1>2 DEF States
  <1> QED
    BY <1>3 DEF Promised

\* A call begins.
LEMMA CallKept == ASSUME IInv, JInv, JInv', NEW t \in Thread, Call(t) PROVE Promised
  <1>1. /\ pc[t] = "idle" /\ UNCHANGED <<c, effect>> /\ result' = [result EXCEPT ![t] = None]
        /\ \E op : Go(t, "allocate", [op |-> op, call |-> todo, current |-> lck])
    BY DEF Call, At
  <1>2. OthersStay(t) /\ pc'[t] = "allocate"
    <2> PICK r : Go(t, "allocate", r)
      BY <1>1
    <2>1. Shapes
      BY DEF IInv
    <2> QED
      BY <2>1, GoDoes DEF OthersStay
  <1>3. My(t)'.op \in {"try_lock", "with_lock"} /\ effect'[My(t)'.call] = None
    BY <1>2 DEF JInv, CallOf, PhaseOf
  <1> PICK op \in {"try_lock", "with_lock"} : op = My(t)'.op
    BY <1>3
  <1>4. StateOf(t) = [state |-> "idle"] /\ StateOf(t)' = [state |-> "called", op |-> op]
    BY <1>1, <1>2, <1>3 DEF StateOf, At
  <1>5. ASSUME NEW u \in Thread \ {t} PROVE StateOf(u)' = StateOf(u)
    <2>1. pc'[u] = pc[u] /\ My(u)' = My(u)
      BY <1>2, ThreadStays
    <2> QED
      BY <1>1, <2>1, StateStays
  <1>6. States' = [States EXCEPT ![t] = [state |-> "called", op |-> op]]
    BY <1>4, <1>5, StatesBut
  <1> QED
    BY <1>1, <1>4, <1>6, Calls DEF Promised

\* The store that takes effect is the effect of the call whose section it is, with what that
\* section loaded.
LEMMA StoreKept == ASSUME IInv, JInv, NEW t \in Thread, RunStore(t), c = My(t).old PROVE Promised
  <1>1. /\ pc[t] = "store" /\ Jump(t, "mark") /\ UNCHANGED result
        /\ c' = [val |-> (My(t).x + 1) % Values, tag |-> My(t).tag]
        /\ effect' = [effect EXCEPT ![D(t).call] = My(t).x]
    BY DEF RunStore, At
  <1>2. pc[t] \in Running
    BY <1>1 DEF Running
  <1> PICK d \in Slot : d = My(t).d
    BY <1>2, Runner
  <1>3. Word(c) /\ My(t).x = c.val
    BY StoreHits
  <1>4. PICK u \in Thread : HasPut(u) /\ Holds(u) /\ Mine(u) = d /\ desc[d].call = My(u).call
                            /\ effect[My(u).call] = None
    BY StoreHits
  <1>5. /\ Shapes /\ Words /\ CallsApart /\ pc[u] # "idle" /\ \A v \in Thread : CallOf(v)
    BY <1>4, Caller DEF JInv
  <1>6. /\ pc'[t] # "idle" /\ pc[t] # "idle" /\ \A v \in Thread : (pc'[v] = "idle" <=> pc[v] = "idle") /\ My(v)' = My(v)
    <2>1. OthersStay(t) /\ pc'[t] = "mark" /\ My(t)' = My(t)
      BY <1>1, <1>5, JumpDoes
    <2> QED
      BY <1>1, <2>1, ThreadStays
  <1> PICK k : k = My(u).call
    OBVIOUS
  <1>7. k \in 1 .. MaxCalls /\ effect'[k] = c.val /\ \A n \in 1 .. MaxCalls : n # k => effect'[n] = effect[n]
    <2>1. k \in 1 .. MaxCalls
      BY <1>5 DEF CallOf
    <2>2. effect' = [effect EXCEPT ![k] = c.val]
      BY <1>1, <1>3, <1>4 DEF D
    <2> QED
      BY <1>5, <2>1, <2>2 DEF Words
  <1>8. c.val \in Nat /\ c.val # None
    BY <1>3 DEF Word, None
  <1>9. StateOf(u).state = "called"
    BY <1>4, <1>5 DEF StateOf, At
  <1>10. StateOf(u)' = [state |-> "done", x |-> c.val]
    <2>1. effect'[My(u)'.call] = c.val /\ pc'[u] # "idle"
      BY <1>5, <1>6, <1>7
    <2> QED
      BY <1>8, <2>1 DEF StateOf, At, None
  <1>11. ASSUME NEW v \in Thread \ {u} PROVE StateOf(v)' = StateOf(v)
    <2>1. pc[v] # "idle" => effect'[My(v).call] = effect[My(v).call]
      BY <1>5, <1>7 DEF CallOf, CallsApart
    <2> QED
      BY <1>6, <2>1, StateStays
  <1>12. States' = [States EXCEPT ![u] = [state |-> "done", x |-> c.val]]
    BY <1>10, <1>11, StatesBut
  <1>13. c'.val = (c.val + 1) % Values
    BY <1>1, <1>3
  <1> QED
    BY <1>1, <1>9, <1>12, <1>13, TakesEffect DEF Promised

\* A call that ran its section returns what it loaded; one that did not has left no effect.
LEMMA ReturnKept == ASSUME IInv, JInv, NEW t \in Thread, Return(t) PROVE Promised
  <1>1. /\ pc[t] = "return" /\ UNCHANGED c
        /\ pc' = [pc EXCEPT ![t] = "idle"] /\ loc' = [loc EXCEPT ![t] = <<>>]
        /\ result' = [result EXCEPT ![t] = IF "won" \in DOMAIN My(t) THEN My(t).x ELSE None]
        /\ effect' = [effect EXCEPT ![My(t).call] = None]
    BY DEF Return, At
  <1>2. /\ Shapes /\ Words /\ CallsApart /\ PhaseOf(t) /\ \A u \in Thread : CallOf(u)
    BY DEF IInv, JInv
  <1>3. OthersStay(t) /\ pc'[t] = "idle"
    BY <1>1, <1>2 DEF OthersStay, Shapes
  <1>4. StateOf(t)' = [state |-> "idle"]
    BY <1>3 DEF StateOf, At
  <1>5. ASSUME NEW u \in Thread \ {t} PROVE StateOf(u)' = StateOf(u)
    <2>1. pc'[u] = pc[u] /\ My(u)' = My(u)
      BY <1>3, ThreadStays
    <2>2. pc[u] # "idle" => My(u).call \in 1 .. MaxCalls /\ My(u).call # My(t).call
      BY <1>1, <1>2 DEF CallOf, CallsApart
    <2>3. pc[u] # "idle" => effect'[My(u).call] = effect[My(u).call]
      BY <1>1, <1>2, <2>2 DEF Words
    <2> QED
      BY <2>1, <2>3, StateStays
  <1>6. States' = [States EXCEPT ![t] = [state |-> "idle"]]
    BY <1>4, <1>5, StatesBut
  <1>7. CASE "won" \in DOMAIN loc[t]
    <2>1. effect[My(t).call] # None /\ effect[My(t).call] = My(t).x /\ result' = [result EXCEPT ![t] = My(t).x]
      BY <1>1, <1>2, <1>7 DEF PhaseOf, My
    <2>2. StateOf(t) = [state |-> "done", x |-> My(t).x]
      BY <1>1, <2>1 DEF StateOf, At
    <2>3. StateOf(t).state = "done" /\ StateOf(t).x = My(t).x
      BY <2>2
    <2> QED
      BY <1>1, <1>6, <2>1, <2>3, Returns DEF Promised
  <1>8. CASE "won" \notin DOMAIN loc[t]
    <2>1. effect[My(t).call] = None /\ My(t).op = "try_lock" /\ result' = [result EXCEPT ![t] = None]
      BY <1>1, <1>2, <1>8 DEF PhaseOf, My
    <2>2. StateOf(t) = [state |-> "called", op |-> My(t).op]
      BY <1>1, <2>1 DEF StateOf, At
    <2>3. StateOf(t).state = "called" /\ StateOf(t).op = "try_lock"
      BY <2>1, <2>2
    <2> QED
      BY <1>1, <1>6, <2>1, <2>3, GivesUp DEF Promised
  <1> QED
    BY <1>7, <1>8

\* Every step is one of SectionSpec, or none.
LEMMA StepsKept == IInv /\ JInv /\ JInv' /\ [Next]_vars => Promised
  <1> SUFFICES ASSUME IInv, JInv, JInv', [Next]_vars PROVE Promised
    OBVIOUS
  <1>1. CASE Next
    <2>1. PICK t \in Thread : Call(t) \/ Step(t)
      BY <1>1 DEF Next
    <2>2. CASE Call(t)
      BY <2>2, CallKept
    <2>3. CASE RunStore(t)
      <3>1. CASE c = My(t).old
        BY <2>3, <3>1, StoreKept
      <3>2. CASE c # My(t).old
        <4>1. UNCHANGED <<c, effect, result>> /\ RunStep(t) /\ ~RunClear(t)
          BY <2>3, <3>2 DEF RunStore, RunStep, RunClear, At
        <4>2. CallOf(t)
          BY DEF JInv
        <4>3. /\ OthersStay(t) /\ pc[t] # "idle" /\ pc'[t] # "idle" /\ My(t)'.op = My(t).op /\ My(t)'.call = My(t).call
          BY <4>1, <4>2, SectionLocals DEF Running, My
        <4> QED
          BY <4>1, <4>3, Stutters
      <3> QED
        BY <3>1, <3>2
    <2>4. CASE RunStep(t) /\ ~RunStore(t) /\ ~RunClear(t)
      <3>1. UNCHANGED <<c, effect, result>>
        BY <2>4 DEF RunStep, RunLoad, RunCommitLoad, RunLoadAgain, RunCommitAgain, RunNext, RunPanic, RunAnnounce,
               RunSkip, RunMark, RunUnannounce, RunDone
      <3>2. CallOf(t)
        BY DEF JInv
      <3>3. /\ OthersStay(t) /\ pc[t] # "idle" /\ pc'[t] # "idle" /\ My(t)'.op = My(t).op /\ My(t)'.call = My(t).call
        BY <2>4, <3>2, SectionLocals DEF Running, My
      <3> QED
        BY <3>1, <3>3, Stutters
    <2>5. CASE Return(t)
      BY <2>5, ReturnKept
    <2>6. CASE RunClear(t) \/ (CallStep(t) /\ ~Return(t))
      BY <2>6, CallLocals, Stutters
    <2> QED
      BY <2>1, <2>2, <2>3, <2>4, <2>5, <2>6 DEF Step
  <1>2. CASE UNCHANGED vars
    <2>1. UNCHANGED <<c, pc, loc, effect, result>>
      BY <1>2 DEF vars
    <2>2. States' = States
      BY <2>1 DEF States, StateOf, At, My
    <2> QED
      BY <2>1, <2>2 DEF Promised
  <1> QED
    BY <1>1, <1>2

\* While tags last, what is known of the sections holds.
LEMMA SectionsKnown == Spec /\ []TagsLast => []JInv
  BY Invariance, JBegins, JContinues, PTL DEF Spec

\* A section takes effect once and at one moment, whoever runs it and however many do; a call
\* that took the lock returns what its section loaded then, and a try_lock that gave up has left
\* no effect (lf_lock.h, lf_log.h, lf_types.h, tagged.h): as long as the tags of c do not wrap.
THEOREM SectionsTakeEffectOnce == Spec /\ []TagsLast => SectionsAtomic
  <1>1. Init => Sections!Init
    <2> SUFFICES ASSUME Init PROVE Sections!Init
      OBVIOUS
    <2>1. c.val = 0 /\ pc = [t \in Thread |-> "idle"] /\ result = [t \in Thread |-> None]
      BY DEF Init
    <2>2. States = [t \in Thread |-> [state |-> "idle"]]
      BY <2>1 DEF States, StateOf, At
    <2> QED
      BY <2>1, <2>2 DEF Sections!Init, Sections!Idle, Sections!None, None, States, StateOf
  <1>2. Promised => [Sections!Next]_<<c.val, States, result>>
    BY DEF Promised
  <1> QED
    BY <1>1, <1>2, SectionsKnown, Invariance, StepsKept, PTL DEF Spec, SectionsAtomic, Sections!Spec, States, StateOf
=============================================================================
