---------------------------- MODULE EpochProofs -----------------------------
(***************************************************************************)
(* Epoch-based reclamation is safe for every number of workers and nodes   *)
(* and every bound on the epoch: IInv is inductive.  One lemma per part of *)
(* IInv shows that every step preserves that part.                         *)
(***************************************************************************)
EXTENDS Epoch, TLAPS

\* What the initial states satisfy: nothing is announced or allocated.
LEMMA Initially == Init => IInv
  <1> SUFFICES ASSUME Init PROVE IInv
    OBVIOUS
  <1> USE WorkersAssumption, NodeAssumption DEF Init, Worker, InEpoch
  <1>1. Types
    BY DEF Types
  <1>2. OnePlace
    BY DEF OnePlace
  <1>3. PinnedEpoch /\ InUseNotFreed /\ AnnounceInv
    BY DEF PinnedEpoch, InUseNotFreed, AnnounceInv
  <1>4. ScanInv /\ PoolInv
    BY DEF ScanInv, PoolInv
  <1> QED
    BY <1>1, <1>2, <1>3, <1>4 DEF IInv, TypeOK

\* Every step keeps every variable in its type; the bound on the epoch holds
\* because an update loads an epoch below it.
LEMMA TypesStep ==
  ASSUME IInv, NEW t \in Worker, Step(t) PROVE Types'
  <1> USE WorkersAssumption, NodeAssumption
      DEF Types, Goto, epochVars, updateVars, poolVars, clientVars
  <1>1. Types /\ ScanInv
    BY DEF IInv, TypeOK
  <1>2. CASE AnnounceLoad(t)
    BY <1>1, <1>2 DEF AnnounceLoad
  <1>3. CASE AnnounceExchange(t)
    BY <1>1, <1>3 DEF AnnounceExchange
  <1>4. CASE AnnounceCheck(t)
    BY <1>1, <1>4 DEF AnnounceCheck
  <1>5. CASE Unannounce(t)
    BY <1>1, <1>5 DEF Unannounce
  <1>6. CASE Test(t)
    BY <1>1, <1>6 DEF Test
  <1>7. CASE ClearList(t)
    <2>1. ASSUME NEW n \in old[t], old' = [old EXCEPT ![t] = @ \ {n}], free' = free \cup {n}
          PROVE  old' \in [Worker -> SUBSET Node] /\ free' \subseteq Node
      BY <1>1, <2>1
    <2> QED
      BY <1>1, <1>7, <2>1 DEF ClearList
  <1>8. CASE Move(t)
    BY <1>1, <1>8 DEF Move
  <1>9. CASE OtherPool(t)
    BY <1>1, <1>9 DEF OtherPool
  <1>10. CASE Tick(t)
    BY <1>1, <1>10 DEF Tick
  <1>11. CASE Add(t)
    BY <1>1, <1>11 DEF Add
  <1>12. CASE UpdateLoad(t)
    BY <1>1, <1>12 DEF UpdateLoad
  <1>13. ASSUME NEW n \in Node, New(t, n) PROVE Types'
    BY <1>1, <1>13 DEF New
  <1>14. ASSUME NEW n \in Node, Unlink(t, n) PROVE Types'
    BY <1>1, <1>14 DEF Unlink
  <1>15. ASSUME NEW n \in Node, Retire(t, n) PROVE Types'
    BY <1>1, <1>15 DEF Retire
  <1>16. CASE Scan(t)
    BY <1>1, <1>16 DEF Scan, ScanInv
  <1>17. CASE Compare(t)
    BY <1>1, <1>17 DEF Compare, ScanInv
  <1>18. CASE UpdateCas(t)
    <2>1. current_e[t] \in 0 .. MaxEpoch /\ current_e[t] < MaxEpoch
      BY <1>1, <1>18 DEF UpdateCas, ScanInv
    <2>2. current_epoch' \in 0 .. MaxEpoch
      BY <1>1, <1>18, <2>1 DEF UpdateCas
    <2> QED
      BY <1>1, <1>18, <2>2 DEF UpdateCas
  <1> QED
    BY <1>2, <1>3, <1>4, <1>5, <1>6, <1>7, <1>8, <1>9, <1>10, <1>11, <1>12, <1>13, <1>14, <1>15, <1>16, <1>17, <1>18 DEF Step

\* A node moves from one place to the next and is never in two.
LEMMA OnePlaceStep ==
  ASSUME IInv, NEW t \in Worker, Step(t) PROVE OnePlace'
  <1> USE NodeAssumption DEF Types, OnePlace, Goto, epochVars, updateVars, poolVars, clientVars
  <1>1. Types /\ OnePlace
    BY DEF IInv, TypeOK
  <1>2. CASE AnnounceLoad(t) \/ AnnounceExchange(t) \/ AnnounceCheck(t) \/ Unannounce(t)
             \/ Test(t) \/ OtherPool(t) \/ Tick(t) \/ UpdateLoad(t) \/ Scan(t) \/ Compare(t)
             \/ UpdateCas(t)
    <2>1. UNCHANGED <<old, current, p, linked, cut, free>>
      BY <1>2 DEF AnnounceLoad, AnnounceExchange, AnnounceCheck, Unannounce, Test, OtherPool,
                  Tick, UpdateLoad, Scan, Compare, UpdateCas
    <2> QED
      BY <1>1, <2>1
  <1>3. ASSUME NEW n \in Node, New(t, n) PROVE OnePlace'
    BY <1>1, <1>3 DEF New
  <1>4. ASSUME NEW n \in Node, Unlink(t, n) PROVE OnePlace'
    BY <1>1, <1>4 DEF Unlink
  <1>5. ASSUME NEW n \in Node, Retire(t, n) PROVE OnePlace'
    BY <1>1, <1>5 DEF Retire
  <1>6. CASE ClearList(t)
    BY <1>1, <1>6 DEF ClearList
  <1>7. CASE Move(t)
    BY <1>1, <1>7 DEF Move
  <1>8. CASE Add(t)
    BY <1>1, <1>8 DEF Add
  <1> QED
    BY <1>2, <1>3, <1>4, <1>5, <1>6, <1>7, <1>8 DEF Step

\* Only announce, unannounce and the CAS of update_epoch change the epoch, an
\* announcement, or who is inside with_epoch.
LEMMA Frame ==
  ASSUME IInv, NEW t \in Worker, Step(t),
         ~AnnounceExchange(t), ~AnnounceCheck(t), ~Unannounce(t), ~UpdateCas(t)
  PROVE  /\ current_epoch' = current_epoch /\ last' = last
         /\ \A u \in Worker : InEpoch(u)' <=> InEpoch(u)
  <1> USE DEF Types, InEpoch, Goto, epochVars
  <1>1. Types
    BY DEF IInv, TypeOK
  <1>2. CASE AnnounceLoad(t) \/ Test(t) \/ ClearList(t) \/ Move(t)
    BY <1>1, <1>2 DEF AnnounceLoad, Test, ClearList, Move
  <1>3. CASE OtherPool(t) \/ Tick(t) \/ Add(t) \/ UpdateLoad(t) \/ Scan(t) \/ Compare(t)
    BY <1>1, <1>3 DEF OtherPool, Tick, Add, UpdateLoad, Scan, Compare
  <1>4. CASE \E n \in Node : New(t, n) \/ Unlink(t, n) \/ Retire(t, n)
    BY <1>1, <1>4 DEF New, Unlink, Retire
  <1> QED
    BY <1>2, <1>3, <1>4 DEF Step

\* The epoch never goes back.
LEMMA Monotone ==
  ASSUME IInv, NEW t \in Worker, Step(t) PROVE current_epoch <= current_epoch'
  <1>1. Types /\ ScanInv
    BY DEF IInv, TypeOK
  <1>2. CASE UpdateCas(t)
    BY <1>1, <1>2 DEF UpdateCas, Types
  <1>3. CASE AnnounceExchange(t) \/ AnnounceCheck(t) \/ Unannounce(t)
    BY <1>1, <1>3 DEF AnnounceExchange, AnnounceCheck, Unannounce, epochVars, Types
  <1>4. CASE ~(AnnounceExchange(t) \/ AnnounceCheck(t) \/ Unannounce(t) \/ UpdateCas(t))
    BY <1>1, <1>4, Frame DEF Types
  <1> QED
    BY <1>2, <1>3, <1>4

\* The heart of the argument: when the CAS succeeds, the scan has passed every
\* worker, and nobody inside with_epoch announces an older epoch.
LEMMA PinnedStep ==
  ASSUME IInv, NEW t \in Worker, Step(t) PROVE PinnedEpoch'
  <1> USE DEF InEpoch, Goto, epochVars
  <1>1. Types /\ PinnedEpoch /\ AnnounceInv /\ ScanInv
    BY DEF IInv, TypeOK
  <1>2. CASE AnnounceExchange(t)
    BY <1>1, <1>2 DEF AnnounceExchange, PinnedEpoch, Types
  <1>3. CASE AnnounceCheck(t)
    BY <1>1, <1>3 DEF AnnounceCheck, PinnedEpoch, AnnounceInv, Types
  <1>4. CASE Unannounce(t)
    BY <1>1, <1>4 DEF Unannounce, PinnedEpoch, Types
  <1>5. CASE UpdateCas(t)
    <2>1. \A u \in Worker : InEpoch(u) => current_e[t] <= last[u]
      BY <1>1, <1>5 DEF UpdateCas, ScanInv, Passed, Worker
    <2>2. last' = last /\ \A u \in Worker : InEpoch(u)' <=> InEpoch(u)
      BY <1>1, <1>5 DEF UpdateCas, Types
    <2> QED
      BY <1>1, <1>5, <2>1, <2>2 DEF UpdateCas, PinnedEpoch, Types
  <1>6. CASE ~(AnnounceExchange(t) \/ AnnounceCheck(t) \/ Unannounce(t) \/ UpdateCas(t))
    BY <1>1, <1>6, Frame DEF PinnedEpoch
  <1> QED
    BY <1>2, <1>3, <1>4, <1>5, <1>6

\* What an announcing worker has loaded stays behind the epoch.
LEMMA AnnounceStep ==
  ASSUME IInv, NEW t \in Worker, Step(t) PROVE AnnounceInv'
  <1> USE DEF Types, AnnounceInv, InEpoch, Goto, epochVars, clientVars
  <1>1. Types /\ AnnounceInv /\ current_epoch <= current_epoch'
    BY Monotone DEF IInv, TypeOK
  <1>2. CASE AnnounceLoad(t)
    BY <1>1, <1>2 DEF AnnounceLoad
  <1>3. CASE AnnounceExchange(t)
    BY <1>1, <1>3 DEF AnnounceExchange
  <1>4. CASE AnnounceCheck(t)
    BY <1>1, <1>4 DEF AnnounceCheck
  <1>5. CASE Unannounce(t)
    BY <1>1, <1>5 DEF Unannounce
  <1>6. ASSUME NEW n \in Node, New(t, n) PROVE AnnounceInv'
    BY <1>1, <1>6 DEF New
  <1>7. CASE UpdateCas(t)
    <2>1. \A u \in Worker : e[u] <= current_epoch'
      BY <1>1, <1>7, TypesStep DEF UpdateCas
    <2> QED
      BY <1>1, <1>7, <2>1 DEF UpdateCas
  <1>8. CASE Test(t) \/ ClearList(t) \/ Move(t) \/ OtherPool(t) \/ Tick(t)
    BY <1>1, <1>8 DEF Test, ClearList, Move, OtherPool, Tick
  <1>9. CASE Add(t) \/ UpdateLoad(t) \/ Scan(t) \/ Compare(t)
    BY <1>1, <1>9 DEF Add, UpdateLoad, Scan, Compare
  <1>10. ASSUME NEW n \in Node, Unlink(t, n) \/ Retire(t, n) PROVE AnnounceInv'
    BY <1>1, <1>10 DEF Unlink, Retire
  <1> QED
    BY <1>2, <1>3, <1>4, <1>5, <1>6, <1>7, <1>8, <1>9, <1>10 DEF Step

\* Whoever is inside with_epoch after a step was so before it, with the same
\* announcement, or has just found in AnnounceCheck that it is current.
LEMMA Announced ==
  ASSUME IInv, NEW t \in Worker, Step(t), NEW u \in Worker, InEpoch(u)'
  PROVE  last'[u] = last[u] /\ (InEpoch(u) \/ last[u] = current_epoch)
  <1> USE DEF Types, InEpoch, Goto, epochVars
  <1>1. Types /\ AnnounceInv
    BY DEF IInv, TypeOK
  <1>2. CASE AnnounceExchange(t)
    BY <1>1, <1>2 DEF AnnounceExchange
  <1>3. CASE AnnounceCheck(t)
    BY <1>1, <1>3 DEF AnnounceCheck, AnnounceInv
  <1>4. CASE Unannounce(t)
    BY <1>1, <1>4 DEF Unannounce
  <1>5. CASE UpdateCas(t)
    BY <1>1, <1>5 DEF UpdateCas
  <1>6. CASE ~(AnnounceExchange(t) \/ AnnounceCheck(t) \/ Unannounce(t) \/ UpdateCas(t))
    BY <1>1, <1>6, Frame
  <1> QED
    BY <1>2, <1>3, <1>4, <1>5, <1>6

\* Who has been passed stays passed while the update keeps its place.
LEMMA PassedStep ==
  ASSUME IInv, NEW t \in Worker, Step(t), NEW v \in Worker,
         i'[v] = i[v], current_e'[v] = current_e[v], Passed(v)
  PROVE  Passed(v)'
  <1>1. Types /\ current_e[v] <= current_epoch
    BY DEF IInv, TypeOK, ScanInv
  <1>2. \A u \in 0 .. i[v] - 1 : u \in Worker
    <2>1. i[v] \in 0 .. workers
      BY <1>1 DEF Types
    <2> QED
      BY <2>1, WorkersAssumption DEF Worker
  <1>3. SUFFICES ASSUME NEW u \in 0 .. i[v] - 1, InEpoch(u)'
                 PROVE  current_e[v] <= last'[u]
    BY DEF Passed
  <1>4. last'[u] = last[u] /\ (InEpoch(u) \/ last[u] = current_epoch)
    BY <1>2, <1>3, Announced
  <1> QED
    BY <1>1, <1>4 DEF Passed

\* The program points and locals of the other workers do not change.
LEMMA OthersStay ==
  ASSUME IInv, NEW t \in Worker, Step(t), NEW v \in Worker, v # t
  PROVE  pc'[v] = pc[v] /\ i'[v] = i[v] /\ current_e'[v] = current_e[v]
  <1> USE DEF Types, Goto, updateVars
  <1>1. Types
    BY DEF IInv, TypeOK
  <1>2. CASE AnnounceLoad(t) \/ AnnounceExchange(t) \/ AnnounceCheck(t) \/ Unannounce(t)
             \/ Test(t) \/ ClearList(t) \/ Move(t) \/ OtherPool(t) \/ Tick(t)
    BY <1>1, <1>2 DEF AnnounceLoad, AnnounceExchange, AnnounceCheck, Unannounce, Test,
                      ClearList, Move, OtherPool, Tick
  <1>3. CASE Add(t) \/ UpdateLoad(t) \/ Scan(t) \/ Compare(t) \/ UpdateCas(t)
    BY <1>1, <1>3 DEF Add, UpdateLoad, Scan, Compare, UpdateCas
  <1>4. CASE \E n \in Node : New(t, n) \/ Unlink(t, n) \/ Retire(t, n)
    BY <1>1, <1>4 DEF New, Unlink, Retire
  <1> QED
    BY <1>2, <1>3, <1>4 DEF Step

\* An update keeps the epoch it has loaded, and everyone it has passed keeps
\* an announcement that is no older.
LEMMA ScanStep ==
  ASSUME IInv, NEW t \in Worker, Step(t) PROVE ScanInv'
  <1> USE WorkersAssumption DEF Types, ScanInv, Goto, updateVars
  <1>1. /\ Types /\ PinnedEpoch /\ ScanInv
        /\ current_epoch <= current_epoch' /\ current_epoch' \in 0 .. MaxEpoch
    BY Monotone, TypesStep DEF IInv, TypeOK
  <1> SUFFICES ASSUME NEW v \in Worker
               PROVE  /\ current_e'[v] <= current_epoch'
                      /\ pc'[v] = "cas" => i'[v] = workers
                      /\ pc'[v] = "compare" => i'[v] < workers
                      /\ pc'[v] \in {"scan", "compare", "cas"} =>
                           current_e'[v] < MaxEpoch /\ Passed(v)'
    BY DEF Passed, InEpoch
  <1>2. ASSUME i'[v] = i[v], current_e'[v] = current_e[v], Passed(v) PROVE Passed(v)'
    BY <1>2, PassedStep
  <1>3. CASE v # t
    BY <1>1, <1>2, <1>3, OthersStay
  <1>4. CASE v = t /\ (\/ AnnounceLoad(t) \/ AnnounceExchange(t) \/ AnnounceCheck(t) \/ Unannounce(t)
                      \/ Test(t) \/ ClearList(t) \/ Move(t) \/ OtherPool(t) \/ Tick(t))
    BY <1>1, <1>4 DEF AnnounceLoad, AnnounceExchange, AnnounceCheck, Unannounce, Test,
                      ClearList, Move, OtherPool, Tick
  <1>5. CASE v = t /\ \E n \in Node : New(t, n) \/ Unlink(t, n) \/ Retire(t, n)
    BY <1>1, <1>5 DEF New, Unlink, Retire
  <1>6. CASE v = t /\ (Add(t) \/ UpdateCas(t))
    BY <1>1, <1>6 DEF Add, UpdateCas
  <1>7. CASE v = t /\ UpdateLoad(t)
    BY <1>1, <1>7 DEF UpdateLoad, Passed
  <1>8. CASE v = t /\ Scan(t)
    <2>1. CASE i[t] = workers
      BY <1>1, <1>2, <1>8, <2>1 DEF Scan
    <2>2. CASE i[t] < workers /\ last[i[t]] # -1
      BY <1>1, <1>2, <1>8, <2>2 DEF Scan
    <2>3. CASE i[t] < workers /\ last[i[t]] = -1
      <3>1. i[t] \in Worker /\ ~InEpoch(i[t])
        <4>1. i[t] \in 0 .. workers
          BY <1>1
        <4>2. i[t] \in Worker
          BY <2>3, <4>1 DEF Worker
        <4> QED
          BY <2>3, <4>2 DEF IInv, AnnounceInv
      <3>2. /\ UNCHANGED <<pc, last, current_e>>
            /\ i'[t] = i[t] + 1
        BY <1>1, <1>8, <2>3 DEF Scan, epochVars
      <3>3. Passed(t) /\ i[t] \in 0 .. workers
        BY <1>1, <1>8 DEF Scan
      <3>4. Passed(t)'
        BY <3>1, <3>2, <3>3 DEF Passed, InEpoch
      <3> QED
        BY <1>1, <1>8, <2>3, <3>2, <3>4 DEF Scan
    <2> QED
      BY <1>1, <1>8, <2>1, <2>2, <2>3
  <1>9. CASE v = t /\ Compare(t)
    <2>1. /\ pc[t] = "compare" /\ Passed(t) /\ current_e[t] \in 0 .. MaxEpoch
          /\ i[t] \in 0 .. workers /\ i[t] < workers
      BY <1>1, <1>9 DEF Compare
    <2>2. i[t] \in Worker
      BY <2>1 DEF Worker
    <2>3. last[i[t]] \in -1 .. MaxEpoch
      BY <1>1, <2>2
    <2>4. CASE last[i[t]] < current_e[t]
      BY <1>1, <1>9, <2>1, <2>3, <2>4 DEF Compare
    <2>5. CASE ~(last[i[t]] < current_e[t])
      <3>1. last' = last /\ current_e' = current_e /\ i'[t] = i[t] + 1
        BY <1>1, <1>9, <2>5 DEF Compare, epochVars
      <3>2. \A u \in 0 .. i[t] : u \in Worker
        BY <2>1 DEF Worker
      <3>3. \A u \in Worker : InEpoch(u)' <=> InEpoch(u)
        BY <1>1, <1>9 DEF InEpoch, Compare
      <3>4. Passed(t)'
        BY <2>1, <2>3, <2>5, <3>1, <3>2, <3>3 DEF Passed
      <3> QED
        BY <1>1, <1>9, <2>1, <2>5, <3>1, <3>4 DEF Compare
    <2> QED
      BY <2>4, <2>5
  <1> QED
    BY <1>3, <1>4, <1>5, <1>6, <1>7, <1>8, <1>9 DEF Step

\* A pool's epoch is at least the announcement of everyone who may use a node
\* of its old list: Move takes the current epoch, and a node that has left the
\* structure is never handed to a thread that announces itself later.
LEMMA PoolStep ==
  ASSUME IInv, NEW t \in Worker, Step(t) PROVE PoolInv'
  <1> USE DEF Types, PoolInv, InEpoch, Goto, epochVars, poolVars, clientVars
  <1>1. /\ Types /\ OnePlace /\ PinnedEpoch /\ AnnounceInv /\ PoolInv
        /\ current_epoch <= current_epoch' /\ current_epoch' \in 0 .. MaxEpoch
    BY Monotone, TypesStep DEF IInv, TypeOK
  <1>2. CASE AnnounceLoad(t) \/ Test(t) \/ OtherPool(t) \/ Tick(t) \/ Add(t)
    BY <1>1, <1>2 DEF AnnounceLoad, Test, OtherPool, Tick, Add
  <1>3. CASE UpdateLoad(t) \/ Scan(t) \/ Compare(t) \/ UpdateCas(t)
    BY <1>1, <1>3 DEF UpdateLoad, Scan, Compare, UpdateCas
  <1>4. CASE AnnounceExchange(t)
    BY <1>1, <1>4 DEF AnnounceExchange, AnnounceInv
  <1>5. CASE AnnounceCheck(t)
    BY <1>1, <1>5 DEF AnnounceCheck, OnePlace
  <1>6. CASE Unannounce(t)
    BY <1>1, <1>6 DEF Unannounce
  <1>7. ASSUME NEW n \in Node, New(t, n) PROVE PoolInv'
    BY <1>1, <1>7 DEF New, OnePlace
  <1>8. ASSUME NEW n \in Node, Unlink(t, n) \/ Retire(t, n) PROVE PoolInv'
    BY <1>1, <1>8 DEF Unlink, Retire
  <1>9. CASE ClearList(t)
    BY <1>1, <1>9 DEF ClearList
  <1>10. CASE Move(t)
    <2>1. \A u \in Worker : reach[u] # {} => last[u] <= current_epoch
      BY <1>1 DEF PinnedEpoch, AnnounceInv
    <2> QED
      BY <1>1, <1>10, <2>1 DEF Move
  <1> QED
    BY <1>2, <1>3, <1>4, <1>5, <1>6, <1>7, <1>8, <1>9, <1>10 DEF Step

\* ClearList destructs a node of an old list that is two epochs old: whoever
\* could still use it would have held the epoch back.
LEMMA InUseStep ==
  ASSUME IInv, NEW t \in Worker, Step(t) PROVE InUseNotFreed'
  <1> USE DEF Types, InUseNotFreed, Goto, clientVars
  <1>1. Types /\ OnePlace /\ PinnedEpoch /\ InUseNotFreed /\ AnnounceInv /\ PoolInv
    BY DEF IInv, TypeOK
  <1>2. CASE ClearList(t)
    <2>1. pc[t] = "clear" => \A u \in Worker : reach[u] \cap old[t] = {}
      <3> SUFFICES ASSUME pc[t] = "clear", NEW u \in Worker, reach[u] \cap old[t] # {}
                   PROVE  FALSE
        OBVIOUS
      <3>1. last[u] <= epoch[t] /\ epoch[t] + 1 < current_epoch
        BY <1>1 DEF PoolInv
      <3>2. current_epoch <= last[u] + 1
        BY <1>1 DEF AnnounceInv, PinnedEpoch
      <3> QED
        BY <1>1, <3>1, <3>2
    <2> QED
      BY <1>1, <1>2, <2>1 DEF ClearList
  <1>3. CASE AnnounceCheck(t)
    BY <1>1, <1>3 DEF AnnounceCheck, OnePlace
  <1>4. CASE Unannounce(t)
    BY <1>1, <1>4 DEF Unannounce
  <1>5. ASSUME NEW n \in Node, New(t, n) PROVE InUseNotFreed'
    BY <1>1, <1>5 DEF New
  <1>6. ASSUME NEW n \in Node, Unlink(t, n) \/ Retire(t, n) PROVE InUseNotFreed'
    BY <1>1, <1>6 DEF Unlink, Retire
  <1>7. CASE AnnounceLoad(t) \/ AnnounceExchange(t) \/ Test(t) \/ Move(t) \/ OtherPool(t)
             \/ Tick(t) \/ Add(t) \/ UpdateLoad(t) \/ Scan(t) \/ Compare(t) \/ UpdateCas(t)
    BY <1>1, <1>7 DEF AnnounceLoad, AnnounceExchange, Test, Move, OtherPool, Tick, Add,
                      UpdateLoad, Scan, Compare, UpdateCas
  <1> QED
    BY <1>2, <1>3, <1>4, <1>5, <1>6, <1>7 DEF Step

\* IInv holds in every reachable state.
THEOREM Invariance == Spec => []IInv
  <1>1. Init => IInv
    BY Initially
  <1>2. IInv /\ [Next]_vars => IInv'
    <2>1. ASSUME IInv, NEW t \in Worker, Step(t) PROVE IInv'
      <3>1. Types' /\ OnePlace'
        BY <2>1, TypesStep, OnePlaceStep
      <3>2. PinnedEpoch' /\ InUseNotFreed'
        BY <2>1, PinnedStep, InUseStep
      <3>3. AnnounceInv' /\ ScanInv' /\ PoolInv'
        BY <2>1, AnnounceStep, ScanStep, PoolStep
      <3> QED
        BY <3>1, <3>2, <3>3 DEF IInv, TypeOK
    <2>2. ASSUME IInv, UNCHANGED vars PROVE IInv'
      BY <2>2 DEF IInv, TypeOK, Types, OnePlace, PinnedEpoch, InUseNotFreed, AnnounceInv,
                  ScanInv, Passed, PoolInv, InEpoch, vars, epochVars, updateVars, poolVars, clientVars
    <2> QED
      BY <2>1, <2>2 DEF Next
  <1> QED
    BY <1>1, <1>2, PTL DEF Spec

\* Type correctness, and every node is in one place (epoch.h:205-215, 250-257).
THEOREM TypeCorrect == Spec => []TypeOK
  <1>1. IInv => TypeOK
    BY DEF IInv
  <1> QED
    BY <1>1, Invariance, PTL

\* update_epoch never gets two epochs ahead of a thread inside with_epoch,
\* however its scan and the announcements interleave (epoch.h:125-142).
THEOREM EpochIsPinned == Spec => []PinnedEpoch
  <1>1. IInv => PinnedEpoch
    BY DEF IInv
  <1> QED
    BY <1>1, Invariance, PTL

\* clear_list destructs no node that a thread may still use (epoch.h:218-239).
THEOREM SafeReclamation == Spec => []InUseNotFreed
  <1>1. IInv => InUseNotFreed
    BY DEF IInv
  <1> QED
    BY <1>1, Invariance, PTL
=============================================================================
