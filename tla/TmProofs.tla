------------------------------ MODULE TmProofs ------------------------------
(***************************************************************************)
(* Proofs about Tm and its two clients, for every set of threads, every    *)
(* set of data words and every MAX_RETRIES.                                *)
(*                                                                         *)
(* The sections of tm.h come first: the isolation of transactions and of   *)
(* the owner of the fallback lock.  The steps of HtmArraySwap and of       *)
(* McasHtm are steps of Tm, so all of it holds of them too; what is added  *)
(* is what a section of theirs knows of the words it works on.  swap       *)
(* exchanges two rows in one step, and the compare-and-swap operations of  *)
(* mcas-htm.h and mcas-htm-no-if.h are atomic: McasHtm implements Mcas.    *)
(***************************************************************************)
EXTENDS HtmArraySwap, McasHtm, FiniteSetTheorems, TLAPS

-----------------------------------------------------------------------------
(* The inductive invariant.                                                *)

\* What the hardware keeps for a thread agrees with where the thread is.
TxInv ==
  \A t \in Thread :
    /\ ~tx[t] => rset[t] = {} /\ buf[t] = NoBuf
    /\ tx[t] => pc[t] \in {"subscribe", "body", "end", "xend"}
    /\ pc[t] \in {"subscribe", "xend"} => tx[t]
    /\ buf[t][Lock] = None

\* A transaction past its test has the lock word in its read set, and the
\* word is still 0.
Subscribed ==
  \A t \in Thread : tx[t] /\ pc[t] # "subscribe" => Lock \in rset[t] /\ mem[Lock] = 0

\* The lock word says whether a thread owns the lock, and at most one does.
LockInv ==
  /\ mem[Lock] \in {0, 1}
  /\ \A t, u \in Thread : Owns(t) /\ Owns(u) => t = u
  /\ \A t \in Thread : Owns(t) => mem[Lock] = 1
  /\ mem[Lock] = 1 => \E t \in Thread : Owns(t)

\* A transaction in flight or just aborted has been counted as a try.
TriesInv ==
  \A t \in Thread : /\ n_tries[t] <= MAX_RETRIES
                    /\ pc[t] = "xbegin" => n_tries[t] < MAX_RETRIES
                    /\ tx[t] \/ pc[t] = "aborted" => n_tries[t] >= 1

\* The thread that is counting itself has not been counted yet, and no other
\* thread counts at the same time.
Counting(t) == pc[t] \in {"count", "countStore"}
CountInv ==
  /\ \A t \in Thread : pc[t] = "countStore" => tmp[t] = times_fallback
  /\ (\E t \in Thread : Counting(t)) => acquired = times_fallback + 1
  /\ ~(\E t \in Thread : Counting(t)) => acquired = times_fallback

IInv == TypeOK /\ TxInv /\ Subscribed /\ LockInv /\ TriesInv /\ CountInv

USE DEF Lock, Word
-----------------------------------------------------------------------------
\* The initial states satisfy the invariant.
LEMMA InitIInv == Init => IInv
<1> SUFFICES ASSUME Init PROVE IInv
  OBVIOUS
<1>1. TypeOK
  BY ValueAssumption, AddrAssumption, CallsAssumption DEF Init, TypeOK, PC, Status, NoBuf
<1>2. TxInv
  BY DEF Init, TxInv, NoBuf
<1>3. Subscribed
  BY DEF Init, Subscribed
<1>4. LockInv
  BY DEF Init, LockInv, Owns
<1>5. TriesInv
  BY RetriesAssumption DEF Init, TriesInv
<1>6. CountInv
  BY DEF Init, CountInv, Counting
<1> QED
  BY <1>1, <1>2, <1>3, <1>4, <1>5, <1>6 DEF IInv

-----------------------------------------------------------------------------
(* The invariant is preserved, one lemma per kind of step.                 *)

\* What Publish does to a thread: t leaves its transaction, another thread is
\* aborted, or keeps its state and then has not read a word of W.
Aborted(u) == /\ tx[u] /\ ~tx'[u] /\ pc'[u] = "aborted"
              /\ rset'[u] = {} /\ buf'[u] = NoBuf

Kept(u, W) == /\ pc'[u] = pc[u] /\ (tx'[u] <=> tx[u])
              /\ rset'[u] = rset[u] /\ buf'[u] = buf[u]
              /\ tx[u] => W \cap rset[u] = {}

Published(t, W, l) ==
  /\ pc'[t] = l /\ ~tx'[t] /\ rset'[t] = {} /\ buf'[t] = NoBuf
  /\ \A u \in Thread \ {t} : Aborted(u) \/ Kept(u, W)

\* A commit or a plain store acts on each thread as Published says.
LEMMA PublishEffect ==
  ASSUME TypeOK, NEW t \in Thread, NEW W \in SUBSET Word, NEW l \in PC, Publish(t, W, l)
  PROVE  Published(t, W, l)
<1> DEFINE lost == Losers(t, W)
<1>1. t \notin lost
  BY DEF Losers
<1>2. \A u \in lost : tx[u]
  BY DEF Losers
<1>3. \A u \in Thread \ {t} : tx[u] /\ u \notin lost => W \cap rset[u] = {}
  BY DEF Losers
<1> HIDE DEF lost
<1>4. /\ pc' = [u \in Thread |-> IF u \in lost THEN "aborted" ELSE IF u = t THEN l ELSE pc[u]]
      /\ tx' = [u \in Thread |-> tx[u] /\ u \notin lost \cup {t}]
      /\ rset' = [u \in Thread |-> IF u \in lost \cup {t} THEN {} ELSE rset[u]]
      /\ buf' = [u \in Thread |-> IF u \in lost \cup {t} THEN NoBuf ELSE buf[u]]
  BY DEF Publish, lost
<1>5. pc'[t] = l /\ rset'[t] = {} /\ buf'[t] = NoBuf
  BY <1>1, <1>4
<1>6. ~tx'[t]
  BY <1>4
<1>7. ASSUME NEW u \in Thread \ {t}, u \in lost PROVE Aborted(u)
  BY <1>2, <1>4, <1>7 DEF Aborted
<1>8. ASSUME NEW u \in Thread \ {t}, u \notin lost PROVE Kept(u, W)
  <2>1. pc'[u] = pc[u] /\ rset'[u] = rset[u] /\ buf'[u] = buf[u]
    BY <1>4, <1>8
  <2>2. tx'[u] <=> tx[u]
    BY <1>4, <1>8
  <2> QED
    BY <1>3, <1>8, <2>1, <2>2 DEF Kept
<1> QED
  BY <1>5, <1>6, <1>7, <1>8 DEF Published

\* A transaction without stores has an empty buffer of the right type.
LEMMA NoBufType == NoBuf \in [Word -> Value \cup {0, 1, None}]
BY DEF NoBuf

\* Publish keeps the types.
LEMMA PublishTypes ==
  ASSUME TypeOK, NEW t \in Thread, NEW W \in SUBSET Word, NEW l \in PC, Publish(t, W, l)
  PROVE  /\ tx' \in [Thread -> BOOLEAN] /\ rset' \in [Thread -> SUBSET Word]
         /\ buf' \in [Thread -> [Word -> Value \cup {0, 1, None}]]
         /\ pc' \in [Thread -> PC] /\ status' \in [Thread -> Status]
<1>1. tx' \in [Thread -> BOOLEAN]
  BY DEF Publish
<1>2. buf' \in [Thread -> [Word -> Value \cup {0, 1, None}]]
  BY NoBufType DEF Publish, TypeOK
<1>3. /\ rset' \in [Thread -> SUBSET Word] /\ pc' \in [Thread -> PC]
      /\ status' \in [Thread -> Status]
  BY DEF Publish, TypeOK, PC, Status
<1> QED
  BY <1>1, <1>2, <1>3

\* A section is entered.
LEMMA EnterStep ==
  ASSUME IInv, NEW t \in Thread, NEW nc \in BOOLEAN, Enter(t, nc)
  PROVE  IInv'
<1> USE DEF IInv, Enter, memVars, locals, counts, Goto
<1>1. TypeOK'
  BY CallsAssumption DEF TypeOK, PC, Status
<1>2. TxInv'
  BY DEF TypeOK, TxInv
<1>3. Subscribed'
  BY DEF TypeOK, TxInv, Subscribed
<1>4. LockInv'
  BY DEF TypeOK, TxInv, LockInv, Owns
<1>5. TriesInv'
  BY RetriesAssumption DEF TypeOK, TxInv, TriesInv
<1>6. CountInv'
  BY DEF TypeOK, TxInv, CountInv, Counting
<1> QED
  BY <1>1, <1>2, <1>3, <1>4, <1>5, <1>6

\* A transaction is started: it counts as a try.
LEMMA XbeginStep ==
  ASSUME IInv, NEW t \in Thread, Xbegin(t)
  PROVE  IInv'
<1> USE DEF IInv, Xbegin, memVars, locals, counts, Goto
<1>1. TypeOK'
  BY DEF TypeOK, PC, Status
<1>2. TxInv'
  BY DEF TypeOK, TxInv
<1>3. Subscribed'
  BY DEF TypeOK, TxInv, Subscribed
<1>4. LockInv'
  BY DEF TypeOK, TxInv, LockInv, Owns
<1>5. TriesInv'
  BY RetriesAssumption DEF TypeOK, TxInv, TriesInv
<1>6. CountInv'
  BY DEF TypeOK, TxInv, CountInv, Counting
<1> QED
  BY <1>1, <1>2, <1>3, <1>4, <1>5, <1>6

\* A transaction ends without effect.
LEMMA AbortStep ==
  ASSUME IInv, NEW t \in Thread, NEW s \in Status, tx[t], Abort(t, s),
         UNCHANGED <<locals, counts, calls>>
  PROVE  IInv'
<1> USE DEF IInv, Abort, locals, counts, Goto
<1>1. TypeOK'
  BY NoBufType DEF TypeOK, PC
<1>2. TxInv'
  BY DEF TypeOK, TxInv, NoBuf
<1>3. Subscribed'
  BY DEF TypeOK, Subscribed
<1>4. LockInv'
  BY DEF TypeOK, TxInv, LockInv, Owns
<1>5. TriesInv'
  BY DEF TypeOK, TriesInv
<1>6. CountInv'
  BY DEF TypeOK, TxInv, CountInv, Counting
<1> QED
  BY <1>1, <1>2, <1>3, <1>4, <1>5, <1>6

\* The lock word enters the read set while it is 0, or the transaction aborts.
LEMMA SubscribeStep ==
  ASSUME IInv, NEW t \in Thread, Subscribe(t)
  PROVE  IInv'
<1>1. CASE Load(t, Lock) = 0
  <2> USE <1>1 DEF IInv, Subscribe, Load, Track, locals, counts, Goto
  <2>0. tx[t] /\ mem[Lock] = 0
    BY DEF TxInv
  <2>1. TypeOK'
    <3>1. rset' = [rset EXCEPT ![t] = rset[t] \cup {Lock}]
      BY <2>0
    <3>2. rset' \in [Thread -> SUBSET Word]
      BY <3>1 DEF TypeOK
    <3> QED
      BY <3>2 DEF TypeOK, PC
  <2>2. TxInv'
    BY <2>0 DEF TypeOK, TxInv
  <2>3. Subscribed'
    BY <2>0 DEF TypeOK, Subscribed
  <2>4. LockInv'
    BY <2>0 DEF TypeOK, LockInv, Owns
  <2>5. TriesInv'
    BY <2>0 DEF TypeOK, TriesInv
  <2>6. CountInv'
    BY DEF TypeOK, CountInv, Counting
  <2> QED
    BY <2>1, <2>2, <2>3, <2>4, <2>5, <2>6
<1>2. CASE Load(t, Lock) # 0
  <2>1. tx[t] /\ {"EXPLICIT"} \in Status
    BY DEF IInv, TxInv, Subscribe, Status
  <2> QED
    BY <1>2, <2>1, AbortStep DEF Subscribe
<1> QED
  BY <1>1, <1>2

\* A transaction is aborted by the hardware.
LEMMA HardwareAbortStep ==
  ASSUME IInv, NEW t \in Thread, HardwareAbort(t)
  PROVE  IInv'
<1>1. PICK s \in SUBSET {"RETRY", "CONFLICT"} : Abort(t, s)
  BY DEF HardwareAbort
<1>2. s \in Status
  BY DEF Status
<1> QED
  BY <1>1, <1>2, AbortStep DEF HardwareAbort

\* A call is given up.
LEMMA GiveUpStep ==
  ASSUME IInv, NEW t \in Thread, GiveUp(t)
  PROVE  IInv'
<1> USE DEF IInv, GiveUp, memVars, locals, counts, Goto
<1>1. TypeOK'
  BY DEF TypeOK, PC, Status
<1>2. TxInv'
  BY DEF TypeOK, TxInv
<1>3. Subscribed'
  BY DEF TypeOK, TxInv, Subscribed
<1>4. LockInv'
  BY DEF TypeOK, TxInv, LockInv, Owns
<1>5. TriesInv'
  BY DEF TypeOK, TxInv, TriesInv
<1>6. CountInv'
  BY DEF TypeOK, TxInv, CountInv, Counting
<1> QED
  BY <1>1, <1>2, <1>3, <1>4, <1>5, <1>6

\* The choice between another transaction and the lock.
LEMMA RetryStep ==
  ASSUME IInv, NEW t \in Thread, Retry(t)
  PROVE  IInv'
<1> USE DEF IInv, Retry, Load, memVars, locals, counts, Goto
<1>1. TypeOK'
  BY DEF TypeOK, PC, Status, TriesInv
<1>2. TxInv'
  BY DEF TypeOK, TxInv
<1>3. Subscribed'
  BY DEF TypeOK, TxInv, Subscribed
<1>4. LockInv'
  BY DEF TypeOK, TxInv, LockInv, Owns
<1>5. TriesInv'
  BY RetriesAssumption DEF TypeOK, TxInv, TriesInv
<1>6. CountInv'
  BY DEF TypeOK, TxInv, CountInv, Counting
<1> QED
  BY <1>1, <1>2, <1>3, <1>4, <1>5, <1>6

\* The lock was seen free.
LEMMA SpinStep ==
  ASSUME IInv, NEW t \in Thread, Spin(t)
  PROVE  IInv'
<1> USE DEF IInv, Spin, memVars, locals, counts, Goto
<1>1. TypeOK'
  BY DEF TypeOK, PC, Status
<1>2. TxInv'
  BY DEF TypeOK, TxInv
<1>3. Subscribed'
  BY DEF TypeOK, TxInv, Subscribed
<1>4. LockInv'
  BY DEF TypeOK, TxInv, LockInv, Owns
<1>5. TriesInv'
  BY DEF TypeOK, TxInv, TriesInv
<1>6. CountInv'
  BY DEF TypeOK, TxInv, CountInv, Counting
<1> QED
  BY <1>1, <1>2, <1>3, <1>4, <1>5, <1>6

\* The counter is loaded.
LEMMA CountLoadStep ==
  ASSUME IInv, NEW t \in Thread, CountLoad(t)
  PROVE  IInv'
<1> USE DEF IInv, CountLoad, memVars, locals, counts, Goto
<1>1. TypeOK'
  BY DEF TypeOK, PC, Status
<1>2. TxInv'
  BY DEF TypeOK, TxInv
<1>3. Subscribed'
  BY DEF TypeOK, TxInv, Subscribed
<1>4. LockInv'
  BY DEF TypeOK, TxInv, LockInv, Owns
<1>5. TriesInv'
  BY DEF TypeOK, TxInv, TriesInv
<1>6. CountInv'
  BY DEF TypeOK, TxInv, CountInv, Counting
<1> QED
  BY <1>1, <1>2, <1>3, <1>4, <1>5, <1>6

\* The counter is stored.
LEMMA CountStoreStep ==
  ASSUME IInv, NEW t \in Thread, CountStore(t)
  PROVE  IInv'
<1> USE DEF IInv, CountStore, memVars, locals, counts, Goto
<1>1. TypeOK'
  BY DEF TypeOK, PC, Status
<1>2. TxInv'
  BY DEF TypeOK, TxInv
<1>3. Subscribed'
  BY DEF TypeOK, TxInv, Subscribed
<1>4. LockInv'
  BY DEF TypeOK, TxInv, LockInv, Owns
<1>5. TriesInv'
  BY DEF TypeOK, TxInv, TriesInv
<1>6. CountInv'
  BY DEF TypeOK, TxInv, CountInv, Counting, LockInv, Owns
<1> QED
  BY <1>1, <1>2, <1>3, <1>4, <1>5, <1>6

\* A load of the critical section.
LEMMA BodyLoadStep ==
  ASSUME IInv, NEW t \in Thread, NEW a \in Addr, BodyLoad(t, a)
  PROVE  IInv'
<1> USE DEF IInv, BodyLoad, Track, memVars, locals, counts, Goto
<1>1. TypeOK'
  BY DEF TypeOK, PC, Status
<1>2. TxInv'
  BY DEF TypeOK, TxInv
<1>3. Subscribed'
  BY DEF TypeOK, TxInv, Subscribed
<1>4. LockInv'
  BY DEF TypeOK, TxInv, LockInv, Owns
<1>5. TriesInv'
  BY DEF TypeOK, TxInv, TriesInv
<1>6. CountInv'
  BY DEF TypeOK, TxInv, CountInv, Counting
<1> QED
  BY <1>1, <1>2, <1>3, <1>4, <1>5, <1>6

\* The section is over.
LEMMA BodyDoneStep ==
  ASSUME IInv, NEW t \in Thread, BodyDone(t)
  PROVE  IInv'
<1> USE DEF IInv, BodyDone, memVars, locals, counts, Goto
<1>1. TypeOK'
  BY DEF TypeOK, PC, Status
<1>2. TxInv'
  BY DEF TypeOK, TxInv
<1>3. Subscribed'
  BY DEF TypeOK, TxInv, Subscribed
<1>4. LockInv'
  BY DEF TypeOK, TxInv, LockInv, Owns
<1>5. TriesInv'
  BY DEF TypeOK, TxInv, TriesInv
<1>6. CountInv'
  BY DEF TypeOK, TxInv, CountInv, Counting
<1> QED
  BY <1>1, <1>2, <1>3, <1>4, <1>5, <1>6

\* TM_END tests the lock word.
LEMMA EndTestStep ==
  ASSUME IInv, NEW t \in Thread, EndTest(t)
  PROVE  IInv'
<1> USE DEF IInv, EndTest, Load, Track, memVars, locals, counts, Goto
<1>1. TypeOK'
  BY DEF TypeOK, PC, Status
<1>2. TxInv'
  BY DEF TypeOK, TxInv, Subscribed, LockInv, Owns
<1>3. Subscribed'
  BY DEF TypeOK, TxInv, Subscribed
<1>4. LockInv'
  BY DEF TypeOK, TxInv, LockInv, Owns
<1>5. TriesInv'
  BY DEF TypeOK, TxInv, TriesInv
<1>6. CountInv'
  BY DEF TypeOK, TxInv, CountInv, Counting
<1> QED
  BY <1>1, <1>2, <1>3, <1>4, <1>5, <1>6

\* Parts of the invariant that Publish keeps whatever is stored: it only takes
\* threads out of transactions.
LEMMA PublishKeeps ==
  ASSUME IInv, NEW t \in Thread, NEW W \in SUBSET Word,
         NEW l \in {"body", "idle", "count", "spin"},
         Published(t, W, l), UNCHANGED n_tries
  PROVE  TxInv' /\ TriesInv'
<1> USE DEF IInv, Published, Aborted, Kept
<1>1. TxInv'
  <2>1. NoBuf[Lock] = None
    BY DEF NoBuf
  <2> QED
    BY <2>1 DEF TxInv
<1>2. TriesInv'
  BY DEF TriesInv
<1> QED
  BY <1>1, <1>2

\* A store of the thread that runs its section under the lock.
LEMMA DirectStoreStep ==
  ASSUME IInv, NEW t \in Thread, pc[t] = "body", ~tx[t],
         NEW a \in Addr, NEW v \in Value,
         mem' = [mem EXCEPT ![a] = v], Publish(t, {a}, "body"),
         UNCHANGED <<locals, counts, calls>>
  PROVE  IInv'
<1> USE DEF IInv, locals, counts
<1>0. "body" \in PC /\ {a} \in SUBSET Word /\ a # Lock
  BY AddrAssumption DEF PC
<1>p. Published(t, {a}, "body")
  BY <1>0, PublishEffect
<1>1. TypeOK'
  <2>1. mem' \in [Word -> Value \cup {0, 1}]
    BY DEF TypeOK
  <2> QED
    BY <1>0, <2>1, PublishTypes DEF TypeOK
<1>2. TxInv' /\ TriesInv'
  BY <1>0, <1>p, PublishKeeps
<1>3. mem'[Lock] = mem[Lock]
  BY <1>0 DEF TypeOK
<1>4. \A u \in Thread : /\ tx'[u] => tx[u] /\ pc'[u] = pc[u] /\ rset'[u] = rset[u]
                        /\ Owns(u)' <=> Owns(u)
                        /\ Counting(u)' <=> Counting(u)
                        /\ pc'[u] = "countStore" => pc[u] = "countStore"
  BY <1>p DEF Published, Aborted, Kept, TxInv, Owns, Counting
<1>5. Subscribed'
  BY <1>3, <1>4 DEF Subscribed
<1>6. LockInv'
  BY <1>3, <1>4 DEF LockInv
<1>7. CountInv'
  BY <1>4 DEF CountInv
<1> QED
  BY <1>1, <1>2, <1>5, <1>6, <1>7

\* A store of the critical section.
LEMMA BodyStoreStep ==
  ASSUME IInv, NEW t \in Thread, NEW a \in Addr, NEW v \in Value, BodyStore(t, a, v)
  PROVE  IInv'
<1>1. CASE tx[t]
  <2> USE <1>1 DEF IInv, BodyStore, Store, locals, counts, Goto
  <2>1. TypeOK'
    <3>1. [buf[t] EXCEPT ![a] = v] \in [Word -> Value \cup {0, 1, None}]
      BY DEF TypeOK
    <3>2. buf' \in [Thread -> [Word -> Value \cup {0, 1, None}]]
      BY <3>1 DEF TypeOK
    <3> QED
      BY <3>2 DEF TypeOK, PC
  <2>2. TxInv'
    BY AddrAssumption DEF TypeOK, TxInv
  <2>3. Subscribed'
    BY DEF TypeOK, Subscribed
  <2>4. LockInv'
    BY DEF TypeOK, LockInv, Owns
  <2>5. TriesInv'
    BY DEF TypeOK, TriesInv
  <2>6. CountInv'
    BY DEF TypeOK, CountInv, Counting
  <2> QED
    BY <2>1, <2>2, <2>3, <2>4, <2>5, <2>6
<1>2. CASE ~tx[t]
  BY <1>2, DirectStoreStep DEF BodyStore, Store
<1> QED
  BY <1>1, <1>2

\* The exchange on the lock word: it takes the lock if it was free, and every
\* transaction past its test is aborted.
LEMMA ExchangeStep ==
  ASSUME IInv, NEW t \in Thread, Exchange(t)
  PROVE  IInv'
<1> DEFINE l == IF mem[Lock] = 0 THEN "count" ELSE "spin"
<1> USE DEF IInv, locals
<1>0. /\ ~tx[t] /\ l \in PC /\ {Lock} \in SUBSET Word
      /\ mem' = [mem EXCEPT ![Lock] = 1] /\ Publish(t, {Lock}, l)
  BY DEF TxInv, Exchange, Store, PC
<1>p. Published(t, {Lock}, l)
  BY <1>0, PublishEffect
<1>1. mem'[Lock] = 1 /\ mem[Lock] \in {0, 1}
  BY <1>0 DEF TypeOK, LockInv
<1>2. TypeOK'
  <2>1. acquired' \in Nat
    BY <1>1 DEF TypeOK, Exchange
  <2>2. mem' \in [Word -> Value \cup {0, 1}]
    BY <1>0 DEF TypeOK
  <2> QED
    BY <1>0, <2>1, <2>2, PublishTypes DEF TypeOK, Exchange
<1>3. TxInv' /\ TriesInv'
  BY <1>0, <1>p, PublishKeeps DEF Exchange
<1>4. \A u \in Thread : tx'[u] => pc'[u] = "subscribe"
  BY <1>p DEF Published, Aborted, Kept, Subscribed
<1>5. \A u \in Thread \ {t} : /\ Owns(u)' <=> Owns(u)
                              /\ Counting(u)' <=> Counting(u)
                              /\ pc'[u] = "countStore" => pc[u] = "countStore"
  BY <1>p DEF Published, Aborted, Kept, TxInv, Owns, Counting
<1>6. /\ ~Owns(t) /\ ~Counting(t)
      /\ Owns(t)' <=> mem[Lock] = 0
      /\ Counting(t)' <=> mem[Lock] = 0
      /\ pc'[t] # "countStore"
  BY <1>p DEF Published, Aborted, Kept, Exchange, Owns, Counting
<1>7. Subscribed'
  BY <1>4 DEF Subscribed
<1>8. LockInv'
  BY <1>1, <1>5, <1>6 DEF LockInv
<1>9. CountInv'
  <2>1. mem[Lock] = 0 => \A u \in Thread : ~Counting(u)
    BY DEF LockInv, TxInv, Owns, Counting
  <2> QED
    BY <1>1, <1>5, <1>6, <2>1 DEF CountInv, Exchange, TypeOK
<1> QED
  BY <1>2, <1>3, <1>7, <1>8, <1>9

\* The owner gives the lock back.
LEMMA UnlockStep ==
  ASSUME IInv, NEW t \in Thread, Unlock(t)
  PROVE  IInv'
<1> USE DEF IInv, locals, counts
<1>0. /\ ~tx[t] /\ "idle" \in PC /\ {Lock} \in SUBSET Word
      /\ mem' = [mem EXCEPT ![Lock] = 0] /\ Publish(t, {Lock}, "idle")
  BY DEF TxInv, Unlock, Store, PC
<1>p. Published(t, {Lock}, "idle")
  BY <1>0, PublishEffect
<1>1. mem'[Lock] = 0
  BY <1>0 DEF TypeOK
<1>2. TypeOK'
  BY <1>0, PublishTypes DEF TypeOK, Unlock
<1>3. TxInv' /\ TriesInv'
  BY <1>0, <1>p, PublishKeeps DEF Unlock
<1>4. \A u \in Thread : /\ tx'[u] => tx[u] /\ pc'[u] = pc[u] /\ rset'[u] = rset[u]
                        /\ Counting(u)' <=> Counting(u)
                        /\ pc'[u] = "countStore" => pc[u] = "countStore"
  BY <1>p DEF Published, Aborted, Kept, TxInv, Counting, Unlock
<1>5. \A u \in Thread : ~Owns(u)'
  <2>1. Owns(t) /\ ~Owns(t)'
    BY <1>0, <1>p DEF Published, Owns, Unlock
  <2>2. \A u \in Thread \ {t} : Owns(u)' => Owns(u)
    BY <1>p DEF Published, Aborted, Kept, TxInv, Owns
  <2> QED
    BY <2>1, <2>2 DEF LockInv
<1>6. Subscribed'
  BY <1>1, <1>4 DEF Subscribed
<1>7. LockInv'
  BY <1>1, <1>5 DEF LockInv
<1>8. CountInv'
  BY <1>4 DEF CountInv, Unlock
<1> QED
  BY <1>2, <1>3, <1>6, <1>7, <1>8

\* A commit makes the buffered stores visible; the lock word is not among them.
LEMMA XendStep ==
  ASSUME IInv, NEW t \in Thread, Xend(t)
  PROVE  IInv'
<1> DEFINE W == {w \in Word : buf[t][w] # None}
<1> USE DEF IInv, locals, counts
<1>0. /\ tx[t] /\ "idle" \in PC /\ W \in SUBSET Word
      /\ mem' = [w \in Word |-> Load(t, w)] /\ Publish(t, W, "idle")
  BY DEF TxInv, Xend, PC
<1>p. Published(t, W, "idle")
  BY <1>0, PublishEffect
<1>1. mem'[Lock] = mem[Lock]
  BY <1>0 DEF TxInv, Load
<1>2. TypeOK'
  <2>1. \A w \in Word : Load(t, w) \in Value \cup {0, 1}
    BY DEF TypeOK, Load
  <2>2. mem' \in [Word -> Value \cup {0, 1}]
    BY <1>0, <2>1
  <2> QED
    BY <1>0, <2>2, PublishTypes DEF TypeOK, Xend
<1>3. TxInv' /\ TriesInv'
  BY <1>0, <1>p, PublishKeeps DEF Xend
<1>4. \A u \in Thread : /\ tx'[u] => tx[u] /\ pc'[u] = pc[u] /\ rset'[u] = rset[u]
                        /\ Owns(u)' <=> Owns(u)
                        /\ Counting(u)' <=> Counting(u)
                        /\ pc'[u] = "countStore" => pc[u] = "countStore"
  BY <1>p DEF Published, Aborted, Kept, TxInv, Owns, Counting, Xend
<1>5. Subscribed'
  BY <1>1, <1>4 DEF Subscribed
<1>6. LockInv'
  BY <1>1, <1>4 DEF LockInv
<1>7. CountInv'
  BY <1>4 DEF CountInv, Xend
<1> QED
  BY <1>2, <1>3, <1>5, <1>6, <1>7

-----------------------------------------------------------------------------
(* What a step does to the other threads, for the modules that extend Tm.  *)

InBody == {"body", "end", "unlock", "xend"}

\* A thread that another thread's step does not touch, though it may change the memory.
Same(u) ==
  /\ pc'[u] = pc[u] /\ (tx'[u] <=> tx[u]) /\ rset'[u] = rset[u] /\ buf'[u] = buf[u]
  /\ tx[u] => \A w \in rset[u] : mem'[w] = mem[w]
  /\ Owns(u) => \A a \in Addr : mem'[a] = mem[a]

\* TM_BEGIN_NO_CONFLICT leaves the other threads alone, or aborts their transactions.
LEMMA BeginOthers ==
  ASSUME IInv, NEW t \in Thread, Begin(t), NEW u \in Thread \ {t} PROVE Same(u) \/ Aborted(u)
  <1> USE DEF IInv, TypeOK
  <1>1. CASE Xbegin(t)
    BY <1>1 DEF Xbegin, Same, Goto
  <1>2. CASE Subscribe(t)
    BY <1>2 DEF Subscribe, Abort, Track, Same, Goto
  <1>3. CASE GiveUp(t) \/ Retry(t) \/ Spin(t)
    BY <1>3 DEF GiveUp, Retry, Spin, Same, Goto, memVars
  <1>4. CASE CountLoad(t) \/ CountStore(t)
    BY <1>4 DEF CountLoad, CountStore, Same, Goto, memVars
  <1>5. CASE Exchange(t)
    <2>1. ~tx[t]
      BY <1>5 DEF Exchange, TxInv
    <2>2. PICK l \in PC : mem' = [mem EXCEPT ![Lock] = 1] /\ Publish(t, {Lock}, l)
      BY <1>5, <2>1 DEF Exchange, Store, PC
    <2>3. Published(t, {Lock}, l)
      <3>1. {Lock} \in SUBSET Word
        OBVIOUS
      <3> QED
        BY <2>2, <3>1, PublishEffect
    <2>4. \A w \in Word : w # Lock => mem'[w] = mem[w]
      BY <2>2
    <2>5. Lock \notin Addr
      BY AddrAssumption
    <2> QED
      BY <2>3, <2>4, <2>5 DEF Published, Kept, Same
  <1> QED
    BY <1>1, <1>2, <1>3, <1>4, <1>5 DEF Begin

\* Where TM_BEGIN_NO_CONFLICT takes its thread.
LEMMA BeginPlace ==
  ASSUME IInv, NEW t \in Thread, Begin(t)
  PROVE  /\ pc[t] \notin {"idle"} \cup InBody
         /\ pc'[t] \in {"subscribe", "body", "aborted", "idle", "xbegin", "spin", "exchange", "count", "countStore"}
         /\ pc'[t] = "subscribe" => buf'[t] = NoBuf
         /\ pc'[t] = "body" => buf'[t] = buf[t] /\ pc[t] \in {"subscribe", "countStore"}
         /\ pc'[t] = "idle" => noConflict[t]
         /\ \A a \in Addr : mem'[a] = mem[a]
  <1> USE DEF IInv, TypeOK, InBody
  <1>1. CASE Xbegin(t)
    BY <1>1 DEF Xbegin, Goto, TxInv
  <1>2. CASE Subscribe(t)
    BY <1>2 DEF Subscribe, Abort, Track, Goto
  <1>3. CASE GiveUp(t) \/ Retry(t) \/ Spin(t)
    BY <1>3 DEF GiveUp, Retry, Spin, Goto, memVars
  <1>4. CASE CountLoad(t) \/ CountStore(t)
    BY <1>4 DEF CountLoad, CountStore, Goto, memVars
  <1>5. CASE Exchange(t)
    <2>1. ~tx[t]
      BY <1>5 DEF Exchange, TxInv
    <2>2. PICK l \in {"count", "spin"} : mem' = [mem EXCEPT ![Lock] = 1] /\ Publish(t, {Lock}, l)
      BY <1>5, <2>1 DEF Exchange, Store
    <2>3. Published(t, {Lock}, l)
      <3>1. {Lock} \in SUBSET Word /\ l \in PC
        BY DEF PC
      <3> QED
        BY <2>2, <3>1, PublishEffect
    <2>4. \A a \in Addr : mem'[a] = mem[a]
      BY <2>2, AddrAssumption
    <2> QED
      BY <1>5, <2>3, <2>4 DEF Published, Exchange
  <1> QED
    BY <1>1, <1>2, <1>3, <1>4, <1>5 DEF Begin

\* What becomes of the others when a call unlocks or commits.
LEMMA FinishOthers ==
  ASSUME IInv, NEW t \in Thread, Unlock(t) \/ Xend(t), NEW u \in Thread \ {t} PROVE Same(u) \/ Aborted(u)
  <1> USE DEF IInv, TypeOK
  <1>1. CASE Unlock(t)
    <2>1. ~tx[t]
      BY <1>1 DEF Unlock, TxInv
    <2>2. mem' = [mem EXCEPT ![Lock] = 0] /\ Publish(t, {Lock}, "idle")
      BY <1>1, <2>1 DEF Unlock, Store
    <2>3. Published(t, {Lock}, "idle")
      <3>1. {Lock} \in SUBSET Word /\ "idle" \in PC
        BY DEF PC
      <3> QED
        BY <2>2, <3>1, PublishEffect
    <2>4. \A w \in Word : w # Lock => mem'[w] = mem[w]
      BY <2>2
    <2> QED
      BY <2>3, <2>4, AddrAssumption DEF Published, Kept, Same
  <1>2. CASE Xend(t)
    <2> DEFINE W == {w \in Word : buf[t][w] # None}
    <2>1. tx[t] /\ pc[t] = "xend"
      BY <1>2 DEF Xend, TxInv
    <2>2. mem' = [w \in Word |-> Load(t, w)] /\ Publish(t, W, "idle")
      BY <1>2 DEF Xend
    <2>3. Published(t, W, "idle")
      <3>1. W \in SUBSET Word /\ "idle" \in PC
        BY DEF PC
      <3> QED
        BY <2>2, <3>1, PublishEffect
    <2>4. \A w \in Word : w \notin W => mem'[w] = mem[w]
      BY <2>2 DEF Load
    <2> HIDE DEF W
    <2>5. ~Owns(u)
      BY <2>1 DEF Subscribed, LockInv
    <2> QED
      BY <2>3, <2>4, <2>5 DEF Published, Kept, Same
  <1> QED
    BY <1>1, <1>2

\* A thread that unlocks or commits is idle.
LEMMA FinishPlace ==
  ASSUME IInv, NEW t \in Thread, Unlock(t) \/ Xend(t) PROVE pc'[t] = "idle" /\ ~tx'[t]
  <1>1. PICK W \in SUBSET Word : Publish(t, W, "idle")
    <2>1. CASE Unlock(t)
      <3>1. ~tx[t] /\ {Lock} \in SUBSET Word
        BY <2>1 DEF Unlock, IInv, TxInv
      <3> QED
        BY <2>1, <3>1 DEF Unlock, Store
    <2>2. CASE Xend(t)
      BY <2>2 DEF Xend
    <2> QED
      BY <2>1, <2>2
  <1>2. "idle" \in PC
    BY DEF PC
  <1> QED
    BY <1>1, <1>2, PublishEffect DEF IInv, Published

-----------------------------------------------------------------------------
(* The theorems.                                                           *)

\* Every step keeps the invariant.
LEMMA NextIInv == IInv /\ [Next]_vars => IInv'
<1> SUFFICES ASSUME IInv, [Next]_vars PROVE IInv'
  OBVIOUS
<1>1. CASE UNCHANGED vars
  BY <1>1 DEF IInv, TypeOK, TxInv, Subscribed, LockInv, Owns, TriesInv,
              CountInv, Counting, vars, memVars, locals, counts
<1>2. ASSUME NEW t \in Thread, NEW nc \in BOOLEAN, Enter(t, nc) PROVE IInv'
  BY <1>2, EnterStep
<1>3. ASSUME NEW t \in Thread, Begin(t) PROVE IInv'
  BY <1>3, XbeginStep, SubscribeStep, GiveUpStep, RetryStep, SpinStep,
     ExchangeStep, CountLoadStep, CountStoreStep DEF Begin
<1>4. ASSUME NEW t \in Thread, Body(t) PROVE IInv'
  BY <1>4, BodyLoadStep, BodyStoreStep, BodyDoneStep DEF Body
<1>5. ASSUME NEW t \in Thread, End(t) PROVE IInv'
  BY <1>5, EndTestStep, UnlockStep, XendStep DEF End
<1>6. ASSUME NEW t \in Thread, HardwareAbort(t) PROVE IInv'
  BY <1>6, HardwareAbortStep
<1> QED
  BY <1>1, <1>2, <1>3, <1>4, <1>5, <1>6 DEF Next, Terminating

\* The invariant holds in every reachable state.
THEOREM Invariance == Spec => []IInv
BY InitIInv, NextIInv, PTL DEF Spec

\* The variables keep their types: n_tries never becomes negative although
\* explicit aborts decrement it.
THEOREM TypeCorrect == Spec => []TypeOK
<1>1. IInv => TypeOK
  BY DEF IInv
<1> QED
  BY <1>1, Invariance, PTL

\* At most one thread runs under the fallback lock, and the lock word says so.
THEOREM LockExcludes == Spec => []FallbackExclusive
<1>1. IInv => FallbackExclusive
  BY DEF IInv, LockInv, FallbackExclusive
<1> QED
  BY <1>1, Invariance, PTL

\* No transaction past its test runs next to a thread under the lock.
THEOREM LockIsolates == Spec => []FallbackIsolated
<1>1. IInv => FallbackIsolated
  BY DEF IInv, LockInv, Subscribed, FallbackIsolated
<1> QED
  BY <1>1, Invariance, PTL

\* The lock word alone tells TM_END which way the section was entered.
THEOREM RightPath == Spec => []EndTakesTheRightPath
<1>1. IInv => EndTakesTheRightPath
  BY DEF IInv, TxInv, EndTakesTheRightPath
<1> QED
  BY <1>1, Invariance, PTL

\* The tries of a section are bounded.
THEOREM BoundedTries == Spec => []TriesBounded
<1>1. IInv => TriesBounded
  BY DEF IInv, TriesInv, TriesBounded
<1> QED
  BY <1>1, Invariance, PTL

\* times_fallback counts every acquisition once.
THEOREM ExactCount == Spec => []FallbackCounted
<1> DEFINE C == {t \in Thread : pc[t] \in {"count", "countStore"}}
<1>1. ASSUME IInv PROVE FallbackCounted
  <2> USE <1>1 DEF IInv
  <2>1. CASE C = {}
    <3>1. Cardinality(C) = 0
      BY <2>1, FS_EmptySet
    <3>2. ~ \E t \in Thread : Counting(t)
      BY <2>1 DEF Counting
    <3> QED
      BY <3>1, <3>2 DEF CountInv, TypeOK, FallbackCounted
  <2>2. CASE C # {}
    <3>1. PICK t \in Thread : t \in C
      BY <2>2
    <3>2. C = {t}
      BY <3>1 DEF LockInv, TxInv, Owns
    <3>3. Cardinality(C) = 1
      BY <3>2, FS_Singleton
    <3> QED
      BY <3>1, <3>3 DEF CountInv, Counting, TypeOK, FallbackCounted
  <2> QED
    BY <2>1, <2>2
<1> QED
  BY <1>1, Invariance, PTL

\* While a thread keeps the lock, a step that changes a data word is one of its
\* own stores.
LEMMA OwnerUndisturbed ==
  ASSUME IInv, Next, NEW t \in Thread, Owns(t), NEW a \in Addr, mem'[a] # mem[a]
  PROVE  \E b \in Addr, x \in Value : BodyStore(t, b, x)
<1> USE DEF IInv
<1>1. \A v \in Thread : tx[v] => pc[v] = "subscribe"
  BY DEF LockInv, Subscribed
<1>2. ASSUME NEW v \in Thread, NEW b \in Addr, NEW x \in Value, BodyStore(v, b, x)
      PROVE  v = t
  <2>1. Owns(v)
    BY <1>1, <1>2 DEF Owns, BodyStore
  <2> QED
    BY <2>1 DEF LockInv
<1>3. ASSUME NEW v \in Thread, Exchange(v) \/ Unlock(v) PROVE FALSE
  BY <1>3, AddrAssumption DEF TxInv, Exchange, Unlock, Store, TypeOK
<1>4. ASSUME NEW v \in Thread, Xend(v) PROVE FALSE
  BY <1>1, <1>4 DEF TxInv, Xend
<1>5. mem' # mem
  OBVIOUS
<1> QED
  BY <1>2, <1>3, <1>4, <1>5 DEF Next, Begin, Body, End, Enter, Xbegin, Subscribe,
     GiveUp, Retry, Spin, CountLoad, CountStore, BodyLoad, BodyDone, EndTest,
     HardwareAbort, Abort, Terminating, vars, memVars

\* What the owner of the fallback lock has read stays true until it stores or
\* unlocks: no transaction commits and no other owner stores meanwhile.
THEOREM Undisturbed == Spec => FallbackUndisturbed
<1>1. IInv /\ [Next]_vars =>
        [\A t \in Thread :
           Owns(t) /\ Owns(t)' /\ (\E a \in Addr : mem'[a] # mem[a])
             => \E a \in Addr, v \in Value : BodyStore(t, a, v)]_vars
  BY OwnerUndisturbed
<1> QED
  BY <1>1, Invariance, PTL DEF Spec, FallbackUndisturbed

-----------------------------------------------------------------------------
(* swap of htm-lock/array_swap.h (HtmArraySwap), for every number of       *)
(* threads, of rows and of tries.                                          *)

USE DEF Lock, Word

RowA(t) == rows[t][1]
RowB(t) == rows[t][2]

\* Where a swap is.
SwapPlace(t) ==
  /\ IF pc[t] = "idle" THEN rows[t] \in Pairs \cup {<<>>} ELSE rows[t] \in Pairs
  /\ pc[t] = "idle" => next[t] = 1
  /\ pc[t] \in {"end", "unlock", "xend"} => next[t] = 5
  /\ pc[t] \in InBody /\ next[t] >= 2 => temp[t] \in Value
  /\ pc[t] \in InBody /\ next[t] >= 3 => elemB[t] \in Value
  /\ pc[t] = "subscribe" => buf[t] = NoBuf

\* A transaction that is in its section has read the rows, and what it has loaded is
\* there as long as it is not aborted; it has buffered its stores and nothing else.
TxSwap(t) ==
  tx[t] /\ pc[t] \in InBody =>
    /\ next[t] >= 2 => RowA(t) \in rset[t] /\ mem[RowA(t)] = temp[t]
    /\ next[t] >= 3 => RowB(t) \in rset[t] /\ mem[RowB(t)] = elemB[t]
    /\ \A r \in Addr : buf[t][r] =
         IF r = RowA(t) /\ next[t] >= 4 THEN elemB[t]
         ELSE IF r = RowB(t) /\ next[t] = 5 THEN temp[t] ELSE None

\* Under the fallback lock the rows are as they were loaded, but for what was stored.
OwnSwap(t) ==
  Owns(t) /\ pc[t] \in InBody =>
    /\ next[t] \in 2 .. 3 => mem[RowA(t)] = temp[t]
    /\ next[t] \in 3 .. 4 => mem[RowB(t)] = elemB[t]
    /\ next[t] = 4 => mem[RowA(t)] = elemB[t]

\* A row holds an element, and so does a buffered store of one.
Elements == \A r \in Addr : mem[r] \in Value /\ \A t \in Thread : buf[t][r] \in Value \cup {None}

SwapTypes ==
  /\ rows \in [Thread -> Pairs \cup {<<>>}] /\ next \in [Thread -> 1 .. 5]
  /\ temp \in [Thread -> Value \cup {None}] /\ elemB \in [Thread -> Value \cup {None}]

SwapInv == SwapTypes /\ Elements /\ \A t \in Thread : SwapPlace(t) /\ TxSwap(t) /\ OwnSwap(t)

\* A swap is entered with TM_BEGIN, which does not give up on a conflict.
Waits == \A t \in Thread : noConflict[t] = FALSE

SInv == IInv /\ Waits /\ SwapInv

-----------------------------------------------------------------------------
(* The steps keep the invariant.                                           *)

\* The rows of a swap that is under way are two rows of the array.
LEMMA RowsApart ==
  ASSUME SwapInv, NEW t \in Thread, pc[t] # "idle"
  PROVE  RowA(t) \in Addr /\ RowB(t) \in Addr /\ RowA(t) # RowB(t) /\ rows[t] # <<>>
  <1>1. rows[t] \in Pairs
    BY DEF SwapInv, SwapPlace
  <1>2. rows[t] \in Addr \X Addr /\ rows[t][1] # rows[t][2]
    BY <1>1, PairsAssumption
  <1> QED
    BY <1>2 DEF RowA, RowB

SwapSame(u) == rows'[u] = rows[u] /\ next'[u] = next[u] /\ temp'[u] = temp[u] /\ elemB'[u] = elemB[u]
SwapOthersKept(t) == \A u \in Thread \ {t} : SwapSame(u) /\ (Same(u) \/ Aborted(u))

\* What is known of a swap that another thread's step does not touch is still so.
LEMMA SwapFrame ==
  ASSUME IInv, SwapInv, NEW u \in Thread, SwapSame(u), Same(u) \/ Aborted(u)
  PROVE  SwapPlace(u)' /\ TxSwap(u)' /\ OwnSwap(u)' /\ \A r \in Addr : buf'[u][r] \in Value \cup {None}
  <1>1. /\ SwapPlace(u) /\ TxSwap(u) /\ OwnSwap(u) /\ \A r \in Addr : buf[u][r] \in Value \cup {None}
        /\ RowA(u)' = RowA(u) /\ RowB(u)' = RowB(u)
    BY DEF SwapInv, Elements, SwapSame, RowA, RowB
  <1>2. CASE Aborted(u)
    <2>1. pc[u] # "idle" /\ pc'[u] = "aborted" /\ ~tx'[u] /\ buf'[u] = NoBuf
      BY <1>2 DEF IInv, TxInv, Aborted
    <2>2. SwapPlace(u)' /\ TxSwap(u)' /\ OwnSwap(u)'
      BY <1>1, <2>1 DEF SwapPlace, TxSwap, OwnSwap, SwapSame, InBody
    <2> QED
      BY <2>1, <2>2 DEF NoBuf
  <1>3. CASE Same(u)
    <2>1. SwapPlace(u)'
      BY <1>1, <1>3 DEF SwapPlace, Same, SwapSame, InBody
    <2>2. TxSwap(u)'
      BY <1>1, <1>3 DEF TxSwap, Same, SwapSame
    <2>3. OwnSwap(u)'
      <3>1. (Owns(u)' <=> Owns(u)) /\ pc'[u] = pc[u]
        BY <1>3 DEF Owns, Same
      <3>2. pc[u] \in InBody => RowA(u) \in Addr /\ RowB(u) \in Addr
        BY RowsApart DEF InBody
      <3> QED
        BY <1>1, <1>3, <3>1, <3>2 DEF OwnSwap, Same, SwapSame
    <2> QED
      BY <1>1, <1>3, <2>1, <2>2, <2>3 DEF Same
  <1> QED
    BY <1>2, <1>3

\* To show that a step of t keeps the invariant it is enough to look at t and the rows.
LEMMA Suffices ==
  ASSUME SInv, NEW t \in Thread, SwapOthersKept(t), SwapTypes', SwapPlace(t)', TxSwap(t)', OwnSwap(t)',
         \A r \in Addr : mem'[r] \in Value /\ buf'[t][r] \in Value \cup {None}
  PROVE  SwapInv' /\ SwapOthersKept(t)
  <1>1. \A u \in Thread \ {t} : SwapPlace(u)' /\ TxSwap(u)' /\ OwnSwap(u)' /\ \A r \in Addr : buf'[u][r] \in Value \cup {None}
    BY SwapFrame DEF SInv, SwapOthersKept
  <1> QED
    BY <1>1 DEF SwapInv, Elements

\* The steps of a swap are steps of a section of Tm.
LEMMA SwapStepOfTm == SwapInv /\ [SNext]_sVars => [Next]_vars
  <1> SUFFICES ASSUME SwapInv, [SNext]_sVars PROVE [Next]_vars
    OBVIOUS
  <1>1. ASSUME NEW t \in Thread, Swap(t) PROVE Next
    BY <1>1 DEF Swap, Next
  <1>2. ASSUME NEW t \in Thread, SBegin(t) \/ SEnd(t) PROVE Next
    BY <1>2 DEF SBegin, SEnd, Next
  <1>3. ASSUME NEW t \in Thread, SBody(t) PROVE Next
    <2>1. pc[t] = "body"
      BY <1>3 DEF SBody, LoadA, LoadB, StoreA, StoreB, SLeave, BodyLoad, BodyStore, BodyDone
    <2>2. rows[t][1] \in Addr /\ rows[t][2] \in Addr
      BY <2>1, RowsApart DEF RowA, RowB
    <2>3. /\ next[t] >= 2 => temp[t] \in Value
          /\ next[t] >= 3 => elemB[t] \in Value
      BY <2>1 DEF SwapInv, SwapPlace, InBody
    <2>4. CASE LoadA(t) \/ LoadB(t)
      BY <2>2, <2>4 DEF LoadA, LoadB, Next, Body
    <2>5. CASE StoreA(t)
      BY <2>2, <2>3, <2>5 DEF StoreA, Advance, Next, Body
    <2>6. CASE StoreB(t)
      BY <2>2, <2>3, <2>6 DEF StoreB, Advance, Next, Body
    <2>7. CASE SLeave(t)
      BY <2>7 DEF SLeave, Next, Body
    <2> QED
      BY <1>3, <2>4, <2>5, <2>6, <2>7 DEF SBody
  <1>4. ASSUME NEW t \in Thread, HardwareAbort(t) PROVE Next
    BY <1>4 DEF Next
  <1>5. CASE UNCHANGED sVars
    BY <1>5 DEF sVars
  <1> QED
    BY <1>1, <1>2, <1>3, <1>4, <1>5 DEF SNext, SStep, Next

\* A swap is called.
LEMMA SwapStep ==
  ASSUME SInv, NEW t \in Thread, Swap(t) PROVE SwapInv' /\ SwapOthersKept(t)
  <1>1. IInv /\ SwapInv /\ SwapTypes /\ SwapPlace(t) /\ UNCHANGED <<next, temp, elemB>>
    BY DEF SInv, SwapInv, Swap
  <1>2. PICK p \in Pairs : rows' = [rows EXCEPT ![t] = p]
    BY DEF Swap
  <1>3. pc[t] = "idle" /\ pc' = [pc EXCEPT ![t] = "xbegin"] /\ UNCHANGED memVars
    BY DEF Swap, Enter, Goto
  <1>4. SwapTypes' /\ rows'[t] = p /\ \A u \in Thread \ {t} : SwapSame(u)
    BY <1>1, <1>2 DEF SwapTypes, SwapSame
  <1>5. pc'[t] = "xbegin" /\ \A u \in Thread \ {t} : Same(u)
    BY <1>1, <1>3 DEF Same, memVars, IInv, TypeOK
  <1>6. SwapPlace(t)' /\ TxSwap(t)' /\ OwnSwap(t)'
    BY <1>4, <1>5 DEF SwapPlace, TxSwap, OwnSwap, InBody
  <1>7. \A r \in Addr : mem'[r] \in Value /\ buf'[t][r] \in Value \cup {None}
    BY <1>1, <1>3 DEF SwapInv, Elements, memVars
  <1> QED
    BY <1>4, <1>5, <1>6, <1>7, Suffices DEF SwapOthersKept

\* A section is entered, or not.
LEMMA SBeginStep ==
  ASSUME SInv, NEW t \in Thread, SBegin(t) PROVE SwapInv' /\ SwapOthersKept(t)
  <1>1. IInv /\ SwapInv /\ SwapTypes /\ SwapPlace(t) /\ Begin(t) /\ UNCHANGED <<rows, temp, elemB>>
    BY DEF SInv, SwapInv, SBegin
  <1>2. next' = [next EXCEPT ![t] = IF pc'[t] = "body" THEN 1 ELSE @]
    BY DEF SBegin
  <1>3. SwapTypes' /\ \A u \in Thread \ {t} : SwapSame(u)
    BY <1>1, <1>2 DEF SwapTypes, SwapSame
  <1>4. SwapOthersKept(t)
    BY <1>1, <1>3, BeginOthers DEF SwapOthersKept
  <1>5. /\ pc[t] \notin {"idle"} \cup InBody
        /\ pc'[t] \in {"subscribe", "body", "aborted", "idle", "xbegin", "spin", "exchange", "count", "countStore"}
        /\ pc'[t] = "subscribe" => buf'[t] = NoBuf
        /\ pc'[t] = "body" => buf'[t] = buf[t] /\ pc[t] \in {"subscribe", "countStore"}
        /\ \A a \in Addr : mem'[a] = mem[a]
    BY <1>1, BeginPlace
  <1>6. pc'[t] = "body" => next'[t] = 1 /\ buf'[t] = NoBuf
    <2>1. pc[t] = "countStore" => buf[t] = NoBuf
      BY <1>1 DEF IInv, TxInv
    <2> QED
      BY <1>1, <1>2, <1>5, <2>1 DEF SwapPlace, SwapTypes
  <1>7. pc'[t] # "idle"
    BY <1>1, BeginPlace DEF SInv, Waits
  <1>8. /\ rows'[t] = rows[t] /\ temp'[t] = temp[t] /\ elemB'[t] = elemB[t]
        /\ RowA(t)' = RowA(t) /\ RowB(t)' = RowB(t)
    BY <1>1 DEF RowA, RowB
  <1>9. SwapPlace(t)'
    BY <1>1, <1>5, <1>6, <1>7, <1>8 DEF SwapPlace, InBody
  <1>10. \A r \in Addr : NoBuf[r] = None
    BY DEF NoBuf
  <1>11. TxSwap(t)' /\ OwnSwap(t)'
    BY <1>5, <1>6, <1>10 DEF TxSwap, OwnSwap, InBody
  <1>12. \A r \in Addr : mem'[r] \in Value /\ buf'[t][r] \in Value \cup {None}
    <2>1. IInv'
      BY <1>1, NextIInv DEF Next
    <2>2. /\ ~tx'[t] => buf'[t] = NoBuf
          /\ tx'[t] => pc'[t] \in {"subscribe", "body", "end", "xend"}
      BY <2>1 DEF IInv, TxInv
    <2>3. buf'[t] = NoBuf
      BY <1>5, <1>6, <2>2
    <2>4. \A r \in Addr : mem'[r] \in Value
      BY <1>1, <1>5 DEF SwapInv, Elements
    <2> QED
      BY <1>10, <2>3, <2>4
  <1> QED
    BY <1>3, <1>4, <1>9, <1>11, <1>12, Suffices

\* A load puts the row into the read set of a transaction and changes nothing else.
LEMMA Loaded ==
  ASSUME IInv, NEW t \in Thread, NEW a \in Addr, BodyLoad(t, a)
  PROVE  /\ pc[t] = "body" /\ UNCHANGED <<mem, tx, buf, pc>>
         /\ tx[t] => rset'[t] = rset[t] \cup {a}
         /\ \A u \in Thread \ {t} : Same(u)
  BY DEF BodyLoad, Track, IInv, TypeOK, Same

\* A store goes into the buffer of a transaction, or under the lock into the memory.
LEMMA Stored ==
  ASSUME IInv, NEW t \in Thread, NEW a \in Addr, NEW v \in Value, BodyStore(t, a, v)
  PROVE  /\ pc[t] = "body" /\ pc'[t] = "body" /\ (tx'[t] <=> tx[t])
         /\ tx[t] => /\ UNCHANGED mem /\ rset'[t] = rset[t]
                     /\ \A b \in Addr : buf'[t][b] = IF b = a THEN v ELSE buf[t][b]
         /\ ~tx[t] => /\ Owns(t) /\ buf'[t] = NoBuf
                      /\ \A b \in Addr : mem'[b] = IF b = a THEN v ELSE mem[b]
         /\ \A u \in Thread \ {t} : Same(u) \/ Aborted(u)
  <1>1. pc[t] = "body" /\ Store(t, a, v, "body")
    BY DEF BodyStore
  <1>2. CASE tx[t]
    <2>1. /\ UNCHANGED <<mem, tx, rset>> /\ buf' = [buf EXCEPT ![t][a] = v]
          /\ pc' = [pc EXCEPT ![t] = "body"]
      BY <1>1, <1>2 DEF Store, Goto
    <2>2. pc' = pc
      <3>1. pc \in [Thread -> PC]
        BY DEF IInv, TypeOK
      <3> QED
        BY <1>1, <2>1, <3>1
    <2>3. /\ \A u \in Thread \ {t} : buf'[u] = buf[u]
          /\ \A b \in Addr : buf'[t][b] = IF b = a THEN v ELSE buf[t][b]
      BY <2>1 DEF IInv, TypeOK
    <2>4. \A u \in Thread \ {t} : Same(u)
      BY <2>1, <2>2, <2>3 DEF Same, IInv, TypeOK
    <2> QED
      BY <1>1, <1>2, <2>1, <2>2, <2>3, <2>4
  <1>3. CASE ~tx[t]
    <2>1. mem' = [mem EXCEPT ![a] = v] /\ Publish(t, {a}, "body")
      BY <1>1, <1>3 DEF Store
    <2>2. Published(t, {a}, "body")
      <3>1. {a} \in SUBSET Word /\ "body" \in PC
        BY DEF PC
      <3> QED
        BY <2>1, <3>1, PublishEffect DEF IInv
    <2>3. \A w \in Word : mem'[w] = IF w = a THEN v ELSE mem[w]
      BY <2>1 DEF IInv, TypeOK
    <2>4. Owns(t)
      BY <1>1, <1>3 DEF Owns
    <2>5. \A u \in Thread \ {t} : Same(u) \/ Aborted(u)
      <3>1. \A u \in Thread \ {t} : ~Owns(u)
        BY <2>4 DEF IInv, LockInv
      <3>2. \A u \in Thread : rset[u] \in SUBSET Word
        BY DEF IInv, TypeOK
      <3> QED
        BY <2>2, <2>3, <3>1, <3>2 DEF Published, Kept, Same
    <2> QED
      BY <1>1, <1>3, <2>2, <2>3, <2>4, <2>5 DEF Published
  <1> QED
    BY <1>2, <1>3

\* Row a is loaded.
LEMMA LoadAStep ==
  ASSUME SInv, NEW t \in Thread, LoadA(t) PROVE SwapInv' /\ SwapOthersKept(t)
  <1>1. IInv /\ SwapInv /\ SwapTypes /\ SwapPlace(t) /\ TxSwap(t) /\ UNCHANGED <<rows, elemB>>
    BY DEF SInv, SwapInv, LoadA
  <1>2. pc[t] = "body" /\ BodyLoad(t, rows[t][1])
    BY DEF LoadA, BodyLoad
  <1>3. RowA(t) \in Addr /\ RowB(t) \in Addr
    BY <1>1, <1>2, RowsApart
  <1>4. /\ UNCHANGED <<mem, tx, buf, pc>>
        /\ tx[t] => rset'[t] = rset[t] \cup {RowA(t)}
        /\ \A u \in Thread \ {t} : Same(u)
    BY <1>1, <1>2, <1>3, Loaded DEF RowA
  <1>5. /\ next[t] = 1 /\ next' = [next EXCEPT ![t] = 2]
        /\ temp' = [temp EXCEPT ![t] = Load(t, RowA(t))]
    BY DEF LoadA, Advance, RowA
  <1>6. Load(t, RowA(t)) = mem[RowA(t)] /\ mem[RowA(t)] \in Value
    <2>1. CASE tx[t]
      <3>1. buf[t][RowA(t)] = None
        BY <1>1, <1>2, <1>3, <1>5, <2>1 DEF TxSwap, InBody
      <3> QED
        BY <1>1, <1>3, <3>1 DEF Load, SwapInv, Elements
    <2>2. CASE ~tx[t]
      <3>1. buf[t][RowA(t)] = None
        BY <1>1, <1>3, <2>2 DEF IInv, TxInv, NoBuf
      <3> QED
        BY <1>1, <1>3, <3>1 DEF Load, SwapInv, Elements
    <2> QED
      BY <2>1, <2>2
  <1>7. SwapTypes' /\ \A u \in Thread \ {t} : SwapSame(u)
    BY <1>1, <1>5, <1>6 DEF SwapTypes, SwapSame
  <1>8. /\ next'[t] = 2 /\ temp'[t] = mem[RowA(t)]
        /\ RowA(t)' = RowA(t) /\ RowB(t)' = RowB(t) /\ rows'[t] = rows[t]
    BY <1>1, <1>5, <1>6 DEF RowA, RowB, SwapTypes
  <1>9. SwapPlace(t)'
    BY <1>1, <1>2, <1>4, <1>6, <1>8 DEF SwapPlace, InBody
  <1>10. TxSwap(t)' /\ OwnSwap(t)'
    BY <1>1, <1>2, <1>4, <1>5, <1>8 DEF TxSwap, OwnSwap, InBody
  <1>11. \A r \in Addr : mem'[r] \in Value /\ buf'[t][r] \in Value \cup {None}
    BY <1>1, <1>4 DEF SwapInv, Elements
  <1> QED
    BY <1>4, <1>7, <1>9, <1>10, <1>11, Suffices DEF SwapOthersKept

\* Row b is loaded.
LEMMA LoadBStep ==
  ASSUME SInv, NEW t \in Thread, LoadB(t) PROVE SwapInv' /\ SwapOthersKept(t)
  <1>1. IInv /\ SwapInv /\ SwapTypes /\ SwapPlace(t) /\ TxSwap(t) /\ OwnSwap(t) /\ UNCHANGED <<rows, temp>>
    BY DEF SInv, SwapInv, LoadB
  <1>2. pc[t] = "body" /\ BodyLoad(t, rows[t][2])
    BY DEF LoadB, BodyLoad
  <1>3. RowA(t) \in Addr /\ RowB(t) \in Addr
    BY <1>1, <1>2, RowsApart
  <1>4. /\ UNCHANGED <<mem, tx, buf, pc>>
        /\ tx[t] => rset'[t] = rset[t] \cup {RowB(t)}
        /\ \A u \in Thread \ {t} : Same(u)
    BY <1>1, <1>2, <1>3, Loaded DEF RowB
  <1>5. /\ next[t] = 2 /\ next' = [next EXCEPT ![t] = 3]
        /\ elemB' = [elemB EXCEPT ![t] = Load(t, RowB(t))]
    BY DEF LoadB, Advance, RowB
  <1>6. Load(t, RowB(t)) = mem[RowB(t)] /\ mem[RowB(t)] \in Value
    <2>1. CASE tx[t]
      <3>1. buf[t][RowB(t)] = None
        BY <1>1, <1>2, <1>3, <1>5, <2>1 DEF TxSwap, InBody
      <3> QED
        BY <1>1, <1>3, <3>1 DEF Load, SwapInv, Elements
    <2>2. CASE ~tx[t]
      <3>1. buf[t][RowB(t)] = None
        BY <1>1, <1>3, <2>2 DEF IInv, TxInv, NoBuf
      <3> QED
        BY <1>1, <1>3, <3>1 DEF Load, SwapInv, Elements
    <2> QED
      BY <2>1, <2>2
  <1>7. SwapTypes' /\ \A u \in Thread \ {t} : SwapSame(u)
    BY <1>1, <1>5, <1>6 DEF SwapTypes, SwapSame
  <1>8. /\ next'[t] = 3 /\ elemB'[t] = mem[RowB(t)] /\ temp'[t] = temp[t]
        /\ RowA(t)' = RowA(t) /\ RowB(t)' = RowB(t) /\ rows'[t] = rows[t]
    BY <1>1, <1>5, <1>6 DEF RowA, RowB, SwapTypes
  <1>9. SwapPlace(t)'
    BY <1>1, <1>2, <1>4, <1>5, <1>6, <1>8 DEF SwapPlace, InBody
  <1>10. TxSwap(t)'
    BY <1>1, <1>2, <1>4, <1>5, <1>8 DEF TxSwap, InBody
  <1>11. OwnSwap(t)'
    <2>1. Owns(t)' => Owns(t)
      BY <1>4 DEF Owns
    <2> QED
      BY <1>1, <1>2, <1>4, <1>5, <1>8, <2>1 DEF OwnSwap, InBody
  <1>12. \A r \in Addr : mem'[r] \in Value /\ buf'[t][r] \in Value \cup {None}
    BY <1>1, <1>4 DEF SwapInv, Elements
  <1> QED
    BY <1>4, <1>7, <1>9, <1>10, <1>11, <1>12, Suffices DEF SwapOthersKept

\* The element of row b is stored into row a.
LEMMA StoreAStep ==
  ASSUME SInv, NEW t \in Thread, StoreA(t) PROVE SwapInv' /\ SwapOthersKept(t)
  <1>1. IInv /\ SwapInv /\ SwapTypes /\ SwapPlace(t) /\ TxSwap(t) /\ OwnSwap(t) /\ UNCHANGED <<rows, temp, elemB>>
    BY DEF SInv, SwapInv, StoreA
  <1>2. pc[t] = "body" /\ next[t] = 3 /\ next' = [next EXCEPT ![t] = 4] /\ BodyStore(t, RowA(t), elemB[t])
    BY DEF StoreA, BodyStore, Advance, RowA
  <1>3. RowA(t) \in Addr /\ RowB(t) \in Addr /\ RowA(t) # RowB(t) /\ elemB[t] \in Value /\ temp[t] \in Value
    BY <1>1, <1>2, RowsApart DEF SwapPlace, InBody
  <1>4. /\ pc'[t] = "body" /\ (tx'[t] <=> tx[t])
        /\ tx[t] => /\ UNCHANGED mem /\ rset'[t] = rset[t]
                    /\ \A b \in Addr : buf'[t][b] = IF b = RowA(t) THEN elemB[t] ELSE buf[t][b]
        /\ ~tx[t] => /\ Owns(t) /\ buf'[t] = NoBuf
                     /\ \A b \in Addr : mem'[b] = IF b = RowA(t) THEN elemB[t] ELSE mem[b]
        /\ \A u \in Thread \ {t} : Same(u) \/ Aborted(u)
    BY <1>1, <1>2, <1>3, Stored
  <1>5. SwapTypes' /\ \A u \in Thread \ {t} : SwapSame(u)
    BY <1>1, <1>2 DEF SwapTypes, SwapSame
  <1>6. /\ next'[t] = 4 /\ elemB'[t] = elemB[t] /\ temp'[t] = temp[t]
        /\ RowA(t)' = RowA(t) /\ RowB(t)' = RowB(t) /\ rows'[t] = rows[t]
    BY <1>1, <1>2 DEF RowA, RowB, SwapTypes
  <1>7. SwapPlace(t)'
    BY <1>1, <1>2, <1>3, <1>4, <1>6 DEF SwapPlace, InBody
  <1>8. TxSwap(t)'
    <2> SUFFICES ASSUME tx[t] PROVE TxSwap(t)'
      BY <1>4 DEF TxSwap
    <2>1. /\ RowA(t) \in rset[t] /\ mem[RowA(t)] = temp[t] /\ RowB(t) \in rset[t] /\ mem[RowB(t)] = elemB[t]
          /\ \A r \in Addr : buf[t][r] = None
      BY <1>1, <1>2 DEF TxSwap, InBody
    <2>2. \A r \in Addr : buf'[t][r] = IF r = RowA(t) THEN elemB[t] ELSE None
      BY <1>4, <2>1
    <2> QED
      BY <1>4, <1>6, <2>1, <2>2 DEF TxSwap
  <1>9. OwnSwap(t)'
    <2> SUFFICES ASSUME ~tx[t] PROVE OwnSwap(t)'
      BY <1>4 DEF OwnSwap, Owns
    <2>1. mem[RowB(t)] = elemB[t] /\ mem'[RowA(t)] = elemB[t] /\ mem'[RowB(t)] = mem[RowB(t)]
      BY <1>1, <1>2, <1>3, <1>4 DEF OwnSwap, InBody
    <2> QED
      BY <1>6, <2>1 DEF OwnSwap
  <1>10. \A r \in Addr : mem'[r] \in Value /\ buf'[t][r] \in Value \cup {None}
    <2>1. \A r \in Addr : mem[r] \in Value /\ buf[t][r] \in Value \cup {None} /\ NoBuf[r] = None
      BY <1>1 DEF SwapInv, Elements, NoBuf
    <2> QED
      BY <1>3, <1>4, <2>1
  <1> QED
    BY <1>4, <1>5, <1>7, <1>8, <1>9, <1>10, Suffices DEF SwapOthersKept

\* The old element of row a is stored into row b.
LEMMA StoreBStep ==
  ASSUME SInv, NEW t \in Thread, StoreB(t) PROVE SwapInv' /\ SwapOthersKept(t)
  <1>1. IInv /\ SwapInv /\ SwapTypes /\ SwapPlace(t) /\ TxSwap(t) /\ UNCHANGED <<rows, temp, elemB>>
    BY DEF SInv, SwapInv, StoreB
  <1>2. pc[t] = "body" /\ next[t] = 4 /\ next' = [next EXCEPT ![t] = 5] /\ BodyStore(t, RowB(t), temp[t])
    BY DEF StoreB, BodyStore, Advance, RowB
  <1>3. RowA(t) \in Addr /\ RowB(t) \in Addr /\ RowA(t) # RowB(t) /\ elemB[t] \in Value /\ temp[t] \in Value
    BY <1>1, <1>2, RowsApart DEF SwapPlace, InBody
  <1>4. /\ pc'[t] = "body" /\ (tx'[t] <=> tx[t])
        /\ tx[t] => /\ UNCHANGED mem /\ rset'[t] = rset[t]
                    /\ \A b \in Addr : buf'[t][b] = IF b = RowB(t) THEN temp[t] ELSE buf[t][b]
        /\ ~tx[t] => /\ Owns(t) /\ buf'[t] = NoBuf
                     /\ \A b \in Addr : mem'[b] = IF b = RowB(t) THEN temp[t] ELSE mem[b]
        /\ \A u \in Thread \ {t} : Same(u) \/ Aborted(u)
    BY <1>1, <1>2, <1>3, Stored
  <1>5. SwapTypes' /\ \A u \in Thread \ {t} : SwapSame(u)
    BY <1>1, <1>2 DEF SwapTypes, SwapSame
  <1>6. /\ next'[t] = 5 /\ elemB'[t] = elemB[t] /\ temp'[t] = temp[t]
        /\ RowA(t)' = RowA(t) /\ RowB(t)' = RowB(t) /\ rows'[t] = rows[t]
    BY <1>1, <1>2 DEF RowA, RowB, SwapTypes
  <1>7. SwapPlace(t)'
    BY <1>1, <1>2, <1>3, <1>4, <1>6 DEF SwapPlace, InBody
  <1>8. TxSwap(t)'
    <2> SUFFICES ASSUME tx[t] PROVE TxSwap(t)'
      BY <1>4 DEF TxSwap
    <2>1. /\ RowA(t) \in rset[t] /\ mem[RowA(t)] = temp[t] /\ RowB(t) \in rset[t] /\ mem[RowB(t)] = elemB[t]
          /\ \A r \in Addr : buf[t][r] = IF r = RowA(t) THEN elemB[t] ELSE None
      BY <1>1, <1>2 DEF TxSwap, InBody
    <2>2. \A r \in Addr : buf'[t][r] = IF r = RowA(t) THEN elemB[t] ELSE IF r = RowB(t) THEN temp[t] ELSE None
      BY <1>3, <1>4, <2>1
    <2> QED
      BY <1>4, <1>6, <2>1, <2>2 DEF TxSwap
  <1>9. OwnSwap(t)'
    BY <1>6 DEF OwnSwap
  <1>10. \A r \in Addr : mem'[r] \in Value /\ buf'[t][r] \in Value \cup {None}
    <2>1. \A r \in Addr : mem[r] \in Value /\ buf[t][r] \in Value \cup {None} /\ NoBuf[r] = None
      BY <1>1 DEF SwapInv, Elements, NoBuf
    <2> QED
      BY <1>3, <1>4, <2>1
  <1> QED
    BY <1>4, <1>5, <1>7, <1>8, <1>9, <1>10, Suffices DEF SwapOthersKept

\* The section is over, and TM_END looks at the lock word.
LEMMA QuietStep ==
  ASSUME SInv, NEW t \in Thread, SLeave(t) \/ (EndTest(t) /\ UNCHANGED swapVars)
  PROVE  SwapInv' /\ SwapOthersKept(t)
  <1>1. IInv /\ SwapInv /\ SwapTypes /\ SwapPlace(t) /\ TxSwap(t) /\ OwnSwap(t) /\ UNCHANGED <<rows, next, temp, elemB>>
    BY DEF SInv, SwapInv, SLeave, swapVars
  <1>2. /\ UNCHANGED <<mem, tx, buf>> /\ pc[t] \in {"body", "end"}
        /\ pc'[t] \in {"end", "unlock", "xend"}
        /\ next[t] = 5
        /\ tx[t] => rset[t] \subseteq rset'[t]
        /\ \A u \in Thread \ {t} : Same(u)
    <2>1. CASE SLeave(t)
      BY <1>1, <2>1 DEF SLeave, BodyDone, Goto, memVars, IInv, TypeOK, Same
    <2>2. CASE EndTest(t)
      BY <1>1, <2>2 DEF EndTest, Goto, Track, IInv, TypeOK, Same, SwapPlace
    <2> QED
      BY <2>1, <2>2
  <1>3. SwapTypes' /\ \A u \in Thread : SwapSame(u)
    BY <1>1 DEF SwapTypes, SwapSame
  <1>4. RowA(t)' = RowA(t) /\ RowB(t)' = RowB(t)
    BY <1>1 DEF RowA, RowB
  <1>5. SwapPlace(t)'
    BY <1>1, <1>2 DEF SwapPlace, InBody
  <1>6. TxSwap(t)'
    BY <1>1, <1>2, <1>4 DEF TxSwap, InBody
  <1>7. OwnSwap(t)'
    BY <1>1, <1>2 DEF OwnSwap
  <1>8. \A r \in Addr : mem'[r] \in Value /\ buf'[t][r] \in Value \cup {None}
    BY <1>1, <1>2 DEF SwapInv, Elements
  <1> QED
    BY <1>2, <1>3, <1>5, <1>6, <1>7, <1>8, Suffices DEF SwapOthersKept

\* TM_END is over and swap returns.
LEMMA SwapFinishStep ==
  ASSUME SInv, NEW t \in Thread, Unlock(t) \/ Xend(t), SEnd(t) PROVE SwapInv' /\ SwapOthersKept(t)
  <1>1. IInv /\ SwapInv /\ SwapTypes /\ SwapPlace(t) /\ TxSwap(t) /\ UNCHANGED rows /\ pc[t] # "idle"
    BY DEF SInv, SwapInv, SEnd, Unlock, Xend
  <1>2. pc'[t] = "idle" /\ ~tx'[t] /\ \A u \in Thread \ {t} : Same(u) \/ Aborted(u)
    BY <1>1, FinishPlace, FinishOthers
  <1>3. next' = [next EXCEPT ![t] = 1] /\ temp' = [temp EXCEPT ![t] = None] /\ elemB' = [elemB EXCEPT ![t] = None]
    BY <1>2 DEF SEnd
  <1>4. SwapTypes' /\ next'[t] = 1 /\ \A u \in Thread \ {t} : SwapSame(u)
    BY <1>1, <1>3 DEF SwapTypes, SwapSame
  <1>5. SwapPlace(t)' /\ TxSwap(t)' /\ OwnSwap(t)'
    BY <1>1, <1>2, <1>4 DEF SwapPlace, TxSwap, OwnSwap, InBody
  <1>6. \A r \in Addr : buf'[t][r] = None
    <2>1. IInv'
      BY <1>1, NextIInv DEF Next, End
    <2> QED
      BY <1>2, <2>1 DEF IInv, TxInv, NoBuf
  <1>7. \A r \in Addr : mem'[r] \in Value
    <2>1. CASE Unlock(t)
      <3>1. mem' = [mem EXCEPT ![Lock] = 0]
        BY <1>1, <2>1 DEF Unlock, Store, IInv, TxInv
      <3> QED
        BY <1>1, <3>1, AddrAssumption DEF IInv, TypeOK, SwapInv, Elements
    <2>2. CASE Xend(t)
      BY <1>1, <2>2 DEF Xend, Load, SwapInv, Elements
    <2> QED
      BY <2>1, <2>2
  <1> QED
    BY <1>2, <1>4, <1>5, <1>6, <1>7, Suffices DEF SwapOthersKept

\* TM_END goes on.
LEMMA SEndStep ==
  ASSUME SInv, NEW t \in Thread, SEnd(t) PROVE SwapInv' /\ SwapOthersKept(t)
  <1>1. CASE EndTest(t)
    <2>1. pc'[t] # "idle"
      BY <1>1 DEF EndTest, Goto, SInv, IInv, TypeOK
    <2> QED
      BY <1>1, <2>1, QuietStep DEF SEnd, swapVars
  <1>2. CASE Unlock(t) \/ Xend(t)
    BY <1>2, SwapFinishStep
  <1> QED
    BY <1>1, <1>2 DEF SEnd, End

\* A transaction is aborted; what it had loaded and buffered is lost.
LEMMA SAbortStep ==
  ASSUME SInv, NEW t \in Thread, HardwareAbort(t), UNCHANGED swapVars PROVE SwapInv' /\ SwapOthersKept(t)
  <1>1. IInv /\ SwapInv /\ SwapTypes /\ tx[t] /\ UNCHANGED <<rows, next, temp, elemB>>
    BY DEF SInv, SwapInv, HardwareAbort, swapVars
  <1>2. PICK s : Abort(t, s)
    BY DEF HardwareAbort
  <1>3. SwapTypes' /\ \A u \in Thread : SwapSame(u)
    BY <1>1 DEF SwapTypes, SwapSame
  <1>4. (\A u \in Thread \ {t} : Same(u)) /\ Aborted(t) /\ UNCHANGED mem
    BY <1>1, <1>2 DEF Same, Aborted, Abort, Goto, IInv, TypeOK
  <1>5. SwapPlace(t)' /\ TxSwap(t)' /\ OwnSwap(t)' /\ \A r \in Addr : buf'[t][r] \in Value \cup {None}
    BY <1>1, <1>3, <1>4, SwapFrame
  <1>6. \A r \in Addr : mem'[r] \in Value
    BY <1>1, <1>4 DEF SwapInv, Elements
  <1> QED
    BY <1>3, <1>4, <1>5, <1>6, Suffices DEF SwapOthersKept

\* The first swap of each thread is still to come.
LEMMA SwapBegins == SInit => SInv
  <1> SUFFICES ASSUME SInit PROVE SInv
    OBVIOUS
  <1>1. Init /\ IInv
    BY InitIInv DEF SInit
  <1>2. /\ rows = [t \in Thread |-> <<>>] /\ next = [t \in Thread |-> 1]
        /\ temp = [t \in Thread |-> None] /\ elemB = [t \in Thread |-> None]
    BY DEF SInit
  <1>3. SwapTypes
    BY <1>2 DEF SwapTypes
  <1>4. \A t \in Thread : rows[t] = <<>> /\ next[t] = 1 /\ pc[t] = "idle" /\ noConflict[t] = FALSE
    BY <1>1, <1>2 DEF Init
  <1>5. \A t \in Thread : SwapPlace(t) /\ TxSwap(t) /\ OwnSwap(t)
    BY <1>4 DEF SwapPlace, TxSwap, OwnSwap, InBody
  <1>6. Elements
    BY <1>1, ValueAssumption, AddrAssumption DEF Init, Elements, NoBuf
  <1> QED
    BY <1>1, <1>3, <1>4, <1>5, <1>6 DEF SInv, SwapInv, Waits

\* Every step of the swaps keeps the invariant.
LEMMA SwapNext == SInv /\ [SNext]_sVars => SInv'
  <1> SUFFICES ASSUME SInv, [SNext]_sVars PROVE SInv'
    OBVIOUS
  <1>1. IInv'
    BY SwapStepOfTm, NextIInv DEF SInv
  <1>2. ASSUME UNCHANGED sVars PROVE SwapInv' /\ Waits'
    <2>1. UNCHANGED <<mem, tx, rset, buf, pc, noConflict, rows, next, temp, elemB>>
      BY <1>2 DEF sVars, vars, memVars, swapVars, locals
    <2> QED
      BY <2>1 DEF SInv, SwapInv, SwapTypes, Elements, SwapPlace, TxSwap, OwnSwap, Owns, RowA, RowB, Waits
  <1>3. ASSUME Terminating /\ UNCHANGED swapVars PROVE SwapInv' /\ Waits'
    BY <1>2, <1>3 DEF Terminating, sVars
  <1>4. ASSUME NEW t \in Thread, SStep(t) PROVE SwapInv'
    BY <1>4, SBeginStep, LoadAStep, LoadBStep, StoreAStep, StoreBStep, QuietStep, SEndStep DEF SStep, SBody
  <1>5. ASSUME NEW t \in Thread, Swap(t) PROVE SwapInv'
    BY <1>5, SwapStep
  <1>6. ASSUME NEW t \in Thread, HardwareAbort(t), UNCHANGED swapVars PROVE SwapInv'
    BY <1>6, SAbortStep
  <1>7. ASSUME NEW t \in Thread, SStep(t) \/ HardwareAbort(t) PROVE UNCHANGED noConflict
    BY <1>7 DEF SStep, SBegin, Begin, Xbegin, Subscribe, GiveUp, Retry, Spin, Exchange, CountLoad, CountStore,
       SBody, LoadA, LoadB, StoreA, StoreB, SLeave, BodyLoad, BodyStore, BodyDone, SEnd, End, EndTest, Unlock, Xend,
       HardwareAbort, locals
  <1>8. ASSUME NEW t \in Thread, Swap(t) PROVE Waits'
    BY <1>8 DEF Swap, Enter, SInv, Waits, IInv, TypeOK
  <1>9. SwapInv'
    BY <1>2, <1>3, <1>4, <1>5, <1>6 DEF SNext
  <1>10. Waits'
    BY <1>2, <1>3, <1>7, <1>8 DEF SNext, SInv, Waits
  <1> QED
    BY <1>1, <1>9, <1>10 DEF SInv

-----------------------------------------------------------------------------
(* The swaps are atomic.                                                   *)

\* What arrayBar is: the rows, with the half of an exchange that is in them undone.
SwapBarFacts ==
  /\ arrayBar = [r \in Addr |-> arrayBar[r]]
  /\ (\A t \in Thread : ~Halfway(t)) => \A r \in Addr : arrayBar[r] = mem[r]
  /\ \A t \in Thread : Halfway(t) =>
       \A r \in Addr : arrayBar[r] = IF r = RowA(t) THEN temp[t] ELSE mem[r]

\* At most one swap is half done.
LEMMA SwapBars == SInv => SwapBarFacts
  <1> SUFFICES ASSUME SInv PROVE SwapBarFacts
    OBVIOUS
  <1>1. arrayBar = [r \in Addr |-> arrayBar[r]]
    BY DEF arrayBar
  <1>2. (\A t \in Thread : ~Halfway(t)) => \A r \in Addr : arrayBar[r] = mem[r]
    BY DEF arrayBar
  <1>3. ASSUME NEW t \in Thread, Halfway(t)
        PROVE  \A r \in Addr : arrayBar[r] = IF r = RowA(t) THEN temp[t] ELSE mem[r]
    <2>1. \A u \in Thread : Halfway(u) => u = t
      BY <1>3 DEF Halfway, SInv, IInv, LockInv
    <2>2. ASSUME NEW r \in Addr PROVE arrayBar[r] = IF r = RowA(t) THEN temp[t] ELSE mem[r]
      <3>1. CASE r = RowA(t)
        <4>1. (CHOOSE u \in Thread : Halfway(u) /\ rows[u][1] = r) = t
          BY <1>3, <2>1, <3>1 DEF RowA
        <4> QED
          BY <1>3, <3>1, <4>1 DEF arrayBar, RowA
      <3>2. CASE r # RowA(t)
        BY <2>1, <3>2 DEF arrayBar, RowA
      <3> QED
        BY <3>1, <3>2
    <2> QED
      BY <2>2
  <1> QED
    BY <1>1, <1>2, <1>3 DEF SwapBarFacts

\* The same of the next state.
LEMMA SwapBarsNext == SInv' => SwapBarFacts'
  BY SwapBars, PTL

\* The swaps of the other threads are half done or not as before.
LEMMA SwapOthersBar ==
  ASSUME SInv, NEW t \in Thread, SwapOthersKept(t), NEW u \in Thread \ {t}
  PROVE  (Halfway(u)' <=> Halfway(u)) /\ RowA(u)' = RowA(u) /\ temp'[u] = temp[u]
  BY DEF SwapOthersKept, SwapSame, Same, Aborted, Halfway, Owns, RowA

\* A step that neither begins nor ends the half of an exchange, nor changes the rows.
LEMMA SwapBarKept ==
  ASSUME SInv, SInv', \A u \in Thread : Halfway(u)' <=> Halfway(u),
         \A u \in Thread : Halfway(u) => RowA(u)' = RowA(u) /\ temp'[u] = temp[u],
         \A r \in Addr : mem'[r] = mem[r]
  PROVE  arrayBar' = arrayBar
  <1>1. SwapBarFacts /\ SwapBarFacts'
    BY SwapBars, SwapBarsNext
  <1>2. \A r \in Addr : arrayBar'[r] = arrayBar[r]
    <2>1. CASE \A u \in Thread : ~Halfway(u)
      BY <1>1, <2>1 DEF SwapBarFacts
    <2>2. ASSUME NEW t \in Thread, Halfway(t) PROVE \A r \in Addr : arrayBar'[r] = arrayBar[r]
      BY <1>1, <2>2 DEF SwapBarFacts
    <2> QED
      BY <2>1, <2>2
  <1>3. arrayBar = [r \in Addr |-> arrayBar[r]] /\ arrayBar' = [r \in Addr |-> arrayBar'[r]]
    BY <1>1 DEF SwapBarFacts
  <1> QED
    BY <1>2, <1>3

\* A step of t that is not half done before or after it.
LEMMA SwapUnseen ==
  ASSUME SInv, SInv', NEW t \in Thread, SwapOthersKept(t), ~Halfway(t), ~Halfway(t)', \A r \in Addr : mem'[r] = mem[r]
  PROVE  arrayBar' = arrayBar
  <1>1. \A u \in Thread : (Halfway(u)' <=> Halfway(u)) /\ (Halfway(u) => RowA(u)' = RowA(u) /\ temp'[u] = temp[u])
    BY SwapOthersBar
  <1> QED
    BY <1>1, SwapBarKept

Exchanged(a, b) == arrayBar' = [arrayBar EXCEPT ![a] = arrayBar[b], ![b] = arrayBar[a]]

\* An exchange, seen row by row.
LEMMA ExchangedBy ==
  ASSUME SInv, SInv', NEW a \in Addr, NEW b \in Addr, a # b,
         \A r \in Addr : arrayBar'[r] = IF r = a THEN arrayBar[b] ELSE IF r = b THEN arrayBar[a] ELSE arrayBar[r]
  PROVE  Exchanged(a, b)
  <1>1. arrayBar = [r \in Addr |-> arrayBar[r]] /\ arrayBar' = [r \in Addr |-> arrayBar'[r]]
    BY SwapBars, SwapBarsNext DEF SwapBarFacts
  <1> DEFINE g == [arrayBar EXCEPT ![a] = arrayBar[b], ![b] = arrayBar[a]]
  <1>2. DOMAIN arrayBar = Addr
    BY <1>1
  <1>3. g = [r \in Addr |-> g[r]]
    BY <1>2
  <1>4. \A r \in Addr : g[r] = IF r = a THEN arrayBar[b] ELSE IF r = b THEN arrayBar[a] ELSE arrayBar[r]
    BY <1>2
  <1> HIDE DEF g
  <1>5. arrayBar' = g
    BY <1>1, <1>3, <1>4
  <1> QED
    BY <1>5 DEF Exchanged, g

\* The store of row a under the lock shows nothing: it is undone in arrayBar.
LEMMA StoreAUnseen ==
  ASSUME SInv, SInv', NEW t \in Thread, StoreA(t) PROVE arrayBar' = arrayBar
  <1>1. SwapOthersKept(t) /\ IInv /\ SwapInv /\ SwapTypes /\ SwapPlace(t) /\ OwnSwap(t) /\ UNCHANGED <<rows, temp, elemB>>
    BY StoreAStep DEF SInv, SwapInv, StoreA
  <1>2. pc[t] = "body" /\ next[t] = 3 /\ next' = [next EXCEPT ![t] = 4] /\ BodyStore(t, RowA(t), elemB[t])
    BY DEF StoreA, BodyStore, Advance, RowA
  <1>3. RowA(t) \in Addr /\ elemB[t] \in Value /\ next'[t] = 4
    BY <1>1, <1>2, RowsApart DEF SwapPlace, InBody, SwapTypes
  <1>4. /\ pc'[t] = "body" /\ (tx'[t] <=> tx[t])
        /\ tx[t] => UNCHANGED mem
        /\ ~tx[t] => Owns(t) /\ \A b \in Addr : mem'[b] = IF b = RowA(t) THEN elemB[t] ELSE mem[b]
    BY <1>1, <1>2, <1>3, Stored
  <1>5. CASE tx[t]
    BY <1>1, <1>4, <1>5, SwapUnseen DEF Halfway, Owns
  <1>6. CASE ~tx[t]
    <2>1. Halfway(t)' /\ RowA(t)' = RowA(t) /\ temp'[t] = temp[t]
      BY <1>1, <1>3, <1>4, <1>6 DEF Halfway, Owns, RowA
    <2>2. \A u \in Thread : ~Halfway(u)
      BY <1>1, <1>2, <1>4, <1>6 DEF Halfway, IInv, LockInv
    <2>3. mem[RowA(t)] = temp[t]
      BY <1>1, <1>2, <1>4, <1>6 DEF OwnSwap, InBody
    <2>4. \A r \in Addr : arrayBar[r] = mem[r] /\ arrayBar'[r] = IF r = RowA(t) THEN temp[t] ELSE mem'[r]
      BY <2>1, <2>2, SwapBars, SwapBarsNext DEF SwapBarFacts
    <2>5. \A r \in Addr : arrayBar'[r] = arrayBar[r]
      BY <1>4, <1>6, <2>3, <2>4
    <2>6. arrayBar = [r \in Addr |-> arrayBar[r]] /\ arrayBar' = [r \in Addr |-> arrayBar'[r]]
      BY SwapBars, SwapBarsNext DEF SwapBarFacts
    <2> QED
      BY <2>5, <2>6
  <1> QED
    BY <1>5, <1>6

\* The store of row b under the lock completes the exchange; in a transaction it
\* shows nothing.
LEMMA StoreBExchanges ==
  ASSUME SInv, SInv', NEW t \in Thread, StoreB(t)
  PROVE  IF tx[t] THEN arrayBar' = arrayBar ELSE Exchanged(RowA(t), RowB(t))
  <1>1. SwapOthersKept(t) /\ IInv /\ SwapInv /\ SwapTypes /\ SwapPlace(t) /\ OwnSwap(t) /\ UNCHANGED <<rows, temp, elemB>>
    BY StoreBStep DEF SInv, SwapInv, StoreB
  <1>2. pc[t] = "body" /\ next[t] = 4 /\ next' = [next EXCEPT ![t] = 5] /\ BodyStore(t, RowB(t), temp[t])
    BY DEF StoreB, BodyStore, Advance, RowB
  <1>3. /\ RowA(t) \in Addr /\ RowB(t) \in Addr /\ RowA(t) # RowB(t) /\ rows[t] # <<>>
        /\ temp[t] \in Value /\ next'[t] = 5
    BY <1>1, <1>2, RowsApart DEF SwapPlace, InBody, SwapTypes
  <1>4. /\ pc'[t] = "body" /\ (tx'[t] <=> tx[t])
        /\ tx[t] => UNCHANGED mem
        /\ ~tx[t] => Owns(t) /\ \A b \in Addr : mem'[b] = IF b = RowB(t) THEN temp[t] ELSE mem[b]
    BY <1>1, <1>2, <1>3, Stored
  <1>5. CASE tx[t]
    BY <1>1, <1>4, <1>5, SwapUnseen DEF Halfway, Owns
  <1>6. CASE ~tx[t]
    <2>1. Halfway(t) /\ ~Halfway(t)'
      BY <1>2, <1>3, <1>4, <1>6 DEF Halfway
    <2>2. \A u \in Thread \ {t} : ~Halfway(u)
      BY <1>1, <2>1 DEF Halfway, IInv, LockInv
    <2>3. \A u \in Thread : ~Halfway(u)'
      BY <1>1, <2>1, <2>2, SwapOthersBar
    <2>4. mem[RowA(t)] = elemB[t] /\ mem[RowB(t)] = elemB[t]
      BY <1>1, <1>2, <1>4, <1>6 DEF OwnSwap, InBody
    <2>5. \A r \in Addr : arrayBar'[r] = mem'[r] /\ arrayBar[r] = IF r = RowA(t) THEN temp[t] ELSE mem[r]
      BY <2>1, <2>3, SwapBars, SwapBarsNext DEF SwapBarFacts
    <2>6. Exchanged(RowA(t), RowB(t))
      BY <1>3, <1>4, <1>6, <2>4, <2>5, ExchangedBy
    <2> QED
      BY <1>6, <2>6
  <1> QED
    BY <1>5, <1>6

\* A commit exchanges the two rows; unlocking shows nothing.
LEMMA FinishExchanges ==
  ASSUME SInv, SInv', NEW t \in Thread, SEnd(t), Unlock(t) \/ Xend(t)
  PROVE  (Unlock(t) => arrayBar' = arrayBar) /\ (Xend(t) => Exchanged(RowA(t), RowB(t)))
  <1>1. SwapOthersKept(t) /\ IInv /\ SwapInv /\ SwapPlace(t) /\ TxSwap(t) /\ pc[t] \in {"unlock", "xend"}
    BY SwapFinishStep DEF SInv, SwapInv, Unlock, Xend
  <1>2. pc'[t] = "idle" /\ ~Halfway(t) /\ ~Halfway(t)'
    BY <1>1, FinishPlace DEF Halfway
  <1>3. CASE Unlock(t)
    <2>1. mem' = [mem EXCEPT ![Lock] = 0]
      BY <1>1, <1>3 DEF Unlock, Store, IInv, TxInv
    <2>2. \A r \in Addr : mem'[r] = mem[r]
      BY <1>1, <2>1, AddrAssumption DEF IInv, TypeOK
    <2>3. arrayBar' = arrayBar
      BY <1>1, <1>2, <2>2, SwapUnseen
    <2> QED
      BY <1>3, <2>3 DEF Unlock, Xend
  <1>4. CASE Xend(t)
    <2>1. pc[t] = "xend" /\ tx[t]
      BY <1>1, <1>4 DEF Xend, IInv, TxInv
    <2>2. next[t] = 5 /\ RowA(t) \in Addr /\ RowB(t) \in Addr /\ RowA(t) # RowB(t) /\ rows[t] # <<>>
      BY <1>1, <2>1, RowsApart DEF SwapPlace
    <2>3. \A u \in Thread : ~Halfway(u)
      BY <1>1, <2>1 DEF Halfway, IInv, Subscribed, LockInv
    <2>4. \A u \in Thread : ~Halfway(u)'
      BY <1>1, <1>2, <2>3, SwapOthersBar
    <2>5. \A r \in Addr : arrayBar[r] = mem[r] /\ arrayBar'[r] = mem'[r]
      BY <2>3, <2>4, SwapBars, SwapBarsNext DEF SwapBarFacts
    <2>6. /\ mem[RowA(t)] = temp[t] /\ mem[RowB(t)] = elemB[t]
          /\ \A r \in Addr : buf[t][r] = IF r = RowA(t) THEN elemB[t] ELSE IF r = RowB(t) THEN temp[t] ELSE None
      BY <1>1, <2>1, <2>2 DEF TxSwap, InBody
    <2>7. temp[t] # None /\ elemB[t] # None
      BY <1>1, <2>1, <2>2, ValueAssumption DEF SwapPlace, InBody
    <2>8. \A r \in Addr : mem'[r] = IF buf[t][r] # None THEN buf[t][r] ELSE mem[r]
      BY <1>4 DEF Xend, Load
    <2>9. Exchanged(RowA(t), RowB(t))
      BY <2>2, <2>5, <2>6, <2>7, <2>8, ExchangedBy
    <2> QED
      BY <1>4, <2>9 DEF Xend, Unlock
  <1> QED
    BY <1>3, <1>4 DEF Xend, Unlock

\* The other steps show nothing.
LEMMA OthersUnseen ==
  ASSUME SInv, SInv', NEW t \in Thread,
         \/ Swap(t) \/ SBegin(t) \/ LoadA(t) \/ LoadB(t) \/ SLeave(t)
         \/ (EndTest(t) /\ UNCHANGED swapVars) \/ (HardwareAbort(t) /\ UNCHANGED swapVars)
  PROVE  arrayBar' = arrayBar
  <1>1. SwapOthersKept(t) /\ IInv /\ SwapInv /\ SwapTypes /\ SwapPlace(t)
    BY SwapStep, SBeginStep, LoadAStep, LoadBStep, QuietStep, SAbortStep DEF SInv, SwapInv
  <1>2. CASE Swap(t)
    <2>1. pc[t] = "idle" /\ pc'[t] = "xbegin" /\ UNCHANGED mem
      BY <1>1, <1>2 DEF Swap, Enter, Goto, memVars, IInv, TypeOK
    <2> QED
      BY <1>1, <2>1, SwapUnseen DEF Halfway
  <1>3. CASE SBegin(t)
    <2>1. Begin(t) /\ next'[t] = IF pc'[t] = "body" THEN 1 ELSE next[t]
      BY <1>1, <1>3 DEF SBegin, SwapTypes
    <2>2. pc[t] # "body" /\ \A r \in Addr : mem'[r] = mem[r]
      BY <1>1, <2>1, BeginPlace DEF InBody
    <2> QED
      BY <1>1, <2>1, <2>2, SwapUnseen DEF Halfway
  <1>4. CASE LoadA(t) \/ LoadB(t)
    <2>1. UNCHANGED mem /\ next[t] \in 1 .. 2 /\ next'[t] \in 2 .. 3
      BY <1>1, <1>4 DEF LoadA, LoadB, BodyLoad, Advance, SwapTypes
    <2> QED
      BY <1>1, <2>1, SwapUnseen DEF Halfway
  <1>5. CASE SLeave(t)
    <2>1. UNCHANGED mem /\ next[t] = 5 /\ next'[t] = 5
      BY <1>5 DEF SLeave, BodyDone, memVars, swapVars
    <2> QED
      BY <1>1, <2>1, SwapUnseen DEF Halfway
  <1>6. CASE EndTest(t) /\ UNCHANGED swapVars
    <2>1. UNCHANGED mem /\ pc[t] = "end" /\ pc'[t] # "body"
      BY <1>1, <1>6 DEF EndTest, Goto, IInv, TypeOK
    <2> QED
      BY <1>1, <2>1, SwapUnseen DEF Halfway
  <1>7. CASE HardwareAbort(t) /\ UNCHANGED swapVars
    <2>1. UNCHANGED mem /\ tx[t] /\ pc'[t] = "aborted"
      BY <1>1, <1>7 DEF HardwareAbort, Abort, Goto, IInv, TypeOK
    <2> QED
      BY <1>1, <2>1, SwapUnseen DEF Halfway, Owns
  <1> QED
    BY <1>2, <1>3, <1>4, <1>5, <1>6, <1>7

\* Whether a swap is called for and has not been made is a matter of its own thread.
LEMMA OthersState ==
  ASSUME SInv, NEW t \in Thread, SwapOthersKept(t)
  PROVE  \A u \in Thread \ {t} : stateBar'[u] = stateBar[u]
  <1> SUFFICES ASSUME NEW u \in Thread \ {t} PROVE stateBar'[u] = stateBar[u]
    OBVIOUS
  <1>1. next'[u] = next[u] /\ (Same(u) \/ Aborted(u))
    BY DEF SwapOthersKept, SwapSame
  <1>2. tx[u] => pc[u] # "idle"
    BY DEF SInv, IInv, TxInv
  <1>3. CASE Same(u)
    BY <1>1, <1>3 DEF Same, stateBar, Settled, Owns
  <1>4. CASE Aborted(u)
    BY <1>2, <1>4 DEF Aborted, stateBar, Settled, Owns
  <1> QED
    BY <1>1, <1>3, <1>4

LEMMA StateChange ==
  ASSUME SInv, NEW t \in Thread, SwapOthersKept(t), NEW s, stateBar'[t] = s
  PROVE  stateBar' = [stateBar EXCEPT ![t] = s]
  <1>1. DOMAIN stateBar = Thread /\ DOMAIN stateBar' = Thread
    BY DEF stateBar
  <1>2. stateBar = [u \in Thread |-> stateBar[u]] /\ stateBar' = [u \in Thread |-> stateBar'[u]]
    BY DEF stateBar
  <1>3. \A u \in Thread : stateBar'[u] = IF u = t THEN s ELSE stateBar[u]
    BY OthersState
  <1> HIDE DEF stateBar
  <1> QED
    BY <1>1, <1>2, <1>3

LEMMA StateKept ==
  ASSUME SInv, NEW t \in Thread, SwapOthersKept(t), stateBar'[t] = stateBar[t]
  PROVE  stateBar' = stateBar
  <1>1. stateBar = [u \in Thread |-> stateBar[u]] /\ stateBar' = [u \in Thread |-> stateBar'[u]]
    BY DEF stateBar
  <1>2. \A u \in Thread : stateBar'[u] = stateBar[u]
    BY OthersState
  <1> HIDE DEF stateBar
  <1> QED
    BY <1>1, <1>2

\* A swap is called for once.
LEMMA CallPending ==
  ASSUME SInv, NEW t \in Thread, Swap(t)
  PROVE  stateBar[t] = "idle" /\ stateBar'[t] = "pending"
  <1>1. pc[t] = "idle" /\ pc'[t] = "xbegin"
    BY DEF Swap, Enter, Goto, SInv, IInv, TypeOK
  <1> QED
    BY <1>1 DEF stateBar, Settled

\* It stays so while the section is entered, begun again, or has not stored both rows.
LEMMA StillPending ==
  ASSUME SInv, SInv', NEW t \in Thread,
         SBegin(t) \/ LoadA(t) \/ LoadB(t) \/ StoreA(t) \/ (HardwareAbort(t) /\ UNCHANGED swapVars)
  PROVE  stateBar[t] = "pending" /\ stateBar'[t] = "pending"
  <1>1. IInv /\ SwapInv /\ SwapTypes /\ SwapPlace(t) /\ TxInv
    BY DEF SInv, SwapInv, IInv
  <1>2. CASE SBegin(t)
    <2>1. Begin(t) /\ next'[t] = IF pc'[t] = "body" THEN 1 ELSE next[t]
      BY <1>1, <1>2 DEF SBegin, SwapTypes
    <2>2. /\ pc[t] \notin {"idle"} \cup InBody
          /\ pc'[t] \in {"subscribe", "body", "aborted", "xbegin", "spin", "exchange", "count", "countStore"}
      BY <1>1, <2>1, BeginPlace DEF SInv, Waits
    <2> QED
      BY <2>1, <2>2 DEF stateBar, Settled, InBody
  <1>3. CASE LoadA(t) \/ LoadB(t) \/ StoreA(t)
    <2>1. pc[t] = "body" /\ next[t] \in 1 .. 3 /\ next' = [next EXCEPT ![t] = next[t] + 1]
      BY <1>3 DEF LoadA, LoadB, StoreA, Advance, BodyLoad, BodyStore
    <2>2. next[t] # 5 /\ next'[t] # 5
      BY <1>1, <2>1 DEF SwapTypes
    <2>3. pc'[t] = "body"
      <3>1. CASE LoadA(t) \/ LoadB(t)
        BY <2>1, <3>1 DEF LoadA, LoadB, BodyLoad
      <3>2. CASE StoreA(t)
        <4>1. RowA(t) \in Addr /\ elemB[t] \in Value /\ BodyStore(t, RowA(t), elemB[t])
          BY <1>1, <2>1, <3>2, RowsApart DEF StoreA, Advance, RowA, SwapPlace, InBody
        <4> QED
          BY <1>1, <4>1, Stored
      <3> QED
        BY <1>3, <3>1, <3>2
    <2> QED
      BY <2>1, <2>2, <2>3 DEF stateBar, Settled
  <1>4. CASE HardwareAbort(t) /\ UNCHANGED swapVars
    <2>1. tx[t] /\ pc[t] # "idle" /\ pc'[t] = "aborted"
      BY <1>1, <1>4 DEF HardwareAbort, Abort, Goto, TxInv, IInv, TypeOK
    <2> QED
      BY <2>1 DEF stateBar, Settled, Owns
  <1> QED
    BY <1>2, <1>3, <1>4

\* The second store makes the swap, under the lock; in a transaction it does not.
LEMMA StoreBSettles ==
  ASSUME SInv, SInv', NEW t \in Thread, StoreB(t)
  PROVE  stateBar[t] = "pending" /\ stateBar'[t] = IF tx[t] THEN "pending" ELSE "idle"
  <1>1. IInv /\ SwapInv /\ SwapTypes /\ SwapPlace(t)
    BY DEF SInv, SwapInv
  <1>2. pc[t] = "body" /\ next[t] = 4 /\ next' = [next EXCEPT ![t] = 5] /\ BodyStore(t, RowB(t), temp[t])
    BY DEF StoreB, BodyStore, Advance, RowB
  <1>3. RowB(t) \in Addr /\ temp[t] \in Value /\ next'[t] = 5
    BY <1>1, <1>2, RowsApart DEF SwapPlace, InBody, SwapTypes
  <1>4. pc'[t] = "body" /\ (tx'[t] <=> tx[t])
    BY <1>1, <1>2, <1>3, Stored
  <1> QED
    BY <1>2, <1>3, <1>4 DEF stateBar, Settled, Owns

\* Leaving the section does not tell.
LEMMA LeaveKeeps ==
  ASSUME SInv, SInv', NEW t \in Thread, SLeave(t) \/ (EndTest(t) /\ UNCHANGED swapVars)
  PROVE  stateBar'[t] = stateBar[t]
  <1>1. IInv /\ IInv' /\ SwapInv /\ SwapTypes /\ SwapPlace(t)
    BY DEF SInv, SwapInv
  <1>2. /\ tx' = tx /\ next' = next /\ next[t] = 5 /\ pc[t] \in {"body", "end"}
        /\ pc'[t] \in {"end", "unlock", "xend"}
    <2>1. CASE SLeave(t)
      BY <1>1, <2>1 DEF SLeave, BodyDone, Goto, memVars, swapVars, IInv, TypeOK
    <2>2. CASE EndTest(t) /\ UNCHANGED swapVars
      BY <1>1, <2>2 DEF EndTest, Goto, swapVars, IInv, TypeOK, SwapPlace
    <2> QED
      BY <2>1, <2>2
  <1>3. pc'[t] = "xend" => tx[t]
    BY <1>1, <1>2 DEF IInv, TxInv
  <1> QED
    BY <1>2, <1>3 DEF stateBar, Settled, Owns

\* A transaction makes its swap with its commit; under the lock it was made before.
LEMMA EndSettles ==
  ASSUME SInv, NEW t \in Thread, Unlock(t) \/ Xend(t)
  PROVE  stateBar[t] = (IF Unlock(t) THEN "idle" ELSE "pending") /\ stateBar'[t] = "idle"
  <1>1. IInv /\ SwapInv /\ SwapPlace(t)
    BY DEF SInv, SwapInv
  <1>2. pc'[t] = "idle"
    BY <1>1, FinishPlace
  <1>3. CASE Unlock(t)
    <2>1. pc[t] = "unlock" /\ ~tx[t] /\ next[t] = 5
      BY <1>1, <1>3 DEF Unlock, IInv, TxInv, SwapPlace
    <2> QED
      BY <1>2, <1>3, <2>1 DEF stateBar, Settled, Owns
  <1>4. CASE Xend(t)
    <2>1. pc[t] = "xend" /\ ~Unlock(t)
      BY <1>4 DEF Xend, Unlock
    <2> QED
      BY <1>2, <2>1 DEF stateBar, Settled
  <1> QED
    BY <1>3, <1>4

Seen == <<arrayBar, rows, stateBar>>

\* A step is the call of a swap, the whole exchange of one, or shows nothing.
SwapSeen(t) ==
  \/ UNCHANGED Seen
  \/ \E p \in Pairs : /\ stateBar[t] = "idle" /\ stateBar' = [stateBar EXCEPT ![t] = "pending"]
                      /\ rows' = [rows EXCEPT ![t] = p] /\ arrayBar' = arrayBar
  \/ /\ stateBar[t] = "pending" /\ stateBar' = [stateBar EXCEPT ![t] = "idle"]
     /\ Exchanged(RowA(t), RowB(t)) /\ rows' = rows

LEMMA CallSeen ==
  ASSUME SInv, SInv', NEW t \in Thread, Swap(t) PROVE SwapSeen(t)
  <1>1. SwapOthersKept(t) /\ arrayBar' = arrayBar
    BY SwapStep, OthersUnseen
  <1>2. stateBar[t] = "idle" /\ stateBar' = [stateBar EXCEPT ![t] = "pending"]
    BY <1>1, CallPending, StateChange
  <1>3. \E p \in Pairs : rows' = [rows EXCEPT ![t] = p]
    BY DEF Swap
  <1> QED
    BY <1>1, <1>2, <1>3 DEF SwapSeen

LEMMA PendingSeen ==
  ASSUME SInv, SInv', NEW t \in Thread,
         SBegin(t) \/ LoadA(t) \/ LoadB(t) \/ StoreA(t) \/ (HardwareAbort(t) /\ UNCHANGED swapVars)
  PROVE  SwapSeen(t)
  <1>1. SwapOthersKept(t)
    BY SBeginStep, LoadAStep, LoadBStep, StoreAStep, SAbortStep
  <1>2. stateBar' = stateBar
    BY <1>1, StillPending, StateKept
  <1>3. arrayBar' = arrayBar
    BY OthersUnseen, StoreAUnseen
  <1>4. rows' = rows
    BY DEF SBegin, LoadA, LoadB, StoreA, swapVars
  <1> QED
    BY <1>2, <1>3, <1>4 DEF SwapSeen, Seen

LEMMA StoreBSeen ==
  ASSUME SInv, SInv', NEW t \in Thread, StoreB(t) PROVE SwapSeen(t)
  <1>1. SwapOthersKept(t) /\ rows' = rows
    BY StoreBStep DEF StoreB
  <1>2. CASE tx[t]
    <2>1. stateBar' = stateBar
      BY <1>1, <1>2, StoreBSettles, StateKept
    <2>2. arrayBar' = arrayBar
      BY <1>2, StoreBExchanges
    <2> QED
      BY <1>1, <2>1, <2>2 DEF SwapSeen, Seen
  <1>3. CASE ~tx[t]
    <2>1. stateBar[t] = "pending" /\ stateBar'[t] = "idle"
      BY <1>3, StoreBSettles
    <2>2. stateBar' = [stateBar EXCEPT ![t] = "idle"]
      BY <1>1, <2>1, StateChange
    <2>3. Exchanged(RowA(t), RowB(t))
      BY <1>3, StoreBExchanges
    <2> QED
      BY <1>1, <2>1, <2>2, <2>3 DEF SwapSeen
  <1> QED
    BY <1>2, <1>3

LEMMA LeaveSeen ==
  ASSUME SInv, SInv', NEW t \in Thread, SLeave(t) \/ (EndTest(t) /\ UNCHANGED swapVars)
  PROVE  SwapSeen(t)
  <1>1. SwapOthersKept(t)
    BY QuietStep
  <1>2. stateBar' = stateBar
    BY <1>1, LeaveKeeps, StateKept
  <1>3. arrayBar' = arrayBar /\ rows' = rows
    BY OthersUnseen DEF SLeave, swapVars
  <1> QED
    BY <1>2, <1>3 DEF SwapSeen, Seen

LEMMA FinishSeen ==
  ASSUME SInv, SInv', NEW t \in Thread, SEnd(t), Unlock(t) \/ Xend(t) PROVE SwapSeen(t)
  <1>1. SwapOthersKept(t) /\ rows' = rows
    BY SwapFinishStep DEF SEnd
  <1>2. CASE Unlock(t)
    <2>1. stateBar' = stateBar
      BY <1>1, <1>2, EndSettles, StateKept
    <2>2. arrayBar' = arrayBar
      BY <1>2, FinishExchanges
    <2> QED
      BY <1>1, <2>1, <2>2 DEF SwapSeen, Seen
  <1>3. CASE Xend(t)
    <2>1. ~Unlock(t)
      BY <1>3 DEF Xend, Unlock
    <2>2. stateBar[t] = "pending" /\ stateBar'[t] = "idle"
      BY <1>3, <2>1, EndSettles
    <2>3. stateBar' = [stateBar EXCEPT ![t] = "idle"]
      BY <1>1, <2>2, StateChange
    <2>4. Exchanged(RowA(t), RowB(t))
      BY <1>3, FinishExchanges
    <2> QED
      BY <1>1, <2>2, <2>3, <2>4 DEF SwapSeen
  <1> QED
    BY <1>2, <1>3

\* Every step is such a step.
LEMMA SwapStepsSeen ==
  ASSUME SInv, SInv', [SNext]_sVars PROVE UNCHANGED Seen \/ \E t \in Thread : SwapSeen(t)
  <1>1. ASSUME UNCHANGED sVars PROVE UNCHANGED Seen
    <2>1. UNCHANGED <<mem, tx, pc, rows, next, temp>>
      BY <1>1 DEF sVars, vars, memVars, swapVars
    <2>2. arrayBar' = arrayBar
      BY <2>1 DEF arrayBar, Halfway, Owns
    <2>3. stateBar' = stateBar
      BY <2>1 DEF stateBar, Settled, Owns
    <2> QED
      BY <2>1, <2>2, <2>3 DEF Seen
  <1>2. ASSUME Terminating /\ UNCHANGED swapVars PROVE UNCHANGED Seen
    BY <1>1, <1>2 DEF Terminating, sVars
  <1>3. ASSUME NEW t \in Thread, SEnd(t) PROVE SwapSeen(t)
    <2>1. CASE EndTest(t)
      <3>1. pc'[t] # "idle"
        BY <2>1 DEF EndTest, Goto, SInv, IInv, TypeOK
      <3> QED
        BY <1>3, <2>1, <3>1, LeaveSeen DEF SEnd, swapVars
    <2>2. CASE Unlock(t) \/ Xend(t)
      BY <1>3, <2>2, FinishSeen
    <2> QED
      BY <1>3, <2>1, <2>2 DEF SEnd, End
  <1>4. ASSUME NEW t \in Thread, SBody(t) PROVE SwapSeen(t)
    BY <1>4, PendingSeen, StoreBSeen, LeaveSeen DEF SBody
  <1>5. ASSUME NEW t \in Thread, Swap(t) \/ SBegin(t) \/ (HardwareAbort(t) /\ UNCHANGED swapVars) PROVE SwapSeen(t)
    BY <1>5, CallSeen, PendingSeen
  <1> QED
    BY <1>1, <1>2, <1>3, <1>4, <1>5 DEF SNext, SStep

\* The array starts as SwapSpec's, and no swap is called for.
LEMMA SwapStart == SInit => Abstract!Init
  <1> SUFFICES ASSUME SInit PROVE Abstract!Init
    OBVIOUS
  <1>1. pc = [t \in Thread |-> "idle"] /\ rows = [t \in Thread |-> <<>>]
        /\ mem = [w \in Word |-> IF w = Lock THEN 0 ELSE InitMem[w]]
    BY DEF SInit, Init
  <1>2. \A t \in Thread : ~Halfway(t)
    BY <1>1 DEF Halfway
  <1>3. \A r \in Addr : mem[r] = r
    BY <1>1, AddrAssumption, RowsAssumption DEF Word
  <1>4. arrayBar = [r \in Addr |-> r]
    BY <1>2, <1>3 DEF arrayBar
  <1>5. stateBar = [t \in Thread |-> "idle"]
    BY <1>1 DEF stateBar
  <1> QED
    BY <1>1, <1>4, <1>5 DEF Abstract!Init

\* Every step of the swaps is a step of SwapSpec or shows nothing.
LEMMA SwapImplements == SInv /\ SInv' /\ [SNext]_sVars => [Abstract!Next]_(Abstract!vars)
  <1> SUFFICES ASSUME SInv, SInv', [SNext]_sVars PROVE Abstract!Next \/ UNCHANGED Abstract!vars
    OBVIOUS
  <1>1. CASE UNCHANGED Seen
    BY <1>1 DEF Seen, Abstract!vars
  <1>2. ASSUME NEW t \in Thread, SwapSeen(t) PROVE Abstract!Next \/ UNCHANGED Abstract!vars
    <2>1. CASE UNCHANGED Seen
      BY <2>1 DEF Seen, Abstract!vars
    <2>2. ASSUME NEW p \in Pairs,
                 stateBar[t] = "idle", stateBar' = [stateBar EXCEPT ![t] = "pending"],
                 rows' = [rows EXCEPT ![t] = p], arrayBar' = arrayBar
          PROVE  Abstract!Next
      <3>1. p \in Addr \X Addr
        BY PairsAssumption
      <3>2. PICK a \in Addr, b \in Addr : p = <<a, b>>
        BY <3>1
      <3>3. Abstract!Invoke(t, a, b)
        BY <2>2, <3>2 DEF Abstract!Invoke
      <3> QED
        BY <3>2, <3>3 DEF Abstract!Next
    <2>3. ASSUME stateBar[t] = "pending", stateBar' = [stateBar EXCEPT ![t] = "idle"],
                 Exchanged(RowA(t), RowB(t)), rows' = rows
          PROVE  Abstract!Next
      <3>1. Abstract!Swap(t)
        BY <2>3 DEF Abstract!Swap, Exchanged, RowA, RowB
      <3> QED
        BY <3>1 DEF Abstract!Next
    <2> QED
      BY <1>2, <2>1, <2>2, <2>3 DEF SwapSeen
  <1> QED
    BY <1>1, <1>2, SwapStepsSeen

-----------------------------------------------------------------------------
(* The theorems.                                                           *)

\* What a section knows of its two rows is true in every reachable state, and so is
\* what TmProofs shows of the sections.
THEOREM SwapsKnow == SSpec => []SInv
  BY SwapBegins, SwapNext, PTL DEF SSpec

\* The swaps of htm-lock/array_swap.h are sections of tm.h.
THEOREM SwapsAreSections == SSpec => Spec
  <1>1. SInit => Init
    BY DEF SInit
  <1>2. SInv => SwapInv
    BY DEF SInv
  <1> QED
    BY <1>1, <1>2, SwapsKnow, SwapStepOfTm, PTL DEF SSpec, Spec

\* The locals of a swap have their types and its tries are bounded.
THEOREM SwapSectionsOK == SSpec => []SectionsOK
  <1>1. SInv => SectionsOK
    BY DEF SInv, IInv, TriesInv, TriesBounded, SwapInv, SwapTypes, SectionsOK, STypeOK
  <1> QED
    BY <1>1, SwapsKnow, PTL

\* The swaps of htm-lock/array_swap.h implement SwapSpec: each one exchanges its two
\* rows once and in one step, whether it runs as a transaction, where that step is its
\* commit, or under the fallback lock, where it is the second store.
THEOREM SwapsAtomic == SSpec => SwapAtomic
  BY SwapStart, SwapsKnow, SwapImplements, PTL DEF SSpec, SwapAtomic, Abstract!Spec

-----------------------------------------------------------------------------
(* The operations of mcas-htm.h and mcas-htm-no-if.h (McasHtm), for every  *)
(* number of threads, of words in a call and of tries.                     *)

Words(t) == 1 .. N(t)

\* Where a call is.
CallPlace(t) ==
  /\ IF pc[t] = "idle" THEN op[t] \in Ops \cup {<<>>} ELSE op[t] \in Ops
  /\ idx[t] \in 1 .. Done(t) /\ match[t] \in BOOLEAN
  /\ pc[t] = "idle" => idx[t] = 1 /\ match[t]
  /\ pc[t] \in {"end", "unlock", "xend"} => idx[t] = Done(t)
  /\ pc[t] \in InBody /\ ~match[t] => idx[t] \notin N(t) + 1 .. 2 * N(t)
  /\ result[t] = "pending" <=> pc[t] # "idle"
  /\ pc[t] = "subscribe" => buf[t] = NoBuf

\* A transaction that is in its section has read what it has compared, and that is so
\* as long as it is not aborted; it has buffered its stores and nothing else.
TxCall(t) ==
  tx[t] /\ pc[t] \in InBody =>
    /\ match[t] => \A i \in Words(t) : i < idx[t] =>
         op[t][i].addr \in rset[t] /\ mem[op[t][i].addr] = op[t][i].old
    /\ ~match[t] => \E i \in Words(t) :
         op[t][i].addr \in rset[t] /\ mem[op[t][i].addr] # op[t][i].old
    /\ \A i \in Words(t) : buf[t][op[t][i].addr] =
         IF match[t] /\ N(t) + i < idx[t] THEN op[t][i].new ELSE None
    /\ \A a \in Addr : buf[t][a] = None \/ \E i \in Words(t) : op[t][i].addr = a

\* Under the fallback lock the words that a call has compared are as it found them, but
\* for those that it has stored since.
OwnCall(t) ==
  Owns(t) /\ pc[t] \in InBody =>
    /\ match[t] => \A i \in Words(t) : i < idx[t] =>
         mem[op[t][i].addr] = IF N(t) + i < idx[t] THEN op[t][i].new ELSE op[t][i].old
    /\ ~match[t] => \E i \in Words(t) : mem[op[t][i].addr] # op[t][i].old

OpTypes ==
  /\ DOMAIN op = Thread /\ DOMAIN idx = Thread /\ DOMAIN match = Thread /\ DOMAIN result = Thread

CallInv == OpTypes /\ \A t \in Thread : CallPlace(t) /\ TxCall(t) /\ OwnCall(t)

MInv == IInv /\ CallInv

-----------------------------------------------------------------------------
(* The words of a call.                                                    *)

\* A call that is under way has at least one word, and its words are different.
LEMMA CallShape ==
  ASSUME CallInv, NEW t \in Thread
  PROVE  /\ N(t) \in Nat /\ Words(t) = DOMAIN op[t]
         /\ pc[t] # "idle" => N(t) >= 1 /\ op[t] \in Ops
         /\ \A i \in Words(t) : op[t][i].addr \in Addr /\ op[t][i].old \in Value /\ op[t][i].new \in Value
         /\ \A i, j \in Words(t) : op[t][i].addr = op[t][j].addr => i = j
  <1>1. op[t] \in Ops \cup {<<>>} /\ (pc[t] # "idle" => op[t] \in Ops)
    BY DEF CallInv, CallPlace
  <1>2. CASE op[t] = <<>>
    <2>1. op[t] \notin Ops
      BY <1>2, OpsAssumption
    <2>2. Len(op[t]) = 0 /\ DOMAIN op[t] = {}
      BY <1>2
    <2> QED
      BY <1>1, <2>1, <2>2 DEF N, Words
  <1>3. CASE op[t] \in Ops
    <2>1. op[t] \in Seq([addr : Addr, old : Value, new : Value]) /\ op[t] # <<>>
      BY <1>3, OpsAssumption
    <2>2. \A i, j \in DOMAIN op[t] : op[t][i].addr = op[t][j].addr => i = j
      BY <1>3, OpsAssumption
    <2>3. N(t) \in Nat /\ N(t) >= 1 /\ Words(t) = DOMAIN op[t]
      BY <2>1 DEF N, Words
    <2>4. \A i \in DOMAIN op[t] : op[t][i] \in [addr : Addr, old : Value, new : Value]
      <3> DEFINE W == [addr : Addr, old : Value, new : Value]
      <3>1. op[t] \in Seq(W)
        BY <2>1
      <3> HIDE DEF W
      <3>2. \A i \in DOMAIN op[t] : op[t][i] \in W
        BY <3>1
      <3> QED
        BY <3>2 DEF W
    <2> QED
      BY <1>3, <2>2, <2>3, <2>4
  <1> QED
    BY <1>1, <1>2, <1>3

OpSame(u) == op'[u] = op[u] /\ idx'[u] = idx[u] /\ match'[u] = match[u] /\ result'[u] = result[u]

CallOthersKept(t) == \A u \in Thread \ {t} : OpSame(u) /\ (Same(u) \/ Aborted(u))

\* What is known of such a call is still so.
LEMMA CallFrame ==
  ASSUME IInv, CallInv, NEW u \in Thread, OpSame(u), Same(u) \/ Aborted(u)
  PROVE  CallPlace(u)' /\ TxCall(u)' /\ OwnCall(u)'
  <1>1. /\ CallPlace(u) /\ TxCall(u) /\ OwnCall(u)
        /\ N(u)' = N(u) /\ Words(u)' = Words(u) /\ Done(u)' = Done(u)
        /\ \A i \in Words(u) : op[u][i].addr \in Addr
    BY CallShape DEF CallInv, OpSame, N, Words, Done
  <1>2. CASE Aborted(u)
    <2>1. pc[u] # "idle"
      BY <1>2 DEF IInv, TxInv, Aborted
    <2>2. CallPlace(u)'
      BY <1>1, <1>2, <2>1 DEF CallPlace, Aborted, OpSame, InBody
    <2> QED
      BY <1>2, <2>2 DEF TxCall, OwnCall, Aborted, InBody
  <1>3. CASE Same(u)
    <2>1. CallPlace(u)'
      BY <1>1, <1>3 DEF CallPlace, Same, OpSame, InBody
    <2>2. TxCall(u)'
      BY <1>1, <1>3 DEF TxCall, Same, OpSame
    <2>3. OwnCall(u)'
      <3>1. Owns(u)' <=> Owns(u)
        BY <1>3 DEF Owns, Same
      <3> QED
        BY <1>1, <1>3, <3>1 DEF OwnCall, Same, OpSame
    <2> QED
      BY <2>1, <2>2, <2>3
  <1> QED
    BY <1>2, <1>3

-----------------------------------------------------------------------------
(* The steps of the calls keep CallInv.                                    *)

\* The steps of a call are steps of a section of Tm.
LEMMA CallStepOfTm == CallInv /\ [MNext]_mVars => [Next]_vars
  <1> SUFFICES ASSUME CallInv, [MNext]_mVars PROVE [Next]_vars
    OBVIOUS
  <1>1. ASSUME NEW t \in Thread, Call(t) PROVE Next
    BY <1>1 DEF Call, Next
  <1>2. ASSUME NEW t \in Thread, MBegin(t) \/ MEnd(t) PROVE Next
    BY <1>2 DEF MBegin, MEnd, Next
  <1>3. ASSUME NEW t \in Thread, Compare(t) PROVE Next
    <2>1. pc[t] = "body" /\ idx[t] \in Words(t)
      BY <1>3, CallShape DEF Compare, BodyLoad, CallInv, CallPlace, Words, Done
    <2>2. op[t][idx[t]].addr \in Addr
      BY <2>1, CallShape
    <2> QED
      BY <1>3, <2>2 DEF Compare, Next, Body
  <1>4. ASSUME NEW t \in Thread, Write(t) PROVE Next
    <2>1. idx[t] - N(t) \in Words(t)
      BY <1>4, CallShape DEF Write, Words
    <2> DEFINE o == op[t][idx[t] - N(t)]
    <2>2. o.addr \in Addr /\ o.new \in Value
      BY <2>1, CallShape
    <2>3. BodyStore(t, o.addr, o.new)
      BY <1>4 DEF Write
    <2> HIDE DEF o
    <2> QED
      BY <2>2, <2>3 DEF Next, Body
  <1>5. ASSUME NEW t \in Thread, MLeave(t) PROVE Next
    BY <1>5 DEF MLeave, Next, Body
  <1>6. ASSUME NEW t \in Thread, HardwareAbort(t) PROVE Next
    BY <1>6 DEF Next
  <1>7. CASE UNCHANGED mVars
    BY <1>7 DEF mVars
  <1> QED
    BY <1>1, <1>2, <1>3, <1>4, <1>5, <1>6, <1>7 DEF MNext, Step, Next

\* A call begins.
LEMMA CallStep ==
  ASSUME MInv, NEW t \in Thread, Call(t) PROVE CallInv' /\ CallOthersKept(t)
  <1>1. /\ IInv /\ CallInv /\ Enter(t, TRUE) /\ UNCHANGED <<idx, match>>
    BY DEF MInv, Call
  <1>2. PICK o \in Ops : op' = [op EXCEPT ![t] = o]
    BY DEF Call
  <1>3. result' = [result EXCEPT ![t] = "pending"]
    BY DEF Call
  <1>4. pc[t] = "idle" /\ pc' = [pc EXCEPT ![t] = "xbegin"] /\ UNCHANGED memVars
    BY <1>1 DEF Enter, Goto
  <1>5. OpTypes'
    BY <1>1, <1>2, <1>3 DEF CallInv, OpTypes
  <1>6. \A u \in Thread \ {t} : OpSame(u)
    BY <1>1, <1>2, <1>3 DEF OpSame
  <1>7. \A u \in Thread \ {t} : Same(u)
    BY <1>1, <1>4 DEF Same, memVars, IInv, TypeOK
  <1>8. \A u \in Thread \ {t} : CallPlace(u)' /\ TxCall(u)' /\ OwnCall(u)'
    BY <1>1, <1>6, <1>7, CallFrame
  <1>9. CallPlace(t)' /\ TxCall(t)' /\ OwnCall(t)'
    <2>1. pc'[t] = "xbegin" /\ op'[t] = o /\ result'[t] = "pending"
      BY <1>1, <1>2, <1>3, <1>4 DEF CallInv, OpTypes, IInv, TypeOK
    <2>2. idx'[t] = 1 /\ match'[t]
      BY <1>1, <1>4 DEF CallInv, CallPlace
    <2>3. o \in Seq([addr : Addr, old : Value, new : Value])
      BY OpsAssumption
    <2>4. 1 \in 1 .. 2 * Len(o) + 1
      BY <2>3
    <2> QED
      BY <2>1, <2>2, <2>4 DEF CallPlace, TxCall, OwnCall, InBody, N, Done
  <1> QED
    BY <1>5, <1>6, <1>7, <1>8, <1>9 DEF CallInv, CallOthersKept

\* A section is entered, or not.
LEMMA BeginStep ==
  ASSUME MInv, NEW t \in Thread, MBegin(t) PROVE CallInv' /\ CallOthersKept(t)
  <1>1. IInv /\ CallInv /\ Begin(t) /\ UNCHANGED op
    BY DEF MInv, MBegin
  <1>2. /\ idx' = [idx EXCEPT ![t] = IF pc'[t] \in {"body", "idle"} THEN 1 ELSE @]
        /\ match' = [match EXCEPT ![t] = pc'[t] \in {"body", "idle"} \/ @]
        /\ result' = [result EXCEPT ![t] = IF pc'[t] = "idle" THEN "conflict" ELSE @]
    BY DEF MBegin
  <1>3. OpTypes'
    BY <1>1, <1>2 DEF CallInv, OpTypes
  <1>4. \A u \in Thread \ {t} : OpSame(u)
    BY <1>1, <1>2 DEF OpSame
  <1>5. \A u \in Thread \ {t} : CallPlace(u)' /\ TxCall(u)' /\ OwnCall(u)'
    BY <1>1, <1>4, BeginOthers, CallFrame
  <1>6. CallPlace(t) /\ N(t) \in Nat /\ N(t)' = N(t) /\ Words(t)' = Words(t) /\ Done(t)' = Done(t)
    BY <1>1, CallShape DEF CallInv, N, Words, Done
  <1>7. /\ op'[t] = op[t] /\ op[t] \in Ops
        /\ pc'[t] \in {"body", "idle"} => idx'[t] = 1 /\ match'[t] = TRUE
        /\ pc'[t] \notin {"body", "idle"} => idx'[t] = idx[t] /\ match'[t] = match[t]
        /\ pc'[t] # "idle" => result'[t] = "pending"
        /\ pc'[t] = "idle" => result'[t] # "pending"
    <2>1. pc[t] # "idle"
      BY <1>1, BeginPlace
    <2>2. /\ DOMAIN idx = Thread /\ DOMAIN match = Thread /\ DOMAIN result = Thread
          /\ result[t] = "pending" /\ match[t] \in BOOLEAN /\ op[t] \in Ops
      BY <1>1, <1>6, <2>1 DEF CallInv, OpTypes, CallPlace
    <2> QED
      BY <1>1, <1>2, <2>2
  <1>8. CallPlace(t)'
    <2>1. 1 \in 1 .. Done(t) /\ idx[t] \in 1 .. Done(t) /\ match[t] \in BOOLEAN
      BY <1>6 DEF CallPlace, Done
    <2> QED
      BY <1>1, <1>6, <1>7, <2>1, BeginPlace DEF CallPlace, InBody
  <1>9. TxCall(t)' /\ OwnCall(t)'
    <2>1. pc'[t] \in InBody => pc'[t] = "body"
      BY <1>1, BeginPlace DEF InBody
    <2>2. \A i \in Words(t) : ~(i < 1) /\ ~(N(t) + i < 1)
      BY <1>6 DEF Words
    <2>3. OwnCall(t)'
      BY <1>6, <1>7, <2>1, <2>2 DEF OwnCall
    <2>4. ASSUME tx'[t], pc'[t] = "body" PROVE buf'[t] = NoBuf
      <3>1. buf'[t] = buf[t] /\ pc[t] \in {"subscribe", "countStore"}
        BY <1>1, <2>4, BeginPlace
      <3>2. pc[t] = "subscribe" => buf[t] = NoBuf
        BY <1>6 DEF CallPlace
      <3>3. pc[t] = "countStore" => ~tx[t] /\ buf[t] = NoBuf
        BY <1>1 DEF IInv, TxInv
      <3> QED
        BY <3>1, <3>2, <3>3
    <2>5. \A i \in Words(t) : op[t][i].addr \in Word
      BY <1>1, CallShape
    <2>6. \A w \in Word : NoBuf[w] = None
      BY DEF NoBuf
    <2>7. TxCall(t)'
      BY <1>6, <1>7, <2>1, <2>2, <2>4, <2>5, <2>6 DEF TxCall
    <2> QED
      BY <2>3, <2>7
  <1> QED
    BY <1>1, <1>3, <1>4, <1>5, <1>8, <1>9, BeginOthers DEF CallInv, CallOthersKept

\* What a call loads to compare it is the shared word: its own stores come later.
LEMMA Compared ==
  ASSUME MInv, NEW t \in Thread, Compare(t)
  PROVE  /\ pc[t] = "body" /\ idx[t] \in Words(t)
         /\ Load(t, op[t][idx[t]].addr) = mem[op[t][idx[t]].addr]
  <1>1. IInv /\ CallInv /\ CallPlace(t) /\ TxCall(t) /\ pc[t] = "body" /\ idx[t] <= N(t)
    BY DEF MInv, CallInv, Compare, BodyLoad
  <1>2. N(t) \in Nat
    BY <1>1, CallShape
  <1>3. idx[t] \in Words(t)
    BY <1>1, <1>2 DEF CallPlace, Words, Done
  <1> DEFINE a == op[t][idx[t]].addr
  <1>4. a \in Addr /\ a \in Word
    BY <1>1, <1>3, CallShape
  <1>5. buf[t][a] = None
    <2>1. CASE tx[t]
      <3>1. ~(N(t) + idx[t] < idx[t])
        BY <1>2, <1>3 DEF Words
      <3> QED
        BY <1>1, <1>3, <2>1, <3>1 DEF TxCall, InBody
    <2>2. CASE ~tx[t]
      BY <1>1, <1>4, <2>2 DEF IInv, TxInv, NoBuf
    <2> QED
      BY <2>1, <2>2
  <1> HIDE DEF a
  <1>6. Load(t, a) = mem[a]
    BY <1>5 DEF Load
  <1> QED
    BY <1>1, <1>3, <1>6 DEF a

\* A word is compared.
LEMMA CompareStep ==
  ASSUME MInv, NEW t \in Thread, Compare(t) PROVE CallInv' /\ CallOthersKept(t)
  <1> DEFINE j == idx[t]
             a == op[t][j].addr
             same == mem[a] = op[t][j].old
             ok == match[t] /\ same
  <1>1. IInv /\ CallInv /\ pc[t] = "body" /\ UNCHANGED <<op, result>> /\ j \in Words(t)
    BY Compared DEF MInv, Compare
  <1>2. BodyLoad(t, a)
    BY DEF Compare
  <1>3. CallPlace(t) /\ TxCall(t) /\ OwnCall(t) /\ N(t) \in Nat /\ a \in Addr
    BY <1>1, CallShape DEF CallInv
  <1>4. PICK stop \in ShortCircuit :
          /\ match' = [match EXCEPT ![t] = ok]
          /\ idx' = [idx EXCEPT ![t] = IF ~ok /\ (stop \/ j = N(t)) THEN Done(t) ELSE j + 1]
    BY Compared DEF Compare
  <1>5. \A u \in Thread \ {t} : OpSame(u)
    BY <1>1, <1>4 DEF OpSame
  <1>6. OpTypes'
    BY <1>1, <1>4 DEF CallInv, OpTypes
  <1>7. /\ UNCHANGED <<mem, tx, buf, pc>>
        /\ \A u \in Thread \ {t} : rset'[u] = rset[u]
        /\ tx[t] => rset'[t] = rset[t] \cup {a}
    BY <1>1, <1>2 DEF BodyLoad, Track, IInv, TypeOK
  <1>8. \A u \in Thread \ {t} : Same(u)
    BY <1>1, <1>7 DEF Same, IInv, TypeOK
  <1>9. \A u \in Thread \ {t} : CallPlace(u)' /\ TxCall(u)' /\ OwnCall(u)'
    BY <1>1, <1>5, <1>8, CallFrame
  <1> HIDE DEF ok
  <1>10. /\ match'[t] = ok
         /\ idx'[t] = IF ~ok /\ (stop \/ j = N(t)) THEN Done(t) ELSE j + 1
         /\ op'[t] = op[t] /\ result'[t] = result[t]
    BY <1>1, <1>4 DEF CallInv, OpTypes
  <1>11. j \in 1 .. N(t) /\ Done(t) = 2 * N(t) + 1
    BY <1>1 DEF Words, Done
  <1>12. /\ idx'[t] \in 1 .. Done(t)
         /\ ok => idx'[t] = j + 1
         /\ ~ok => idx'[t] \notin N(t) + 1 .. 2 * N(t)
         /\ ok => \A i \in 1 .. N(t) : ~(N(t) + i < idx'[t])
         /\ ok => \A i \in 1 .. N(t) : i < idx'[t] <=> i < j \/ i = j
         /\ \A i \in 1 .. N(t) : ~(N(t) + i < j)
    BY <1>3, <1>10, <1>11
  <1>13. /\ Words(t) = 1 .. N(t) /\ N(t)' = N(t) /\ Words(t)' = Words(t) /\ Done(t)' = Done(t)
         /\ \A i \in Words(t) : op'[t][i] = op[t][i]
    BY <1>1 DEF Words, N, Done
  <1>14. CallPlace(t)'
    <2>1. match'[t] \in BOOLEAN
      BY <1>3, <1>10 DEF ok, CallPlace
    <2> QED
      BY <1>1, <1>3, <1>7, <1>10, <1>12, <1>13, <2>1 DEF CallPlace, InBody
  <1>15. /\ match[t] => (ok <=> same)
         /\ ok => match[t]
    BY DEF ok
  <1> HIDE DEF j
  <1>16. TxCall(t)'
    <2> SUFFICES ASSUME tx[t] PROVE TxCall(t)'
      BY <1>7 DEF TxCall
    <2>1. /\ match[t] => \A i \in Words(t) : i < j => op[t][i].addr \in rset[t] /\ mem[op[t][i].addr] = op[t][i].old
          /\ ~match[t] => \E i \in Words(t) : op[t][i].addr \in rset[t] /\ mem[op[t][i].addr] # op[t][i].old
          /\ \A i \in Words(t) : buf[t][op[t][i].addr] = None
          /\ \A b \in Addr : buf[t][b] = None \/ \E i \in Words(t) : op[t][i].addr = b
      BY <1>1, <1>3, <1>12, <1>13 DEF TxCall, InBody, j
    <2>2. ok => \A i \in Words(t) : i < idx'[t] => op[t][i].addr \in rset'[t] /\ mem[op[t][i].addr] = op[t][i].old
      BY <1>7, <1>12, <1>13, <1>15, <2>1
    <2>3. ~ok => \E i \in Words(t) : op[t][i].addr \in rset'[t] /\ mem[op[t][i].addr] # op[t][i].old
      <3>1. CASE ~match[t]
        BY <1>7, <2>1, <3>1
      <3>2. CASE match[t]
        BY <1>1, <1>7, <1>15, <3>2
      <3> QED
        BY <3>1, <3>2
    <2>4. \A i \in Words(t) : buf'[t][op[t][i].addr] =
            IF match'[t] /\ N(t) + i < idx'[t] THEN op[t][i].new ELSE None
      BY <1>7, <1>10, <1>12, <1>13, <2>1
    <2> HIDE DEF a, same
    <2> QED
      BY <1>7, <1>10, <1>13, <2>1, <2>2, <2>3, <2>4 DEF TxCall
  <1>17. OwnCall(t)'
    <2> SUFFICES ASSUME Owns(t) PROVE OwnCall(t)'
      BY <1>7 DEF OwnCall, Owns
    <2>1. /\ match[t] => \A i \in Words(t) : i < j => mem[op[t][i].addr] = op[t][i].old
          /\ ~match[t] => \E i \in Words(t) : mem[op[t][i].addr] # op[t][i].old
      BY <1>1, <1>3, <1>12, <1>13 DEF OwnCall, InBody, j
    <2>2. ok => \A i \in Words(t) : i < idx'[t] => mem[op[t][i].addr] = op[t][i].old
      BY <1>12, <1>13, <1>15, <2>1
    <2>3. ~ok => \E i \in Words(t) : mem[op[t][i].addr] # op[t][i].old
      <3>1. CASE ~match[t]
        BY <2>1, <3>1
      <3>2. CASE match[t]
        BY <1>1, <1>15, <3>2
      <3> QED
        BY <3>1, <3>2
    <2> HIDE DEF a, same
    <2> QED
      BY <1>7, <1>10, <1>12, <1>13, <2>2, <2>3 DEF OwnCall
  <1> QED
    BY <1>5, <1>6, <1>8, <1>9, <1>14, <1>16, <1>17 DEF CallInv, CallOthersKept

\* A word is stored: into the buffer, or under the lock into the memory.
LEMMA WriteStep ==
  ASSUME MInv, NEW t \in Thread, Write(t) PROVE CallInv' /\ CallOthersKept(t)
  <1> DEFINE j == idx[t] - N(t)
             o == op[t][j]
  <1>1. /\ IInv /\ CallInv /\ UNCHANGED <<op, match, result>>
        /\ idx[t] \in N(t) + 1 .. 2 * N(t) /\ idx' = [idx EXCEPT ![t] = idx[t] + 1]
    BY DEF MInv, Write
  <1>2. BodyStore(t, o.addr, o.new)
    BY DEF Write
  <1>3. pc[t] = "body"
    BY <1>2 DEF BodyStore
  <1>4. CallPlace(t) /\ TxCall(t) /\ OwnCall(t) /\ N(t) \in Nat
    BY <1>1, CallShape DEF CallInv
  <1>5. j \in Words(t) /\ idx[t] = N(t) + j /\ j \in Int
    BY <1>1, <1>4 DEF Words
  <1>6. o.addr \in Addr /\ o.new \in Value /\ \A i \in Words(t) : op[t][i].addr = o.addr => i = j
    BY <1>1, <1>5, CallShape
  <1>7. match[t] = TRUE
    BY <1>1, <1>3, <1>4 DEF CallPlace, InBody
  <1>8. OpTypes' /\ \A u \in Thread \ {t} : OpSame(u)
    BY <1>1 DEF CallInv, OpTypes, OpSame
  <1>9. op'[t] = op[t] /\ match'[t] = TRUE /\ result'[t] = result[t] /\ idx'[t] = idx[t] + 1
    BY <1>1, <1>7 DEF CallInv, OpTypes
  <1>10. /\ N(t)' = N(t) /\ Words(t)' = Words(t) /\ Done(t)' = Done(t)
         /\ \A i \in Words(t) : op'[t][i] = op[t][i]
    BY <1>1 DEF Words, N, Done
  <1> HIDE DEF j
  <1>11. /\ idx'[t] \in 1 .. Done(t)
         /\ \A i \in Words(t) : i < idx[t] /\ i < idx'[t]
         /\ \A i \in Words(t) : N(t) + i < idx'[t] <=> N(t) + i < idx[t] \/ i = j
         /\ ~(N(t) + j < idx[t])
    BY <1>1, <1>4, <1>5, <1>9 DEF Words, Done
  <1> HIDE DEF o
  <1>12. CASE tx[t]
    <2>1. UNCHANGED <<mem, tx, rset, pc>> /\ buf' = [buf EXCEPT ![t][o.addr] = o.new]
      <3>1. /\ UNCHANGED <<mem, tx, rset>> /\ buf' = [buf EXCEPT ![t][o.addr] = o.new]
            /\ pc' = [pc EXCEPT ![t] = "body"]
        BY <1>2, <1>12 DEF BodyStore, Store, Goto
      <3>2. pc' = pc
        <4>1. pc \in [Thread -> PC]
          BY <1>1 DEF IInv, TypeOK
        <4>2. pc' = [pc EXCEPT ![t] = "body"]
          BY <3>1
        <4> QED
          BY <1>3, <4>1, <4>2
      <3> QED
        BY <3>1, <3>2
    <2>2. /\ \A u \in Thread \ {t} : buf'[u] = buf[u]
          /\ \A b \in Addr : buf'[t][b] = IF b = o.addr THEN o.new ELSE buf[t][b]
      BY <1>1, <1>6, <2>1 DEF IInv, TypeOK
    <2>3. \A u \in Thread \ {t} : Same(u)
      BY <1>1, <2>1, <2>2 DEF Same, IInv, TypeOK
    <2>4. \A u \in Thread \ {t} : CallPlace(u)' /\ TxCall(u)' /\ OwnCall(u)'
      BY <1>1, <1>8, <2>3, CallFrame
    <2>5. CallPlace(t)'
      BY <1>3, <1>4, <1>9, <1>10, <1>11, <2>1 DEF CallPlace, InBody
    <2>6. /\ \A i \in Words(t) : i < idx[t] => op[t][i].addr \in rset[t] /\ mem[op[t][i].addr] = op[t][i].old
          /\ \A i \in Words(t) : buf[t][op[t][i].addr] = IF N(t) + i < idx[t] THEN op[t][i].new ELSE None
          /\ \A b \in Addr : buf[t][b] = None \/ \E i \in Words(t) : op[t][i].addr = b
      BY <1>3, <1>4, <1>7, <1>12 DEF TxCall, InBody
    <2>7. \A i \in Words(t) : op[t][i].addr \in Addr
      BY <1>1, CallShape
    <2>8. \A i \in Words(t) : buf'[t][op[t][i].addr] =
            IF N(t) + i < idx'[t] THEN op[t][i].new ELSE None
      <3> SUFFICES ASSUME NEW i \in Words(t)
                   PROVE  buf'[t][op[t][i].addr] = IF N(t) + i < idx'[t] THEN op[t][i].new ELSE None
        OBVIOUS
      <3>1. CASE i = j
        BY <1>6, <1>11, <2>2, <3>1 DEF o
      <3>2. CASE i # j
        BY <1>6, <1>11, <2>2, <2>6, <2>7, <3>2
      <3> QED
        BY <3>1, <3>2
    <2>9. \A b \in Addr : buf'[t][b] = None \/ \E i \in Words(t) : op[t][i].addr = b
      BY <1>5, <2>2, <2>6 DEF o
    <2>10. TxCall(t)'
      BY <1>9, <1>10, <1>11, <2>1, <2>6, <2>8, <2>9 DEF TxCall
    <2>11. OwnCall(t)'
      BY <1>12, <2>1 DEF OwnCall, Owns
    <2> QED
      BY <1>8, <2>3, <2>4, <2>5, <2>10, <2>11 DEF CallInv, CallOthersKept
  <1>13. CASE ~tx[t]
    <2>1. mem' = [mem EXCEPT ![o.addr] = o.new] /\ Publish(t, {o.addr}, "body")
      BY <1>2, <1>13 DEF BodyStore, Store
    <2>2. Published(t, {o.addr}, "body")
      <3>1. {o.addr} \in SUBSET Word /\ "body" \in PC
        BY <1>6 DEF PC
      <3> QED
        BY <1>1, <2>1, <3>1, PublishEffect DEF IInv
    <2>3. \A w \in Word : mem'[w] = IF w = o.addr THEN o.new ELSE mem[w]
      BY <1>1, <1>6, <2>1 DEF IInv, TypeOK
    <2>4. Owns(t)
      BY <1>3, <1>13 DEF Owns
    <2>5. \A u \in Thread \ {t} : Same(u) \/ Aborted(u)
      <3>1. \A u \in Thread \ {t} : ~Owns(u)
        BY <1>1, <2>4 DEF IInv, LockInv
      <3>2. \A u \in Thread : rset[u] \in SUBSET Word
        BY <1>1 DEF IInv, TypeOK
      <3> QED
        BY <2>2, <2>3, <3>1, <3>2 DEF Published, Kept, Same
    <2>6. \A u \in Thread \ {t} : CallPlace(u)' /\ TxCall(u)' /\ OwnCall(u)'
      BY <1>1, <1>8, <2>5, CallFrame
    <2>7. pc'[t] = "body" /\ ~tx'[t]
      BY <2>2 DEF Published
    <2>8. CallPlace(t)'
      BY <1>3, <1>4, <1>9, <1>10, <1>11, <2>7 DEF CallPlace, InBody
    <2>9. \A i \in Words(t) : mem[op[t][i].addr] = IF N(t) + i < idx[t] THEN op[t][i].new ELSE op[t][i].old
      BY <1>3, <1>4, <1>7, <1>11, <2>4 DEF OwnCall, InBody
    <2>10. \A i \in Words(t) : op[t][i].addr \in Word
      BY <1>1, CallShape
    <2>11. \A i \in Words(t) : mem'[op[t][i].addr] =
             IF N(t) + i < idx'[t] THEN op[t][i].new ELSE op[t][i].old
      <3> SUFFICES ASSUME NEW i \in Words(t)
                   PROVE  mem'[op[t][i].addr] = IF N(t) + i < idx'[t] THEN op[t][i].new ELSE op[t][i].old
        OBVIOUS
      <3>1. CASE i = j
        BY <1>11, <2>3, <2>10, <3>1 DEF o
      <3>2. CASE i # j
        BY <1>6, <1>11, <2>3, <2>9, <2>10, <3>2
      <3> QED
        BY <3>1, <3>2
    <2>12. TxCall(t)' /\ OwnCall(t)'
      BY <1>9, <1>10, <2>7, <2>11 DEF TxCall, OwnCall
    <2> QED
      BY <1>8, <2>5, <2>6, <2>8, <2>12 DEF CallInv, CallOthersKept
  <1> QED
    BY <1>12, <1>13

\* The stores are over.
LEMMA LeaveStep ==
  ASSUME MInv, NEW t \in Thread, MLeave(t) PROVE CallInv' /\ CallOthersKept(t)
  <1>1. IInv /\ CallInv /\ UNCHANGED opVars /\ idx[t] = Done(t) /\ pc[t] = "body"
    BY DEF MInv, MLeave, BodyDone
  <1>2. UNCHANGED memVars /\ pc' = [pc EXCEPT ![t] = "end"]
    BY DEF MLeave, BodyDone, Goto
  <1>3. OpTypes' /\ \A u \in Thread : OpSame(u)
    BY <1>1 DEF CallInv, OpTypes, OpSame, opVars
  <1>4. \A u \in Thread \ {t} : Same(u)
    BY <1>1, <1>2 DEF Same, memVars, IInv, TypeOK
  <1>5. \A u \in Thread \ {t} : CallPlace(u)' /\ TxCall(u)' /\ OwnCall(u)'
    BY <1>1, <1>3, <1>4, CallFrame
  <1>6. pc'[t] = "end"
    BY <1>1, <1>2 DEF IInv, TypeOK
  <1>7. CallPlace(t) /\ TxCall(t) /\ OwnCall(t) /\ N(t)' = N(t) /\ Words(t)' = Words(t) /\ Done(t)' = Done(t)
    BY <1>1 DEF CallInv, opVars, N, Words, Done
  <1>8. CallPlace(t)'
    BY <1>1, <1>6, <1>7 DEF CallPlace, InBody, opVars
  <1>9. TxCall(t)'
    BY <1>1, <1>2, <1>6, <1>7 DEF TxCall, InBody, opVars, memVars
  <1>10. OwnCall(t)'
    BY <1>1, <1>2, <1>6, <1>7 DEF OwnCall, Owns, InBody, opVars, memVars
  <1> QED
    BY <1>3, <1>4, <1>5, <1>8, <1>9, <1>10 DEF CallInv, CallOthersKept

\* TM_END looks at the lock word.
LEMMA CallEndTestStep ==
  ASSUME MInv, NEW t \in Thread, EndTest(t), UNCHANGED opVars PROVE CallInv' /\ CallOthersKept(t)
  <1>1. IInv /\ CallInv /\ pc[t] = "end"
    BY DEF MInv, EndTest
  <1>2. /\ UNCHANGED <<mem, tx, buf>>
        /\ pc' = [pc EXCEPT ![t] = IF Load(t, Lock) # 0 THEN "unlock" ELSE "xend"]
        /\ \A u \in Thread \ {t} : rset'[u] = rset[u]
        /\ tx[t] => rset'[t] = rset[t] \cup {Lock}
    BY <1>1 DEF EndTest, Goto, Track, IInv, TypeOK
  <1>3. OpTypes' /\ \A u \in Thread : OpSame(u)
    BY <1>1 DEF CallInv, OpTypes, OpSame, opVars
  <1>4. \A u \in Thread \ {t} : Same(u)
    BY <1>1, <1>2 DEF Same, IInv, TypeOK
  <1>5. \A u \in Thread \ {t} : CallPlace(u)' /\ TxCall(u)' /\ OwnCall(u)'
    BY <1>1, <1>3, <1>4, CallFrame
  <1>6. pc'[t] = (IF Load(t, Lock) # 0 THEN "unlock" ELSE "xend")
    BY <1>1, <1>2 DEF IInv, TypeOK
  <1>7. CallPlace(t) /\ TxCall(t) /\ OwnCall(t) /\ N(t)' = N(t) /\ Words(t)' = Words(t) /\ Done(t)' = Done(t)
    BY <1>1 DEF CallInv, opVars, N, Words, Done
  <1>8. CallPlace(t)'
    BY <1>1, <1>6, <1>7 DEF CallPlace, InBody, opVars
  <1>9. TxCall(t)'
    <2>1. CASE tx[t]
      BY <1>1, <1>2, <1>7, <2>1 DEF TxCall, InBody, opVars
    <2>2. CASE ~tx[t]
      BY <1>2, <2>2 DEF TxCall
    <2> QED
      BY <2>1, <2>2
  <1>10. OwnCall(t)'
    BY <1>1, <1>2, <1>6, <1>7 DEF OwnCall, Owns, InBody, opVars
  <1> QED
    BY <1>3, <1>4, <1>5, <1>8, <1>9, <1>10 DEF CallInv, CallOthersKept

\* TM_END is over and the call returns.
LEMMA CallFinishStep ==
  ASSUME MInv, NEW t \in Thread, Unlock(t) \/ Xend(t), MEnd(t) PROVE CallInv' /\ CallOthersKept(t)
  <1>1. IInv /\ CallInv /\ UNCHANGED op
    BY DEF MInv, MEnd
  <1>2. pc'[t] = "idle" /\ ~tx'[t]
    BY <1>1, FinishPlace
  <1>3. /\ result' = [result EXCEPT ![t] = IF match[t] THEN "true" ELSE "mismatch"]
        /\ idx' = [idx EXCEPT ![t] = 1] /\ match' = [match EXCEPT ![t] = TRUE]
    BY <1>2 DEF MEnd
  <1>4. OpTypes' /\ \A u \in Thread \ {t} : OpSame(u)
    BY <1>1, <1>3 DEF CallInv, OpTypes, OpSame
  <1>5. \A u \in Thread \ {t} : CallPlace(u)' /\ TxCall(u)' /\ OwnCall(u)'
    BY <1>1, <1>4, FinishOthers, CallFrame
  <1>6. op'[t] = op[t] /\ idx'[t] = 1 /\ match'[t] = TRUE /\ result'[t] # "pending"
    BY <1>1, <1>3 DEF CallInv, OpTypes
  <1>7. N(t) \in Nat /\ N(t)' = N(t) /\ Done(t)' = Done(t) /\ op[t] \in Ops \cup {<<>>}
    BY <1>1, CallShape DEF N, Done, CallInv, CallPlace
  <1>8. 1 \in 1 .. Done(t)
    BY <1>7 DEF Done
  <1>9. CallPlace(t)'
    BY <1>2, <1>6, <1>7, <1>8 DEF CallPlace, InBody
  <1>10. TxCall(t)' /\ OwnCall(t)'
    BY <1>2 DEF TxCall, OwnCall, InBody
  <1> QED
    BY <1>1, <1>4, <1>5, <1>9, <1>10, FinishOthers DEF CallInv, CallOthersKept

\* A transaction is aborted; what it had compared and buffered is lost.
LEMMA CallAbortStep ==
  ASSUME MInv, NEW t \in Thread, HardwareAbort(t), UNCHANGED opVars PROVE CallInv' /\ CallOthersKept(t)
  <1>1. IInv /\ CallInv /\ tx[t]
    BY DEF MInv, HardwareAbort
  <1>2. PICK s : Abort(t, s)
    BY DEF HardwareAbort
  <1>3. OpTypes' /\ \A u \in Thread : OpSame(u)
    BY <1>1 DEF CallInv, OpTypes, OpSame, opVars
  <1>4. (\A u \in Thread \ {t} : Same(u)) /\ Aborted(t)
    BY <1>1, <1>2 DEF Same, Aborted, Abort, Goto, IInv, TypeOK
  <1>5. \A u \in Thread : CallPlace(u)' /\ TxCall(u)' /\ OwnCall(u)'
    BY <1>1, <1>3, <1>4, CallFrame
  <1> QED
    BY <1>3, <1>4, <1>5 DEF CallInv, CallOthersKept

\* TM_END goes on.
LEMMA EndStep ==
  ASSUME MInv, NEW t \in Thread, MEnd(t) PROVE CallInv' /\ CallOthersKept(t)
  <1>1. CASE EndTest(t)
    <2>1. pc'[t] # "idle"
      BY <1>1 DEF EndTest, Goto, MInv, IInv, TypeOK
    <2> QED
      BY <1>1, <2>1, CallEndTestStep DEF MEnd, opVars
  <1>2. CASE Unlock(t) \/ Xend(t)
    BY <1>2, CallFinishStep
  <1> QED
    BY <1>1, <1>2 DEF MEnd, End

\* The first call of each thread is still to come.
LEMMA CallBegins == MInit => MInv
  <1> SUFFICES ASSUME MInit PROVE MInv
    OBVIOUS
  <1>1. Init /\ IInv
    BY InitIInv DEF MInit
  <1>2. /\ op = [t \in Thread |-> <<>>] /\ idx = [t \in Thread |-> 1]
        /\ match = [t \in Thread |-> TRUE] /\ result = [t \in Thread |-> "idle"]
    BY DEF MInit
  <1>3. \A t \in Thread : pc[t] = "idle" /\ ~tx[t]
    BY <1>1 DEF Init
  <1>4. ASSUME NEW t \in Thread PROVE CallPlace(t) /\ TxCall(t) /\ OwnCall(t)
    <2>1. op[t] = <<>> /\ idx[t] = 1 /\ match[t] = TRUE /\ result[t] = "idle" /\ pc[t] = "idle" /\ ~tx[t]
      BY <1>2, <1>3
    <2>2. Len(op[t]) = 0
      BY <2>1
    <2>3. idx[t] \in 1 .. Done(t)
      BY <2>1, <2>2 DEF Done, N
    <2>4. /\ op[t] \in Ops \cup {<<>>} /\ pc[t] \notin InBody \cup {"subscribe"}
          /\ result[t] # "pending"
      BY <2>1 DEF InBody
    <2>5. CallPlace(t)
      BY <2>1, <2>3, <2>4 DEF CallPlace, InBody
    <2> QED
      BY <2>4, <2>5 DEF TxCall, OwnCall
  <1>5. OpTypes
    BY <1>2 DEF OpTypes
  <1> QED
    BY <1>1, <1>4, <1>5 DEF MInv, CallInv

\* Every step of the calls keeps the invariant.
LEMMA CallNext == MInv /\ [MNext]_mVars => MInv'
  <1> SUFFICES ASSUME MInv, [MNext]_mVars PROVE MInv'
    OBVIOUS
  <1>1. IInv'
    BY CallStepOfTm, NextIInv DEF MInv
  <1>2. ASSUME UNCHANGED mVars PROVE CallInv'
    <2>1. UNCHANGED <<mem, tx, rset, buf, pc, op, idx, match, result>>
      BY <1>2 DEF mVars, vars, memVars, opVars
    <2> QED
      BY <2>1 DEF MInv, CallInv, OpTypes, CallPlace, TxCall, OwnCall, Owns, N, Words, Done
  <1>3. ASSUME Terminating /\ UNCHANGED opVars PROVE CallInv'
    BY <1>2, <1>3 DEF Terminating, mVars
  <1>4. ASSUME NEW t \in Thread, Step(t) PROVE CallInv'
    BY <1>4, BeginStep, CompareStep, WriteStep, LeaveStep, EndStep DEF Step
  <1>5. ASSUME NEW t \in Thread, Call(t) PROVE CallInv'
    BY <1>5, CallStep
  <1>6. ASSUME NEW t \in Thread, HardwareAbort(t), UNCHANGED opVars PROVE CallInv'
    BY <1>6, CallAbortStep
  <1>7. CallInv'
    BY <1>2, <1>3, <1>4, <1>5, <1>6 DEF MNext
  <1> QED
    BY <1>1, <1>7 DEF MInv

-----------------------------------------------------------------------------
(* The calls implement Mcas.                                               *)

Target(t, a) == \E i \in Words(t) : op[t][i].addr = a

\* What memBar is: the memory, with the words of the call that is decided under the
\* lock, if there is one, as it leaves them.
CallBarFacts ==
  /\ memBar = [a \in Addr |-> memBar[a]]
  /\ (\A t \in Thread : ~(Decided(t) /\ match[t])) => \A a \in Addr : memBar[a] = mem[a]
  /\ \A t \in Thread : Decided(t) /\ match[t] =>
       /\ \A i \in Words(t) : memBar[op[t][i].addr] = op[t][i].new
       /\ \A a \in Addr : ~Target(t, a) => memBar[a] = mem[a]

\* There is at most one such call, and it has a word only once.
LEMMA CallBars == MInv => CallBarFacts
  <1> SUFFICES ASSUME MInv PROVE CallBarFacts
    OBVIOUS
  <1>1. IInv /\ CallInv
    BY DEF MInv
  <1>2. \A t \in Thread : Words(t) = 1 .. N(t)
    BY DEF Words
  <1>3. ASSUME \A t \in Thread : ~(Decided(t) /\ match[t]) PROVE \A a \in Addr : memBar[a] = mem[a]
    <2>1. \A a \in Addr : Storing(a) = {}
      BY <1>3 DEF Storing
    <2> QED
      BY <2>1 DEF memBar
  <1>4. ASSUME NEW t \in Thread, Decided(t), match[t]
        PROVE  /\ \A i \in Words(t) : memBar[op[t][i].addr] = op[t][i].new
               /\ \A a \in Addr : ~Target(t, a) => memBar[a] = mem[a]
    <2>1. \A u \in Thread : Decided(u) => u = t
      BY <1>1, <1>4 DEF Decided, IInv, LockInv
    <2>2. ASSUME NEW i \in Words(t) PROVE memBar[op[t][i].addr] = op[t][i].new
      <3> DEFINE a == op[t][i].addr
      <3>1. a \in Addr /\ \A k \in 1 .. N(t) : op[t][k].addr = a => k = i
        BY <1>1, <1>2, <2>2, CallShape
      <3>2. i \in 1 .. N(t) /\ op[t][i].addr = a
        BY <1>2, <2>2
      <3>3. Storing(a) = {t}
        BY <1>4, <2>1, <3>2 DEF Storing
      <3> HIDE DEF a
      <3>4. (CHOOSE u \in Storing(a) : TRUE) = t
        BY <3>3
      <3>5. (CHOOSE k \in 1 .. N(t) : op[t][k].addr = a) = i
        BY <3>1, <3>2
      <3>6. memBar[a] = op[t][i].new
        BY <3>1, <3>3, <3>4, <3>5 DEF memBar
      <3> QED
        BY <3>6 DEF a
    <2>3. ASSUME NEW a \in Addr, ~Target(t, a) PROVE memBar[a] = mem[a]
      <3>1. Storing(a) = {}
        BY <1>2, <2>1, <2>3 DEF Storing, Target
      <3> QED
        BY <3>1 DEF memBar
    <2> QED
      BY <2>2, <2>3
  <1>5. memBar = [a \in Addr |-> memBar[a]]
    BY DEF memBar
  <1> QED
    BY <1>3, <1>4, <1>5 DEF CallBarFacts

\* The same of the next state.
LEMMA CallBarsNext == MInv' => CallBarFacts'
  BY CallBars, PTL

\* A step that decides nothing, and stores only what was decided.
LEMMA CallBarKept ==
  ASSUME MInv, MInv',
         \A u \in Thread : (Decided(u)' <=> Decided(u)) /\ (Decided(u) => op'[u] = op[u] /\ match'[u] = match[u]),
         \A a \in Addr : mem'[a] = mem[a] \/ \E u \in Thread : Decided(u) /\ match[u] /\ Target(u, a)
  PROVE  memBar' = memBar
  <1>1. CallBarFacts /\ CallBarFacts'
    BY CallBars, CallBarsNext
  <1>2. \A a \in Addr : memBar'[a] = memBar[a]
    <2>1. CASE \A u \in Thread : ~(Decided(u) /\ match[u])
      BY <1>1, <2>1 DEF CallBarFacts
    <2>2. ASSUME NEW t \in Thread, Decided(t), match[t] PROVE \A a \in Addr : memBar'[a] = memBar[a]
      <3>1. op'[t] = op[t] /\ Words(t)' = Words(t) /\ Decided(t)' /\ match'[t]
        BY <2>2 DEF Words, N
      <3>2. /\ \A i \in Words(t) : memBar[op[t][i].addr] = op[t][i].new /\ memBar'[op[t][i].addr] = op[t][i].new
            /\ \A a \in Addr : ~Target(t, a) => memBar[a] = mem[a] /\ memBar'[a] = mem'[a]
        BY <1>1, <2>2, <3>1 DEF CallBarFacts, Target
      <3>3. \A u \in Thread : Decided(u) => u = t
        BY <2>2 DEF Decided, MInv, IInv, LockInv
      <3>4. \A a \in Addr : ~Target(t, a) => mem'[a] = mem[a]
        BY <3>3
      <3> QED
        BY <3>2, <3>4 DEF Target
    <2> QED
      BY <2>1, <2>2
  <1>3. memBar = [a \in Addr |-> memBar[a]] /\ memBar' = [a \in Addr |-> memBar'[a]]
    BY <1>1 DEF CallBarFacts
  <1> QED
    BY <1>2, <1>3

\* The calls of the other threads are decided or not as before.
LEMMA CallOthersBar ==
  ASSUME MInv, NEW t \in Thread, CallOthersKept(t), NEW u \in Thread \ {t}
  PROVE  /\ Decided(u)' <=> Decided(u)
         /\ op'[u] = op[u] /\ match'[u] = match[u] /\ resBar'[u] = resBar[u]
  <1>1. OpSame(u) /\ (Same(u) \/ Aborted(u))
    BY DEF CallOthersKept
  <1>2. Decided(u)' <=> Decided(u)
    BY <1>1 DEF OpSame, Same, Aborted, Decided, Owns, N
  <1> QED
    BY <1>1, <1>2 DEF OpSame, resBar

\* The calls of a step: one that only goes on, and what Mcas sees of one that does more.
LEMMA CallUnseen ==
  ASSUME MInv, NEW t \in Thread, CallOthersKept(t), op' = op, memBar' = memBar, resBar'[t] = resBar[t]
  PROVE  UNCHANGED Atomic!vars
  <1>1. \A u \in Thread : resBar'[u] = resBar[u]
    BY CallOthersBar
  <1>2. resBar = [u \in Thread |-> resBar[u]] /\ resBar' = [u \in Thread |-> resBar'[u]]
    BY DEF resBar
  <1>3. resBar' = resBar
    BY <1>1, <1>2
  <1> QED
    BY <1>3 DEF Atomic!vars

\* The answers after one call has got the answer r.
LEMMA Answered ==
  ASSUME MInv, NEW t \in Thread, CallOthersKept(t), NEW r, resBar'[t] = r
  PROVE  resBar' = [resBar EXCEPT ![t] = r]
  <1>1. \A u \in Thread \ {t} : resBar'[u] = resBar[u]
    BY CallOthersBar
  <1>2. /\ resBar = [u \in Thread |-> resBar[u]] /\ resBar' = [u \in Thread |-> resBar'[u]]
        /\ DOMAIN resBar = Thread
    BY DEF resBar
  <1>3. \A u \in Thread : resBar'[u] = [resBar EXCEPT ![t] = r][u]
    BY <1>1, <1>2
  <1> QED
    BY <1>2, <1>3

\* A step of a call that is not decided before or after it, and does not change the memory.
LEMMA BarIdle ==
  ASSUME MInv, MInv', NEW t \in Thread, CallOthersKept(t), ~Decided(t), ~Decided(t)',
         \A a \in Addr : mem'[a] = mem[a]
  PROVE  memBar' = memBar /\ resBar[t] = result[t] /\ resBar'[t] = result'[t]
  <1>1. \A u \in Thread : (Decided(u)' <=> Decided(u)) /\ (Decided(u) => op'[u] = op[u] /\ match'[u] = match[u])
    BY CallOthersBar
  <1> QED
    BY <1>1, CallBarKept DEF resBar

\* A call begins.
LEMMA CallImplements ==
  ASSUME MInv, MInv', NEW t \in Thread, Call(t) PROVE Atomic!Next
  <1>1. CallOthersKept(t) /\ IInv /\ CallInv
    BY CallStep DEF MInv
  <1>2. pc[t] = "idle" /\ pc' = [pc EXCEPT ![t] = "xbegin"] /\ UNCHANGED mem
    BY DEF Call, Enter, Goto, memVars
  <1>3. pc'[t] = "xbegin"
    BY <1>1, <1>2 DEF IInv, TypeOK
  <1>4. ~Decided(t) /\ ~Decided(t)'
    BY <1>2, <1>3 DEF Decided
  <1>5. memBar' = memBar /\ resBar[t] = result[t] /\ resBar'[t] = result'[t]
    BY <1>1, <1>2, <1>4, BarIdle
  <1>6. result[t] # "pending" /\ result'[t] = "pending"
    BY <1>1, <1>2 DEF Call, CallInv, OpTypes, CallPlace
  <1>7. resBar' = [resBar EXCEPT ![t] = "pending"]
    BY <1>1, <1>5, <1>6, Answered
  <1>8. \E o \in Ops : op' = [op EXCEPT ![t] = o]
    BY DEF Call
  <1>9. Atomic!Invoke(t)
    BY <1>5, <1>6, <1>7, <1>8 DEF Atomic!Invoke
  <1> QED
    BY <1>9 DEF Atomic!Next

\* TM_BEGIN_NO_CONFLICT shows nothing, but that it may give the call up.
LEMMA BeginImplements ==
  ASSUME MInv, MInv', NEW t \in Thread, MBegin(t) PROVE [Atomic!Next]_(Atomic!vars)
  <1>1. CallOthersKept(t) /\ IInv /\ CallInv /\ Begin(t) /\ UNCHANGED op /\ CallPlace(t)
    BY BeginStep DEF MInv, CallInv, MBegin
  <1>2. pc[t] \notin {"idle"} \cup InBody /\ \A a \in Addr : mem'[a] = mem[a]
    BY <1>1, BeginPlace
  <1>3. ~Decided(t)
    BY <1>2 DEF Decided, InBody
  <1>4. ~Decided(t)'
    <2>1. pc'[t] \notin {"end", "unlock"}
      BY <1>1, BeginPlace
    <2>2. pc'[t] = "body" => idx'[t] = 1
      BY <1>1 DEF MBegin, CallInv, OpTypes
    <2>3. N(t)' = N(t) /\ N(t) \in Nat /\ N(t) >= 1
      BY <1>1, <1>2, CallShape DEF N
    <2>4. pc'[t] = "body" => ~(idx'[t] > N(t)')
      BY <2>2, <2>3
    <2> QED
      BY <2>1, <2>4 DEF Decided
  <1>5. memBar' = memBar /\ resBar[t] = result[t] /\ resBar'[t] = result'[t]
    BY <1>1, <1>2, <1>3, <1>4, BarIdle
  <1>6. result[t] = "pending" /\ result'[t] = IF pc'[t] = "idle" THEN "conflict" ELSE result[t]
    BY <1>1, <1>2 DEF MBegin, CallInv, OpTypes, CallPlace
  <1>7. CASE pc'[t] = "idle"
    <2>1. resBar' = [resBar EXCEPT ![t] = "conflict"]
      BY <1>1, <1>5, <1>6, <1>7, Answered
    <2>2. Atomic!Conflict(t)
      BY <1>1, <1>5, <1>6, <2>1 DEF Atomic!Conflict
    <2> QED
      BY <2>2 DEF Atomic!Next
  <1>8. CASE pc'[t] # "idle"
    BY <1>1, <1>5, <1>6, <1>8, CallUnseen
  <1> QED
    BY <1>7, <1>8

\* A call whose words all agree has the effect of Mcas, whose memory is m and becomes n.
LEMMA SucceedsBy ==
  ASSUME MInv, MInv', NEW t \in Thread,
         \A i \in Words(t) : memBar[op[t][i].addr] = op[t][i].old,
         \A i \in Words(t) : memBar'[op[t][i].addr] = op[t][i].new,
         \A a \in Addr : ~Target(t, a) => memBar'[a] = memBar[a]
  PROVE  Atomic!Matches(memBar, op[t]) /\ memBar' = Atomic!Updated(memBar, op[t])
  <1>1. Words(t) = DOMAIN op[t] /\ \A i, j \in Words(t) : op[t][i].addr = op[t][j].addr => i = j
    BY CallShape DEF MInv
  <1>2. Atomic!Matches(memBar, op[t])
    BY <1>1 DEF Atomic!Matches
  <1>3. /\ memBar' = [a \in Addr |-> memBar'[a]] /\ DOMAIN memBar = Addr
        /\ Atomic!Updated(memBar, op[t]) =
             [a \in Addr |-> IF a \in Atomic!Targets(op[t]) THEN op[t][Atomic!NewOf(op[t], a)].new ELSE memBar[a]]
    <2>1. memBar' = [a \in Addr |-> memBar'[a]]
      BY CallBarsNext DEF CallBarFacts
    <2>2. DOMAIN memBar = Addr
      BY DEF memBar
    <2>3. Atomic!Updated(memBar, op[t]) = [a \in DOMAIN memBar |->
            IF a \in Atomic!Targets(op[t]) THEN op[t][Atomic!NewOf(op[t], a)].new ELSE memBar[a]]
      BY DEF Atomic!Updated
    <2> QED
      BY <2>1, <2>2, <2>3
  <1>4. \A a \in Addr : memBar'[a] =
          IF a \in Atomic!Targets(op[t]) THEN op[t][Atomic!NewOf(op[t], a)].new ELSE memBar[a]
    <2>1. ASSUME NEW a \in Addr, NEW i \in Words(t), op[t][i].addr = a
          PROVE  a \in Atomic!Targets(op[t]) /\ memBar'[a] = op[t][Atomic!NewOf(op[t], a)].new
      <3>1. Atomic!NewOf(op[t], a) = i
        BY <1>1, <2>1 DEF Atomic!NewOf
      <3> QED
        BY <1>1, <2>1, <3>1 DEF Atomic!Targets
    <2>2. ASSUME NEW a \in Addr, ~Target(t, a) PROVE a \notin Atomic!Targets(op[t]) /\ memBar'[a] = memBar[a]
      BY <1>1, <2>2 DEF Atomic!Targets, Target
    <2> QED
      BY <2>1, <2>2 DEF Target
  <1> QED
    BY <1>2, <1>3, <1>4

\* A comparison shows nothing, but that of the last word under the lock.
LEMMA CompareImplements ==
  ASSUME MInv, MInv', NEW t \in Thread, Compare(t) PROVE [Atomic!Next]_(Atomic!vars)
  <1>1. CallOthersKept(t) /\ IInv /\ CallInv /\ UNCHANGED <<op, result>> /\ CallPlace(t)
    BY CompareStep DEF MInv, CallInv, Compare
  <1>2. UNCHANGED <<mem, tx, pc>> /\ pc[t] = "body" /\ idx[t] \in Words(t)
    BY Compared DEF Compare, BodyLoad
  <1>3. N(t) \in Nat /\ N(t)' = N(t) /\ Words(t)' = Words(t)
    BY <1>1, CallShape DEF N, Words
  <1>4. ~(idx[t] > N(t))
    BY <1>2, <1>3 DEF Words
  <1>5. ~Decided(t) /\ result[t] = "pending" /\ resBar[t] = "pending"
    BY <1>1, <1>2, <1>4 DEF Decided, CallPlace, resBar
  <1>6. CASE ~Decided(t)'
    <2>1. memBar' = memBar /\ resBar'[t] = resBar[t]
      BY <1>1, <1>2, <1>5, <1>6, BarIdle
    <2> QED
      BY <1>1, <2>1, CallUnseen
  <1>7. CASE Decided(t)'
    <2>1. Owns(t) /\ Owns(t)' /\ ~tx[t] /\ idx'[t] > N(t)
      BY <1>2, <1>3, <1>7 DEF Decided, Owns
    <2>2. \A u \in Thread : Decided(u) => FALSE
      BY <1>1, <1>5, <2>1 DEF Decided, IInv, LockInv
    <2>3. \A a \in Addr : memBar[a] = mem[a]
      BY <2>2, CallBars DEF CallBarFacts
    <2>4. OwnCall(t)'
      BY DEF MInv, CallInv
    <2>5. \A i \in Words(t) : op[t][i].addr \in Addr
      BY <1>1, CallShape
    <2>6. CASE match'[t]
      <3>1. idx'[t] = N(t) + 1
        <4>1. PICK stop \in ShortCircuit : idx' = [idx EXCEPT ![t] =
                IF ~match'[t] /\ (stop \/ idx[t] = N(t)) THEN Done(t) ELSE idx[t] + 1]
          <5>1. match'[t] = (match[t] /\ Load(t, op[t][idx[t]].addr) = op[t][idx[t]].old)
            BY <1>1 DEF Compare, CallInv, OpTypes
          <5> QED
            BY <5>1 DEF Compare
        <4>2. idx'[t] = idx[t] + 1
          BY <1>1, <2>6, <4>1 DEF CallInv, OpTypes
        <4> QED
          BY <1>2, <1>3, <2>1, <4>2 DEF Words
      <3>2. \A i \in Words(t) : i < idx'[t] /\ ~(N(t) + i < idx'[t])
        BY <1>3, <3>1 DEF Words
      <3>3. \A i \in Words(t) : mem[op[t][i].addr] = op[t][i].old
        BY <1>1, <1>2, <1>3, <2>1, <2>4, <2>6, <3>2 DEF OwnCall, InBody
      <3>4. /\ \A i \in Words(t) : memBar'[op[t][i].addr] = op[t][i].new
            /\ \A a \in Addr : ~Target(t, a) => memBar'[a] = mem[a]
        <4>1. /\ \A i \in Words(t)' : memBar'[op'[t][i].addr] = op'[t][i].new
              /\ \A a \in Addr : ~Target(t, a)' => memBar'[a] = mem'[a]
          BY <1>7, <2>6, CallBarsNext DEF CallBarFacts
        <4> QED
          BY <1>1, <1>2, <1>3, <4>1 DEF Target
      <3>5. Atomic!Matches(memBar, op[t]) /\ memBar' = Atomic!Updated(memBar, op[t])
        BY <2>3, <2>5, <3>3, <3>4, SucceedsBy
      <3>6. resBar' = [resBar EXCEPT ![t] = "true"]
        <4>1. resBar'[t] = "true"
          BY <1>7, <2>6 DEF resBar
        <4> QED
          BY <1>1, <4>1, Answered
      <3>7. Atomic!Succeed(t)
        BY <1>1, <1>5, <3>5, <3>6 DEF Atomic!Succeed
      <3> QED
        BY <3>7 DEF Atomic!Next
    <2>7. CASE ~match'[t]
      <3>1. \E i \in Words(t) : mem[op[t][i].addr] # op[t][i].old
        BY <1>1, <1>2, <1>3, <2>1, <2>4, <2>7 DEF OwnCall, InBody
      <3>2. ~Atomic!Matches(memBar, op[t])
        BY <1>1, <2>3, <2>5, <3>1, CallShape DEF Atomic!Matches
      <3>3. memBar' = memBar
        <4>1. \A u \in Thread : ~(Decided(u)' /\ match'[u])
          BY <1>1, <2>2, <2>7, CallOthersBar
        <4>2. \A a \in Addr : memBar'[a] = mem'[a]
          BY <4>1, CallBarsNext DEF CallBarFacts
        <4> QED
          BY <1>2, <2>3, <4>2 DEF memBar
      <3>4. resBar' = [resBar EXCEPT ![t] = "mismatch"]
        <4>1. resBar'[t] = "mismatch"
          BY <1>7, <2>7 DEF resBar
        <4> QED
          BY <1>1, <4>1, Answered
      <3>5. Atomic!Mismatch(t)
        BY <1>1, <1>5, <3>2, <3>3, <3>4 DEF Atomic!Mismatch
      <3> QED
        BY <3>5 DEF Atomic!Next
    <2> QED
      BY <2>6, <2>7
  <1> QED
    BY <1>6, <1>7

\* A store shows nothing: it was decided, or is in the buffer.
LEMMA WriteImplements ==
  ASSUME MInv, MInv', NEW t \in Thread, Write(t) PROVE [Atomic!Next]_(Atomic!vars)
  <1> DEFINE j == idx[t] - N(t)
             o == op[t][j]
  <1>1. CallOthersKept(t) /\ IInv /\ CallInv /\ UNCHANGED <<op, match, result>> /\ CallPlace(t)
    BY WriteStep DEF MInv, CallInv, Write
  <1>2. BodyStore(t, o.addr, o.new) /\ pc[t] = "body"
    BY DEF Write, BodyStore
  <1>3. N(t) \in Nat /\ N(t)' = N(t) /\ idx[t] \in N(t) + 1 .. 2 * N(t) /\ idx'[t] = idx[t] + 1
    BY <1>1, CallShape DEF N, Write, CallInv, OpTypes
  <1>4. j \in Words(t) /\ idx[t] > N(t) /\ idx'[t] > N(t)
    BY <1>3 DEF Words
  <1>5. o.addr \in Addr /\ match[t] /\ Target(t, o.addr)
    BY <1>1, <1>2, <1>3, <1>4, CallShape DEF CallPlace, InBody, Target
  <1> HIDE DEF o
  <1>6. /\ Decided(t)' <=> Decided(t)
        /\ \A a \in Addr : mem'[a] = mem[a] \/ (Decided(t) /\ a = o.addr)
    <2>1. CASE tx[t]
      <3>1. UNCHANGED <<mem, tx>>
        BY <1>2, <2>1 DEF BodyStore, Store
      <3> QED
        BY <2>1, <3>1 DEF Decided, Owns
    <2>2. CASE ~tx[t]
      <3>1. mem' = [mem EXCEPT ![o.addr] = o.new] /\ Publish(t, {o.addr}, "body")
        BY <1>2, <2>2 DEF BodyStore, Store
      <3>2. {o.addr} \in SUBSET Word /\ "body" \in PC
        BY <1>5 DEF PC
      <3>3. pc'[t] = "body" /\ ~tx'[t]
        BY <1>1, <3>1, <3>2, PublishEffect DEF IInv, Published
      <3>4. Decided(t) /\ Decided(t)'
        BY <1>2, <1>3, <1>4, <2>2, <3>3 DEF Decided, Owns
      <3> QED
        BY <1>1, <3>1, <3>4 DEF IInv, TypeOK
    <2> QED
      BY <2>1, <2>2
  <1>7. memBar' = memBar
    <2>1. \A u \in Thread : (Decided(u)' <=> Decided(u)) /\ (Decided(u) => op'[u] = op[u] /\ match'[u] = match[u])
      BY <1>1, <1>6, CallOthersBar
    <2>2. \A a \in Addr : mem'[a] = mem[a] \/ \E u \in Thread : Decided(u) /\ match[u] /\ Target(u, a)
      BY <1>5, <1>6
    <2> QED
      BY <2>1, <2>2, CallBarKept
  <1>8. resBar'[t] = resBar[t]
    BY <1>1, <1>6 DEF resBar
  <1> QED
    BY <1>1, <1>7, <1>8, CallUnseen

\* Nor does what does not change the memory.
LEMMA QuietImplements ==
  ASSUME MInv, MInv', NEW t \in Thread, CallOthersKept(t), UNCHANGED <<op, match, result, mem>>,
         Decided(t)' <=> Decided(t)
  PROVE  UNCHANGED Atomic!vars
  <1>1. \A u \in Thread : (Decided(u)' <=> Decided(u)) /\ (Decided(u) => op'[u] = op[u] /\ match'[u] = match[u])
    BY CallOthersBar
  <1>2. memBar' = memBar /\ resBar'[t] = resBar[t]
    BY <1>1, CallBarKept DEF resBar
  <1> QED
    BY <1>2, CallUnseen

\* Unlocking shows nothing: all that was decided has been stored.
LEMMA UnlockImplements ==
  ASSUME MInv, MInv', NEW t \in Thread, MEnd(t), Unlock(t) PROVE UNCHANGED Atomic!vars
  <1>1. CallOthersKept(t) /\ IInv /\ CallInv /\ UNCHANGED op /\ CallPlace(t) /\ OwnCall(t)
    BY EndStep DEF MInv, CallInv, MEnd
  <1>2. pc[t] = "unlock" /\ ~tx[t]
    BY <1>1 DEF Unlock, IInv, TxInv
  <1>3. N(t) \in Nat /\ idx[t] = Done(t)
    BY <1>1, <1>2, CallShape DEF CallPlace
  <1>4. Decided(t)
    BY <1>2, <1>3 DEF Decided, Owns, Done
  <1>5. mem' = [mem EXCEPT ![Lock] = 0] /\ Publish(t, {Lock}, "idle")
    BY <1>2 DEF Unlock, Store
  <1>6. pc'[t] = "idle"
    <2>1. {Lock} \in SUBSET Word /\ "idle" \in PC
      BY DEF PC
    <2> QED
      BY <1>1, <1>5, <2>1, PublishEffect DEF IInv, Published
  <1>7. \A a \in Addr : mem'[a] = mem[a]
    BY <1>1, <1>5, AddrAssumption DEF IInv, TypeOK
  <1>8. \A u \in Thread : Decided(u) => u = t
    BY <1>1, <1>4 DEF Decided, IInv, LockInv
  <1>9. \A a \in Addr : memBar[a] = mem[a]
    <2>1. CASE match[t]
      <3>1. \A i \in Words(t) : i < idx[t] /\ N(t) + i < idx[t]
        BY <1>3 DEF Words, Done
      <3>2. \A i \in Words(t) : mem[op[t][i].addr] = op[t][i].new
        BY <1>1, <1>2, <1>4, <2>1, <3>1 DEF OwnCall, InBody, Decided
      <3>3. /\ \A i \in Words(t) : memBar[op[t][i].addr] = op[t][i].new
            /\ \A a \in Addr : ~Target(t, a) => memBar[a] = mem[a]
        BY <1>4, <2>1, CallBars DEF CallBarFacts
      <3> QED
        BY <3>2, <3>3 DEF Target
    <2>2. CASE ~match[t]
      BY <1>8, <2>2, CallBars DEF CallBarFacts
    <2> QED
      BY <2>1, <2>2
  <1>10. \A a \in Addr : memBar'[a] = mem'[a]
    <2>1. ~Decided(t)'
      BY <1>6 DEF Decided
    <2>2. \A u \in Thread : ~(Decided(u)' /\ match'[u])
      BY <1>1, <1>8, <2>1, CallOthersBar
    <2> QED
      BY <2>2, CallBarsNext DEF CallBarFacts
  <1>11. memBar' = memBar
    <2>1. memBar = [a \in Addr |-> memBar[a]] /\ memBar' = [a \in Addr |-> memBar'[a]]
      BY CallBars, CallBarsNext DEF CallBarFacts
    <2> QED
      BY <1>7, <1>9, <1>10, <2>1
  <1>12. resBar'[t] = resBar[t]
    <2>1. result'[t] = IF match[t] THEN "true" ELSE "mismatch"
      BY <1>1, <1>6 DEF MEnd, CallInv, OpTypes
    <2>2. ~Decided(t)'
      BY <1>6 DEF Decided
    <2> QED
      BY <1>4, <2>1, <2>2 DEF resBar
  <1> QED
    BY <1>1, <1>11, <1>12, CallUnseen

\* A commit is the call's one visible step.
LEMMA XendImplements ==
  ASSUME MInv, MInv', NEW t \in Thread, MEnd(t), Xend(t) PROVE Atomic!Next
  <1>1. CallOthersKept(t) /\ IInv /\ CallInv /\ UNCHANGED op /\ CallPlace(t) /\ TxCall(t)
    BY EndStep DEF MInv, CallInv, MEnd
  <1>2. pc[t] = "xend" /\ tx[t]
    BY <1>1 DEF Xend, IInv, TxInv
  <1>3. N(t) \in Nat /\ idx[t] = Done(t) /\ N(t)' = N(t) /\ result[t] = "pending"
    BY <1>1, <1>2, CallShape DEF CallPlace, N
  <1>4. pc'[t] = "idle"
    <2> DEFINE W == {w \in Word : buf[t][w] # None}
    <2>1. Publish(t, W, "idle") /\ W \in SUBSET Word /\ "idle" \in PC
      BY DEF Xend, PC
    <2> HIDE DEF W
    <2> QED
      BY <1>1, <2>1, PublishEffect DEF IInv, Published
  <1>5. \A u \in Thread : ~Decided(u)
    BY <1>1, <1>2 DEF Decided, IInv, Subscribed, LockInv
  <1>6. \A u \in Thread : ~Decided(u)'
    <2>1. ~Decided(t)'
      BY <1>4 DEF Decided
    <2> QED
      BY <1>1, <1>5, <2>1, CallOthersBar
  <1>7. \A a \in Addr : memBar[a] = mem[a] /\ memBar'[a] = mem'[a]
    BY <1>5, <1>6, CallBars, CallBarsNext DEF CallBarFacts
  <1>8. \A a \in Addr : mem'[a] = IF buf[t][a] # None THEN buf[t][a] ELSE mem[a]
    BY DEF Xend, Load
  <1>9. \A i \in Words(t) : i < idx[t] /\ N(t) + i < idx[t]
    BY <1>3 DEF Words, Done
  <1>10. /\ resBar[t] = "pending"
         /\ resBar'[t] = IF match[t] THEN "true" ELSE "mismatch"
    BY <1>1, <1>3, <1>4, <1>5, <1>6 DEF MEnd, CallInv, OpTypes, resBar
  <1>11. \A i \in Words(t) : op[t][i].addr \in Addr /\ op[t][i].new # None
    BY <1>1, CallShape, ValueAssumption
  <1>12. \A a \in Addr : ~Target(t, a) => mem'[a] = mem[a]
    BY <1>1, <1>2, <1>8 DEF TxCall, InBody, Target
  <1>13. CASE match[t]
    <2>1. \A i \in Words(t) : mem[op[t][i].addr] = op[t][i].old /\ buf[t][op[t][i].addr] = op[t][i].new
      BY <1>1, <1>2, <1>9, <1>13 DEF TxCall, InBody
    <2>2. Atomic!Matches(memBar, op[t]) /\ memBar' = Atomic!Updated(memBar, op[t])
      BY <1>7, <1>8, <1>11, <1>12, <2>1, SucceedsBy
    <2>3. resBar' = [resBar EXCEPT ![t] = "true"]
      BY <1>1, <1>10, <1>13, Answered
    <2>4. Atomic!Succeed(t)
      BY <1>1, <1>10, <2>2, <2>3 DEF Atomic!Succeed
    <2> QED
      BY <2>4 DEF Atomic!Next
  <1>14. CASE ~match[t]
    <2>1. \E i \in Words(t) : mem[op[t][i].addr] # op[t][i].old
      BY <1>1, <1>2, <1>14 DEF TxCall, InBody
    <2>2. ~Atomic!Matches(memBar, op[t])
      BY <1>1, <1>7, <1>11, <2>1, CallShape DEF Atomic!Matches
    <2>3. \A i \in Words(t) : buf[t][op[t][i].addr] = None
      BY <1>1, <1>2, <1>14 DEF TxCall, InBody
    <2>4. memBar' = memBar
      <3>1. \A a \in Addr : mem'[a] = mem[a]
        BY <1>8, <1>12, <2>3 DEF Target
      <3>2. memBar = [a \in Addr |-> memBar[a]] /\ memBar' = [a \in Addr |-> memBar'[a]]
        BY CallBars, CallBarsNext DEF CallBarFacts
      <3> QED
        BY <1>7, <3>1, <3>2
    <2>5. resBar' = [resBar EXCEPT ![t] = "mismatch"]
      BY <1>1, <1>10, <1>14, Answered
    <2>6. Atomic!Mismatch(t)
      BY <1>1, <1>10, <2>2, <2>4, <2>5 DEF Atomic!Mismatch
    <2> QED
      BY <2>6 DEF Atomic!Next
  <1> QED
    BY <1>13, <1>14

\* The initial states are those of Mcas.
LEMMA BeginsAtomic == MInit => Atomic!Init
  <1> SUFFICES ASSUME MInit PROVE Atomic!Init
    OBVIOUS
  <1>1. /\ Init /\ op = [t \in Thread |-> <<>>] /\ result = [t \in Thread |-> "idle"]
    BY DEF MInit
  <1>2. \A t \in Thread : ~Decided(t)
    BY <1>1 DEF Init, Decided
  <1>3. \A a \in Addr : memBar[a] = InitMem[a]
    <2>1. \A a \in Addr : memBar[a] = mem[a]
      BY <1>2, CallBegins, CallBars DEF CallBarFacts
    <2> QED
      BY <1>1, <2>1, AddrAssumption DEF Init
  <1>4. memBar = InitMem
    <2>1. memBar = [a \in Addr |-> memBar[a]]
      BY DEF memBar
    <2> QED
      BY <1>3, <2>1, ValueAssumption
  <1>5. resBar = [t \in Thread |-> "idle"]
    BY <1>1, <1>2 DEF resBar
  <1> QED
    BY <1>1, <1>4, <1>5 DEF Atomic!Init

\* Every step is a step of Mcas or shows nothing.
LEMMA CallStepsAtomic == MInv /\ MInv' /\ [MNext]_mVars => [Atomic!Next]_(Atomic!vars)
  <1> SUFFICES ASSUME MInv, MInv', [MNext]_mVars PROVE [Atomic!Next]_(Atomic!vars)
    OBVIOUS
  <1>1. ASSUME NEW t \in Thread, MLeave(t) PROVE UNCHANGED Atomic!vars
    <2>1. CallOthersKept(t) /\ UNCHANGED <<op, idx, match, result, mem, tx>>
      BY <1>1, LeaveStep DEF MLeave, BodyDone, opVars, memVars
    <2>2. pc[t] = "body" /\ pc'[t] = "end"
      BY <1>1 DEF MLeave, BodyDone, Goto, MInv, IInv, TypeOK
    <2>3. Decided(t)' <=> Decided(t)
      BY <2>1, <2>2 DEF Decided, Owns, N
    <2> QED
      BY <2>1, <2>3, QuietImplements
  <1>2. ASSUME NEW t \in Thread, MEnd(t), EndTest(t) PROVE UNCHANGED Atomic!vars
    <2>1. pc[t] = "end" /\ pc'[t] \in {"unlock", "xend"} /\ UNCHANGED <<mem, tx>>
      BY <1>2 DEF EndTest, Goto, MInv, IInv, TypeOK
    <2>2. CallOthersKept(t) /\ UNCHANGED <<op, idx, match, result>>
      BY <1>2, <2>1, EndStep DEF MEnd
    <2>3. tx[t] \/ pc'[t] = "unlock"
      <3>1. ~tx'[t] => pc'[t] # "xend"
        BY DEF MInv, IInv, TxInv
      <3> QED
        BY <2>1, <3>1
    <2>4. Decided(t)' <=> Decided(t)
      BY <2>1, <2>2, <2>3 DEF Decided, Owns, N
    <2> QED
      BY <2>1, <2>2, <2>4, QuietImplements
  <1>3. ASSUME NEW t \in Thread, HardwareAbort(t), UNCHANGED opVars PROVE UNCHANGED Atomic!vars
    <2>1. tx[t] /\ UNCHANGED mem /\ pc' = [pc EXCEPT ![t] = "aborted"]
      BY <1>3 DEF HardwareAbort, Abort, Goto
    <2>2. pc'[t] = "aborted"
      BY <2>1 DEF MInv, IInv, TypeOK
    <2>3. CallOthersKept(t) /\ UNCHANGED <<op, match, result>>
      BY <1>3, CallAbortStep DEF opVars
    <2>4. Decided(t)' <=> Decided(t)
      BY <2>1, <2>2 DEF Decided, Owns
    <2> QED
      BY <2>1, <2>3, <2>4, QuietImplements
  <1>4. ASSUME UNCHANGED mVars PROVE UNCHANGED Atomic!vars
    <2>1. UNCHANGED <<mem, tx, pc, op, idx, match, result>>
      BY <1>4 DEF mVars, vars, memVars, opVars
    <2>2. \A u \in Thread : Decided(u)' <=> Decided(u)
      BY <2>1 DEF Decided, Owns, N
    <2>3. memBar' = memBar
      BY <2>1, <2>2, CallBarKept
    <2>4. resBar' = resBar
      BY <2>1, <2>2 DEF resBar
    <2> QED
      BY <2>1, <2>3, <2>4 DEF Atomic!vars
  <1>5. ASSUME Terminating, UNCHANGED opVars PROVE UNCHANGED Atomic!vars
    BY <1>4, <1>5 DEF Terminating, mVars
  <1>6. ASSUME NEW t \in Thread, MEnd(t) PROVE [Atomic!Next]_(Atomic!vars)
    BY <1>2, <1>6, UnlockImplements, XendImplements DEF MEnd, End
  <1>7. ASSUME NEW t \in Thread, Step(t) PROVE [Atomic!Next]_(Atomic!vars)
    BY <1>1, <1>6, <1>7, BeginImplements, CompareImplements, WriteImplements DEF Step
  <1>8. ASSUME NEW t \in Thread, Call(t) PROVE Atomic!Next
    BY <1>8, CallImplements
  <1> QED
    BY <1>3, <1>4, <1>5, <1>7, <1>8 DEF MNext

-----------------------------------------------------------------------------
(* The theorems.                                                           *)

\* What a call knows of the words that it has compared and stored is true in every
\* reachable state, and so is what TmProofs shows of the sections.
THEOREM CallsKnow == MSpec => []MInv
  BY CallBegins, CallNext, PTL DEF MSpec

\* The calls of mcas-htm.h are sections of tm.h.
THEOREM CallsAreSections == MSpec => Spec
  <1>1. MInit => Init
    BY DEF MInit
  <1>2. MInv => CallInv
    BY DEF MInv
  <1> QED
    BY <1>1, <1>2, CallsKnow, CallStepOfTm, PTL DEF MSpec, Spec

\* Every call takes effect at one point between its call and its return, on all of its
\* words or on none, whether it runs as a transaction or under the fallback lock.
THEOREM CallsAtomic == MSpec => McasAtomic
  BY CallsKnow, BeginsAtomic, CallStepsAtomic, PTL DEF MSpec, McasAtomic, Atomic!Spec
=============================================================================
