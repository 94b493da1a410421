--------------------------------- MODULE Tm ---------------------------------
(***************************************************************************)
(* The transactional runtime of include/htm/tm.h over Intel RTM.           *)
(*                                                                         *)
(* A critical section starts with TM_BEGIN or TM_BEGIN_NO_CONFLICT and     *)
(* ends with TM_END.  It runs either as a hardware transaction or, after   *)
(* too many aborts, under the global spin lock fallback_lock.  A           *)
(* transaction reads the lock word right after _xbegin, so a thread that   *)
(* takes the lock aborts every transaction in flight.                      *)
(*                                                                         *)
(* The hardware is external to the repository.  A transaction has a read   *)
(* set and a write buffer; it may abort at any time, and it must abort     *)
(* when another thread makes a write to a word it has read or written      *)
(* visible (a commit or a plain store).  Early conflict detection is one   *)
(* of the aborts that may happen at any time.                              *)
(*                                                                         *)
(* Here the critical section is any sequence of loads and stores of data   *)
(* words; McasHtm fixes it to the compare-and-swap operations.             *)
(***************************************************************************)
EXTENDS Naturals, FiniteSets

CONSTANTS
  Thread,        \* the worker threads
  Addr,          \* the data words
  Value,         \* what a data word holds
  InitMem,       \* what the data words hold at the start
  None,          \* marks a word no transaction has buffered a store of
  MAX_RETRIES,   \* tm.h:43
  MaxCalls       \* bound: critical sections each thread runs

ASSUME RetriesAssumption == MAX_RETRIES \in Nat \ {0}
ASSUME CallsAssumption   == MaxCalls \in Nat
ASSUME ValueAssumption   == /\ InitMem \in [Addr -> Value]
                            /\ None \notin Value \cup {0, 1}

Lock == "fallback_lock"
ASSUME AddrAssumption == Lock \notin Addr

Word == Addr \cup {Lock}

NoBuf == [w \in Word |-> None]

VARIABLES
  mem,              \* every shared word, the lock word among them
  times_fallback,   \* the counter of tm.h:13
  tx,               \* is the thread inside a hardware transaction?
  rset,             \* the words its transaction has read
  buf,              \* the stores its transaction has buffered
  pc,               \* where the thread is
  noConflict,       \* did the section start with TM_BEGIN_NO_CONFLICT?
  n_tries, status,  \* the locals of TM_BEGIN; {} is also _XBEGIN_STARTED
  tmp,              \* the value times_fallback++ has loaded
  calls,            \* critical sections the thread has started
  acquired          \* history: how often fallback_lock was taken

memVars == <<mem, tx, rset, buf>>
locals  == <<noConflict, n_tries>>
counts  == <<times_fallback, tmp, acquired>>
vars    == <<memVars, pc, locals, status, counts, calls>>

Status == SUBSET {"EXPLICIT", "RETRY", "CONFLICT"}

PC == {"idle", "xbegin", "subscribe", "aborted", "spin", "exchange",
       "count", "countStore", "body", "end", "unlock", "xend"}

TypeOK ==
  /\ mem \in [Word -> Value \cup {0, 1}]
  /\ times_fallback \in Nat /\ acquired \in Nat
  /\ tx \in [Thread -> BOOLEAN]
  /\ rset \in [Thread -> SUBSET Word]
  /\ buf \in [Thread -> [Word -> Value \cup {0, 1, None}]]
  /\ pc \in [Thread -> PC]
  /\ noConflict \in [Thread -> BOOLEAN]
  /\ n_tries \in [Thread -> Nat]
  /\ status \in [Thread -> Status]
  /\ tmp \in [Thread -> Nat]
  /\ calls \in [Thread -> 0 .. MaxCalls]

Init ==
  /\ mem = [w \in Word |-> IF w = Lock THEN 0 ELSE InitMem[w]]
  /\ times_fallback = 0 /\ acquired = 0
  /\ tx = [t \in Thread |-> FALSE]
  /\ rset = [t \in Thread |-> {}]
  /\ buf = [t \in Thread |-> NoBuf]
  /\ pc = [t \in Thread |-> "idle"]
  /\ noConflict = [t \in Thread |-> FALSE]
  /\ n_tries = [t \in Thread |-> 0]
  /\ status = [t \in Thread |-> {}]
  /\ tmp = [t \in Thread |-> 0]
  /\ calls = [t \in Thread |-> 0]

-----------------------------------------------------------------------------
(* The memory and the transactional hardware.                              *)

\* What a load of w by t returns: its own buffered store, or the shared word.
Load(t, w) == IF buf[t][w] # None THEN buf[t][w] ELSE mem[w]

\* A load inside a transaction puts the word into its read set.
Track(t, w) ==
  rset' = [rset EXCEPT ![t] = IF tx[t] THEN @ \cup {w} ELSE @]

\* The transactions that lose when t makes its stores to W visible.
Losers(t, W) ==
  {u \in Thread \ {t} : tx[u] /\ \E w \in W : w \in rset[u] \/ buf[u][w] # None}

Goto(t, l) == pc' = [pc EXCEPT ![t] = l]

\* t makes its stores to W visible, leaves its transaction if it is in one,
\* and goes to l.
Publish(t, W, l) ==
  LET lost == Losers(t, W) IN
  /\ pc' = [u \in Thread |-> IF u \in lost THEN "aborted"
                             ELSE IF u = t THEN l ELSE pc[u]]
  /\ tx' = [u \in Thread |-> tx[u] /\ u \notin lost \cup {t}]
  /\ rset' = [u \in Thread |-> IF u \in lost \cup {t} THEN {} ELSE rset[u]]
  /\ buf' = [u \in Thread |-> IF u \in lost \cup {t} THEN NoBuf ELSE buf[u]]
  /\ status' = [u \in Thread |-> IF u \in lost THEN {"CONFLICT", "RETRY"}
                                 ELSE status[u]]

\* t stores v into w and goes to l: buffered in a transaction, visible outside.
Store(t, w, v, l) ==
  IF tx[t]
  THEN /\ buf' = [buf EXCEPT ![t][w] = v]
       /\ Goto(t, l)
       /\ UNCHANGED <<mem, tx, rset, status>>
  ELSE /\ mem' = [mem EXCEPT ![w] = v]
       /\ Publish(t, {w}, l)

\* t's transaction ends without effect; _xbegin returns the status s.
Abort(t, s) ==
  /\ Goto(t, "aborted")
  /\ tx' = [tx EXCEPT ![t] = FALSE]
  /\ rset' = [rset EXCEPT ![t] = {}]
  /\ buf' = [buf EXCEPT ![t] = NoBuf]
  /\ status' = [status EXCEPT ![t] = s]
  /\ UNCHANGED mem

\* An abort the program did not ask for: a conflict seen early, a capacity
\* limit, an interrupt.
HardwareAbort(t) ==
  /\ tx[t]
  /\ \E s \in SUBSET {"RETRY", "CONFLICT"} : Abort(t, s)
  /\ UNCHANGED <<locals, counts, calls>>

-----------------------------------------------------------------------------
(* TM_BEGIN and TM_BEGIN_NO_CONFLICT.                                      *)

Enter(t, nc) ==
  /\ pc[t] = "idle" /\ calls[t] < MaxCalls
  /\ calls' = [calls EXCEPT ![t] = @ + 1]
  /\ noConflict' = [noConflict EXCEPT ![t] = nc]
  /\ n_tries' = [n_tries EXCEPT ![t] = 0]
  /\ status' = [status EXCEPT ![t] = {"EXPLICIT"}]
  /\ Goto(t, "xbegin")
  /\ UNCHANGED <<memVars, counts>>

Xbegin(t) ==
  /\ pc[t] = "xbegin"
  /\ n_tries' = [n_tries EXCEPT ![t] = @ + 1]
  /\ tx' = [tx EXCEPT ![t] = TRUE]
  /\ status' = [status EXCEPT ![t] = {}]
  /\ Goto(t, "subscribe")
  /\ UNCHANGED <<mem, rset, buf, noConflict, counts, calls>>

\* Faulty Subscribe: the lock was tested before _xbegin, outside the transaction.
SubscribeUntracked(t) ==
  /\ pc[t] = "subscribe"
  /\ IF Load(t, Lock) = 0
     THEN Goto(t, "body") /\ UNCHANGED <<memVars, status>>
     ELSE Abort(t, {"EXPLICIT"})
  /\ UNCHANGED <<locals, counts, calls>>

\* The transaction reads the lock word; a held lock makes it abort itself.
Subscribe(t) ==
  /\ pc[t] = "subscribe"
  /\ IF Load(t, Lock) = 0
     THEN Track(t, Lock) /\ Goto(t, "body") /\ UNCHANGED <<mem, tx, buf, status>>
     ELSE Abort(t, {"EXPLICIT"})
  /\ UNCHANGED <<locals, counts, calls>>

\* TM_BEGIN_NO_CONFLICT gives up on a conflict before it waits for the lock.
GiveUp(t) ==
  /\ pc[t] = "aborted" /\ noConflict[t] /\ "CONFLICT" \in status[t]
  /\ Goto(t, "idle")
  /\ UNCHANGED <<memVars, locals, status, counts, calls>>

\* Faulty Retry: > instead of >= MAX_RETRIES.
RetryOnceMore(t) ==
  LET explicit == "EXPLICIT" \in status[t]
      tries    == IF explicit THEN n_tries[t] - 1 ELSE n_tries[t]
      useLock  == (~explicit /\ "RETRY" \notin status[t]) \/ tries > MAX_RETRIES
  IN
  /\ pc[t] = "aborted" /\ ~(noConflict[t] /\ "CONFLICT" \in status[t])
  /\ Load(t, Lock) = 0
  /\ n_tries' = [n_tries EXCEPT ![t] = tries]
  /\ Goto(t, IF useLock THEN "spin" ELSE "xbegin")
  /\ UNCHANGED <<memVars, noConflict, status, counts, calls>>

\* Wait until the lock is free, then choose between another transaction and
\* the lock.  An explicit abort does not count as a try.
Retry(t) ==
  LET explicit == "EXPLICIT" \in status[t]
      tries    == IF explicit THEN n_tries[t] - 1 ELSE n_tries[t]
      useLock  == \/ ~explicit /\ "RETRY" \notin status[t]
                  \/ tries >= MAX_RETRIES
  IN
  /\ pc[t] = "aborted" /\ ~(noConflict[t] /\ "CONFLICT" \in status[t])
  /\ Load(t, Lock) = 0
  /\ n_tries' = [n_tries EXCEPT ![t] = tries]
  /\ Goto(t, IF useLock THEN "spin" ELSE "xbegin")
  /\ UNCHANGED <<memVars, noConflict, status, counts, calls>>

\* spinlock_lock: test, then exchange, and test again when the exchange lost.
Spin(t) ==
  /\ pc[t] = "spin" /\ Load(t, Lock) = 0
  /\ Goto(t, "exchange")
  /\ UNCHANGED <<memVars, locals, status, counts, calls>>

\* Faulty Exchange: its result is not tested.
ExchangeUntested(t) ==
  /\ pc[t] = "exchange"
  /\ Store(t, Lock, 1, "count")
  /\ acquired' = acquired + (1 - mem[Lock])
  /\ UNCHANGED <<locals, times_fallback, tmp, calls>>

\* Faulty Exchange: TM_BEGIN forgets times_fallback++.
ExchangeUncounted(t) ==
  /\ pc[t] = "exchange"
  /\ Store(t, Lock, 1, IF mem[Lock] # 0 THEN "spin"
                       ELSE IF noConflict[t] THEN "count" ELSE "body")
  /\ acquired' = acquired + (1 - mem[Lock])
  /\ UNCHANGED <<locals, times_fallback, tmp, calls>>

Exchange(t) ==
  /\ pc[t] = "exchange"
  /\ Store(t, Lock, 1, IF mem[Lock] = 0 THEN "count" ELSE "spin")
  /\ acquired' = acquired + (1 - mem[Lock])
  /\ UNCHANGED <<locals, times_fallback, tmp, calls>>

\* times_fallback++ is a load and a store of a plain global.
CountLoad(t) ==
  /\ pc[t] = "count"
  /\ tmp' = [tmp EXCEPT ![t] = times_fallback]
  /\ Goto(t, "countStore")
  /\ UNCHANGED <<memVars, locals, status, times_fallback, acquired, calls>>

CountStore(t) ==
  /\ pc[t] = "countStore"
  /\ times_fallback' = tmp[t] + 1
  /\ Goto(t, "body")
  /\ UNCHANGED <<memVars, locals, status, tmp, acquired, calls>>

-----------------------------------------------------------------------------
(* The critical section of an arbitrary client, and TM_END.                *)

BodyLoad(t, a) ==
  /\ pc[t] = "body"
  /\ Track(t, a)
  /\ UNCHANGED <<mem, tx, buf, pc, locals, status, counts, calls>>

BodyStore(t, a, v) ==
  /\ pc[t] = "body"
  /\ Store(t, a, v, "body")
  /\ UNCHANGED <<locals, counts, calls>>

BodyDone(t) ==
  /\ pc[t] = "body"
  /\ Goto(t, "end")
  /\ UNCHANGED <<memVars, locals, status, counts, calls>>

\* Faulty EndTest: it looks at the status of the last _xbegin, which is also 0
\* after an abort without a reason.
EndTestByStatus(t) ==
  /\ pc[t] = "end"
  /\ Goto(t, IF status[t] # {} THEN "unlock" ELSE "xend")
  /\ UNCHANGED <<memVars, locals, status, counts, calls>>

\* TM_END tells the two paths apart by the lock word alone.
EndTest(t) ==
  /\ pc[t] = "end"
  /\ Track(t, Lock)
  /\ Goto(t, IF Load(t, Lock) # 0 THEN "unlock" ELSE "xend")
  /\ UNCHANGED <<mem, tx, buf, locals, status, counts, calls>>

\* Faulty Unlock: the lock word stays set.
UnlockForgotten(t) ==
  /\ pc[t] = "unlock"
  /\ Store(t, Lock, 1, "idle")
  /\ UNCHANGED <<locals, counts, calls>>

Unlock(t) ==
  /\ pc[t] = "unlock"
  /\ Store(t, Lock, 0, "idle")
  /\ UNCHANGED <<locals, counts, calls>>

\* _xend publishes the write buffer in one step.
Xend(t) ==
  /\ pc[t] = "xend"
  /\ mem' = [w \in Word |-> Load(t, w)]
  /\ Publish(t, {w \in Word : buf[t][w] # None}, "idle")
  /\ UNCHANGED <<locals, counts, calls>>

Begin(t) == Xbegin(t) \/ Subscribe(t) \/ GiveUp(t) \/ Retry(t) \/ Spin(t)
            \/ Exchange(t) \/ CountLoad(t) \/ CountStore(t)
End(t)   == EndTest(t) \/ Unlock(t) \/ Xend(t)
Body(t)  == \/ \E a \in Addr : BodyLoad(t, a)
            \/ \E a \in Addr, v \in Value : BodyStore(t, a, v)
            \/ BodyDone(t)

Finished == \A t \in Thread : pc[t] = "idle" /\ calls[t] = MaxCalls
Terminating == Finished /\ UNCHANGED vars

Next ==
  \/ \E t \in Thread :
       \/ \E nc \in BOOLEAN : Enter(t, nc)
       \/ Begin(t) \/ Body(t) \/ End(t) \/ HardwareAbort(t)
  \/ Terminating

Spec == Init /\ [][Next]_vars

-----------------------------------------------------------------------------
(* Properties.                                                             *)

\* The threads that own fallback_lock.
Owns(t) == ~tx[t] /\ pc[t] \in {"count", "countStore", "body", "end", "unlock"}

\* At most one thread runs its section under the fallback lock, and the lock
\* word is set exactly while one does (tm.h:29-38, 176).
FallbackExclusive ==
  /\ \A t, u \in Thread : Owns(t) /\ Owns(u) => t = u
  /\ mem[Lock] = IF \E t \in Thread : Owns(t) THEN 1 ELSE 0

\* No transaction is past its test of the lock word while a thread runs under
\* the lock: the word is in the read set of each of them (tm.h:61, 124).
FallbackIsolated ==
  \A t, u \in Thread : Owns(t) /\ tx[u] => pc[u] = "subscribe"

\* TM_END, which looks only at the lock word, unlocks exactly when this thread
\* holds the lock and commits exactly when it is in a transaction (tm.h:182).
EndTakesTheRightPath ==
  \A t \in Thread : /\ pc[t] = "unlock" => ~tx[t]
                    /\ pc[t] = "xend" => tx[t]

\* While a thread keeps the fallback lock, only its own stores change a data
\* word: what it has read stays true until it stores or unlocks.
FallbackUndisturbed ==
  [][\A t \in Thread :
        Owns(t) /\ Owns(t)' /\ (\E a \in Addr : mem'[a] # mem[a])
          => \E a \in Addr, v \in Value : BodyStore(t, a, v)]_vars

\* times_fallback is exact although it is a plain, unlocked increment of a
\* global: it is made under the lock (tm.h:109, 177).
FallbackCounted ==
  times_fallback + Cardinality({t \in Thread : pc[t] \in {"count", "countStore"}})
    = acquired

\* The number of counted tries never passes MAX_RETRIES, and no transaction is
\* started once it has been reached; explicit aborts are taken back
\* (tm.h:70-78, 137-146).
TriesBounded ==
  \A t \in Thread : /\ n_tries[t] <= MAX_RETRIES
                    /\ pc[t] = "xbegin" => n_tries[t] < MAX_RETRIES
=============================================================================
