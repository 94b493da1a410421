---------------------------- MODULE HtmArraySwap ----------------------------
(***************************************************************************)
(* htm-lock/array_swap.h: swap exchanges two rows in a critical section of *)
(* Tm that TM_BEGIN starts.  The data words are the rows; an element       *)
(* stands for the row it starts in.                                        *)
(***************************************************************************)
EXTENDS Tm

CONSTANT Pairs    \* the arguments once swap has ordered them: index_a < index_b

ASSUME PairsAssumption == \A p \in Pairs : p \in Addr \X Addr /\ p[1] # p[2]

\* initialize has filled the array; the element of a row is named after it.
ASSUME RowsAssumption == InitMem = [a \in Addr |-> a]

VARIABLES
  rows,    \* the rows each thread swaps, <<>> before its first swap
  next,    \* what its section does next: 1 load a, 2 load b, 3 store a, 4 store b
  temp,    \* the element of row a
  elemB    \* the element of row b

swapVars == <<rows, next, temp, elemB>>
sVars    == <<vars, swapVars>>

SInit ==
  /\ Init
  /\ rows = [t \in Thread |-> <<>>]
  /\ next = [t \in Thread |-> 1]
  /\ temp = [t \in Thread |-> None]
  /\ elemB = [t \in Thread |-> None]

STypeOK ==
  /\ TypeOK
  /\ rows \in [Thread -> Pairs \cup {<<>>}]
  /\ next \in [Thread -> 1 .. 5]
  /\ temp \in [Thread -> Value \cup {None}]
  /\ elemB \in [Thread -> Value \cup {None}]

\* Types, and no section makes a try more than MAX_RETRIES allows.
SectionsOK == STypeOK /\ TriesBounded

Swap(t) ==
  /\ Enter(t, FALSE)
  /\ \E p \in Pairs : rows' = [rows EXCEPT ![t] = p]
  /\ UNCHANGED <<next, temp, elemB>>

\* The section starts over after an abort.
SBegin(t) ==
  /\ Begin(t)
  /\ next' = [next EXCEPT ![t] = IF pc'[t] = "body" THEN 1 ELSE @]
  /\ UNCHANGED <<rows, temp, elemB>>

Advance(t, n) == next[t] = n /\ next' = [next EXCEPT ![t] = n + 1]

\* Faulty LoadA: row a was loaded before the transaction.
LoadAOutside(t) ==
  /\ Advance(t, 1) /\ pc[t] = "body"
  /\ temp' = [temp EXCEPT ![t] = Load(t, rows[t][1])]
  /\ UNCHANGED <<vars, rows, elemB>>

LoadA(t) ==
  /\ Advance(t, 1) /\ BodyLoad(t, rows[t][1])
  /\ temp' = [temp EXCEPT ![t] = Load(t, rows[t][1])]
  /\ UNCHANGED <<rows, elemB>>

LoadB(t) ==
  /\ Advance(t, 2) /\ BodyLoad(t, rows[t][2])
  /\ elemB' = [elemB EXCEPT ![t] = Load(t, rows[t][2])]
  /\ UNCHANGED <<rows, temp>>

StoreA(t) ==
  /\ Advance(t, 3) /\ BodyStore(t, rows[t][1], elemB[t])
  /\ UNCHANGED <<rows, temp, elemB>>

StoreB(t) ==
  /\ Advance(t, 4) /\ BodyStore(t, rows[t][2], temp[t])
  /\ UNCHANGED <<rows, temp, elemB>>

SLeave(t) ==
  /\ next[t] = 5 /\ BodyDone(t)
  /\ UNCHANGED swapVars

\* TM_END; swap returns and its locals die.
SEnd(t) ==
  /\ End(t)
  /\ IF pc'[t] = "idle"
     THEN /\ next' = [next EXCEPT ![t] = 1]
          /\ temp' = [temp EXCEPT ![t] = None]
          /\ elemB' = [elemB EXCEPT ![t] = None]
     ELSE UNCHANGED <<next, temp, elemB>>
  /\ UNCHANGED rows

SBody(t) == LoadA(t) \/ LoadB(t) \/ StoreA(t) \/ StoreB(t) \/ SLeave(t)
SStep(t) == SBegin(t) \/ SBody(t) \/ SEnd(t)

SNext ==
  \/ \E t \in Thread :
       Swap(t) \/ SStep(t) \/ (HardwareAbort(t) /\ UNCHANGED swapVars)
  \/ Terminating /\ UNCHANGED swapVars

SSpec == SInit /\ [][SNext]_sVars

SFairSpec == SSpec /\ \A t \in Thread : WF_sVars(SStep(t))

-----------------------------------------------------------------------------
(* Properties.                                                             *)

\* The thread that has stored only row a under the fallback lock.
Halfway(t) == Owns(t) /\ pc[t] = "body" /\ next[t] = 4

\* The array with such an exchange undone.
arrayBar == [r \in Addr |->
  IF \E t \in Thread : Halfway(t) /\ rows[t][1] = r
  THEN temp[CHOOSE t \in Thread : Halfway(t) /\ rows[t][1] = r]
  ELSE mem[r]]

\* The thread that has stored both rows under the fallback lock and still holds it.
Settled(t) == Owns(t) /\ pc[t] \in {"body", "end", "unlock"} /\ next[t] = 5

stateBar == [t \in Thread |-> IF pc[t] = "idle" \/ Settled(t) THEN "idle" ELSE "pending"]

Abstract == INSTANCE SwapSpec WITH
  Row <- Addr, array <- arrayBar, req <- rows, state <- stateBar

\* Every swap exchanges its rows once and in one step between its call and its
\* return: when its transaction commits, or under the lock with its second store.
SwapAtomic == Abstract!Spec

\* Every swap returns: TM_BEGIN retries a bounded number of times and then
\* takes the lock, which is always given back.
SwapsReturn == \A t \in Thread : pc[t] # "idle" ~> pc[t] = "idle"
=============================================================================
