------------------------ MODULE McasArraySwapProofs -------------------------
(***************************************************************************)
(* Proofs about McasArraySwap, for every set of threads and of rows: swap  *)
(* implements SwapSpec, and the array stays a permutation.                 *)
(***************************************************************************)
EXTENDS McasArraySwap, TLAPS

-----------------------------------------------------------------------------
(* The inductive invariant.                                                *)

Storing(t) == pc[t] \in {"storeA", "storeB"}

\* global_cas_lock is held exactly by the thread that is storing.
OwnerInv == \A t \in Thread : Storing(t) <=> owner = t

\* Past its test a swap has two different rows; a swap in progress was called.
ArgsInv ==
  \A t \in Thread : /\ pc[t] \notin {"idle", "test"} => index_a[t] # index_b[t]
                    /\ pc[t] # "idle" => calls[t] # 0

\* From its comparison to its last store the owner knows what is in its rows.
RowsInv ==
  \A t \in Thread :
    /\ Storing(t) => array[index_b[t]] = addr_b[t]
    /\ pc[t] = "storeA" => array[index_a[t]] = addr_a[t]
    /\ pc[t] = "storeB" => array[index_a[t]] = addr_b[t]

Inv == TypeOK /\ OwnerInv /\ ArgsInv /\ RowsInv

\* The initial states satisfy the invariant.
LEMMA InitInv == Init => Inv
BY RowAssumption, ThreadAssumption, SwapsAssumption
   DEF Init, Inv, TypeOK, PC, AnyRow, OwnerInv, Storing, ArgsInv, RowsInv

\* Every step keeps the invariant.
LEMMA NextInv == Inv /\ [Next]_vars => Inv'
<1> SUFFICES ASSUME Inv, [Next]_vars PROVE Inv'
  OBVIOUS
<1> USE ThreadAssumption
    DEF Inv, TypeOK, PC, OwnerInv, Storing, ArgsInv, RowsInv, Goto, args, addrs
<1>1. CASE UNCHANGED vars
  BY <1>1 DEF vars
<1>2. ASSUME NEW t \in Thread, NEW a \in Row, NEW b \in Row, Call(t, a, b) PROVE Inv'
  BY <1>2, SwapsAssumption DEF Call
<1>3. ASSUME NEW t \in Thread, Test(t) PROVE Inv'
  BY <1>3 DEF Test
<1>4. ASSUME NEW t \in Thread, LoadA(t) PROVE Inv'
  BY <1>4 DEF LoadA
<1>5. ASSUME NEW t \in Thread, LoadB(t) PROVE Inv'
  BY <1>5 DEF LoadB
<1>6. ASSUME NEW t \in Thread, DcasCompare(t) PROVE Inv'
  BY <1>6 DEF DcasCompare
<1>7. ASSUME NEW t \in Thread, DcasConflict(t) PROVE Inv'
  BY <1>7 DEF DcasConflict
<1>8. ASSUME NEW t \in Thread, StoreA(t) PROVE Inv'
  BY <1>8 DEF StoreA
<1>9. ASSUME NEW t \in Thread, StoreB(t) PROVE Inv'
  BY <1>9 DEF StoreB
<1> QED
  BY <1>1, <1>2, <1>3, <1>4, <1>5, <1>6, <1>7, <1>8, <1>9 DEF Next, Step, Terminating

\* The invariant holds in every reachable state.
THEOREM Invariance == Spec => []Inv
BY InitInv, NextInv, PTL DEF Spec

\* The variables keep their types.
THEOREM TypeCorrect == Spec => []TypeOK
<1>1. Inv => TypeOK
  BY DEF Inv
<1> QED
  BY <1>1, Invariance, PTL

-----------------------------------------------------------------------------
(* The refinement.                                                         *)

\* The settled array is the array, with the one store of a half made dcas undone.
Settles ==
  /\ (\A t \in Thread : pc[t] # "storeB") => arrayBar = array
  /\ \A t \in Thread :
       pc[t] = "storeB" => arrayBar = [array EXCEPT ![index_a[t]] = addr_a[t]]

LEMMA BarSettles == Inv => Settles
<1> SUFFICES ASSUME Inv PROVE Settles
  OBVIOUS
<1>1. ASSUME \A t \in Thread : pc[t] # "storeB" PROVE arrayBar = array
  BY <1>1 DEF arrayBar, Inv, TypeOK
<1>2. ASSUME NEW t \in Thread, pc[t] = "storeB"
      PROVE  arrayBar = [array EXCEPT ![index_a[t]] = addr_a[t]]
  <2>1. \A u \in Thread : pc[u] = "storeB" => u = t
    BY <1>2 DEF Inv, OwnerInv, Storing
  <2>2. \A r \in Row :
          (\E u \in Thread : pc[u] = "storeB" /\ index_a[u] = r) <=> index_a[t] = r
    BY <1>2, <2>1
  <2>3. \A r \in Row : index_a[t] = r =>
          (CHOOSE u \in Thread : pc[u] = "storeB" /\ index_a[u] = r) = t
    BY <1>2, <2>1
  <2> QED
    BY <2>2, <2>3 DEF arrayBar, Inv, TypeOK
<1> QED
  BY <1>1, <1>2 DEF Settles

\* The same of the next state.
LEMMA BarSettlesNext == Inv /\ [Next]_vars => Inv' /\ Settles /\ Settles'
<1>1. Inv' => Settles'
  BY BarSettles, PTL
<1> QED
  BY <1>1, BarSettles, NextInv

\* The requests and states SwapSpec sees.
reqBar   == [t \in Thread |-> IF calls[t] = 0 THEN <<>> ELSE <<index_a[t], index_b[t]>>]
stateBar == [t \in Thread |-> IF pc[t] = "idle" THEN "idle" ELSE "pending"]

\* A call is an invocation.
LEMMA CallRefines ==
  ASSUME Inv, Settles, Settles', NEW t \in Thread, NEW a \in Row, NEW b \in Row, Call(t, a, b)
  PROVE  Abstract!Invoke(t, a, b)
<1> USE DEF Call, Goto, Inv, TypeOK, args, addrs
<1>1. arrayBar' = arrayBar
  <2>1. CASE \A u \in Thread : pc[u] # "storeB"
    BY <2>1 DEF Settles
  <2>2. ASSUME NEW u \in Thread, pc[u] = "storeB" PROVE arrayBar' = arrayBar
    BY <2>2 DEF Settles
  <2> QED
    BY <2>1, <2>2
<1>2. reqBar' = [reqBar EXCEPT ![t] = <<a, b>>]
  <2>1. calls'[t] # 0 /\ index_a'[t] = a /\ index_b'[t] = b
    BY SwapsAssumption
  <2>2. \A u \in Thread \ {t} : /\ calls'[u] = calls[u]
                                /\ index_a'[u] = index_a[u] /\ index_b'[u] = index_b[u]
    OBVIOUS
  <2>3. reqBar' = [u \in Thread |-> IF u = t THEN <<a, b>> ELSE reqBar[u]]
    BY <2>1, <2>2, Zenon DEF reqBar
  <2> QED
    BY <2>3, Zenon DEF reqBar
<1>3. stateBar[t] = "idle" /\ stateBar' = [stateBar EXCEPT ![t] = "pending"]
  BY DEF stateBar, PC
<1> QED
  BY <1>1, <1>2, <1>3 DEF Abstract!Invoke, reqBar, stateBar

\* A step of a thread that goes on without a store changes nothing SwapSpec sees.
LEMMA QuietRefines ==
  ASSUME Inv, Settles, Settles', NEW t \in Thread,
         NEW l \in PC \ {"idle", "storeB"}, Goto(t, l), pc[t] \notin {"idle", "storeB"},
         UNCHANGED <<array, args, calls>>,
         \A u \in Thread \ {t} : addr_a'[u] = addr_a[u]
  PROVE  UNCHANGED Abstract!vars
<1> USE DEF Goto, Inv, TypeOK, args
<1>1. arrayBar' = arrayBar
  <2>1. CASE \A u \in Thread : pc[u] # "storeB"
    BY <2>1 DEF Settles
  <2>2. ASSUME NEW u \in Thread, pc[u] = "storeB" PROVE arrayBar' = arrayBar
    BY <2>2 DEF Settles
  <2> QED
    BY <2>1, <2>2
<1>2. UNCHANGED reqBar
  BY DEF reqBar
<1>3. UNCHANGED stateBar
  BY DEF stateBar
<1> QED
  BY <1>1, <1>2, <1>3 DEF Abstract!vars, reqBar, stateBar

\* The test of a = b either goes on or is the swap of a row with itself.
LEMMA TestRefines ==
  ASSUME Inv, Settles, Settles', NEW t \in Thread, Test(t)
  PROVE  Abstract!Swap(t) \/ UNCHANGED Abstract!vars
<1>1. CASE index_a[t] # index_b[t]
  BY <1>1, QuietRefines DEF Test, PC, args, addrs
<1>2. CASE index_a[t] = index_b[t]
  <2> USE <1>2 DEF Test, Goto, Inv, TypeOK, args, addrs
  <2>1. arrayBar' = arrayBar /\ arrayBar \in [Row -> Row]
    <3>1. CASE \A u \in Thread : pc[u] # "storeB"
      BY <3>1 DEF Settles
    <3>2. ASSUME NEW u \in Thread, pc[u] = "storeB"
          PROVE  arrayBar' = arrayBar /\ arrayBar \in [Row -> Row]
      BY <3>2 DEF Settles
    <3> QED
      BY <3>1, <3>2
  <2>2. reqBar' = reqBar /\ reqBar[t] = <<index_a[t], index_a[t]>>
    BY DEF reqBar, ArgsInv
  <2>3. stateBar[t] = "pending" /\ stateBar' = [stateBar EXCEPT ![t] = "idle"]
    BY DEF stateBar
  <2>4. arrayBar' = [arrayBar EXCEPT ![index_a[t]] = arrayBar[index_a[t]],
                                     ![index_a[t]] = arrayBar[index_a[t]]]
    BY <2>1
  <2> QED
    BY <2>1, <2>2, <2>3, <2>4 DEF Abstract!Swap, reqBar, stateBar
<1> QED
  BY <1>1, <1>2

\* The first store of dcas is undone in the settled array.
LEMMA StoreARefines ==
  ASSUME Inv, Settles, Settles', NEW t \in Thread, StoreA(t)
  PROVE  UNCHANGED Abstract!vars
<1> USE DEF StoreA, Goto, Inv, TypeOK, args, addrs
<1>1. arrayBar = array
  <2>1. \A u \in Thread : pc[u] # "storeB"
    BY DEF OwnerInv, Storing
  <2> QED
    BY <2>1 DEF Settles
<1>2. arrayBar' = array
  <2>1. pc'[t] = "storeB"
    OBVIOUS
  <2>2. arrayBar' = [array' EXCEPT ![index_a[t]] = addr_a[t]]
    BY <2>1 DEF Settles
  <2> QED
    BY <2>2 DEF RowsInv
<1>3. UNCHANGED reqBar
  BY DEF reqBar
<1>4. UNCHANGED stateBar
  BY DEF stateBar
<1> QED
  BY <1>1, <1>2, <1>3, <1>4 DEF Abstract!vars, reqBar, stateBar

\* The second store is the swap.
LEMMA StoreBRefines ==
  ASSUME Inv, Settles, Settles', NEW t \in Thread, StoreB(t)
  PROVE  Abstract!Swap(t)
<1> DEFINE a == index_a[t]  b == index_b[t]
<1> USE DEF StoreB, Goto, Inv, TypeOK, args, addrs
<1>0. a # b
  BY DEF ArgsInv
<1>1. arrayBar = [array EXCEPT ![a] = addr_a[t]]
  BY DEF Settles
<1>2. arrayBar' = [array EXCEPT ![b] = addr_a[t]]
  <2>1. \A u \in Thread : pc'[u] # "storeB"
    BY DEF OwnerInv, Storing
  <2> QED
    BY <2>1 DEF Settles
<1>3. array[a] = addr_b[t] /\ array[b] = addr_b[t]
  BY DEF RowsInv, Storing
<1>4. arrayBar' = [arrayBar EXCEPT ![a] = arrayBar[b], ![b] = arrayBar[a]]
  BY <1>0, <1>1, <1>2, <1>3
<1>5. reqBar' = reqBar /\ reqBar[t] = <<a, b>>
  BY DEF reqBar, ArgsInv
<1>6. stateBar[t] = "pending" /\ stateBar' = [stateBar EXCEPT ![t] = "idle"]
  BY DEF stateBar
<1> QED
  BY <1>4, <1>5, <1>6 DEF Abstract!Swap, reqBar, stateBar

\* Every step is a step of SwapSpec or changes nothing it sees.
LEMMA NextRefines == Inv /\ [Next]_vars => [Abstract!Next]_(Abstract!vars)
<1> SUFFICES ASSUME Inv, [Next]_vars PROVE Abstract!Next \/ UNCHANGED Abstract!vars
  OBVIOUS
<1>0. Inv' /\ Settles /\ Settles'
  BY BarSettlesNext
<1>1. CASE UNCHANGED vars
  BY <1>1 DEF vars, args, addrs, Abstract!vars, arrayBar
<1>2. ASSUME NEW t \in Thread, NEW a \in Row, NEW b \in Row, Call(t, a, b)
      PROVE  Abstract!Next
  BY <1>0, <1>2, CallRefines DEF Abstract!Next
<1>3. ASSUME NEW t \in Thread, Test(t) PROVE Abstract!Next \/ UNCHANGED Abstract!vars
  BY <1>0, <1>3, TestRefines DEF Abstract!Next
<1>4. ASSUME NEW t \in Thread, LoadA(t) \/ LoadB(t) \/ DcasCompare(t) \/ DcasConflict(t)
      PROVE  UNCHANGED Abstract!vars
  BY <1>0, <1>4, QuietRefines DEF LoadA, LoadB, DcasCompare, DcasConflict, Goto, PC,
     args, addrs, Inv, TypeOK
<1>5. ASSUME NEW t \in Thread, StoreA(t) PROVE UNCHANGED Abstract!vars
  BY <1>0, <1>5, StoreARefines
<1>6. ASSUME NEW t \in Thread, StoreB(t) PROVE Abstract!Next
  BY <1>0, <1>6, StoreBRefines DEF Abstract!Next
<1> QED
  BY <1>1, <1>2, <1>3, <1>4, <1>5, <1>6 DEF Next, Step, Terminating

\* The initial states are initial states of SwapSpec.
LEMMA InitRefines == Init => Abstract!Init
<1> SUFFICES ASSUME Init PROVE Abstract!Init
  OBVIOUS
<1>1. arrayBar = [r \in Row |-> r]
  BY DEF Init, arrayBar
<1>2. reqBar = [t \in Thread |-> <<>>]
  BY DEF Init, reqBar
<1>3. stateBar = [t \in Thread |-> "idle"]
  BY DEF Init, stateBar
<1> QED
  BY <1>1, <1>2, <1>3 DEF Abstract!Init, reqBar, stateBar

\* swap on unlocked loads and dcas exchanges its rows in one step.
THEOREM Refinement == Spec => SwapAtomic
BY InitRefines, NextRefines, Invariance, PTL DEF Spec, SwapAtomic, Abstract!Spec

-----------------------------------------------------------------------------
(* The permutation.                                                        *)

\* Exchanging two rows of a permutation gives a permutation.
LEMMA ExchangeKeepsPermutation ==
  ASSUME NEW f \in [Row -> Row], NEW a \in Row, NEW b \in Row,
         \A r, s \in Row : f[r] = f[s] => r = s,
         \A e \in Row : \E r \in Row : f[r] = e,
         NEW g, g = [f EXCEPT ![a] = f[b], ![b] = f[a]]
  PROVE  /\ \A r, s \in Row : g[r] = g[s] => r = s
         /\ \A e \in Row : \E r \in Row : g[r] = e
<1>1. g[a] = f[b] /\ g[b] = f[a]
  OBVIOUS
<1>2. \A r \in Row \ {a, b} : g[r] = f[r]
  OBVIOUS
<1>3. \A r, s \in Row : g[r] = g[s] => r = s
  BY <1>1, <1>2
<1>4. ASSUME NEW e \in Row PROVE \E r \in Row : g[r] = e
  <2>1. PICK r \in Row : f[r] = e
    OBVIOUS
  <2> QED
    BY <1>1, <1>2, <2>1
<1> QED
  BY <1>3, <1>4

\* A step of SwapSpec keeps the permutation.
LEMMA NextPermutation == Inv /\ [Next]_vars /\ Permutation => Permutation'
<1> SUFFICES ASSUME Inv, [Next]_vars, Permutation PROVE Permutation'
  OBVIOUS
<1>1. arrayBar \in [Row -> Row]
  <2>1. Settles
    BY BarSettles
  <2>2. CASE \A u \in Thread : pc[u] # "storeB"
    BY <2>1, <2>2 DEF Settles, Inv, TypeOK
  <2>3. ASSUME NEW u \in Thread, pc[u] = "storeB" PROVE arrayBar \in [Row -> Row]
    BY <2>1, <2>3 DEF Settles, Inv, TypeOK
  <2> QED
    BY <2>2, <2>3
<1>2. CASE arrayBar' = arrayBar
  BY <1>2 DEF Permutation
<1>3. ASSUME NEW t \in Thread, Abstract!Swap(t) PROVE Permutation'
  <2> DEFINE a == reqBar[t][1]  b == reqBar[t][2]
  <2>1. a \in Row /\ b \in Row
    <3>1. reqBar[t] = <<index_a[t], index_b[t]>>
      BY <1>3 DEF Abstract!Swap, reqBar, Inv, ArgsInv
    <3> QED
      BY <3>1 DEF Inv, TypeOK
  <2>2. arrayBar' = [arrayBar EXCEPT ![a] = arrayBar[b], ![b] = arrayBar[a]]
    BY <1>3 DEF Abstract!Swap, reqBar
  <2> HIDE DEF a, b
  <2> QED
    BY <1>1, <2>1, <2>2, ExchangeKeepsPermutation DEF Permutation
<1>4. Abstract!Next \/ UNCHANGED Abstract!vars
  BY NextRefines
<1> QED
  BY <1>2, <1>3, <1>4 DEF Abstract!Next, Abstract!Invoke, Abstract!vars

\* No element is lost or in two rows, however many swaps overlap.
THEOREM AlwaysPermutation == Spec => []Permutation
<1>1. Init => Permutation
  BY DEF Init, Permutation, arrayBar
<1> QED
  BY <1>1, NextPermutation, Invariance, PTL DEF Spec
=============================================================================
