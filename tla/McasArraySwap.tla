--------------------------- MODULE McasArraySwap ----------------------------
(***************************************************************************)
(* lockfree-mcas/array_swap.h: swap loads both rows without a lock and     *)
(* exchanges them with dcas, again and again until dcas succeeds.  dcas is *)
(* the one of mcas-lock.h: it compares and then stores the two words one   *)
(* after the other under global_cas_lock, and the plain loads of other     *)
(* threads run in between.  An element stands for the row it starts in.    *)
(***************************************************************************)
EXTENDS Naturals

CONSTANTS
  Thread,
  Row,           \* the rows of the array, 0 .. NUM_ROWS-1
  NoThread,
  MayConflict,   \* TRUE for mcas-htm*.h: dcas may return false for no reason
  MaxSwaps       \* bound: calls of swap each thread makes

ASSUME ConflictAssumption == MayConflict \in BOOLEAN
ASSUME ThreadAssumption   == NoThread \notin Thread
ASSUME SwapsAssumption    == MaxSwaps \in Nat
ASSUME RowAssumption      == Row # {}

VARIABLES
  array,            \* S->array[r].elements_
  owner,            \* who holds global_cas_lock
  pc,
  index_a, index_b, \* the arguments of swap
  addr_a, addr_b,   \* what it has loaded
  calls             \* calls of swap so far

args  == <<index_a, index_b>>
addrs == <<addr_a, addr_b>>
vars  == <<array, owner, pc, args, addrs, calls>>

PC == {"idle", "test", "loadA", "loadB", "dcas", "storeA", "storeB"}

AnyRow == CHOOSE r \in Row : TRUE    \* what a local holds before its first use

TypeOK ==
  /\ array \in [Row -> Row]
  /\ owner \in Thread \cup {NoThread}
  /\ pc \in [Thread -> PC]
  /\ index_a \in [Thread -> Row] /\ index_b \in [Thread -> Row]
  /\ addr_a \in [Thread -> Row] /\ addr_b \in [Thread -> Row]
  /\ calls \in [Thread -> 0 .. MaxSwaps]

Init ==
  /\ array = [r \in Row |-> r]
  /\ owner = NoThread
  /\ pc = [t \in Thread |-> "idle"]
  /\ index_a = [t \in Thread |-> AnyRow] /\ index_b = index_a
  /\ addr_a = index_a /\ addr_b = index_a
  /\ calls = [t \in Thread |-> 0]

Goto(t, l) == pc' = [pc EXCEPT ![t] = l]

\* Faulty Call: the row index may be NUM_ROWS.
CallPastTheEnd(t, a, b) ==
  /\ pc[t] = "idle" /\ calls[t] < MaxSwaps
  /\ calls' = [calls EXCEPT ![t] = @ + 1]
  /\ index_a' = [index_a EXCEPT ![t] = a]
  /\ index_b' = [index_b EXCEPT ![t] = b + 1]
  /\ Goto(t, "test")
  /\ UNCHANGED <<array, owner, addrs>>

Call(t, a, b) ==
  /\ pc[t] = "idle" /\ calls[t] < MaxSwaps
  /\ calls' = [calls EXCEPT ![t] = @ + 1]
  /\ index_a' = [index_a EXCEPT ![t] = a]
  /\ index_b' = [index_b EXCEPT ![t] = b]
  /\ Goto(t, "test")
  /\ UNCHANGED <<array, owner, addrs>>

\* Swapping a row with itself returns at once.
Test(t) ==
  /\ pc[t] = "test"
  /\ Goto(t, IF index_a[t] = index_b[t] THEN "idle" ELSE "loadA")
  /\ UNCHANGED <<array, owner, args, addrs, calls>>

LoadA(t) ==
  /\ pc[t] = "loadA"
  /\ addr_a' = [addr_a EXCEPT ![t] = array[index_a[t]]]
  /\ Goto(t, "loadB")
  /\ UNCHANGED <<array, owner, args, addr_b, calls>>

LoadB(t) ==
  /\ pc[t] = "loadB"
  /\ addr_b' = [addr_b EXCEPT ![t] = array[index_b[t]]]
  /\ Goto(t, "dcas")
  /\ UNCHANGED <<array, owner, args, addr_a, calls>>

\* Faulty DcasCompare: only row a is compared.
DcasCompareA(t) ==
  /\ pc[t] = "dcas" /\ owner = NoThread
  /\ IF array[index_a[t]] = addr_a[t]
     THEN owner' = t /\ Goto(t, "storeA")
     ELSE Goto(t, "loadA") /\ UNCHANGED owner
  /\ UNCHANGED <<array, args, addrs, calls>>

\* Faulty DcasCompare: the rows are loaded before the loop, once.
DcasCompareStale(t) ==
  /\ pc[t] = "dcas" /\ owner = NoThread
  /\ IF array[index_a[t]] = addr_a[t] /\ array[index_b[t]] = addr_b[t]
     THEN owner' = t /\ Goto(t, "storeA")
     ELSE UNCHANGED <<owner, pc>>
  /\ UNCHANGED <<array, args, addrs, calls>>

\* dcas takes the lock and compares; a difference makes swap load again.
DcasCompare(t) ==
  /\ pc[t] = "dcas" /\ owner = NoThread
  /\ IF array[index_a[t]] = addr_a[t] /\ array[index_b[t]] = addr_b[t]
     THEN owner' = t /\ Goto(t, "storeA")
     ELSE Goto(t, "loadA") /\ UNCHANGED owner
  /\ UNCHANGED <<array, args, addrs, calls>>

\* Faulty DcasConflict: swap returns whatever dcas says.
DcasConflictReturns(t) ==
  /\ MayConflict /\ pc[t] = "dcas"
  /\ Goto(t, "idle")
  /\ UNCHANGED <<array, owner, args, addrs, calls>>

DcasConflict(t) ==
  /\ MayConflict /\ pc[t] = "dcas"
  /\ Goto(t, "loadA")
  /\ UNCHANGED <<array, owner, args, addrs, calls>>

StoreA(t) ==
  /\ pc[t] = "storeA"
  /\ array' = [array EXCEPT ![index_a[t]] = addr_b[t]]
  /\ Goto(t, "storeB")
  /\ UNCHANGED <<owner, args, addrs, calls>>

StoreB(t) ==
  /\ pc[t] = "storeB"
  /\ array' = [array EXCEPT ![index_b[t]] = addr_a[t]]
  /\ owner' = NoThread
  /\ Goto(t, "idle")
  /\ UNCHANGED <<args, addrs, calls>>

Step(t) == Test(t) \/ LoadA(t) \/ LoadB(t) \/ DcasCompare(t) \/ StoreA(t) \/ StoreB(t)

Finished == \A t \in Thread : pc[t] = "idle" /\ calls[t] = MaxSwaps
Terminating == Finished /\ UNCHANGED vars

Next ==
  \/ \E t \in Thread :
       \/ \E a, b \in Row : Call(t, a, b)
       \/ Step(t) \/ DcasConflict(t)
  \/ Terminating

Spec == Init /\ [][Next]_vars

\* Threads are scheduled, and no thread meets a conflict in every dcas.
FairSpec ==
  Spec /\ \A t \in Thread : WF_vars(Step(t)) /\ SF_vars(DcasCompare(t))

-----------------------------------------------------------------------------
(* Properties.                                                             *)

\* The array with the dcas in progress undone.
arrayBar == [r \in Row |->
  IF \E t \in Thread : pc[t] = "storeB" /\ index_a[t] = r
  THEN addr_a[CHOOSE t \in Thread : pc[t] = "storeB" /\ index_a[t] = r]
  ELSE array[r]]

\* Whatever values the unlocked loads return, the array stays a permutation:
\* no element is lost and none is in two rows, except for the one that a dcas
\* in progress has moved once.
Permutation ==
  /\ \A r, s \in Row : arrayBar[r] = arrayBar[s] => r = s
  /\ \A e \in Row : \E r \in Row : arrayBar[r] = e

Abstract == INSTANCE SwapSpec WITH
  array <- arrayBar,
  req   <- [t \in Thread |-> IF calls[t] = 0 THEN <<>> ELSE <<index_a[t], index_b[t]>>],
  state <- [t \in Thread |-> IF pc[t] = "idle" THEN "idle" ELSE "pending"]

\* swap exchanges its rows in one step, although it loads them one at a time
\* and without a lock: an element that moved away and came back is no harm.
SwapAtomic == Abstract!Spec

\* Every swap returns: a dcas fails only because another one has succeeded.
SwapsReturn == \A t \in Thread : pc[t] # "idle" ~> pc[t] = "idle"
=============================================================================
