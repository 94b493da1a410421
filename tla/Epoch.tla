------------------------------- MODULE Epoch --------------------------------
(***************************************************************************)
(* include/flock-lib/flock/epoch.h: epoch-based reclamation.  An operation *)
(* of a structure runs inside with_epoch, which announces the current      *)
(* epoch.  A node that has been unlinked is retired to a list of its       *)
(* thread's pool, and destructed when the epoch has moved on far enough.   *)
(*                                                                         *)
(* Every access to current_epoch and to an announcement is a step.  The    *)
(* lists of a pool belong to its thread; the order of a list does not      *)
(* matter, so a list is a set.  One pool is modelled in full; of the       *)
(* others that share the epoch, only that they call update_epoch.  The     *)
(* structures are the least that they promise: they link new nodes, unlink a node once and then retire it     *)
(* once, and a thread may use whatever was linked at some time since it    *)
(* announced itself.                                                       *)
(***************************************************************************)
EXTENDS Integers

CONSTANTS
  workers,    \* worker ids are 0 .. workers-1
  Node,
  NoNode,
  MaxEpoch    \* bound: current_epoch

ASSUME WorkersAssumption == workers \in Nat /\ MaxEpoch \in Nat
ASSUME NodeAssumption == NoNode \notin Node

Worker == 0 .. workers - 1

VARIABLES
  current_epoch,
  last,       \* the announcements; -1 is none
  pc,
  e,          \* announce: the epoch loaded
  current_e,  \* update_epoch: the epoch loaded
  i,          \* update_epoch: the next announcement to look at
  p,          \* the node being retired
  old, current, epoch,   \* the pool of each worker
  linked,     \* nodes that can be found from the roots of the structure
  cut,        \* nodes unlinked and not yet retired
  free,       \* nodes not allocated
  reach       \* what each thread inside with_epoch may hold a pointer to

epochVars  == <<current_epoch, last>>
updateVars == <<current_e, i>>
poolVars   == <<old, current, epoch, p>>
clientVars == <<linked, cut, reach>>
vars == <<epochVars, updateVars, poolVars, clientVars, free, pc, e>>

\* Between announce and unannounce.
InEpoch(t) == pc[t] \notin {"out", "exchange", "check"}

Types ==
  /\ current_epoch \in 0 .. MaxEpoch
  /\ last \in [Worker -> -1 .. MaxEpoch]
  /\ pc \in [Worker -> {"out", "exchange", "check", "in", "test", "clear", "move",
                        "tick", "update", "scan", "compare", "cas", "add"}]
  /\ e \in [Worker -> 0 .. MaxEpoch]
  /\ current_e \in [Worker -> 0 .. MaxEpoch]
  /\ i \in [Worker -> 0 .. workers]
  /\ p \in [Worker -> Node \cup {NoNode}]
  /\ old \in [Worker -> SUBSET Node] /\ current \in [Worker -> SUBSET Node]
  /\ epoch \in [Worker -> 0 .. MaxEpoch]
  /\ linked \subseteq Node /\ cut \subseteq Node /\ free \subseteq Node
  /\ reach \in [Worker -> SUBSET Node]

\* Every retired node is in one list of one pool.
OnePlace ==
  /\ linked \cap cut = {} /\ linked \cap free = {} /\ cut \cap free = {}
  /\ \A t \in Worker :
       /\ (old[t] \cup current[t] \cup {p[t]}) \cap (linked \cup cut \cup free) = {}
       /\ old[t] \cap current[t] = {} /\ p[t] \notin old[t] \cup current[t]
       /\ \A u \in Worker \ {t} :
            (old[t] \cup current[t] \cup {p[t]}) \cap (old[u] \cup current[u] \cup {p[u]}) \subseteq {NoNode}

TypeOK == Types /\ OnePlace

Init ==
  /\ current_epoch = 0 /\ last = [t \in Worker |-> -1]
  /\ pc = [t \in Worker |-> "out"] /\ e = [t \in Worker |-> 0]
  /\ current_e = [t \in Worker |-> 0] /\ i = [t \in Worker |-> 0]
  /\ p = [t \in Worker |-> NoNode]
  /\ old = [t \in Worker |-> {}] /\ current = [t \in Worker |-> {}]
  /\ epoch = [t \in Worker |-> 0]
  /\ linked = {} /\ cut = {} /\ free = Node
  /\ reach = [t \in Worker |-> {}]

Goto(t, l) == pc' = [pc EXCEPT ![t] = l]

-----------------------------------------------------------------------------
(* announce and unannounce.                                                *)

AnnounceLoad(t) ==
  /\ pc[t] = "out"
  /\ e' = [e EXCEPT ![t] = current_epoch]
  /\ Goto(t, "exchange")
  /\ UNCHANGED <<epochVars, updateVars, poolVars, clientVars, free>>

AnnounceExchange(t) ==
  /\ pc[t] = "exchange"
  /\ last' = [last EXCEPT ![t] = e[t]]
  /\ Goto(t, "check")
  /\ UNCHANGED <<current_epoch, updateVars, poolVars, clientVars, free, e>>

\* Faulty AnnounceCheck: announce returns without it.
AnnounceUnchecked(t) ==
  /\ pc[t] = "check"
  /\ Goto(t, "in") /\ reach' = [reach EXCEPT ![t] = linked]
  /\ e' = [e EXCEPT ![t] = 0]
  /\ UNCHANGED <<epochVars, updateVars, poolVars, linked, cut, free>>

\* The announcement counts if the epoch has not moved; else load it again
\* (line 101).
AnnounceCheck(t) ==
  /\ pc[t] = "check"
  /\ \/ current_epoch = e[t] /\ Goto(t, "in") /\ reach' = [reach EXCEPT ![t] = linked]
     \/ current_epoch # e[t] /\ Goto(t, "out") /\ UNCHANGED reach
  /\ e' = [e EXCEPT ![t] = 0]
  /\ UNCHANGED <<epochVars, updateVars, poolVars, linked, cut, free>>

Unannounce(t) ==
  /\ pc[t] = "in"
  /\ last' = [last EXCEPT ![t] = -1]
  /\ Goto(t, "out")
  /\ reach' = [reach EXCEPT ![t] = {}]
  /\ UNCHANGED <<current_epoch, updateVars, poolVars, linked, cut, free, e>>

-----------------------------------------------------------------------------
(* The structure.                                                          *)

\* new_obj, and the store that links the node.
New(t, n) ==
  /\ pc[t] = "in" /\ n \in free
  /\ free' = free \ {n} /\ linked' = linked \cup {n}
  /\ reach' = [u \in Worker |-> IF InEpoch(u) THEN reach[u] \cup {n} ELSE reach[u]]
  /\ UNCHANGED <<epochVars, updateVars, poolVars, cut, pc, e>>

Unlink(t, n) ==
  /\ pc[t] = "in" /\ n \in linked
  /\ linked' = linked \ {n} /\ cut' = cut \cup {n}
  /\ UNCHANGED <<epochVars, updateVars, poolVars, reach, free, pc, e>>

Retire(t, n) ==
  /\ pc[t] = "in" /\ n \in cut
  /\ cut' = cut \ {n} /\ p' = [p EXCEPT ![t] = n]
  /\ Goto(t, "test")
  /\ UNCHANGED <<epochVars, updateVars, old, current, epoch, linked, reach, free, e>>

-----------------------------------------------------------------------------
(* add_to_current_list: advance_epoch, and the new link.                   *)

Test(t) ==
  /\ pc[t] = "test"
  /\ Goto(t, IF epoch[t] + 1 < current_epoch THEN "clear" ELSE "tick")
  /\ UNCHANGED <<epochVars, updateVars, poolVars, clientVars, free, e>>

\* Faulty ClearList: the lists are swapped before one is cleared, not after.
ClearListCurrent(t) ==
  /\ pc[t] = "clear"
  /\ \/ \E n \in current[t] :
          /\ current' = [current EXCEPT ![t] = @ \ {n}]
          /\ free' = free \cup {n}
          /\ UNCHANGED pc
     \/ current[t] = {} /\ Goto(t, "move") /\ UNCHANGED <<current, free>>
  /\ UNCHANGED <<epochVars, updateVars, old, epoch, p, clientVars, e>>

\* clear_list destructs one node.
ClearList(t) ==
  /\ pc[t] = "clear"
  /\ \/ \E n \in old[t] :
          /\ old' = [old EXCEPT ![t] = @ \ {n}]
          /\ free' = free \cup {n}
          /\ UNCHANGED pc
     \/ old[t] = {} /\ Goto(t, "move") /\ UNCHANGED <<old, free>>
  /\ UNCHANGED <<epochVars, updateVars, current, epoch, p, clientVars, e>>

\* Faulty Move: pid.current is not reset.
MoveNoReset(t) ==
  /\ pc[t] = "move"
  /\ old' = [old EXCEPT ![t] = current[t]]
  /\ epoch' = [epoch EXCEPT ![t] = current_epoch]
  /\ Goto(t, "tick")
  /\ UNCHANGED <<epochVars, updateVars, current, p, clientVars, free, e>>

\* Lines 254-256.
Move(t) ==
  /\ pc[t] = "move"
  /\ old' = [old EXCEPT ![t] = current[t]]
  /\ current' = [current EXCEPT ![t] = {}]
  /\ epoch' = [epoch EXCEPT ![t] = current_epoch]
  /\ Goto(t, "tick")
  /\ UNCHANGED <<epochVars, updateVars, p, clientVars, free, e>>

\* A retire to another pool calls update_epoch.
OtherPool(t) ==
  /\ pc[t] = "in"
  /\ Goto(t, "update")
  /\ UNCHANGED <<epochVars, updateVars, poolVars, clientVars, free, e>>

\* The count and the clock may call for update_epoch or not.
Tick(t) ==
  /\ pc[t] = "tick"
  /\ Goto(t, "add") \/ Goto(t, "update")
  /\ UNCHANGED <<epochVars, updateVars, poolVars, clientVars, free, e>>

Add(t) ==
  /\ pc[t] = "add"
  /\ current' = [current EXCEPT ![t] = @ \cup ({p[t]} \ {NoNode})]
  /\ p' = [p EXCEPT ![t] = NoNode]
  /\ current_e' = [current_e EXCEPT ![t] = 0] /\ i' = [i EXCEPT ![t] = 0]
  /\ Goto(t, "in")
  /\ UNCHANGED <<epochVars, old, epoch, clientVars, free, e>>

-----------------------------------------------------------------------------
(* update_epoch.                                                           *)

\* The bound: at MaxEpoch an update gives up at once.
UpdateLoad(t) ==
  /\ pc[t] = "update"
  /\ current_e' = [current_e EXCEPT ![t] = current_epoch]
  /\ i' = [i EXCEPT ![t] = 0]
  /\ Goto(t, IF current_epoch < MaxEpoch THEN "scan" ELSE "add")
  /\ UNCHANGED <<epochVars, poolVars, clientVars, free, e>>

\* Line 131 loads an announcement once to see that it is one ...
Scan(t) ==
  /\ pc[t] = "scan"
  /\ \/ i[t] = workers /\ Goto(t, "cas") /\ UNCHANGED i
     \/ /\ i[t] < workers
        /\ \/ last[i[t]] = -1 /\ i' = [i EXCEPT ![t] = @ + 1] /\ UNCHANGED pc
           \/ last[i[t]] # -1 /\ Goto(t, "compare") /\ UNCHANGED i
  /\ UNCHANGED <<epochVars, current_e, poolVars, clientVars, free, e>>

\* ... and once more to compare it.
Compare(t) ==
  /\ pc[t] = "compare"
  /\ \/ last[i[t]] < current_e[t] /\ Goto(t, "add") /\ UNCHANGED i
     \/ last[i[t]] >= current_e[t] /\ Goto(t, "scan") /\ i' = [i EXCEPT ![t] = @ + 1]
  /\ UNCHANGED <<epochVars, current_e, poolVars, clientVars, free, e>>

UpdateCas(t) ==
  /\ pc[t] = "cas"
  /\ current_epoch' = IF current_epoch = current_e[t] THEN current_e[t] + 1 ELSE current_epoch
  /\ Goto(t, "add")
  /\ UNCHANGED <<last, updateVars, poolVars, clientVars, free, e>>

-----------------------------------------------------------------------------

Step(t) ==
  \/ AnnounceLoad(t) \/ AnnounceExchange(t) \/ AnnounceCheck(t) \/ Unannounce(t)
  \/ \E n \in Node : New(t, n) \/ Unlink(t, n) \/ Retire(t, n)
  \/ Test(t) \/ ClearList(t) \/ Move(t) \/ OtherPool(t) \/ Tick(t) \/ Add(t)
  \/ UpdateLoad(t) \/ Scan(t) \/ Compare(t) \/ UpdateCas(t)

Next == \E t \in Worker : Step(t)

Spec == Init /\ [][Next]_vars

-----------------------------------------------------------------------------
(* Properties.                                                             *)

\* The epoch gets at most one ahead of a thread inside with_epoch, although
\* announcements are read one by one while threads come and go.
PinnedEpoch ==
  \A t \in Worker : InEpoch(t) => last[t] <= current_epoch /\ current_epoch <= last[t] + 1

\* No node that a thread may still use is destructed (acquired_pool.h:11,
\* "does not free until it is safe to do so").
InUseNotFreed == \A t \in Worker : reach[t] \cap free = {}

-----------------------------------------------------------------------------
(* The inductive invariant: what makes the two properties hold.            *)

\* announce has loaded an epoch that is not ahead, and announced that one; an
\* announcement stands until unannounce.
AnnounceInv ==
  \A t \in Worker :
    /\ e[t] <= current_epoch
    /\ pc[t] = "check" => last[t] = e[t]
    /\ InEpoch(t) => last[t] # -1
    /\ reach[t] # {} => InEpoch(t)

\* Who has been passed by a scan announces the scanned epoch or a later one.
Passed(t) == \A u \in 0 .. i[t] - 1 : InEpoch(u) => current_e[t] <= last[u]

ScanInv ==
  \A t \in Worker :
    /\ current_e[t] <= current_epoch
    /\ pc[t] = "cas" => i[t] = workers
    /\ pc[t] = "compare" => i[t] < workers
    /\ pc[t] \in {"scan", "compare", "cas"} => current_e[t] < MaxEpoch /\ Passed(t)

\* A list about to be cleared is two epochs old, and a node in old is used
\* only by threads that announced an epoch no later than its pool's.
PoolInv ==
  \A t \in Worker :
    /\ epoch[t] <= current_epoch
    /\ pc[t] = "clear" => epoch[t] + 1 < current_epoch
    /\ pc[t] = "move" => old[t] = {}
    /\ \A u \in Worker : reach[u] \cap old[t] # {} => last[u] <= epoch[t]

IInv ==
  TypeOK /\ PinnedEpoch /\ InUseNotFreed /\ AnnounceInv /\ ScanInv /\ PoolInv
=============================================================================
