------------------------- MODULE FlockMcasStructures -------------------------
(***************************************************************************)
(* flock-mcas/{Deque,BinarySearchTree}.h: the Snark deque and the tree of  *)
(* lockfree-mcas, with sections under flock locks for their dcas and cas.  *)
(*                                                                         *)
(* The memory of the deque is that of epoch.h: root.lists has the old and  *)
(* current list of each thread's pool, and root.pool what clear_list has   *)
(* destructed, which new_obj gives out again.                              *)
(***************************************************************************)
EXTENDS McasTree, HtmMcasStructures, FlockStructures

-----------------------------------------------------------------------------
(* Deque.h.  A hat's lock is that of the node -1 or -2.                    *)

Front(t) == My(t).op \in {"push_front", "pop_front"}
Hat(t)   == IF Front(t) THEN "LeftHat" ELSE "RightHat"
Other(t) == IF Front(t) THEN "RightHat" ELSE "LeftHat"
Out(t)   == IF Front(t) THEN "L" ELSE "R"
In(t)    == IF Front(t) THEN "R" ELSE "L"
HatLock(hat) == IF hat = "LeftHat" THEN -1 ELSE -2

\* A deque of the given keys, whose nodes were pushed to the back.
SnarkFilled(keys) ==
  <<SnarkNode(0, Dummy, Dummy)>> \o
  [i \in DOMAIN keys |-> SnarkNode(keys[i], i, IF i = Len(keys) THEN Dummy ELSE i + 2)]
SnarkRoot(keys) ==
  [LeftHat |-> IF keys = <<>> THEN Dummy ELSE 2, RightHat |-> Len(keys) + 1, pool |-> {},
   lists |-> [t \in Thread |-> [old |-> {}, current |-> {}, last |-> Null]]]

\* Nobody has been inside with_epoch since t's pool was last moved, when last was
\* retired: the epoch can then have got two ahead.
EpochMoved(t) ==
  root.lists[t].last # Null =>
    \A u \in Thread : "gone" \in DOMAIN loc[u] => root.lists[t].last \in loc[u].gone

\* retire, which may move the pool's lists and clear the old one.
SnarkRetire(t, n) ==
  LET lists == root.lists[t] IN
  /\ freed' = freed \cup {n}
  /\ \/ root' = [root EXCEPT !.lists[t].current = @ \cup {n}]
     \/ /\ EpochMoved(t)
        /\ root' = [root EXCEPT !.lists[t] = [old |-> lists.current, current |-> {n}, last |-> n],
                                !.pool = @ \cup lists.old]

\* What a thread inside with_epoch must not see no longer has n, a node made anew.
Anew(u, n) == IF "gone" \in DOMAIN loc[u] THEN [loc[u] EXCEPT !.gone = @ \ {n}] ELSE loc[u]

SnarkNew(t) ==
  /\ Start(t, "deque", {"push_front", "push_back"})
  /\ \E n \in {New} \cup root.pool :
       LET node == SnarkNode(My(t).key, IF Front(t) THEN Dummy ELSE Null, IF Front(t) THEN Null ELSE Dummy)
       IN /\ heap' = IF n = New THEN Append(heap, node) ELSE [heap EXCEPT ![n] = node]
          /\ root' = [root EXCEPT !.pool = @ \ {n}] /\ freed' = freed \ {n}
          /\ pc' = [pc EXCEPT ![t] = "hat"] /\ UNCHANGED lin
          /\ loc' = [u \in Thread |-> IF u = t THEN [node |-> n] @@ Anew(u, n) ELSE Anew(u, n)]

SnarkPopStart(t) ==
  Start(t, "deque", {"pop_front", "pop_back"}) /\ Jump(t, "hat") /\ UNCHANGED mem

Popping(t) == My(t).op \in {"pop_front", "pop_back"}
Last(t)    == My(t)[Out(t)] = My(t).curr     \* there is no node

\* The hat and, with it, its node: in mode any it may be null or destructed.
SnarkHat(t) ==
  LET h == root[Hat(t)] IN
  /\ At(t, "hat")
  /\ IF h = Null \/ h \in root.pool THEN Fault(t)
     ELSE Go(t, IF Popping(t) THEN "load L" ELSE "load out", [curr |-> h]) /\ UNCHANGED mem

SnarkOut(t) ==
  At(t, "load out") /\ Go(t, "mine", Out(t) :> heap[My(t).curr][Out(t)]) /\ UNCHANGED mem

SnarkL(t) == At(t, "load L") /\ Go(t, "load R", [L |-> heap[My(t).curr].L]) /\ UNCHANGED mem

SnarkR(t) ==
  LET r == heap[My(t).curr].R
      last == My(t).curr = IF Front(t) THEN My(t).L ELSE r
  IN At(t, "load R") /\ Go(t, IF last THEN "empty?" ELSE "lock hat", [R |-> r]) /\ UNCHANGED mem

SnarkEmpty(t) ==
  /\ At(t, "empty?") /\ UNCHANGED mem
  /\ IF root[Hat(t)] = My(t).curr THEN Return(t, -1) ELSE Jump(t, "hat")

SnarkMine(t) ==
  /\ At(t, "mine") /\ Jump(t, "lock hat")
  /\ Write([heap EXCEPT ![My(t).node][In(t)] = IF Last(t) THEN Dummy ELSE My(t).curr])

SnarkLockHat(t) ==
  /\ At(t, "lock hat") /\ UNCHANGED mem
  /\ IF Locked(HatLock(Hat(t))) THEN Jump(t, "hat")
     ELSE Go(t, "lock two", [locks |-> {HatLock(Hat(t))}])

\* The second lock: a first node is pushed to both hats.
Second(t) == IF Last(t) THEN HatLock(Other(t)) ELSE My(t).curr
Unchanged(t) ==
  /\ root[Hat(t)] = My(t).curr
  /\ ~Last(t) => heap[My(t).curr][Out(t)] = My(t)[Out(t)]
  /\ Popping(t) => heap[My(t).curr][In(t)] = My(t)[In(t)]

SnarkLockTwo(t) ==
  /\ At(t, "lock two")
  /\ IF Locked(Second(t)) \/ ~Unchanged(t) THEN Go(t, "hat", [locks |-> {}]) /\ UNCHANGED mem
     ELSE /\ WriteRoot([root EXCEPT ![Hat(t)] = IF Popping(t) THEN My(t)[In(t)] ELSE My(t).node])
          /\ Go(t, IF Popping(t) THEN "cut" ELSE "join", [locks |-> My(t).locks \cup {Second(t)}])

SnarkJoin(t) ==
  /\ At(t, "join") /\ Return(t, 0)
  /\ IF Last(t) THEN WriteRoot([root EXCEPT ![Other(t)] = My(t).node])
     ELSE Write([heap EXCEPT ![My(t).curr][Out(t)] = My(t).node])

SnarkCut(t) ==
  /\ At(t, "cut") /\ Jump(t, "cut more")
  /\ Write([heap EXCEPT ![My(t).curr][In(t)] = My(t).curr])

\* The node is retired, though the other hat or a neighbour may still point at it.
SnarkCutMore(t) ==
  LET n == My(t).curr IN
  /\ At(t, "cut more") /\ Return(t, heap[n].key)
  /\ heap' = [heap EXCEPT ![n][Out(t)] = n] /\ SnarkRetire(t, n)

-----------------------------------------------------------------------------
(* BinarySearchTree.h: what it does otherwise than lockfree-mcas.          *)

\* A try_lock fails when another update is under way.
Busy(t) == \E u \in Thread \ {t} : pc[u] # "idle" /\ My(u).op # "get_min"

\* with_lock does not fail, and the root is tried once.
FlockPlant(t) ==
  /\ At(t, "plant")
  /\ IF Root = Null THEN WriteRoot([root EXCEPT !.root = My(t).node]) /\ Return(t, 0)
     ELSE Jump(t, "climb") /\ UNCHANGED mem

FlockAttach(t) ==
  /\ At(t, "attach")
  /\ \/ McasWin(My(t).prev, My(t).side, My(t).last, My(t).node) /\ Return(t, 0)
     \/ /\ Busy(t) \/ Link(My(t).prev, My(t).side) # My(t).last
        /\ Jump(t, "climb") /\ UNCHANGED mem

FlockPruneSwap(t) ==
  LET prev == IF My(t).curr = Root THEN Null ELSE My(t).prev IN
  /\ At(t, "swap")
  /\ \/ /\ Link(prev, My(t).side) = My(t).curr
        /\ IF prev = Null THEN root' = [root EXCEPT !.root = My(t).to] /\ UNCHANGED heap
           ELSE heap' = [heap EXCEPT ![prev][My(t).side] = My(t).to] /\ UNCHANGED root
        /\ freed' = freed \cup {My(t).curr} /\ Return(t, 0)
     \/ /\ Busy(t) \/ Link(prev, My(t).side) # My(t).curr
        /\ UNCHANGED mem
        /\ IF Again(t) THEN Jump(t, "retry") ELSE Onward(t)

\* get_min walks to a left child, else to a right one, outside of with_epoch: what is
\* retired may be gone at once.
FlockPeek(t) ==
  /\ At(t, "get_min") /\ structure.kind = "tree" /\ UNCHANGED mem
  /\ IF Root = Null THEN Return(t, SentinelMax) ELSE Go(t, "peek", [curr |-> Root, least |-> heap[Root].key])

FlockPeekValue(t) ==
  LET n == My(t).curr IN
  /\ At(t, "peek")
  /\ IF n \in freed THEN Fault(t)
     ELSE /\ Go(t, "peek left", [least |-> IF heap[n].key < My(t).least THEN heap[n].key ELSE My(t).least])
          /\ UNCHANGED mem

FlockPeekLeft(t) ==
  LET n == My(t).curr IN
  /\ At(t, "peek left")
  /\ IF n \in freed THEN Fault(t)
     ELSE /\ IF heap[n].left # Null THEN Go(t, "peek", [curr |-> heap[n].left]) ELSE Jump(t, "peek right")
          /\ UNCHANGED mem

FlockPeekRight(t) ==
  LET n == My(t).curr IN
  /\ At(t, "peek right")
  /\ IF n \in freed THEN Fault(t)
     ELSE /\ IF heap[n].right # Null THEN Go(t, "peek", [curr |-> heap[n].right]) ELSE Return(t, My(t).least)
          /\ UNCHANGED mem

FlockMcasStep(t) ==
  /\ structure.sync = "flock-mcas"
  /\ \/ structure.kind = "deque" /\ Enter(t)
     \/ SnarkNew(t) \/ SnarkPopStart(t) \/ SnarkHat(t) \/ SnarkOut(t) \/ SnarkL(t) \/ SnarkR(t)
     \/ SnarkEmpty(t)
     \/ SnarkMine(t) \/ SnarkLockHat(t) \/ SnarkLockTwo(t) \/ SnarkJoin(t) \/ SnarkCut(t)
     \/ SnarkCutMore(t)
     \/ structure.kind = "tree" /\ PlantNew(t)
     \/ PlantTest(t) \/ FlockPlant(t) \/ ClimbRoot(t) \/ ClimbDown(t) \/ ClimbLast(t)
     \/ FlockAttach(t)
     \/ structure.kind = "tree" /\ PruneBegin(t)
     \/ PruneRetry(t) \/ PruneNode(t) \/ FlockPruneSwap(t)
     \/ FlockPeek(t) \/ FlockPeekValue(t) \/ FlockPeekLeft(t) \/ FlockPeekRight(t)
=============================================================================
