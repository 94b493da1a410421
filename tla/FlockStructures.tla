--------------------------- MODULE FlockStructures ---------------------------
(***************************************************************************)
(* lockfree-flock/*.h: SortedList, HashMap, LeafTree, Deque,               *)
(* BinarySearchTree and array_swap.  Their locks are those of lf_lock.h: a *)
(* section's stores happen once, one by one, while its lock is taken       *)
(* (FlockLock shows it for one lock), and a try_lock that finds it taken   *)
(* fails.  Memory is that of epoch.h: a node that is retired is reused     *)
(* when the calls that were under way are over.                            *)
(***************************************************************************)
EXTENDS Sections

My2(t, f) == IF f \in DOMAIN loc[t] THEN {loc[t][f]} ELSE {}

\* with_epoch: nodes retired by now may be gone, others will not be before it ends.
Enter(t) ==
  ~At(t, "idle") /\ At(t, My(t).op) /\ Go(t, "start", [gone |-> freed, locks |-> {}]) /\ UNCHANGED mem

\* A lock is not had, or its section finds things changed: all over again.
Over(t) == Go(t, "start", [locks |-> {}]) /\ UNCHANGED mem

Start(t, kind, ops) == At(t, "start") /\ structure.kind = kind /\ My(t).op \in ops
Doing(t, op) == My(t).op = op

-----------------------------------------------------------------------------
(* SortedList.h.                                                           *)

FlockSentinels == [i \in 1 .. 2 |-> [removed |-> FALSE] @@ Sentinels[i]]

FlockListFind(t) ==
  /\ Start(t, "list", Operations.list)
  /\ Go(t, "seek", [curr |-> heap[HeadNode].next, total |-> 0]) /\ UNCHANGED mem

FlockListSeek(t) ==
  LET n == My(t).curr
      found == n # TailNode /\ heap[n].key = My(t).key
  IN /\ At(t, "seek") /\ UNCHANGED mem
     /\ IF n # TailNode /\ heap[n].key < My(t).key THEN Go(t, "seek", [curr |-> heap[n].next])
        ELSE IF Doing(t, "count") THEN Jump(t, "counting")
        ELSE IF Doing(t, "remove") /\ ~found THEN Return(t, 0)
        ELSE Jump(t, "before")

FlockListBefore(t) ==
  LET p == heap[My(t).curr].prev IN
  /\ At(t, "before")
  /\ IF Doing(t, "insert") /\ p # HeadNode /\ heap[p].key >= My(t).key THEN Over(t)
     ELSE Go(t, "lock", [prev |-> p]) /\ UNCHANGED mem

FlockListLock(t) ==
  LET p == My(t).prev IN
  /\ At(t, "lock")
  /\ IF Locked(p) \/ heap[p].removed \/ heap[p].next # My(t).curr THEN Over(t)
     ELSE Go(t, IF Doing(t, "insert") THEN "link" ELSE "lock both", [locks |-> {p}]) /\ UNCHANGED mem

FlockListLink(t) ==
  /\ At(t, "link") /\ Go(t, "link back", [node |-> New])
  /\ Write(Append([heap EXCEPT ![My(t).prev].next = New],
                  [key |-> My(t).key, val |-> 0, prev |-> My(t).prev, next |-> My(t).curr,
                   removed |-> FALSE]))

FlockListLinkBack(t) ==
  At(t, "link back") /\ Write([heap EXCEPT ![My(t).curr].prev = My(t).node]) /\ Return(t, 0)

FlockListLockBoth(t) ==
  LET n == My(t).curr IN
  /\ At(t, "lock both")
  /\ IF Locked(n) THEN Over(t)
     ELSE /\ Write([heap EXCEPT ![n].removed = TRUE])
          /\ Go(t, "unlink", [locks |-> {My(t).prev, n}, next |-> heap[n].next])

FlockListUnlink(t) ==
  /\ At(t, "unlink") /\ Jump(t, "unlink back")
  /\ Write([heap EXCEPT ![My(t).prev].next = My(t).next])

FlockListUnlinkBack(t) ==
  /\ At(t, "unlink back") /\ Return(t, 0)
  /\ heap' = [heap EXCEPT ![My(t).next].prev = My(t).prev]
  /\ freed' = freed \cup {My(t).curr} /\ UNCHANGED root

FlockListCount(t) ==
  LET n == My(t).curr IN
  /\ At(t, "counting") /\ UNCHANGED mem
  /\ IF n = TailNode \/ heap[n].key # My(t).key THEN Return(t, My(t).total)
     ELSE Go(t, "counting", [curr |-> heap[n].next, total |-> My(t).total + 1])

-----------------------------------------------------------------------------
(* HashMap.h: one slot, whose lock is that of node Null, the place before  *)
(* its first node.                                                         *)

SlotLink(p) == IF p = Null THEN root.head ELSE heap[p].next
LinkTo(p, n, h) == IF p = Null THEN heap' = h /\ root' = [root EXCEPT !.head = n]
                   ELSE heap' = [h EXCEPT ![p].next = n] /\ UNCHANGED root

FlockMapStart(t) ==
  /\ Start(t, "map", Operations.map)
  /\ Go(t, "find", [vn |-> root.version, prev |-> Null]) /\ UNCHANGED mem

FlockMapFind(t) ==
  LET nxt == SlotLink(My(t).prev) IN
  /\ At(t, "find") /\ UNCHANGED mem
  /\ IF nxt # Null /\ heap[nxt].key # My(t).key THEN Go(t, "find", [prev |-> nxt])
     ELSE IF Doing(t, "contains") THEN Return(t, IF nxt = Null THEN 0 ELSE 1)
     ELSE IF Doing(t, "erase") /\ nxt = Null THEN Return(t, 0)
     ELSE Go(t, "slot", [curr |-> nxt])

FlockMapLock(t) ==
  /\ At(t, "slot")
  /\ IF Locked(Null) \/ root.version # My(t).vn THEN Over(t)
     ELSE Go(t, "change", [locks |-> {Null}]) /\ UNCHANGED mem

FlockMapAssign(t) ==
  /\ At(t, "change") /\ Doing(t, "insert_or_assign") /\ My(t).curr # Null
  /\ Write([heap EXCEPT ![My(t).curr].val = My(t).val]) /\ Return(t, 0)

FlockMapInsert(t) ==
  /\ At(t, "change") /\ Doing(t, "insert_or_assign") /\ My(t).curr = Null
  /\ LinkTo(My(t).prev, New, Append(heap, [key |-> My(t).key, val |-> My(t).val, next |-> Null]))
  /\ Jump(t, "version") /\ UNCHANGED freed

FlockMapRemove(t) ==
  /\ At(t, "change") /\ Doing(t, "erase")
  /\ LinkTo(My(t).prev, heap[My(t).curr].next, heap)
  /\ freed' = freed \cup {My(t).curr} /\ Jump(t, "version")

FlockMapVersion(t) ==
  At(t, "version") /\ WriteRoot([root EXCEPT !.version = My(t).vn + 1]) /\ Return(t, 0)

SlotNodes ==
  LET walk[i \in 0 .. Len(heap)] ==
        IF i = 0 THEN <<>>
        ELSE LET s == walk[i - 1]
                 n == SlotLink(IF s = <<>> THEN Null ELSE s[Len(s)])
             IN IF n = Null THEN s ELSE Append(s, n)
  IN walk[Len(heap)]

-----------------------------------------------------------------------------
(* LeafTree.h: node 1 is the root, whose left child is the tree, and leaf  *)
(* 2 the sentinel.                                                         *)

FlockLeaf(k) == [key |-> k, leaf |-> TRUE, left |-> Null, right |-> Null, removed |-> FALSE]
FlockInner(k, l, r) == [key |-> k, leaf |-> FALSE, left |-> l, right |-> r, removed |-> FALSE]
LeafTreeNodes == <<FlockInner(0, 2, Null), FlockLeaf(0)>>

FlockLeafFind(t) ==
  /\ Start(t, "leaf", {"insert", "remove"})
  /\ Go(t, "leaf", [gp |-> Null, gside |-> "left", prev |-> 1, side |-> "left",
                    curr |-> heap[1].left])
  /\ UNCHANGED mem

FlockLeafDown(t) ==
  LET l == My(t).curr  side == Side(My(t).key, heap[l]) IN
  /\ At(t, "leaf") /\ UNCHANGED mem
  /\ IF ~heap[l].leaf
     THEN Go(t, "leaf", [gp |-> My(t).prev, gside |-> My(t).side, prev |-> l, side |-> side,
                         curr |-> heap[l][side]])
     ELSE IF Doing(t, "insert") THEN Jump(t, "lock leaf")
     ELSE IF l = 2 \/ heap[l].key # My(t).key \/ My2(t, "was") \notin {{}, {l}} THEN Return(t, 0)
     ELSE Go(t, "lock pair", [was |-> l])

FlockLeafInsert(t) ==
  LET p == My(t).prev  l == My(t).curr  k == My(t).key IN
  /\ At(t, "lock leaf")
  /\ IF Locked(p) \/ heap[p].removed \/ heap[p][My(t).side] # l THEN Over(t)
     ELSE /\ Write([heap EXCEPT ![p][My(t).side] = New + 1] \o
                   <<FlockLeaf(k), IF l = 2 \/ k > heap[l].key THEN FlockInner(k, l, New)
                                   ELSE FlockInner(heap[l].key, New, l)>>)
          /\ Return(t, 0)

FlockLeafLock(t) ==
  /\ At(t, "lock pair")
  /\ IF Locked(My(t).gp) THEN Over(t)
     ELSE Go(t, "shortcut", [locks |-> {My(t).gp}]) /\ UNCHANGED mem

FlockLeafRemove(t) ==
  LET gp == My(t).gp  p == My(t).prev  l == My(t).curr
      other == IF My(t).side = "left" THEN "right" ELSE "left"
  IN /\ At(t, "shortcut")
     /\ IF Locked(p) \/ heap[gp].removed \/ heap[gp][My(t).gside] # p \/ heap[p][My(t).side] # l
        THEN Over(t)
        ELSE /\ heap' = [heap EXCEPT ![p].removed = TRUE, ![gp][My(t).gside] = heap[p][other]]
             /\ freed' = freed \cup {p, l} /\ UNCHANGED root /\ Return(t, 0)

FlockLeafMin(t) ==
  /\ Start(t, "leaf", {"get_min"}) /\ Go(t, "least", [curr |-> heap[1].left]) /\ UNCHANGED mem

FlockLeafLeft(t) ==
  LET l == My(t).curr IN
  /\ At(t, "least") /\ UNCHANGED mem
  /\ IF heap[l].leaf THEN Return(t, heap[l].key)
     ELSE IF heap[l].left = 2 THEN Jump(t, "right") ELSE Go(t, "least", [curr |-> heap[l].left])

FlockLeafRight(t) ==
  At(t, "right") /\ Go(t, "least", [curr |-> heap[My(t).curr].right]) /\ UNCHANGED mem

LeavesIn == {n \in Subtree(heap[1].left) \ {2} : heap[n].leaf}
LeavesOrdered ==
  \A n \in Subtree(heap[1].left) : ~heap[n].leaf =>
    /\ \A m \in LeavesIn \cap Subtree(heap[n].left) : heap[m].key < heap[n].key
    /\ \A m \in LeavesIn \cap Subtree(heap[n].right) : heap[m].key >= heap[n].key

-----------------------------------------------------------------------------
(* Deque.h and BinarySearchTree.h: one lock that everyone takes.           *)

FlockPush(t) ==
  /\ Start(t, "deque", {"push_front", "push_back"}) /\ Return(t, 0)
  /\ Write(IF Doing(t, "push_front")
           THEN LinkedBetween(HeadNode, heap[HeadNode].next, My(t).key, 0)
           ELSE LinkedBetween(heap[TailNode].prev, TailNode, My(t).key, 0))

FlockPop(t) ==
  LET n == IF Doing(t, "pop_front") THEN heap[HeadNode].next ELSE heap[TailNode].prev IN
  /\ Start(t, "deque", {"pop_front", "pop_back"})
  /\ IF n \in {HeadNode, TailNode} THEN Return(t, -1) /\ UNCHANGED mem
     ELSE /\ heap' = Unlinked(n) /\ freed' = freed \cup {n} /\ UNCHANGED root
          /\ Return(t, heap[n].key)

FlockTreeInsert(t) ==
  Start(t, "tree", {"insert"}) /\ TreeInsert(My(t).key) /\ Return(t, 0) /\ UNCHANGED freed

FlockTreeRemove(t) ==
  Start(t, "tree", {"remove"}) /\ TreeRemove(My(t).key, "old root") /\ Return(t, 0)
  /\ UNCHANGED freed

FlockTreeMin(t) ==
  /\ Start(t, "tree", {"get_min"}) /\ UNCHANGED mem
  /\ Return(t, IF root.root = Null THEN SentinelMax ELSE heap[Leftmost(heap, root.root)].key)

-----------------------------------------------------------------------------
(* array_swap.h: a row is a node; with_lock waits for the lock.            *)

FlockSwapStart(t) ==
  /\ Start(t, "rows", {"swap"}) /\ UNCHANGED mem
  /\ IF My(t).key = My(t).val THEN Return(t, 0) ELSE Jump(t, "low")

FlockSwapLow(t) ==
  At(t, "low") /\ ~Locked(LowRow(t)) /\ Go(t, "high", [locks |-> {LowRow(t)}]) /\ UNCHANGED mem

FlockSwapHigh(t) ==
  /\ At(t, "high") /\ ~Locked(HighRow(t))
  /\ Go(t, "temp", [locks |-> {LowRow(t), HighRow(t)}, temp |-> heap[LowRow(t)].key])
  /\ UNCHANGED mem

FlockSwapA(t) ==
  /\ At(t, "temp") /\ Jump(t, "swap b")
  /\ Write([heap EXCEPT ![LowRow(t)].key = heap[HighRow(t)].key])

FlockSwapB(t) ==
  At(t, "swap b") /\ Write([heap EXCEPT ![HighRow(t)].key = My(t).temp]) /\ Return(t, 0)

FlockStep(t) ==
  /\ structure.sync = "flock"
  /\ \/ Enter(t)
     \/ FlockListFind(t) \/ FlockListSeek(t) \/ FlockListBefore(t) \/ FlockListLock(t)
     \/ FlockListLink(t) \/ FlockListLinkBack(t) \/ FlockListLockBoth(t)
     \/ FlockListUnlink(t) \/ FlockListUnlinkBack(t) \/ FlockListCount(t)
     \/ FlockMapStart(t) \/ FlockMapFind(t) \/ FlockMapLock(t) \/ FlockMapAssign(t)
     \/ FlockMapInsert(t) \/ FlockMapRemove(t) \/ FlockMapVersion(t)
     \/ FlockLeafFind(t) \/ FlockLeafDown(t) \/ FlockLeafInsert(t) \/ FlockLeafLock(t)
     \/ FlockLeafRemove(t) \/ FlockLeafMin(t) \/ FlockLeafLeft(t) \/ FlockLeafRight(t)
     \/ FlockPush(t) \/ FlockPop(t) \/ FlockTreeInsert(t) \/ FlockTreeRemove(t) \/ FlockTreeMin(t)
     \/ FlockSwapStart(t) \/ FlockSwapLow(t) \/ FlockSwapHigh(t) \/ FlockSwapA(t) \/ FlockSwapB(t)
=============================================================================
