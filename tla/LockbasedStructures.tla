------------------------ MODULE LockbasedStructures ------------------------
(***************************************************************************)
(* lockbased/{BinarySearchTree,HashMap,SortedList,Deque}.h: a lock_guard on *)
(* the structure's mutex spans each operation; only the delete of a removed *)
(* node comes after it.  Queue.h and Stack.h use two operations of Deque.  *)
(***************************************************************************)
EXTENDS Sections

LockTreeInsert(t) ==
  At(t, "insert") /\ structure.kind = "tree" /\ TreeInsert(loc[t].key) /\ Return(t, 0) /\ UNCHANGED freed

LockTreeRemove(t) ==
  At(t, "remove") /\ structure.kind = "tree" /\ TreeRemove(loc[t].key, "on") /\ Return(t, 0) /\ UNCHANGED freed

LockTreeMin(t) ==
  /\ At(t, "get_min")
  /\ Return(t, IF root.root = Null THEN SentinelMax ELSE heap[Leftmost(heap, root.root)].key)
  /\ UNCHANGED mem

LockMapAssign(t) ==
  LET n == SeekKey(heap[HeadNode].next, loc[t].key) IN
  /\ At(t, "insert_or_assign")
  /\ Write(IF n = TailNode THEN LinkedBetween(heap[n].prev, n, loc[t].key, loc[t].val)
           ELSE [heap EXCEPT ![n].val = loc[t].val])
  /\ Return(t, 0)

LockMapContains(t) ==
  /\ At(t, "contains")
  /\ Return(t, IF SeekKey(heap[HeadNode].next, loc[t].key) = TailNode THEN 0 ELSE 1)
  /\ UNCHANGED mem

LockMapRemove(t) ==
  LET n == SeekKey(heap[HeadNode].next, loc[t].key) IN
  /\ At(t, "erase")
  /\ IF n = TailNode THEN Return(t, 0) /\ UNCHANGED mem
     ELSE Write(Unlinked(n)) /\ Go(t, "delete", [node |-> n, result |-> 0])

LockMapFind(t) ==
  LET n == SeekKey(heap[HeadNode].next, loc[t].key) IN
  At(t, "find") /\ Return(t, IF n = TailNode THEN -1 ELSE heap[n].val) /\ UNCHANGED mem

LockListInsert(t) ==
  At(t, "insert") /\ structure.kind = "list" /\ Write(ListInsert(loc[t].key)) /\ Return(t, 0)

LockListRemove(t) ==
  LET n == SeekPlace(loc[t].key) IN
  /\ At(t, "remove") /\ structure.kind = "list"
  /\ IF n = TailNode \/ heap[n].key # loc[t].key THEN Return(t, 0) /\ UNCHANGED mem
     ELSE Write(Unlinked(n)) /\ Go(t, "delete", [node |-> n, result |-> 0])

LockListCount(t) ==
  At(t, "count") /\ Return(t, Cardinality(Occurrences(loc[t].key))) /\ UNCHANGED mem

LockPushFront(t) ==
  /\ At(t, "push_front")
  /\ Write(LinkedBetween(HeadNode, heap[HeadNode].next, loc[t].key, 0))
  /\ Return(t, 0)

LockPushBack(t) ==
  /\ At(t, "push_back")
  /\ Write(LinkedBetween(heap[TailNode].prev, TailNode, loc[t].key, 0))
  /\ Return(t, 0)

LockPopFront(t) ==
  LET n == heap[HeadNode].next IN
  /\ At(t, "pop_front")
  /\ IF n = TailNode THEN Return(t, -1) /\ UNCHANGED mem
     ELSE /\ Write([heap EXCEPT ![HeadNode].next = heap[n].next, ![heap[n].next].prev = HeadNode])
          /\ Go(t, "delete", [node |-> n, result |-> heap[n].key])

LockPopBack(t) ==
  LET n == heap[TailNode].prev IN
  /\ At(t, "pop_back")
  /\ IF n = HeadNode THEN Return(t, -1) /\ UNCHANGED mem
     ELSE /\ Write([heap EXCEPT ![TailNode].prev = heap[n].prev, ![heap[n].prev].next = TailNode])
          /\ Go(t, "delete", [node |-> n, result |-> heap[n].key])

-----------------------------------------------------------------------------
(* array_swap.h: the mutexes of both rows, the lower one first.            *)

LockSwapTest(t) ==
  /\ At(t, "swap") /\ UNCHANGED mem
  /\ IF My(t).key = My(t).val THEN Return(t, 0) ELSE Go(t, "lock low", [locks |-> {}])

LockSwapLow(t) ==
  /\ At(t, "lock low") /\ ~Locked(LowRow(t)) /\ UNCHANGED mem
  /\ Go(t, "lock high", [locks |-> {LowRow(t)}])

LockSwapHigh(t) ==
  /\ At(t, "lock high") /\ ~Locked(HighRow(t))
  /\ Go(t, "load", [locks |-> {LowRow(t), HighRow(t)}]) /\ UNCHANGED mem

LockSwapLoad(t) ==
  At(t, "load") /\ Go(t, "store a", [temp |-> heap[LowRow(t)].key]) /\ UNCHANGED mem

LockSwapA(t) ==
  /\ At(t, "store a") /\ Jump(t, "store b")
  /\ Write([heap EXCEPT ![LowRow(t)].key = heap[HighRow(t)].key])

LockSwapB(t) ==
  At(t, "store b") /\ Write([heap EXCEPT ![HighRow(t)].key = My(t).temp]) /\ Jump(t, "unlock")

LockSwapUnlock(t) ==
  At(t, "unlock") /\ Go(t, "unlock high", [locks |-> {HighRow(t)}]) /\ UNCHANGED mem

LockSwapEnd(t) == At(t, "unlock high") /\ Return(t, 0) /\ UNCHANGED mem

LockbasedStep(t) ==
  /\ structure.sync = "lockbased"
  /\ \/ LockTreeInsert(t) \/ LockTreeRemove(t) \/ LockTreeMin(t)
     \/ LockMapAssign(t) \/ LockMapContains(t) \/ LockMapRemove(t) \/ LockMapFind(t)
     \/ LockListInsert(t) \/ LockListRemove(t) \/ LockListCount(t)
     \/ LockPushFront(t) \/ LockPushBack(t) \/ LockPopFront(t) \/ LockPopBack(t)
     \/ LockSwapTest(t) \/ LockSwapLow(t) \/ LockSwapHigh(t) \/ LockSwapLoad(t)
     \/ LockSwapA(t) \/ LockSwapB(t) \/ LockSwapUnlock(t) \/ LockSwapEnd(t)
     \/ Delete(t)
=============================================================================
