------------------------- MODULE HtmLockStructures -------------------------
(***************************************************************************)
(* htm-lock/{BinarySearchTree,HashMap,SortedList,Deque}.h: the operations  *)
(* of lockbased with TM_BEGIN ... TM_END in the place of the mutex.  A      *)
(* section of tm.h takes effect at once (FallbackIsolated of Tm), so each  *)
(* operation is the step of its lockbased twin, but for find, which reads  *)
(* the value behind TM_END.                                                *)
(***************************************************************************)
EXTENDS LockbasedStructures

HtmTreeInsert(t)  == LockTreeInsert(t)
HtmTreeRemove(t)  == LockTreeRemove(t)
HtmTreeMin(t)     == LockTreeMin(t)
HtmMapAssign(t)   == LockMapAssign(t)
HtmMapContains(t) == LockMapContains(t)
HtmMapRemove(t)   == LockMapRemove(t)
HtmListInsert(t)  == LockListInsert(t)
HtmListRemove(t)  == LockListRemove(t)
HtmListCount(t)   == LockListCount(t)
HtmPushFront(t)   == LockPushFront(t)
HtmPushBack(t)    == LockPushBack(t)
HtmPopFront(t)    == LockPopFront(t)
HtmPopBack(t)     == LockPopBack(t)

HtmMapFind(t) ==
  LET n == SeekKey(heap[HeadNode].next, loc[t].key) IN
  /\ At(t, "find")
  /\ IF n = TailNode THEN Return(t, -1) ELSE Go(t, "load value", [node |-> n])
  /\ UNCHANGED mem

\* Line 146, outside the section: the node may have been deleted.
HtmMapValue(t) ==
  /\ At(t, "load value")
  /\ IF Bad(loc[t].node) THEN Fault(t)
     ELSE Return(t, heap[loc[t].node].val) /\ UNCHANGED mem

HtmLockStep(t) ==
  /\ structure.sync = "htm-lock"
  /\ \/ HtmTreeInsert(t) \/ HtmTreeRemove(t) \/ HtmTreeMin(t)
     \/ HtmMapAssign(t) \/ HtmMapContains(t) \/ HtmMapRemove(t) \/ HtmMapFind(t) \/ HtmMapValue(t)
     \/ HtmListInsert(t) \/ HtmListRemove(t) \/ HtmListCount(t)
     \/ HtmPushFront(t) \/ HtmPushBack(t) \/ HtmPopFront(t) \/ HtmPopBack(t)
     \/ Delete(t)
=============================================================================
