------------------------- MODULE HtmMcasStructures -------------------------
(***************************************************************************)
(* htm-mcas/{BinarySearchTree,HashMap,SortedList,Deque}.h: sections of tm.h *)
(* around the algorithms of lockfree-mcas.  Nodes are never deleted.  What  *)
(* an operation does outside its section is a step of its own.             *)
(***************************************************************************)
EXTENDS Sections

-----------------------------------------------------------------------------
(* BinarySearchTree.h: insert tests the root in one section and walks from *)
(* it in a second one; get_min has no section at all.                      *)

\* Faulty McasTreeInsertRoot: the root is not tested.
McasTreeInsertAnyway(t) ==
  /\ At(t, "insert") /\ structure.kind = "tree"
  /\ heap' = Append(heap, TreeNode(loc[t].key)) /\ root' = [root EXCEPT !.root = New]
  /\ Return(t, 0) /\ UNCHANGED freed

McasTreeInsertRoot(t) ==
  /\ At(t, "insert") /\ structure.kind = "tree"
  /\ IF root.root = Null THEN TreeInsert(loc[t].key) /\ Return(t, 0) /\ UNCHANGED freed
     ELSE Jump(t, "walk") /\ UNCHANGED mem

McasTreeInsertLeaf(t) ==
  /\ At(t, "walk")
  /\ IF root.root = Null THEN Fault(t)
     ELSE TreeInsert(loc[t].key) /\ Return(t, 0) /\ UNCHANGED freed

McasTreeRemove(t) ==
  /\ At(t, "remove") /\ structure.kind = "tree"
  /\ TreeRemove(loc[t].key, "stop") /\ Return(t, 0) /\ UNCHANGED freed

McasTreeMin(t) ==
  /\ At(t, "get_min")
  /\ IF root.root = Null THEN Return(t, SentinelMax)
     ELSE Go(t, "go left", [curr |-> root.root])
  /\ UNCHANGED mem

McasTreeLeft(t) ==
  /\ At(t, "go left") /\ UNCHANGED mem
  /\ Jump(t, IF heap[loc[t].curr].left = Null THEN "load min" ELSE "load left")

\* The second load of the child, which a section may have cut off since the first.
McasTreeDown(t) ==
  LET left == heap[loc[t].curr].left IN
  /\ At(t, "load left")
  /\ IF left = Null THEN Fault(t) ELSE Go(t, "go left", [curr |-> left]) /\ UNCHANGED mem

McasTreeValue(t) == At(t, "load min") /\ Return(t, heap[loc[t].curr].key) /\ UNCHANGED mem

-----------------------------------------------------------------------------
(* HashMap.h: contains and remove load the first node of the bucket before *)
(* their section begins.                                                   *)

InsertBefore(n, k, v) == LinkedBetween(heap[n].prev, n, k, v)

DeleteNode(n) == IF n \in {HeadNode, TailNode} THEN heap ELSE Unlinked(n)

McasMapAssign(t) ==
  LET n == SeekKey(heap[HeadNode].next, loc[t].key) IN
  /\ At(t, "insert_or_assign")
  /\ Write(IF n = TailNode THEN InsertBefore(TailNode, loc[t].key, loc[t].val)
           ELSE [heap EXCEPT ![n].val = loc[t].val])
  /\ Return(t, 0)

McasMapFirst(t) ==
  \E op \in {"contains", "erase"} :
    /\ At(t, op)
    /\ Go(t, op \o " section", [curr |-> heap[HeadNode].next])
    /\ UNCHANGED mem

McasMapContains(t) ==
  /\ At(t, "contains section")
  /\ Return(t, IF SeekKey(loc[t].curr, loc[t].key) = TailNode THEN 0 ELSE 1)
  /\ UNCHANGED mem

\* The tail's key is 0: delete_node leaves the tail alone.
McasMapRemove(t) ==
  LET n == SeekKey(loc[t].curr, loc[t].key) IN
  /\ At(t, "erase section")
  /\ IF heap[n].key = loc[t].key THEN Write(DeleteNode(n)) ELSE UNCHANGED mem
  /\ Return(t, 0)

-----------------------------------------------------------------------------
(* SortedList.h: one section each.                                         *)

McasListInsert(t) ==
  /\ At(t, "insert") /\ structure.kind = "list"
  /\ Write(InsertBefore(SeekPlace(loc[t].key), loc[t].key, 0)) /\ Return(t, 0)

McasListRemove(t) ==
  LET n == SeekPlace(loc[t].key) IN
  /\ At(t, "remove") /\ structure.kind = "list"
  /\ IF n # TailNode /\ heap[n].key = loc[t].key THEN Write(DeleteNode(n)) ELSE UNCHANGED mem
  /\ Return(t, 0)

McasListCount(t) ==
  At(t, "count") /\ Return(t, Cardinality(Occurrences(loc[t].key))) /\ UNCHANGED mem

-----------------------------------------------------------------------------
(* Deque.h: the Snark deque; node 1 is the dummy, and a popped node points *)
(* at itself.                                                              *)

Dummy == 1
SnarkNode(k, l, r) == [key |-> k, L |-> l, R |-> r]

Push(t, op, hat, other, in, out) ==
  LET h == root[hat]
      node == [key |-> loc[t].key] @@ (out :> Dummy) @@ (in :> IF heap[h][out] = h THEN Dummy ELSE h)
  IN /\ At(t, op)
     /\ IF heap[h][out] = h
        THEN heap' = Append(heap, node) /\ root' = [root EXCEPT ![hat] = New, ![other] = New]
        ELSE heap' = Append([heap EXCEPT ![h][out] = New], node) /\ root' = [root EXCEPT ![hat] = New]
     /\ Return(t, 0) /\ UNCHANGED freed

Pop(t, op, hat, in, out) ==
  LET h == root[hat] IN
  /\ At(t, op)
  /\ IF heap[h][out] = h THEN Return(t, -1) /\ UNCHANGED mem
     ELSE /\ root' = [root EXCEPT ![hat] = heap[h][in]]
          /\ heap' = [heap EXCEPT ![h].L = h, ![h].R = h]
          /\ Return(t, heap[h].key) /\ UNCHANGED freed

McasPushFront(t) == Push(t, "push_front", "LeftHat", "RightHat", "R", "L")
McasPushBack(t)  == Push(t, "push_back", "RightHat", "LeftHat", "L", "R")
McasPopFront(t)  == Pop(t, "pop_front", "LeftHat", "R", "L")
McasPopBack(t)   == Pop(t, "pop_back", "RightHat", "L", "R")

SnarkNodes ==
  LET walk[i \in 0 .. Len(heap)] ==
        IF i = 0 THEN <<>>
        ELSE LET s == walk[i - 1]
                 n == IF s = <<>> THEN root.LeftHat ELSE heap[s[Len(s)]].R
             IN IF n = Dummy \/ heap[n].L = n THEN s ELSE Append(s, n)
  IN walk[Len(heap)]

HtmMcasStep(t) ==
  /\ structure.sync = "htm-mcas"
  /\ \/ McasTreeInsertRoot(t) \/ McasTreeInsertLeaf(t) \/ McasTreeRemove(t)
     \/ McasTreeMin(t) \/ McasTreeLeft(t) \/ McasTreeDown(t) \/ McasTreeValue(t)
     \/ McasMapAssign(t) \/ McasMapFirst(t) \/ McasMapContains(t) \/ McasMapRemove(t)
     \/ McasListInsert(t) \/ McasListRemove(t) \/ McasListCount(t)
     \/ McasPushFront(t) \/ McasPushBack(t) \/ McasPopFront(t) \/ McasPopBack(t)
=============================================================================
