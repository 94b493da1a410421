--------------------------- MODULE LockfreeQueues ---------------------------
(***************************************************************************)
(* lockfree/Queue.h, Stack.h and SPSCQueue.h: linked lists of nodes with a  *)
(* key and a next, each load, store and compare-and-swap of shared memory  *)
(* a step.  A push at the tail is push_back, one at the head push_front.   *)
(***************************************************************************)
EXTENDS Calls

Node(k, n) == [key |-> k, next |-> n]

\* The linked keys from n on.
Chain(n) ==
  LET walk[m \in 0 .. Len(heap)] ==
        IF m = Null THEN <<>> ELSE <<heap[m].key>> \o walk[heap[m].next]
  IN walk[n]

-----------------------------------------------------------------------------
(* Queue.h.  root.head is a node already popped, at first one with key -1. *)
(* The second loads of tail (line 45) and head (line 70) are of plain      *)
(* variables; a build may also take them to equal the first ones.          *)

QueueNodes == <<Node(-1, Null)>>
QueueRoot  == [head |-> 1, tail |-> 1]

QueueNew(t) ==
  /\ At(t, "push_back")
  /\ Write(Append(heap, Node(My(t).key, Null))) /\ Go(t, "load tail", [node |-> New])

QueueLoadTail(t) ==
  At(t, "load tail") /\ Go(t, "load next", [last |-> root.tail]) /\ UNCHANGED mem

QueueLoadNext(t) ==
  /\ At(t, "load next")
  /\ Go(t, "same tail", [next |-> heap[My(t).last].next]) /\ UNCHANGED mem

QueueSameTail(t) ==
  /\ At(t, "same tail")
  /\ \E same \in {My(t).last = root.tail, TRUE} :
       Go(t, IF ~same THEN "load tail" ELSE IF My(t).next = Null THEN "link" ELSE "help",
          [again |-> "load tail"])
  /\ UNCHANGED mem

QueueLink(t) ==
  /\ At(t, "link")
  /\ IF heap[My(t).last].next = Null
     THEN Write([heap EXCEPT ![My(t).last].next = My(t).node]) /\ Jump(t, "swing")
     ELSE Jump(t, "load tail") /\ UNCHANGED mem

SwingTail(t, n) == WriteRoot(IF root.tail = My(t).last THEN [root EXCEPT !.tail = n] ELSE root)

QueueSwing(t) == At(t, "swing") /\ SwingTail(t, My(t).node) /\ Return(t, 0)

QueueHelp(t) == At(t, "help") /\ SwingTail(t, My(t).next) /\ Jump(t, My(t).again)

QueueLoadHead(t) ==
  At(t, "pop_front") /\ Go(t, "pop tail", [first |-> root.head]) /\ UNCHANGED mem

QueuePopTail(t) ==
  At(t, "pop tail") /\ Go(t, "pop next", [last |-> root.tail]) /\ UNCHANGED mem

QueuePopNext(t) ==
  /\ At(t, "pop next")
  /\ Go(t, "same head", [next |-> heap[My(t).first].next]) /\ UNCHANGED mem

QueueSameHead(t) ==
  /\ At(t, "same head")
  /\ \E same \in {My(t).first = root.head, TRUE} :
       Jump(t, IF ~same THEN "pop_front"
               ELSE IF My(t).first = My(t).last THEN "empty" ELSE "take")
  /\ UNCHANGED mem

\* Line 72: a tail that falls behind is helped on, but not off the first node.
QueueEmpty(t) ==
  /\ At(t, "empty")
  /\ IF My(t).next = Null \/ heap[root.head].key = -1 THEN Return(t, -1)
     ELSE Go(t, "help", [again |-> "pop_front"])
  /\ UNCHANGED mem

QueueTake(t) ==
  /\ At(t, "take")
  /\ IF Bad(My(t).next) THEN Fault(t)
     ELSE IF root.head = My(t).first
     THEN WriteRoot([root EXCEPT !.head = My(t).next]) /\ Return(t, heap[My(t).next].key)
     ELSE Jump(t, "pop_front") /\ UNCHANGED mem

QueueStep(t) ==
  \/ QueueNew(t) \/ QueueLoadTail(t) \/ QueueLoadNext(t) \/ QueueSameTail(t) \/ QueueLink(t)
  \/ QueueSwing(t) \/ QueueHelp(t)
  \/ QueueLoadHead(t) \/ QueuePopTail(t) \/ QueuePopNext(t) \/ QueueSameHead(t)
  \/ QueueEmpty(t) \/ QueueTake(t)

-----------------------------------------------------------------------------
(* Stack.h.  A node lives as long as some shared_ptr leads to it, so its   *)
(* address does not come back while a thread compares against it.          *)

StackPushLoad(t) ==
  /\ At(t, "push_front")
  /\ Write(Append(heap, Node(My(t).key, root.head))) /\ Go(t, "push cas", [node |-> New])

\* A failed compare-and-swap loads the head into the node's next.
StackPushCas(t) ==
  LET n == My(t).node IN
  /\ At(t, "push cas")
  /\ IF root.head = heap[n].next THEN WriteRoot([root EXCEPT !.head = n]) /\ Return(t, 0)
     ELSE Write([heap EXCEPT ![n].next = root.head]) /\ Jump(t, "push cas")

StackPopLoad(t) ==
  At(t, "pop_front") /\ Go(t, "pop next", [old |-> root.head]) /\ UNCHANGED mem

StackPopNext(t) ==
  /\ At(t, "pop next")
  /\ IF My(t).old = Null THEN Return(t, -1)
     ELSE Go(t, "pop cas", [next |-> heap[My(t).old].next])
  /\ UNCHANGED mem

\* Faulty StackPopCas: the compare-and-swap is a store.
StackPopStore(t) ==
  At(t, "pop cas") /\ WriteRoot([root EXCEPT !.head = My(t).next]) /\ Jump(t, "unlink")

\* A failed compare-and-swap loads the head into old_head.
StackPopCas(t) ==
  /\ At(t, "pop cas")
  /\ IF root.head = My(t).old
     THEN WriteRoot([root EXCEPT !.head = My(t).next]) /\ Jump(t, "unlink")
     ELSE Go(t, "pop next", [old |-> root.head]) /\ UNCHANGED mem

StackUnlink(t) ==
  /\ At(t, "unlink")
  /\ Write([heap EXCEPT ![My(t).old].next = Null]) /\ Return(t, heap[My(t).old].key)

StackStep(t) ==
  \/ StackPushLoad(t) \/ StackPushCas(t)
  \/ StackPopLoad(t) \/ StackPopNext(t) \/ StackPopCas(t) \/ StackUnlink(t)

-----------------------------------------------------------------------------
(* SPSCQueue.h, for one thread that pushes and one that pops.  The tail is *)
(* an empty node, which push fills; pop deletes the node it takes.         *)

\* Faulty SpscNew: the new tail is published before the old one is filled.
SpscNewPublished(t) ==
  /\ At(t, "push_back")
  /\ heap' = Append(heap, Node(0, Null)) /\ root' = [root EXCEPT !.tail = New]
  /\ Go(t, "fill", [node |-> New, last |-> root.tail]) /\ UNCHANGED freed

SpscNew(t) ==
  /\ At(t, "push_back")
  /\ Write(Append(heap, Node(0, Null))) /\ Go(t, "fill", [node |-> New, last |-> root.tail])

SpscFill(t) ==
  /\ At(t, "fill")
  /\ IF Bad(My(t).last) THEN Fault(t)
     ELSE Write([heap EXCEPT ![My(t).last].key = My(t).key]) /\ Jump(t, "link")

SpscLink(t) ==
  /\ At(t, "link")
  /\ IF Bad(My(t).last) THEN Fault(t)
     ELSE Write([heap EXCEPT ![My(t).last].next = My(t).node]) /\ Jump(t, "publish")

SpscPublish(t) ==
  At(t, "publish") /\ WriteRoot([root EXCEPT !.tail = My(t).node]) /\ Return(t, 0)

SpscLoadHead(t) ==
  At(t, "pop_front") /\ Go(t, "compare", [node |-> root.head]) /\ UNCHANGED mem

SpscCompare(t) ==
  /\ At(t, "compare")
  /\ IF My(t).node = root.tail THEN Return(t, -1) ELSE Jump(t, "advance")
  /\ UNCHANGED mem

SpscAdvance(t) ==
  /\ At(t, "advance")
  /\ WriteRoot([root EXCEPT !.head = heap[My(t).node].next])
  /\ Go(t, "delete", [result |-> heap[My(t).node].key])

SpscStep(t) ==
  \/ SpscNew(t) \/ SpscFill(t) \/ SpscLink(t) \/ SpscPublish(t)
  \/ SpscLoadHead(t) \/ SpscCompare(t) \/ SpscAdvance(t) \/ Delete(t)
=============================================================================
