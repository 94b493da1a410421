--------------------------- MODULE LockfreeHashMap ---------------------------
(***************************************************************************)
(* lockfree/HashMap.h: two lists sorted by bit-reversed key, whose pointer *)
(* to the next node carries the mark that the next node is removed.  Adds  *)
(* and removals write it by compare-and-swap; getnext, which drops removed *)
(* nodes, reads and writes the pointer and the mark on their own.          *)
(***************************************************************************)
EXTENDS Calls

MapNode(k, n) == [key |-> k, next |-> [ptr |-> n, mark |-> FALSE]]

CONSTANT WordSize                  \* WORD_SIZE, 24 in the code: bits of a key
LastKey == 2 ^ (WordSize + 1)      \* stands for the 2147483647 of the last node

\* Bit i of x becomes bit WordSize - 1 - i.
Reverse(x) ==
  LET bits[i \in 0 .. WordSize] ==
        IF i = 0 THEN 0
        ELSE bits[i - 1] + ((x \div 2 ^ (i - 1)) % 2) * 2 ^ (WordSize - i)
  IN bits[WordSize]

\* reverse(code | HI_MASK): odd, and an item's position in the split order.
MakeRegularKey(x) ==
  LET code == x % 2 ^ WordSize  hi == 2 ^ (WordSize - 1)
  IN Reverse(IF code >= hi THEN code ELSE code + hi)

\* bucketSize stays 2: add computes a new size from a setSize it never stores.
BucketSize == 2
MapNodes == <<MapNode(0, 2), MapNode(LastKey, Null), MapNode(0, 4), MapNode(LastKey, Null)>>
BucketHead(x)  == IF x % BucketSize = 0 THEN 1 ELSE 3

-----------------------------------------------------------------------------
(* find(head, key) with getnext: pred and curr move on until curr->key >=  *)
(* key; then the operation in loc acts on the window.                      *)

MapBegin(t) ==
  /\ pc[t] \in {"insert", "remove", "contains"}
  /\ Go(t, "getnext", [pred |-> BucketHead(My(t).key), item |-> MakeRegularKey(My(t).key)])
  /\ UNCHANGED mem

GetNext(t) ==
  At(t, "getnext") /\ Go(t, "mark?", [entry |-> heap[My(t).pred].next.ptr]) /\ UNCHANGED mem

\* A window is found, or the walk goes on.
Arrive(t, entry) ==
  IF Bad(entry) THEN Jump(t, "fault")
  ELSE IF heap[entry].key < My(t).item THEN Go(t, "getnext", [pred |-> entry])
  ELSE Go(t, "window", [curr |-> entry])

IsMarked(t) ==
  /\ At(t, "mark?")
  /\ IF heap[My(t).pred].next.mark THEN Jump(t, "succ") ELSE Arrive(t, My(t).entry)
  /\ UNCHANGED mem

Succ(t) ==
  /\ At(t, "succ")
  /\ IF Bad(My(t).entry) THEN Fault(t)
     ELSE Go(t, "succ mark", [succ |-> heap[My(t).entry].next.ptr]) /\ UNCHANGED mem

SuccMark(t) ==
  /\ At(t, "succ mark")
  /\ Go(t, "store ptr", [smark |-> heap[My(t).entry].next.mark]) /\ UNCHANGED mem

StorePtr(t) ==
  /\ At(t, "store ptr")
  /\ Write([heap EXCEPT ![My(t).pred].next.ptr = My(t).succ]) /\ Jump(t, "store mark")

\* The build may load what it just stored again, or keep it.
StoreMark(t) ==
  /\ At(t, "store mark")
  /\ Write([heap EXCEPT ![My(t).pred].next.mark = My(t).smark])
  /\ \/ Jump(t, "getnext")
     \/ IF My(t).smark THEN Go(t, "succ", [entry |-> My(t).succ]) ELSE Arrive(t, My(t).succ)

-----------------------------------------------------------------------------
Matches(t)   == heap[My(t).curr].key = My(t).item
Untouched(t) == heap[My(t).pred].next = [ptr |-> My(t).curr, mark |-> FALSE]

\* add never looks whether the item is there: an entry more of the same key.
MapAdd(t) ==
  /\ At(t, "window") /\ My(t).op = "insert"
  /\ IF Untouched(t)
     THEN Write([Append(heap, MapNode(My(t).item, My(t).curr))
                   EXCEPT ![My(t).pred].next = [ptr |-> New, mark |-> FALSE]]) /\ Return(t, 0)
     ELSE Jump(t, "insert") /\ UNCHANGED mem

MapRemove(t) ==
  /\ At(t, "window") /\ My(t).op = "remove"
  /\ IF ~Matches(t) THEN Return(t, 0) /\ UNCHANGED mem
     ELSE IF Untouched(t)
     THEN Write([heap EXCEPT ![My(t).pred].next.mark = TRUE]) /\ Return(t, 0)
     ELSE Jump(t, "remove") /\ UNCHANGED mem

\* contains, and find, which returns no value but whether the key is there.
MapContains(t) ==
  /\ At(t, "window") /\ My(t).op = "contains"
  /\ Return(t, IF Matches(t) THEN 1 ELSE 0) /\ UNCHANGED mem

MapStep(t) ==
  \/ MapBegin(t) \/ GetNext(t) \/ IsMarked(t) \/ Succ(t) \/ SuccMark(t) \/ StorePtr(t)
  \/ StoreMark(t) \/ MapAdd(t) \/ MapRemove(t) \/ MapContains(t)

-----------------------------------------------------------------------------
\* The linked nodes of the list of an item that hold it and are not removed.
Holding(x) ==
  LET from[n \in 0 .. Len(heap)] ==
        IF n = Null THEN {}
        ELSE (IF heap[n].next.mark THEN {} ELSE {heap[n].next.ptr}) \cup from[heap[n].next.ptr]
  IN {n \in from[BucketHead(x)] \ {Null} : heap[n].key = MakeRegularKey(x)}
=============================================================================
