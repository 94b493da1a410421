---------------------------- MODULE LockfreeTree ----------------------------
(***************************************************************************)
(* lockfree/BinarySearchTree.h: a set in the leaves of a binary tree.  The *)
(* edge to a child carries a stamp: 2 flags a leaf that is being removed,  *)
(* 1 tags the edge to its sibling, 3 both.  Pointer and stamp are read on  *)
(* their own, except in seek, and written by compare-and-swap.             *)
(***************************************************************************)
EXTENDS Calls

LeafKey == 99                       \* LONG_MAX, the key of the dummy nodes
Edge(n, s) == [ptr |-> n, stamp |-> s]
InnerNode(k, l, r) == [key |-> k, lChild |-> Edge(l, 0), rChild |-> Edge(r, 0)]
Leaf(k) == InnerNode(k, Null, Null)

parentHead      == 1
grandParentHead == 2
HeadNodes == <<InnerNode(LeafKey, 3, 4), InnerNode(LeafKey, 1, 5), Leaf(LeafKey),
               Leaf(LeafKey), Leaf(LeafKey)>>

SideOf(n, k)  == IF k < heap[n].key THEN "lChild" ELSE "rChild"
OtherSide(s)  == IF s = "lChild" THEN "rChild" ELSE "lChild"
IsLeaf(n)     == heap[n].lChild.ptr = Null
Flagged(e)    == e.stamp > 1
SetTag(s)     == IF s = 0 THEN 1 ELSE IF s = 2 THEN 3 ELSE s
CopyFlag(s)   == IF s = 1 THEN 0 ELSE IF s = 3 THEN 2 ELSE s

Swing(n, side, expected, new) ==
  IF heap[n][side] = expected THEN Write([heap EXCEPT ![n][side] = new]) ELSE UNCHANGED mem

-----------------------------------------------------------------------------
(* get_min, and the walk of add.                                           *)

GetMin(t) ==
  /\ At(t, "get_min")
  /\ Go(t, "leftmost", [node |-> grandParentHead]) /\ UNCHANGED mem

GoLeft(t) ==
  /\ At(t, "leftmost")
  /\ IF IsLeaf(My(t).node) THEN Return(t, heap[My(t).node].key)
     ELSE Go(t, "leftmost", [node |-> heap[My(t).node].lChild.ptr])
  /\ UNCHANGED mem

AddBegin(t) ==
  /\ At(t, "insert")
  /\ Go(t, "add walk", [pnode |-> parentHead, node |-> heap[parentHead].lChild.ptr])
  /\ UNCHANGED mem

AddWalk(t) ==
  LET n == My(t).node  k == My(t).key IN
  /\ At(t, "add walk")
  /\ IF ~IsLeaf(n) THEN Go(t, "add walk", [pnode |-> n, node |-> heap[n][SideOf(n, k)].ptr])
     ELSE IF heap[n].key = k THEN Return(t, 0)
     ELSE Jump(t, "add")
  /\ UNCHANGED mem

\* The leaf becomes an internal node over the leaf and a new one.
Internal(leaf, k, new) ==
  IF heap[leaf].key < k THEN InnerNode(k, leaf, new) ELSE InnerNode(heap[leaf].key, new, leaf)

Add(t) ==
  LET n == My(t).node  p == My(t).pnode  side == SideOf(p, My(t).key) IN
  /\ At(t, "add")
  /\ IF heap[p][side] = Edge(n, 0)
     THEN /\ Write([heap \o <<Leaf(My(t).key), Internal(n, My(t).key, New)>>
                     EXCEPT ![p][side] = Edge(New + 1, 0)])
          /\ Return(t, 0)
     ELSE Jump(t, "add failed") /\ UNCHANGED mem

\* If the child is the same, a removal holds the edge: help it, then again.
AddFailed(t) ==
  LET p == My(t).pnode IN
  /\ At(t, "add failed")
  /\ IF heap[p][SideOf(p, My(t).key)].ptr = My(t).node
     THEN Go(t, "seek", [sought |-> "cleanUp", won |-> "insert", lost |-> "insert"])
     ELSE Jump(t, "insert")
  /\ UNCHANGED mem

-----------------------------------------------------------------------------
(* seek.  Its record starts with parent = parentHead, and the first round  *)
(* advances parent to the child already in leaf.                           *)

Seek(t) ==
  /\ At(t, "seek")
  /\ Go(t, "seek parent", [ancestor |-> grandParentHead, parent |-> parentHead,
           leaf |-> heap[parentHead].lChild.ptr])
  /\ UNCHANGED mem

SeekParent(t) ==
  /\ At(t, "seek parent")
  /\ Go(t, "seek field", [parentField |-> heap[grandParentHead].lChild]) /\ UNCHANGED mem

SeekField(t) ==
  /\ At(t, "seek field")
  /\ Go(t, "seek round", [field |-> heap[parentHead].lChild]) /\ UNCHANGED mem

SeekRound(t) ==
  LET current == My(t).field.ptr  tagged == My(t).parentField.stamp \in {1, 3} IN
  /\ At(t, "seek round")
  /\ IF current = Null THEN Jump(t, My(t).sought)
     ELSE Go(t, "seek round",
            [ancestor |-> IF tagged THEN My(t).ancestor ELSE My(t).parent,
             parent |-> My(t).leaf, leaf |-> current, parentField |-> My(t).field,
             field |-> heap[current][SideOf(current, My(t).key)]])
  /\ UNCHANGED mem

-----------------------------------------------------------------------------
(* remove.                                                                 *)

Remove(t) ==
  /\ At(t, "remove") /\ Go(t, "seek", [sought |-> "flag"]) /\ UNCHANGED mem

\* The leaf is flagged, or another removal has flagged it: help that and seek again.
Flag(t) ==
  LET leaf == My(t).leaf  p == My(t).parent  side == SideOf(p, My(t).key) IN
  /\ At(t, "flag")
  /\ IF heap[leaf].key # My(t).key THEN Return(t, 0) /\ UNCHANGED mem
     ELSE IF heap[p][side] = Edge(leaf, 0)
     THEN Write([heap EXCEPT ![p][side].stamp = 2])
          /\ Go(t, "cleanUp", [mine |-> leaf, won |-> "return", lost |-> "again"])
     ELSE Jump(t, "flag failed") /\ UNCHANGED mem

FlagFailed(t) ==
  LET p == My(t).parent IN
  /\ At(t, "flag failed")
  /\ IF heap[p][SideOf(p, My(t).key)].ptr = My(t).leaf
     THEN Go(t, "cleanUp", [won |-> "remove", lost |-> "remove"])
     ELSE Jump(t, "remove")
  /\ UNCHANGED mem

RemoveAgain(t) ==
  At(t, "again") /\ Go(t, "seek", [sought |-> "mine?"]) /\ UNCHANGED mem

\* Another thread that helped has removed the leaf if it is not found again.
Mine(t) ==
  /\ At(t, "mine?")
  /\ IF My(t).leaf = My(t).mine THEN Jump(t, "cleanUp") ELSE Return(t, 0)
  /\ UNCHANGED mem

RemoveReturn(t) == At(t, "return") /\ Return(t, 0) /\ UNCHANGED mem

-----------------------------------------------------------------------------
(* cleanUp: tag the sibling's edge, then move the sibling up to the        *)
(* ancestor, whose edge is read again for the compare-and-swap.            *)

CleanUp(t) ==
  LET side == SideOf(My(t).parent, My(t).key) IN
  /\ At(t, "cleanUp")
  /\ Go(t, "sibling", [side |-> IF Flagged(heap[My(t).parent][side]) THEN OtherSide(side) ELSE side])
  /\ UNCHANGED mem

SiblingEdge(t) == heap[My(t).parent][My(t).side]

Sibling(t) ==
  At(t, "sibling") /\ Go(t, "stamp", [sibling |-> SiblingEdge(t).ptr]) /\ UNCHANGED mem

SiblingStamp(t) ==
  At(t, "stamp") /\ Go(t, "tag", [stamp |-> SetTag(SiblingEdge(t).stamp)]) /\ UNCHANGED mem

Tag(t) ==
  /\ At(t, "tag")
  /\ Swing(My(t).parent, My(t).side, Edge(My(t).sibling, 0), Edge(My(t).sibling, My(t).stamp))
  /\ Jump(t, "sibling again")

SiblingAgain(t) ==
  At(t, "sibling again") /\ Go(t, "stamp again", [sibling |-> SiblingEdge(t).ptr]) /\ UNCHANGED mem

StampAgain(t) ==
  At(t, "stamp again") /\ Go(t, "old", [stamp |-> CopyFlag(SiblingEdge(t).stamp)]) /\ UNCHANGED mem

AncestorSide(t) == SideOf(My(t).ancestor, My(t).key)
AncestorEdge(t) == heap[My(t).ancestor][AncestorSide(t)]

OldSuccessor(t) ==
  At(t, "old") /\ Go(t, "old stamp", [old |-> AncestorEdge(t).ptr]) /\ UNCHANGED mem

OldStamp(t) ==
  At(t, "old stamp") /\ Go(t, "move up", [oldStamp |-> AncestorEdge(t).stamp]) /\ UNCHANGED mem

MoveUp(t) ==
  LET expected == Edge(My(t).old, My(t).oldStamp) IN
  /\ At(t, "move up")
  /\ Swing(My(t).ancestor, AncestorSide(t), expected, Edge(My(t).sibling, My(t).stamp))
  /\ Jump(t, IF AncestorEdge(t) = expected THEN My(t).won ELSE My(t).lost)

TreeStep(t) ==
  \/ GetMin(t) \/ GoLeft(t) \/ AddBegin(t) \/ AddWalk(t) \/ Add(t) \/ AddFailed(t)
  \/ Seek(t) \/ SeekParent(t) \/ SeekField(t) \/ SeekRound(t)
  \/ Remove(t) \/ Flag(t) \/ FlagFailed(t) \/ RemoveAgain(t) \/ Mine(t) \/ RemoveReturn(t)
  \/ CleanUp(t) \/ Sibling(t) \/ SiblingStamp(t) \/ Tag(t) \/ SiblingAgain(t) \/ StampAgain(t)
  \/ OldSuccessor(t) \/ OldStamp(t) \/ MoveUp(t)

-----------------------------------------------------------------------------
\* The nodes under the heads.
TreeReach ==
  LET reach[i \in 0 .. Len(heap)] ==
        IF i = 0 THEN {parentHead}
        ELSE LET r == reach[i - 1] IN
             r \cup (UNION {{heap[n].lChild.ptr, heap[n].rChild.ptr} : n \in r} \ {Null})
  IN reach[Len(heap)]

\* The keys a walk finds: those of leaves where the keys above lead.
Found(k) ==
  LET walk[i \in 0 .. Len(heap)] ==
        IF i = 0 THEN parentHead
        ELSE LET n == walk[i - 1] IN IF IsLeaf(n) THEN n ELSE heap[n][SideOf(n, k)].ptr
  IN heap[walk[Len(heap)]].key = k
=============================================================================
