------------------------------- MODULE McasTree -------------------------------
(***************************************************************************)
(* lockfree-mcas/BinarySearchTree.h over the mcas of mcas.h: with a mutex, *)
(* structure.sync = "mcas-lock", it fails only where a value differs; in   *)
(* transactions, "mcas-htm", also when another thread is in the way.       *)
(***************************************************************************)
EXTENDS Sections

Clash(t) == structure.sync = "mcas-htm" /\ \E u \in Thread \ {t} : pc[u] # "idle"

Root == root.root
Link(prev, side)  == IF prev = Null THEN Root ELSE heap[prev][side]

\* Compare-and-swap of the root (prev = Null) or a child pointer; ok on success.
McasWin(prev, side, expected, new) ==
  /\ Link(prev, side) = expected
  /\ IF prev = Null THEN WriteRoot([root EXCEPT !.root = new])
     ELSE Write([heap EXCEPT ![prev][side] = new])
McasLose(t, prev, side, expected) ==
  (Link(prev, side) # expected \/ Clash(t)) /\ UNCHANGED mem

-----------------------------------------------------------------------------
(* insert.                                                                 *)

PlantNew(t) ==
  At(t, "insert") /\ Write(Append(heap, TreeNode(My(t).key))) /\ Go(t, "root?", [node |-> New])

PlantTest(t) ==
  At(t, "root?") /\ Jump(t, IF Root = Null THEN "plant" ELSE "climb") /\ UNCHANGED mem

Plant(t) ==
  /\ At(t, "plant")
  /\ \/ McasWin(Null, "root", Null, My(t).node) /\ Return(t, 0)
     \/ McasLose(t, Null, "root", Null) /\ Jump(t, "root?")

ClimbRoot(t) ==
  At(t, "climb") /\ Go(t, "down", [curr |-> Root, prev |-> Null, side |-> "left"]) /\ UNCHANGED mem

ClimbDown(t) ==
  LET side == Side(My(t).key, heap[My(t).curr]) IN
  /\ At(t, "down")
  /\ IF My(t).curr = Null THEN Jump(t, "last")
     ELSE Go(t, "down", [curr |-> heap[My(t).curr][side], prev |-> My(t).curr, side |-> side])
  /\ UNCHANGED mem

\* Lines 66 and 75 load the child again: it may not be null any more.  The
\* compare-and-swap then puts the new node in the place of a subtree.
ClimbLast(t) ==
  /\ At(t, "last")
  /\ IF My(t).prev = Null THEN Fault(t)
     ELSE Go(t, "attach", [last |-> heap[My(t).prev][My(t).side]]) /\ UNCHANGED mem

\* Faulty ClimbAttach: the other side of the node.
ClimbAttachOther(t) ==
  /\ At(t, "attach")
  /\ \/ McasWin(My(t).prev, IF My(t).side = "left" THEN "right" ELSE "left", My(t).last, My(t).node)
        /\ Return(t, 0)
     \/ McasLose(t, My(t).prev, My(t).side, My(t).last) /\ Jump(t, "climb")

ClimbAttach(t) ==
  /\ At(t, "attach")
  /\ \/ McasWin(My(t).prev, My(t).side, My(t).last, My(t).node) /\ Return(t, 0)
     \/ McasLose(t, My(t).prev, My(t).side, My(t).last) /\ Jump(t, "climb")

-----------------------------------------------------------------------------
(* remove.  My(t).val is the parameter value, which a node with two        *)
(* children replaces by the smallest key of its right subtree.  One node   *)
(* is looked at in one step: updates overlap get_min only.                 *)

PruneBegin(t) ==
  /\ At(t, "remove") /\ Go(t, "retry", [val |-> My(t).key]) /\ UNCHANGED mem

PruneRetry(t) ==
  At(t, "retry") /\ Go(t, "node", [curr |-> Root, prev |-> Null, side |-> "left"]) /\ UNCHANGED mem

Children(n) == {heap[n].left, heap[n].right} \ {Null}

Onward(t) ==
  LET c == My(t).curr  side == Side(My(t).val, heap[c]) IN
  Go(t, "node", [curr |-> heap[c][side], prev |-> c, side |-> side])

PruneNode(t) ==
  LET c == My(t).curr IN
  /\ At(t, "node")
  /\ IF c = Null THEN Return(t, 0) /\ UNCHANGED mem
     ELSE IF heap[c].key # My(t).val THEN Onward(t) /\ UNCHANGED mem
     ELSE IF Cardinality(Children(c)) = 2
     THEN LET least == heap[Leftmost(heap, heap[c].right)].key
          IN /\ Write([heap EXCEPT ![c].key = least])
             /\ Go(t, "node", [val |-> least, prev |-> c, curr |-> heap[c].right, side |-> "right"])
     ELSE Go(t, "swap", [to |-> CHOOSE n \in Children(c) \cup {Null} : Children(c) # {} => n # Null])
          /\ UNCHANGED mem

\* Which failures start again: those of a leaf and of a left child with a left
\* child; behind the others the walk goes on, and the node stays.
Again(t) ==
  /\ My(t).prev # Null
  /\ Children(My(t).curr) # {} => My(t).side = "left" /\ heap[My(t).curr].left # Null

PruneSwap(t) ==
  LET prev == IF My(t).curr = Root THEN Null ELSE My(t).prev IN
  /\ At(t, "swap")
  /\ \/ McasWin(prev, My(t).side, My(t).curr, My(t).to) /\ Return(t, 0)
     \/ /\ McasLose(t, prev, My(t).side, My(t).curr)
        /\ IF Again(t) THEN Jump(t, "retry") ELSE Onward(t)

-----------------------------------------------------------------------------
(* get_min.                                                                *)

PeekMin(t) ==
  /\ At(t, "get_min")
  /\ IF Root = Null THEN Return(t, SentinelMax) ELSE Go(t, "peek", [curr |-> Root])
  /\ UNCHANGED mem

PeekLeft(t) ==
  /\ At(t, "peek") /\ UNCHANGED mem
  /\ Jump(t, IF heap[My(t).curr].left = Null THEN "peek value" ELSE "peek down")

\* The test and the move load the child each: a removal in between leaves null.
PeekDown(t) ==
  LET left == heap[My(t).curr].left IN
  /\ At(t, "peek down")
  /\ IF left = Null THEN Fault(t) ELSE Go(t, "peek", [curr |-> left]) /\ UNCHANGED mem

PeekValue(t) == At(t, "peek value") /\ Return(t, heap[My(t).curr].key) /\ UNCHANGED mem

McasTreeStep(t) ==
  /\ structure.sync \in {"mcas-lock", "mcas-htm"}
  /\ \/ PlantNew(t) \/ PlantTest(t) \/ Plant(t) \/ ClimbRoot(t) \/ ClimbDown(t) \/ ClimbLast(t)
     \/ ClimbAttach(t)
     \/ PruneBegin(t) \/ PruneRetry(t) \/ PruneNode(t) \/ PruneSwap(t)
     \/ PeekMin(t) \/ PeekLeft(t) \/ PeekDown(t) \/ PeekValue(t)
=============================================================================
