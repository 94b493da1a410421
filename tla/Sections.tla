------------------------------ MODULE Sections ------------------------------
(***************************************************************************)
(* Lists and trees as the structures of lockbased, htm-lock and htm-mcas   *)
(* lay them out, and what the code does to them inside one critical        *)
(* section: under the structure's mutex, or in a section of tm.h, which    *)
(* Tm shows to be atomic.                                                  *)
(***************************************************************************)
EXTENDS Calls, Objects

-----------------------------------------------------------------------------
(* A doubly linked list between two sentinels; also one bucket of a map.   *)

HeadNode == 1
TailNode == 2
Sentinels == <<[key |-> 0, val |-> 0, prev |-> Null, next |-> TailNode],
               [key |-> 0, val |-> 0, prev |-> HeadNode, next |-> Null]>>

\* From n on: the first node that is the tail or has key k.
SeekKey(n, k) ==
  LET walk[m \in DOMAIN heap] ==
        IF m = TailNode \/ heap[m].key = k THEN m ELSE walk[heap[m].next]
  IN walk[n]

\* The first node that is the tail or has a key not below k.
SeekPlace(k) ==
  LET walk[m \in DOMAIN heap] ==
        IF m = TailNode \/ heap[m].key >= k THEN m ELSE walk[heap[m].next]
  IN walk[heap[HeadNode].next]

\* The nodes from the head's successor to the tail's predecessor.
ListNodes ==
  LET walk[i \in 0 .. Len(heap)] ==
        IF i = 0 THEN <<>>
        ELSE LET s == walk[i - 1]
                 n == heap[IF s = <<>> THEN HeadNode ELSE s[Len(s)]].next
             IN IF n \in {TailNode, Null} THEN s ELSE Append(s, n)
  IN walk[Len(heap)]

\* A new node between the neighbours p and n.
LinkedBetween(p, n, k, v) ==
  Append([heap EXCEPT ![p].next = New, ![n].prev = New],
         [key |-> k, val |-> v, prev |-> p, next |-> n])

Unlinked(n) ==
  [heap EXCEPT ![heap[n].next].prev = heap[n].prev,
               ![heap[n].prev].next = heap[n].next]

ListInsert(k) ==
  LET n == SeekPlace(k) IN LinkedBetween(heap[n].prev, n, k, 0)

Occurrences(k) == {n \in DOMAIN heap : \E i \in DOMAIN ListNodes : ListNodes[i] = n /\ heap[n].key = k}

-----------------------------------------------------------------------------
(* A binary search tree below root.root.                                   *)

TreeNode(k) == [key |-> k, left |-> Null, right |-> Null]
Side(k, n) == IF k < n.key THEN "left" ELSE "right"

\* The node under which k belongs.
Parent(k) ==
  LET walk[n \in DOMAIN heap] ==
        LET child == heap[n][Side(k, heap[n])] IN IF child = Null THEN n ELSE walk[child]
  IN walk[root.root]

TreeInsert(k) ==
  IF root.root = Null
  THEN heap' = Append(heap, TreeNode(k)) /\ root' = [root EXCEPT !.root = New]
  ELSE /\ heap' = Append([heap EXCEPT ![Parent(k)][Side(k, heap[Parent(k)])] = New], TreeNode(k))
       /\ UNCHANGED root

Leftmost(h, n) == LET walk[m \in DOMAIN h] == IF h[m].left = Null THEN m ELSE walk[h[m].left]
                  IN walk[n]

\* The child put in the place of c, where prev's link on side s leads to c.
Replaced(m, c, prev, s) ==
  LET child == IF m.heap[c].left # Null THEN m.heap[c].left ELSE m.heap[c].right IN
  IF c = m.top THEN [m EXCEPT !.root = child] ELSE [m EXCEPT !.heap[prev][s] = child]

RECURSIVE Removal(_, _, _, _, _, _)

\* The loop of remove at c: a node with two children takes over the smallest key of
\* its right subtree, which is then removed there; any other is replaced by
\* its child.  How the loops go on behind a removed node: htm-mcas stops, lockbased
\* and htm-lock go on, and lockfree-flock does with the root that it read before.
Removal(m, c, prev, s, k, how) ==
  IF c = Null THEN m
  ELSE LET n == m.heap[c] IN
    IF n.key # k
    THEN Removal(m, n[Side(k, n)], c, Side(k, n), k, how)
    ELSE IF n.left # Null /\ n.right # Null
    THEN LET least == m.heap[Leftmost(m.heap, n.right)].key
         IN Removal([m EXCEPT !.heap[c].key = least], n.right, c, "right", least, how)
    ELSE LET done == Replaced(m, c, prev, s)
         IN CASE how = "stop"     -> done
              [] how = "on"       -> Removal([done EXCEPT !.top = done.root], n.right, c, "right", k, how)
              [] how = "old root" -> Removal(done, n.right, c, "right", k, how)

TreeRemove(k, how) ==
  LET m == Removal([heap |-> heap, root |-> root.root, top |-> root.root], root.root, Null, "left",
                   k, how)
  IN heap' = m.heap /\ root' = [root EXCEPT !.root = m.root]

\* The nodes at and below n.
Subtree(n) ==
  LET Children(S) == {heap[m].left : m \in S} \cup {heap[m].right : m \in S}
      below[i \in 0 .. Len(heap)] ==
        IF i = 0 THEN {n} \ {Null}
        ELSE LET b == below[i - 1] IN b \cup (Children(b) \ {Null})
  IN below[Len(heap)]

TreeNodes == Subtree(root.root)

\* Keys below a node's own lie to its left, the others to its right.
Ordered ==
  \A n \in TreeNodes : /\ \A m \in Subtree(heap[n].left) : heap[m].key < heap[n].key
                       /\ \A m \in Subtree(heap[n].right) : heap[m].key >= heap[n].key

-----------------------------------------------------------------------------
(* The structures and the calls a thread may make on them.                 *)

Operations ==
  [list  |-> {"insert", "remove", "count"},
   tree  |-> {"insert", "remove", "get_min"},
   map   |-> {"insert_or_assign", "erase", "contains", "find"},
   deque |-> {"push_front", "push_back", "pop_front", "pop_back"}]
-----------------------------------------------------------------------------
(* The rows of array_swap.h, each with a lock.                             *)

Rows == [i \in 1 .. 3 |-> [key |-> i - 1]]     \* row i - 1 holds item i - 1
\* Faulty RowOrder: the order of the call.
RowOrderOfCall(t) == <<1 + My(t).key, 1 + My(t).val>>

RowOrder(t) ==
  IF My(t).key < My(t).val THEN <<1 + My(t).key, 1 + My(t).val>> ELSE <<1 + My(t).val, 1 + My(t).key>>
LowRow(t)  == RowOrder(t)[1]
HighRow(t) == RowOrder(t)[2]
Locked(n) == \E u \in Thread : "locks" \in DOMAIN loc[u] /\ n \in loc[u].locks
=============================================================================
