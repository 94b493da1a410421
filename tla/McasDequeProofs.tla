--------------------------- MODULE McasDequeProofs ---------------------------
(***************************************************************************)
(* Proofs about lockfree-mcas/Deque.h (module McasDeque): the hats and     *)
(* links agree with the deque in both directions at every moment of every  *)
(* dcas and tcas (LinksOK), and every operation takes effect at one point  *)
(* on the sequence of nodes (DequeLinearizable).                           *)
(*                                                                         *)
(* The argument is about the settled memory: the words with a half-made    *)
(* push undone and a half-made pop finished.  Its nodes are of three       *)
(* kinds: fresh ones no push has put in yet, those in the deque, and dead  *)
(* ones, popped, linked to themselves on both sides for good.              *)
(***************************************************************************)
EXTENDS McasDeque, Integers, SequenceTheorems, TLAPS

Pushing(t) == pc[t] # "idle" /\ IsPush(t)
Storing(t) == owner = t /\ stored > 0

\* The nodes that have never been in the deque, and those of them no other
\* thread can have met: the first store of a push makes its node visible.
Fresh   == {n \in Node : n \in free \/ \E t \in Thread : Pushing(t) /\ NodeOf(t) = n}
Private == {n \in Fresh : ~\E t \in Thread : Storing(t) /\ Pushing(t) /\ NodeOf(t) = n}

\* The nodes of a deque, and the nodes that have left it, Dummy with them.
In(q)      == {q[i] : i \in 1 .. Len(q)}
Gone(q, F) == AnyNode \ (F \cup In(q))
Dead       == Gone(deque, Fresh)

\* A memory m holds the deque q, with the nodes of F still to come.
Apart(q, F)    == \A s \in Side : \A i, j \in 1 .. Len(q) :
  At(q, s, i) \notin F /\ (At(q, s, i) = At(q, s, j) => i = j)
Looped(m, D)   == \A s \in Side, d \in D : m[Link(s, d)] = d
Outer(m, q, D) == \A s \in Side :
  IF q = <<>> THEN m[Hat(s)] \in D
              ELSE m[Hat(s)] = At(q, s, 1) /\ m[Link(s, At(q, s, 1))] \in D
Inner(m, q)    == \A s \in Side : \A i \in 1 .. Len(q) - 1 : m[Link(Opp(s), At(q, s, i))] = At(q, s, i + 1)

Shape(m, q, F) ==
  /\ Apart(q, F)
  /\ Looped(m, Gone(q, F))
  /\ Outer(m, q, Gone(q, F))
  /\ Inner(m, q)

\* What the three calls make of a memory: the hat of side s and the outer link
\* of the node g in it, both hats, or the hat and both links of g.
SetNext(m, s, g, x, y)  == [m EXCEPT ![Hat(s)] = x, ![Link(s, g)] = y]
SetFirst(m, s, x, y)    == [m EXCEPT ![Hat(s)] = x, ![Hat(Opp(s))] = y]
SetPop(m, s, g, i)      == [m EXCEPT ![Hat(s)] = i, ![Link(Opp(s), g)] = g, ![Link(s, g)] = g]

\* The operation of a thread, and the node of a push.
ReqOK(t) ==
  IF pc[t] = "idle" THEN ret[t] # Pending
  ELSE /\ ret[t] = Pending
       /\ req[t][1] \in {"push", "pop"} /\ SideOf(t) \in Side
       /\ IsPush(t) =>
            NodeOf(t) \in Node \ free /\ mem[Link(SideOf(t), NodeOf(t))] = Dummy

NodesApart == \A t, u \in Thread : Pushing(t) /\ Pushing(u) /\ NodeOf(t) = NodeOf(u) => t = u

\* What a thread knows of the hat it has loaded.
HatRead(t) ==
  /\ pc[t] \notin {"idle", "hat"} => h[t] \notin Private
  /\ pc[t] = "other" => IsPush(t) /\ h[t] \in Dead /\ mem[Link(Opp(SideOf(t)), NodeOf(t))] = Dummy
  /\ pc[t] = "links2" => ~IsPush(t) /\ (SideOf(t) = "L" /\ out[t] = h[t] => h[t] \in Dead)
  /\ pc[t] = "reread" => ~IsPush(t) /\ h[t] \in Dead

\* The three calls: push next to h, push into the empty deque, pop h.
PushNext(t, o) ==
  LET s == SideOf(t)  n == NodeOf(t) IN
  /\ IsPush(t) /\ h[t] # n /\ o # h[t] /\ mem[Link(Opp(s), n)] = h[t]
  /\ call[t] = << <<Hat(s), h[t], n>>, <<Link(s, h[t]), o, n>> >>
PushFirst(t, o) ==
  LET s == SideOf(t)  n == NodeOf(t) IN
  /\ IsPush(t) /\ h[t] \in Dead /\ mem[Link(Opp(s), n)] = Dummy
  /\ call[t] = << <<Hat(s), h[t], n>>, <<Hat(Opp(s)), o, n>> >>
PopOne(t, o, i) ==
  LET s == SideOf(t) IN
  /\ ~IsPush(t) /\ o # h[t]
  /\ call[t] = << <<Hat(s), h[t], i>>, <<Link(Opp(s), h[t]), i, h[t]>>, <<Link(s, h[t]), o, h[t]>> >>

CallOK(t) == pc[t] \in {"mcas", "store"} =>
  \E o, i \in AnyNode : PushNext(t, o) \/ PushFirst(t, o) \/ PopOne(t, o, i)

\* The words of the call in progress: those stored hold the new values.
Stored(t) == \A k \in DOMAIN call[t] :
  mem[call[t][k][1]] = IF k <= stored THEN call[t][k][3] ELSE call[t][k][2]

OwnerOK ==
  /\ \A t \in Thread : pc[t] = "store" <=> owner = t
  /\ owner = NoThread => stored = 0
  /\ owner # NoThread => stored < Len(call[owner]) /\ Stored(owner)

\* What a pop will return is a node of the deque as it was.
DecidedOK == \A t \in Thread : Decided(t) => h[t] \in Node

IInv ==
  /\ TypeOK
  /\ \A t \in Thread : ReqOK(t) /\ HatRead(t) /\ CallOK(t)
  /\ NodesApart /\ OwnerOK /\ DecidedOK
  /\ Shape(Settled, deque, Fresh)

-----------------------------------------------------------------------------
(* The shared words are different words.                                   *)

\* Hats and links are words of the memory, each word has one name.
LEMMA Cells ==
  /\ \A s \in Side : Hat(s) \in Cell /\ Opp(s) \in Side /\ Opp(Opp(s)) = s /\ Opp(s) # s
  /\ \A s \in Side, n \in AnyNode : Link(s, n) \in Cell
  /\ \A s, u \in Side : (Hat(s) = Hat(u)) = (s = u)
  /\ \A s, u \in Side, n, d \in AnyNode : (Link(s, n) = Link(u, d)) = (s = u /\ n = d)
  /\ \A s, u \in Side, n \in AnyNode : Hat(s) # Link(u, n)
  /\ \A c \in Cell : (\E s \in Side : c = Hat(s)) \/ (\E s \in Side, n \in AnyNode : c = Link(s, n))
  <1>1. \A s \in Side : Hat(s) \in Cell /\ Opp(s) \in Side /\ Opp(Opp(s)) = s /\ Opp(s) # s
    BY DEF Side, Opp, Hat, Cell
  <1>2. \A s \in Side, n \in AnyNode : Link(s, n) \in Cell
    <2> TAKE s \in Side, n \in AnyNode
    <2>1. Link(s, n) \in {Link(u, d) : u \in Side, d \in AnyNode}
      OBVIOUS
    <2> QED BY <2>1 DEF Cell
  <1>3. \A s, u \in Side : (Hat(s) = Hat(u)) = (s = u)
    BY DEF Hat
  <1>4. \A s, u \in Side, n, d \in AnyNode : (Link(s, n) = Link(u, d)) = (s = u /\ n = d)
    BY DEF Link
  <1>5. \A s, u \in Side, n \in AnyNode : Hat(s) # Link(u, n)
    BY DEF Hat, Link
  <1>6. \A c \in Cell : (\E s \in Side : c = Hat(s)) \/ (\E s \in Side, n \in AnyNode : c = Link(s, n))
    <2> TAKE c \in Cell
    <2>1. c \in {Link(u, d) : u \in Side, d \in AnyNode} => \E s \in Side, n \in AnyNode : c = Link(s, n)
      OBVIOUS
    <2>2. c \in {Hat(u) : u \in Side} => \E s \in Side : c = Hat(s)
      OBVIOUS
    <2>3. c \in {Hat(u) : u \in Side} \/ c \in {Link(u, d) : u \in Side, d \in AnyNode}
      BY DEF Cell
    <2> QED BY <2>1, <2>2, <2>3
  <1> QED BY <1>1, <1>2, <1>3, <1>4, <1>5, <1>6

\* The links of two nodes are different words.
LEMMA LinkApart ==
  ASSUME NEW u \in Side, NEW v \in Side, NEW d \in AnyNode, NEW g \in AnyNode, d # g
  PROVE  Link(u, d) \in Cell /\ Link(u, d) # Hat(v) /\ Link(u, d) # Link(v, g)
  BY Cells

\* A side is the one or the other.
LEMMA Sides == \A s, u \in Side : u = s \/ u = Opp(s)
  BY DEF Side, Opp

-----------------------------------------------------------------------------
(* Deques seen from a side.                                                *)

\* A push on side s puts the node first from that side and last from the other.
LEMMA PushedAt ==
  ASSUME NEW q \in Seq(Node), NEW s \in Side, NEW n \in Node
  PROVE  LET p == Pushed(q, s, n) IN
         /\ p \in Seq(Node) /\ Len(p) = Len(q) + 1 /\ Len(q) \in Nat
         /\ At(p, s, 1) = n /\ \A i \in 1 .. Len(q) : At(p, s, i + 1) = At(q, s, i)
         /\ At(p, Opp(s), Len(q) + 1) = n
         /\ \A i \in 1 .. Len(q) : At(p, Opp(s), i) = At(q, Opp(s), i)
  <1>1. CASE s = "L"
    <2>1. Pushed(q, s, n) = <<n>> \o q /\ Opp(s) = "R"
      BY <1>1 DEF Pushed, Opp
    <2> DEFINE p == <<n>> \o q
    <2>2. p \in Seq(Node) /\ Len(p) = Len(q) + 1 /\ Len(q) \in Nat /\ p[1] = n
      OBVIOUS
    <2>3. \A i \in 1 .. Len(q) : p[i + 1] = q[i]
      OBVIOUS
    <2>4. \A i \in Int : At(p, s, i) = p[i] /\ At(q, s, i) = q[i]
      BY <1>1 DEF At
    <2>5. \A i \in Int : At(p, Opp(s), i) = p[Len(p) + 1 - i] /\ At(q, Opp(s), i) = q[Len(q) + 1 - i]
      BY <2>1 DEF At
    <2> HIDE DEF p
    <2>6. \A i \in 1 .. Len(q) : At(p, s, i + 1) = At(q, s, i)
      BY <2>2, <2>3, <2>4
    <2>7. \A i \in 1 .. Len(q) : At(p, Opp(s), i) = At(q, Opp(s), i)
      <3> TAKE i \in 1 .. Len(q)
      <3>1. Len(q) + 1 - i \in 1 .. Len(q) /\ Len(p) + 1 - i = (Len(q) + 1 - i) + 1
        BY <2>2
      <3>2. i \in Int
        OBVIOUS
      <3> QED BY <3>1, <3>2, <2>3, <2>5
    <2>8. At(p, s, 1) = n /\ At(p, Opp(s), Len(q) + 1) = n
      BY <2>2, <2>4, <2>5
    <2> QED BY <2>1, <2>2, <2>6, <2>7, <2>8 DEF p
  <1>2. CASE s = "R"
    <2>1. Pushed(q, s, n) = Append(q, n) /\ Opp(s) = "L"
      BY <1>2 DEF Pushed, Opp
    <2> DEFINE p == Append(q, n)
    <2>2. p \in Seq(Node) /\ Len(p) = Len(q) + 1 /\ Len(q) \in Nat /\ p[Len(q) + 1] = n
      OBVIOUS
    <2>3. \A i \in 1 .. Len(q) : p[i] = q[i]
      OBVIOUS
    <2>4. \A i \in Int : At(p, Opp(s), i) = p[i] /\ At(q, Opp(s), i) = q[i]
      BY <2>1 DEF At
    <2>5. \A i \in Int : At(p, s, i) = p[Len(p) + 1 - i] /\ At(q, s, i) = q[Len(q) + 1 - i]
      BY <1>2 DEF At
    <2> HIDE DEF p
    <2>6. \A i \in 1 .. Len(q) : At(p, Opp(s), i) = At(q, Opp(s), i)
      BY <2>2, <2>3, <2>4
    <2>7. \A i \in 1 .. Len(q) : At(p, s, i + 1) = At(q, s, i)
      <3> TAKE i \in 1 .. Len(q)
      <3>1. Len(q) + 1 - i \in 1 .. Len(q) /\ Len(p) + 1 - (i + 1) = Len(q) + 1 - i /\ i + 1 \in Int
        BY <2>2
      <3>2. i \in Int
        OBVIOUS
      <3> QED BY <3>1, <3>2, <2>3, <2>5
    <2>8. At(p, s, 1) = n /\ At(p, Opp(s), Len(q) + 1) = n
      BY <2>2, <2>4, <2>5
    <2> QED BY <2>1, <2>2, <2>6, <2>7, <2>8 DEF p
  <1> QED BY <1>1, <1>2 DEF Side

\* A pop on side s takes the first node from that side, the last from the other.
LEMMA PoppedAt ==
  ASSUME NEW q \in Seq(Node), NEW s \in Side, q # <<>>
  PROVE  LET p == Popped(q, s) IN
         /\ p \in Seq(Node) /\ Len(p) = Len(q) - 1 /\ Len(q) \in Nat \ {0}
         /\ \A i \in 1 .. Len(q) - 1 : At(p, s, i) = At(q, s, i + 1)
         /\ \A i \in 1 .. Len(q) - 1 : At(p, Opp(s), i) = At(q, Opp(s), i)
         /\ At(q, Opp(s), Len(q)) = At(q, s, 1)
  <1>0. Len(q) \in Nat \ {0} /\ Len(q) \in Nat /\ Len(q) >= 1
    <2>1. Len(q) \in Nat /\ Len(q) # 0
      OBVIOUS
    <2> QED BY <2>1
  <1>1. CASE s = "L"
    <2>1. Popped(q, s) = SubSeq(q, 2, Len(q)) /\ Opp(s) = "R"
      BY <1>1 DEF Popped, Opp
    <2> DEFINE p == SubSeq(q, 2, Len(q))
    <2>2. p \in Seq(Node) /\ Len(p) = Len(q) - 1
      <3>1. Len(q) \in Int /\ 2 \in Int /\ \A i \in 2 .. Len(q) : q[i] \in Node
        BY <1>0
      <3>2. PICK k \in Nat \ {0} : k = Len(q)
        BY <1>0
      <3>3. p \in Seq(Node) /\ Len(p) = IF 2 <= k THEN k - 2 + 1 ELSE 0
        BY <3>1, <3>2, SubSeqProperties
      <3>4. (IF 2 <= k THEN k - 2 + 1 ELSE 0) = k - 1
        OBVIOUS
      <3> QED BY <3>2, <3>3, <3>4
    <2>3. \A i \in 1 .. Len(q) - 1 : p[i] = q[i + 1]
      BY <1>0
    <2>4. \A i \in Int : At(p, s, i) = p[i] /\ At(q, s, i) = q[i]
      BY <1>1 DEF At
    <2>5. \A i \in Int : At(p, Opp(s), i) = p[Len(p) + 1 - i] /\ At(q, Opp(s), i) = q[Len(q) + 1 - i]
      BY <2>1 DEF At
    <2> HIDE DEF p
    <2>6. \A i \in 1 .. Len(q) - 1 : At(p, s, i) = At(q, s, i + 1)
      BY <1>0, <2>3, <2>4
    <2>7. \A i \in 1 .. Len(q) - 1 : At(p, Opp(s), i) = At(q, Opp(s), i)
      <3> TAKE i \in 1 .. Len(q) - 1
      <3>1. Len(q) - i \in 1 .. Len(q) - 1 /\ Len(p) + 1 - i = Len(q) - i /\ Len(q) + 1 - i = (Len(q) - i) + 1
        BY <1>0, <2>2
      <3>2. i \in Int
        OBVIOUS
      <3> QED BY <3>1, <3>2, <2>3, <2>5
    <2>8. At(q, Opp(s), Len(q)) = At(q, s, 1)
      <3>1. Len(q) \in Int /\ Len(q) + 1 - Len(q) = 1 /\ Len(q) + 1 - 1 = Len(q) /\ 1 \in Int
        BY <1>0
      <3> QED BY <3>1, <2>4, <2>5
    <2> QED BY <1>0, <2>1, <2>2, <2>6, <2>7, <2>8 DEF p
  <1>2. CASE s = "R"
    <2>1. Popped(q, s) = SubSeq(q, 1, Len(q) - 1) /\ Opp(s) = "L"
      BY <1>2 DEF Popped, Opp
    <2> DEFINE p == SubSeq(q, 1, Len(q) - 1)
    <2>2. p \in Seq(Node) /\ Len(p) = Len(q) - 1
      <3>1. Len(q) - 1 \in Int /\ 1 \in Int /\ \A i \in 1 .. Len(q) - 1 : q[i] \in Node
        BY <1>0
      <3>2. PICK k \in Nat \ {0} : k = Len(q)
        BY <1>0
      <3>3. p \in Seq(Node) /\ Len(p) = IF 1 <= k - 1 THEN (k - 1) - 1 + 1 ELSE 0
        BY <3>1, <3>2, SubSeqProperties
      <3>4. (IF 1 <= k - 1 THEN (k - 1) - 1 + 1 ELSE 0) = k - 1
        OBVIOUS
      <3> QED BY <3>2, <3>3, <3>4
    <2>3. \A i \in 1 .. Len(q) - 1 : p[i] = q[i]
      BY <1>0
    <2>4. \A i \in Int : At(p, Opp(s), i) = p[i] /\ At(q, Opp(s), i) = q[i]
      BY <2>1 DEF At
    <2>5. \A i \in Int : At(p, s, i) = p[Len(p) + 1 - i] /\ At(q, s, i) = q[Len(q) + 1 - i]
      BY <1>2 DEF At
    <2> HIDE DEF p
    <2>6. \A i \in 1 .. Len(q) - 1 : At(p, Opp(s), i) = At(q, Opp(s), i)
      BY <1>0, <2>3, <2>4
    <2>7. \A i \in 1 .. Len(q) - 1 : At(p, s, i) = At(q, s, i + 1)
      <3> TAKE i \in 1 .. Len(q) - 1
      <3>1. /\ Len(q) - i \in 1 .. Len(q) - 1 /\ Len(p) + 1 - i = Len(q) - i
            /\ Len(q) + 1 - (i + 1) = Len(q) - i /\ i \in Int /\ i + 1 \in Int
        BY <1>0, <2>2
      <3>2. i \in Int
        OBVIOUS
      <3> QED BY <3>1, <3>2, <2>3, <2>5
    <2>8. At(q, Opp(s), Len(q)) = At(q, s, 1)
      <3>1. Len(q) \in Int /\ Len(q) + 1 - Len(q) = 1 /\ Len(q) + 1 - 1 = Len(q) /\ 1 \in Int
        BY <1>0
      <3> QED BY <3>1, <2>4, <2>5
    <2> QED BY <1>0, <2>1, <2>2, <2>6, <2>7, <2>8 DEF p
  <1> QED BY <1>1, <1>2 DEF Side

\* Both sides see the same nodes.
LEMMA InAt ==
  ASSUME NEW q \in Seq(Node), NEW s \in Side
  PROVE  /\ \A i \in 1 .. Len(q) : At(q, s, i) \in In(q) /\ At(q, s, i) \in Node
         /\ \A x \in In(q) : x \in Node /\ \E i \in 1 .. Len(q) : x = At(q, s, i)
  <1>1. Len(q) \in Nat /\ \A i \in 1 .. Len(q) : q[i] \in Node
    OBVIOUS
  <1>2. CASE s = "L"
    <2>1. \A i \in 1 .. Len(q) : At(q, s, i) = q[i]
      BY <1>2 DEF At
    <2> QED BY <1>1, <2>1 DEF In
  <1>3. CASE s # "L"
    <2>1. \A i \in 1 .. Len(q) : At(q, s, i) = q[Len(q) + 1 - i]
      BY <1>3 DEF At
    <2>2. \A i \in 1 .. Len(q) : Len(q) + 1 - i \in 1 .. Len(q) /\ Len(q) + 1 - (Len(q) + 1 - i) = i
      BY <1>1
    <2>3. \A i \in 1 .. Len(q) : At(q, s, i) \in In(q) /\ At(q, s, i) \in Node
      BY <1>1, <2>1, <2>2 DEF In
    <2>4. ASSUME NEW i \in 1 .. Len(q)  PROVE q[i] \in Node /\ \E j \in 1 .. Len(q) : q[i] = At(q, s, j)
      <3>1. q[i] = At(q, s, Len(q) + 1 - i)
        BY <2>1, <2>2
      <3> QED BY <1>1, <2>2, <3>1
    <2> QED BY <2>3, <2>4 DEF In
  <1> QED BY <1>2, <1>3

\* The order of one side is the reverse of the other.
LEMMA Mirror ==
  ASSUME NEW q \in Seq(Node), NEW s \in Side, NEW k \in Int
  PROVE  At(q, Opp(s), k) = At(q, s, Len(q) + 1 - k)
  <1>1. Len(q) + 1 - (Len(q) + 1 - k) = k
    OBVIOUS
  <1> QED BY <1>1 DEF At, Opp, Side

\* What a push makes of the nodes: its node joins them and is no longer fresh.
LEMMA PushedIn ==
  ASSUME NEW q \in Seq(Node), NEW s \in Side, NEW F \in SUBSET Node, NEW n \in F, Apart(q, F)
  PROVE  /\ Apart(Pushed(q, s, n), F \ {n})
         /\ Gone(Pushed(q, s, n), F \ {n}) = Gone(q, F)
         /\ n \notin Gone(q, F)
  <1> DEFINE p == Pushed(q, s, n)
  <1>1. /\ p \in Seq(Node) /\ Len(p) = Len(q) + 1 /\ Len(q) \in Nat
        /\ At(p, s, 1) = n /\ \A i \in 1 .. Len(q) : At(p, s, i + 1) = At(q, s, i)
        /\ At(p, Opp(s), Len(q) + 1) = n
        /\ \A i \in 1 .. Len(q) : At(p, Opp(s), i) = At(q, Opp(s), i)
    BY PushedAt
  <1> HIDE DEF p
  <1>2. \A x : x \in In(p) <=> x \in In(q) \/ x = n
    <2>1. ASSUME NEW x \in In(p)  PROVE x \in In(q) \/ x = n
      <3>1. PICK i \in 1 .. Len(p) : x = At(p, Opp(s), i)
        BY <1>1, InAt, Cells
      <3>2. CASE i \in 1 .. Len(q)
        BY <1>1, <3>1, <3>2, InAt, Cells
      <3>3. CASE i = Len(q) + 1
        BY <1>1, <3>1, <3>3
      <3> QED BY <1>1, <3>2, <3>3
    <2>2. ASSUME NEW x \in In(q)  PROVE x \in In(p)
      <3>1. PICK i \in 1 .. Len(q) : x = At(q, Opp(s), i)
        BY InAt, Cells
      <3>2. i \in 1 .. Len(p) /\ x = At(p, Opp(s), i)
        BY <1>1, <3>1
      <3> QED BY <1>1, <3>2, InAt, Cells
    <2>3. n \in In(p)
      <3>1. Len(q) + 1 \in 1 .. Len(p)
        BY <1>1
      <3> QED BY <1>1, <3>1, InAt, Cells
    <2> QED BY <2>1, <2>2, <2>3
  <1>3. \A u \in Side : \A i, j \in 1 .. Len(q) :
          At(q, u, i) \notin F /\ At(q, u, i) # n /\ (At(q, u, i) = At(q, u, j) => i = j)
    BY DEF Apart
  <1>4. ASSUME NEW i \in 1 .. Len(p), NEW j \in 1 .. Len(p)
        PROVE  At(p, s, i) \notin F \ {n} /\ (At(p, s, i) = At(p, s, j) => i = j)
    <2>1. \A k \in 1 .. Len(p) : k = 1 \/ (k - 1 \in 1 .. Len(q) /\ At(p, s, k) = At(q, s, k - 1))
      <3> TAKE k \in 1 .. Len(p)
      <3>1. k # 1 => k - 1 \in 1 .. Len(q) /\ (k - 1) + 1 = k
        BY <1>1
      <3> QED BY <1>1, <3>1
    <2>2. At(p, s, i) \notin F \ {n}
      BY <1>1, <1>3, <2>1
    <2>3. CASE i = 1 \/ j = 1
      BY <1>1, <1>3, <2>1, <2>3
    <2>4. CASE i # 1 /\ j # 1
      <3>1. i - 1 \in 1 .. Len(q) /\ j - 1 \in 1 .. Len(q) /\ At(p, s, i) = At(q, s, i - 1) /\ At(p, s, j) = At(q, s, j - 1)
        BY <2>1, <2>4
      <3>2. At(q, s, i - 1) = At(q, s, j - 1) => i - 1 = j - 1
        BY <1>3, <3>1
      <3>3. i - 1 = j - 1 => i = j
        BY <1>1
      <3> QED BY <2>2, <3>1, <3>2, <3>3
    <2> QED BY <2>2, <2>3, <2>4
  <1>5. ASSUME NEW i \in 1 .. Len(p), NEW j \in 1 .. Len(p)
        PROVE  At(p, Opp(s), i) \notin F \ {n} /\ (At(p, Opp(s), i) = At(p, Opp(s), j) => i = j)
    <2>1. \A k \in 1 .. Len(p) : k = Len(q) + 1 \/ k \in 1 .. Len(q)
      BY <1>1
    <2> QED BY <1>1, <1>3, <2>1, Cells
  <1>6. Apart(p, F \ {n})
    <2>1. ASSUME NEW u \in Side, NEW i \in 1 .. Len(p), NEW j \in 1 .. Len(p)
          PROVE  At(p, u, i) \notin F \ {n} /\ (At(p, u, i) = At(p, u, j) => i = j)
      <3>1. CASE u = s
        BY <1>4, <3>1
      <3>2. CASE u = Opp(s)
        BY <1>5, <3>2
      <3> QED BY <3>1, <3>2, Sides
    <2> QED BY <2>1 DEF Apart
  <1>7. Gone(p, F \ {n}) = Gone(q, F)
    BY <1>2 DEF Gone
  <1> QED BY <1>6, <1>7 DEF p, Gone

\* What a pop makes of the nodes: the first one from its side is gone.
LEMMA PoppedIn ==
  ASSUME NEW q \in Seq(Node), NEW s \in Side, NEW F \in SUBSET Node, q # <<>>, Apart(q, F)
  PROVE  /\ Apart(Popped(q, s), F)
         /\ Gone(Popped(q, s), F) = Gone(q, F) \cup {At(q, s, 1)}
  <1> DEFINE p == Popped(q, s)
  <1>1. /\ p \in Seq(Node) /\ Len(p) = Len(q) - 1 /\ Len(q) \in Nat \ {0}
        /\ \A i \in 1 .. Len(q) - 1 : At(p, s, i) = At(q, s, i + 1)
        /\ \A i \in 1 .. Len(q) - 1 : At(p, Opp(s), i) = At(q, Opp(s), i)
        /\ At(q, Opp(s), Len(q)) = At(q, s, 1)
    BY PoppedAt
  <1> HIDE DEF p
  <1>2. \A u \in Side : \A i, j \in 1 .. Len(q) :
          At(q, u, i) \notin F /\ (At(q, u, i) = At(q, u, j) => i = j)
    BY DEF Apart
  <1>3. \A x : x \in In(p) <=> x \in In(q) /\ x # At(q, s, 1)
    <2>1. ASSUME NEW x \in In(p)  PROVE x \in In(q) /\ x # At(q, s, 1)
      <3>1. PICK i \in 1 .. Len(p) : x = At(p, Opp(s), i)
        BY <1>1, InAt, Cells
      <3>2. i \in 1 .. Len(q) - 1 /\ i \in 1 .. Len(q) /\ Len(q) \in 1 .. Len(q) /\ i # Len(q)
        BY <1>1, <3>1
      <3>3. x = At(q, Opp(s), i)
        BY <1>1, <3>1, <3>2
      <3> QED BY <1>1, <1>2, <3>2, <3>3, InAt, Cells
    <2>2. ASSUME NEW x \in In(q), x # At(q, s, 1)  PROVE x \in In(p)
      <3>1. PICK i \in 1 .. Len(q) : x = At(q, Opp(s), i)
        BY InAt, Cells
      <3>2. i # Len(q)
        BY <1>1, <2>2, <3>1
      <3>3. i \in 1 .. Len(q) - 1 /\ i \in 1 .. Len(p)
        BY <1>1, <3>2
      <3>4. x = At(p, Opp(s), i)
        BY <1>1, <3>1, <3>3
      <3> QED BY <1>1, <3>3, <3>4, InAt, Cells
    <2> QED BY <2>1, <2>2
  <1>4. ASSUME NEW i \in 1 .. Len(p), NEW j \in 1 .. Len(p), NEW u \in Side
        PROVE  At(p, u, i) \notin F /\ (At(p, u, i) = At(p, u, j) => i = j)
    <2>1. /\ i \in 1 .. Len(q) - 1 /\ i \in 1 .. Len(q) /\ i + 1 \in 1 .. Len(q)
          /\ j \in 1 .. Len(q) - 1 /\ j \in 1 .. Len(q) /\ j + 1 \in 1 .. Len(q)
          /\ (i + 1 = j + 1 => i = j)
      BY <1>1
    <2>2. CASE u = s
      <3>1. At(p, u, i) = At(q, s, i + 1) /\ At(p, u, j) = At(q, s, j + 1)
        BY <1>1, <2>1, <2>2
      <3>2. At(q, s, i + 1) \notin F /\ (At(q, s, i + 1) = At(q, s, j + 1) => i + 1 = j + 1)
        BY <1>2, <2>1
      <3> QED BY <2>1, <3>1, <3>2
    <2>3. CASE u = Opp(s)
      <3>1. At(p, u, i) = At(q, u, i) /\ At(p, u, j) = At(q, u, j)
        BY <1>1, <2>1, <2>3
      <3> QED BY <1>2, <2>1, <3>1
    <2> QED BY <2>2, <2>3, Sides
  <1>5. Apart(p, F)
    BY <1>4 DEF Apart
  <1>6. At(q, s, 1) \in Node /\ At(q, s, 1) \notin F
    <2>1. 1 \in 1 .. Len(q)
      BY <1>1
    <2> QED BY <1>2, <2>1, InAt
  <1>7. Gone(p, F) = Gone(q, F) \cup {At(q, s, 1)}
    BY <1>3, <1>6 DEF Gone, AnyNode
  <1> QED BY <1>5, <1>7 DEF p

-----------------------------------------------------------------------------
(* What the three calls do to a memory that holds a deque.                 *)

\* The hat of a side is at its outermost node or at one that is gone, which
\* its outer link tells.
LEMMA HatIs ==
  ASSUME NEW m, NEW q \in Seq(Node), NEW F \in SUBSET Node, Shape(m, q, F), NEW s \in Side
  PROVE  /\ Dummy \in Gone(q, F)
         /\ m[Hat(s)] \in Gone(q, F) <=> q = <<>>
         /\ m[Link(s, m[Hat(s)])] = m[Hat(s)] <=> q = <<>>
         /\ q # <<>> => /\ m[Hat(s)] = At(q, s, 1) /\ Len(q) \in Nat \ {0}
                        /\ At(q, s, 1) \in In(q) /\ At(q, s, 1) \in Node \ F
                        /\ At(q, Opp(s), Len(q)) = At(q, s, 1)
  <1>1. Dummy \in Gone(q, F)
    BY DistinctAssumption, InAt DEF Gone, AnyNode, Side
  <1>2. CASE q = <<>>
    BY <1>1, <1>2 DEF Shape, Outer, Looped
  <1>3. CASE q # <<>>
    <2>1. Len(q) \in Nat \ {0} /\ At(q, Opp(s), Len(q)) = At(q, s, 1)
      BY <1>3, PoppedAt
    <2>2. 1 \in 1 .. Len(q)
      BY <2>1
    <2>3. m[Hat(s)] = At(q, s, 1) /\ m[Link(s, At(q, s, 1))] \in Gone(q, F)
      BY <1>3 DEF Shape, Outer
    <2>4. At(q, s, 1) \in In(q) /\ At(q, s, 1) \in Node /\ At(q, s, 1) \notin F
      BY <2>2, InAt DEF Shape, Apart
    <2>5. At(q, s, 1) \notin Gone(q, F)
      BY <2>4 DEF Gone
    <2> QED BY <1>1, <1>3, <2>1, <2>3, <2>4, <2>5
  <1> QED BY <1>2, <1>3

\* A node that is linked to itself, on either side, and is not fresh, is gone.
LEMMA LoopedIsGone ==
  ASSUME NEW m, NEW q \in Seq(Node), NEW F \in SUBSET Node, Shape(m, q, F), NEW s \in Side,
         NEW n \in AnyNode \ F, m[Link(s, n)] = n
  PROVE  n \in Gone(q, F)
  <1> SUFFICES ASSUME n \in In(q)  PROVE FALSE
    BY DEF Gone
  <1>1. PICK i \in 1 .. Len(q) : n = At(q, s, i)
    BY InAt
  <1>3. q # <<>>
    BY <1>1
  <1>4. CASE i = 1
    BY <1>1, <1>3, <1>4, HatIs
  <1>5. CASE i # 1
    <2>1. Len(q) \in Nat \ {0}
      BY <1>3, HatIs
    <2>2. PICK j \in 1 .. Len(q) : n = At(q, Opp(s), j)
      BY InAt, Cells
    <2>3. j # Len(q)
      <3>1. At(q, Opp(s), Len(q)) = At(q, s, 1)
        BY <1>3, HatIs
      <3>2. 1 \in 1 .. Len(q)
        BY <2>1
      <3>3. At(q, s, i) = At(q, s, 1) => i = 1
        BY <3>2 DEF Shape, Apart
      <3> QED BY <1>1, <1>5, <2>2, <3>1, <3>3
    <2>4. j \in 1 .. Len(q) - 1 /\ j + 1 \in 1 .. Len(q) /\ j + 1 # j
      BY <2>1, <2>3
    <2>5. m[Link(s, n)] = At(q, Opp(s), j + 1)
      BY <2>2, <2>4, Cells DEF Shape, Inner
    <2>6. At(q, Opp(s), j + 1) = At(q, Opp(s), j) => j + 1 = j
      BY <2>4, Cells DEF Shape, Apart
    <2> QED BY <2>2, <2>4, <2>5, <2>6
  <1> QED BY <1>4, <1>5

\* The links of the nodes to come do not matter.
LEMMA ShapeFrame ==
  ASSUME NEW m, NEW w, NEW q \in Seq(Node), NEW F \in SUBSET Node, Shape(m, q, F),
         \A s \in Side : w[Hat(s)] = m[Hat(s)],
         \A s \in Side : \A n \in AnyNode \ F : w[Link(s, n)] = m[Link(s, n)]
  PROVE  Shape(w, q, F)
  <1>1. \A d \in Gone(q, F) : d \in AnyNode \ F
    BY DEF Gone
  <1>2. \A s \in Side : \A i \in 1 .. Len(q) : At(q, s, i) \in AnyNode \ F
    BY InAt DEF Shape, Apart, AnyNode
  <1>3. Looped(w, Gone(q, F))
    BY <1>1 DEF Shape, Looped
  <1>4. Outer(w, q, Gone(q, F))
    <2>1. ASSUME q # <<>>, NEW s \in Side  PROVE At(q, s, 1) \in AnyNode \ F
      BY <2>1, HatIs DEF AnyNode
    <2> QED BY <2>1 DEF Shape, Outer
  <1>5. Inner(w, q)
    <2> SUFFICES ASSUME NEW s \in Side, NEW i \in 1 .. Len(q) - 1
                 PROVE  w[Link(Opp(s), At(q, s, i))] = At(q, s, i + 1)
      BY DEF Inner
    <2>1. Len(q) \in Nat
      OBVIOUS
    <2>2. i \in 1 .. Len(q)
      BY <2>1
    <2> QED BY <1>2, <2>2, Cells DEF Shape, Inner
  <1> QED BY <1>3, <1>4, <1>5 DEF Shape

\* push next to the node h at the hat: the dcas stores the new node in the hat
\* and in the outer link of h.
LEMMA PushNextShape ==
  ASSUME NEW m \in [Cell -> AnyNode], NEW q \in Seq(Node), NEW F \in SUBSET Node, Shape(m, q, F),
         NEW s \in Side, NEW n \in F, NEW g \in AnyNode,
         m[Hat(s)] = g, m[Link(s, g)] # g, m[Link(s, n)] = Dummy, m[Link(Opp(s), n)] = g
  PROVE  /\ g \notin F
         /\ Shape(SetNext(m, s, g, n, n), Pushed(q, s, n), F \ {n})
  <1> DEFINE w == SetNext(m, s, g, n, n)
             p == Pushed(q, s, n)
             D == Gone(q, F)
  <1>1. q # <<>>
    BY HatIs
  <1>2. /\ g = At(q, s, 1) /\ Len(q) \in Nat \ {0} /\ g \in In(q) /\ g \in Node \ F
        /\ At(q, Opp(s), Len(q)) = g /\ Dummy \in D
    BY <1>1, HatIs
  <1>3. /\ p \in Seq(Node) /\ Len(p) = Len(q) + 1
        /\ At(p, s, 1) = n /\ \A i \in 1 .. Len(q) : At(p, s, i + 1) = At(q, s, i)
        /\ At(p, Opp(s), Len(q) + 1) = n
        /\ \A i \in 1 .. Len(q) : At(p, Opp(s), i) = At(q, Opp(s), i)
    BY PushedAt
  <1>4. Apart(p, F \ {n}) /\ Gone(p, F \ {n}) = D
    BY PushedIn DEF Shape
  <1>5. \A i \in 1 .. Len(q), u \in Side : At(q, u, i) \in AnyNode \ F
    BY InAt DEF Shape, Apart, AnyNode
  <1>6. /\ w[Hat(s)] = n /\ w[Link(s, g)] = n
        /\ \A c \in Cell : c # Hat(s) /\ c # Link(s, g) => w[c] = m[c]
    BY Cells DEF SetNext
  <1> HIDE DEF p, w, D
  <1>7. \A d \in D : d \in AnyNode /\ d \notin F /\ d # g
    BY <1>2 DEF Gone, D
  <1>8. Looped(w, D)
    <2> SUFFICES ASSUME NEW u \in Side, NEW d \in D  PROVE w[Link(u, d)] = d
      BY DEF Looped
    <2>1. Link(u, d) \in Cell /\ Link(u, d) # Hat(s) /\ Link(u, d) # Link(s, g)
      BY <1>7, Cells
    <2>2. m[Link(u, d)] = d
      BY DEF Shape, Looped, D
    <2> QED BY <1>6, <2>1, <2>2
  <1>9. p # <<>> /\ Len(q) \in Nat
    BY <1>2, <1>3
  <1>10. ASSUME NEW u \in Side  PROVE w[Hat(u)] = At(p, u, 1) /\ w[Link(u, At(p, u, 1))] \in D
    <2>1. CASE u = s
      <3>1. n \in AnyNode /\ n # g
        BY <1>2 DEF AnyNode
      <3>2. w[Link(s, n)] = Dummy
        BY <1>2, <1>6, <3>1, Cells DEF AnyNode
      <3> QED BY <1>2, <1>3, <1>6, <2>1, <3>2
    <2>2. CASE u = Opp(s)
      <3>1. 1 \in 1 .. Len(q)
        BY <1>2
      <3>2. At(p, u, 1) = At(q, u, 1) /\ At(q, u, 1) \in AnyNode
        BY <1>3, <1>5, <2>2, <3>1
      <3>3. w[Hat(u)] = m[Hat(u)] /\ w[Link(u, At(q, u, 1))] = m[Link(u, At(q, u, 1))]
        BY <1>2, <1>6, <2>2, <3>2, Cells DEF AnyNode
      <3>4. m[Hat(u)] = At(q, u, 1) /\ m[Link(u, At(q, u, 1))] \in D
        BY <1>1 DEF Shape, Outer, D
      <3> QED BY <3>2, <3>3, <3>4
    <2> QED BY <2>1, <2>2, Sides
  <1>11. Outer(w, p, D)
    BY <1>9, <1>10 DEF Outer
  <1>12. ASSUME NEW u \in Side, NEW i \in 1 .. Len(p) - 1
         PROVE  w[Link(Opp(u), At(p, u, i))] = At(p, u, i + 1)
    <2>0. i \in 1 .. Len(q) /\ n \in AnyNode /\ n # g
      BY <1>2, <1>3 DEF AnyNode
    <2>1. CASE u = s /\ i = 1
      <3>1. w[Link(Opp(s), n)] = g
        BY <1>2, <1>6, <2>0, Cells DEF AnyNode
      <3> QED BY <1>2, <1>3, <2>0, <2>1, <3>1
    <2>2. CASE u = s /\ i # 1
      <3>1. i - 1 \in 1 .. Len(q) - 1 /\ i - 1 \in 1 .. Len(q) /\ (i - 1) + 1 = i
        BY <1>2, <2>0, <2>2
      <3>2. At(p, s, i) = At(q, s, i - 1) /\ At(p, s, i + 1) = At(q, s, i)
        BY <1>3, <2>0, <3>1
      <3>3. m[Link(Opp(s), At(q, s, i - 1))] = At(q, s, i)
        BY <3>1 DEF Shape, Inner
      <3>4. w[Link(Opp(s), At(q, s, i - 1))] = m[Link(Opp(s), At(q, s, i - 1))]
        BY <1>2, <1>5, <1>6, <3>1, Cells DEF AnyNode
      <3> QED BY <2>2, <3>2, <3>3, <3>4
    <2>3. CASE u = Opp(s) /\ i = Len(q)
      BY <1>2, <1>3, <1>6, <2>0, <2>3, Cells
    <2>4. CASE u = Opp(s) /\ i # Len(q)
      <3>1. i \in 1 .. Len(q) - 1 /\ i + 1 \in 1 .. Len(q) /\ Len(q) \in 1 .. Len(q)
        BY <1>2, <2>0, <2>4
      <3>2. At(p, u, i) = At(q, u, i) /\ At(p, u, i + 1) = At(q, u, i + 1)
        BY <1>3, <2>4, <3>1, <2>0
      <3>3. m[Link(Opp(u), At(q, u, i))] = At(q, u, i + 1)
        BY <3>1 DEF Shape, Inner
      <3>4. At(q, u, i) # g
        BY <1>2, <2>0, <2>4, <3>1 DEF Shape, Apart
      <3>5. w[Link(Opp(u), At(q, u, i))] = m[Link(Opp(u), At(q, u, i))]
        BY <1>2, <1>5, <1>6, <2>0, <2>4, <3>4, Cells DEF AnyNode
      <3> QED BY <3>2, <3>3, <3>5
    <2> QED BY <2>1, <2>2, <2>3, <2>4, Sides
  <1>13. Inner(w, p)
    BY <1>12 DEF Inner
  <1>14. Shape(w, p, F \ {n})
    BY <1>4, <1>8, <1>11, <1>13 DEF Shape
  <1> QED BY <1>2, <1>14 DEF w, p

\* push into the empty deque: the dcas stores the new node in both hats.
LEMMA PushFirstShape ==
  ASSUME NEW m \in [Cell -> AnyNode], NEW q \in Seq(Node), NEW F \in SUBSET Node, Shape(m, q, F),
         NEW s \in Side, NEW n \in F,
         m[Hat(s)] \in Gone(q, F), m[Link(s, n)] = Dummy, m[Link(Opp(s), n)] = Dummy
  PROVE  Shape(SetFirst(m, s, n, n), Pushed(q, s, n), F \ {n})
  <1> DEFINE w == SetFirst(m, s, n, n)
             p == Pushed(q, s, n)
             D == Gone(q, F)
  <1>1. q = <<>> /\ Len(q) = 0 /\ Dummy \in D
    BY HatIs
  <1>3. p \in Seq(Node) /\ Len(p) = 1 /\ At(p, s, 1) = n /\ At(p, Opp(s), 1) = n
    <2>1. p \in Seq(Node) /\ Len(p) = Len(q) + 1 /\ At(p, s, 1) = n /\ At(p, Opp(s), Len(q) + 1) = n
      BY PushedAt
    <2>2. Len(q) + 1 = 1
      BY <1>1
    <2> QED BY <2>1, <2>2
  <1>4. Apart(p, F \ {n}) /\ Gone(p, F \ {n}) = D
    BY PushedIn DEF Shape
  <1>6. /\ w[Hat(s)] = n /\ w[Hat(Opp(s))] = n
        /\ \A c \in Cell : c # Hat(s) /\ c # Hat(Opp(s)) => w[c] = m[c]
    BY Cells DEF SetFirst
  <1> HIDE DEF p, w, D
  <1>7. \A d \in D : d \in AnyNode
    BY DEF Gone, D
  <1>8. Looped(w, D)
    BY <1>6, <1>7, Cells DEF Shape, Looped, D
  <1>9. p # <<>>
    <2> SUFFICES ASSUME p = <<>>  PROVE FALSE
      OBVIOUS
    <2>1. Len(p) = 0
      OBVIOUS
    <2> QED BY <1>3, <2>1
  <1>10. ASSUME NEW u \in Side  PROVE w[Hat(u)] = At(p, u, 1) /\ w[Link(u, At(p, u, 1))] \in D
    <2>1. At(p, u, 1) = n /\ w[Hat(u)] = n /\ m[Link(u, n)] = Dummy
      BY <1>3, <1>6, Sides
    <2>2. w[Link(u, n)] = Dummy
      BY <1>6, <2>1, Cells DEF AnyNode
    <2> QED BY <1>1, <2>1, <2>2
  <1>11. Outer(w, p, D)
    BY <1>9, <1>10 DEF Outer
  <1>13. Inner(w, p)
    BY <1>3 DEF Inner
  <1>14. Shape(w, p, F \ {n})
    BY <1>4, <1>8, <1>11, <1>13 DEF Shape
  <1> QED BY <1>14 DEF w, p

\* pop of the node g: the tcas moves the hat inward and links g to itself on
\* both sides.
LEMMA PopShape ==
  ASSUME NEW m \in [Cell -> AnyNode], NEW q \in Seq(Node), NEW F \in SUBSET Node, Shape(m, q, F),
         NEW s \in Side, NEW g \in AnyNode, NEW i \in AnyNode,
         m[Hat(s)] = g, m[Link(Opp(s), g)] = i, m[Link(s, g)] # g
  PROVE  /\ q # <<>> /\ g = At(q, s, 1) /\ g \notin F
         /\ Shape(SetPop(m, s, g, i), Popped(q, s), F)
  <1> DEFINE w == SetPop(m, s, g, i)
             p == Popped(q, s)
             D == Gone(q, F)
  <1>1. q # <<>>
    BY HatIs
  <1>2. g = At(q, s, 1) /\ Len(q) \in Nat \ {0} /\ g \in In(q) /\ g \in Node \ F
    BY <1>1, HatIs
  <1>3. /\ p \in Seq(Node) /\ Len(p) = Len(q) - 1
        /\ \A k \in 1 .. Len(q) - 1 : At(p, s, k) = At(q, s, k + 1)
        /\ \A k \in 1 .. Len(q) - 1 : At(p, Opp(s), k) = At(q, Opp(s), k)
        /\ At(q, Opp(s), Len(q)) = At(q, s, 1)
    BY <1>1, PoppedAt
  <1>4. Apart(p, F) /\ Gone(p, F) = D \cup {g}
    BY <1>1, <1>2, PoppedIn DEF Shape
  <1>5. \A k \in 1 .. Len(q), u \in Side : At(q, u, k) \in AnyNode \ F
    BY InAt DEF Shape, Apart, AnyNode
  <1>6. /\ w[Hat(s)] = i /\ w[Link(s, g)] = g /\ w[Link(Opp(s), g)] = g
        /\ \A c \in Cell : c # Hat(s) /\ c # Link(s, g) /\ c # Link(Opp(s), g) => w[c] = m[c]
    BY Cells DEF SetPop
  <1> HIDE DEF p, w, D
  <1>7. \A d \in D : d \in AnyNode /\ d # g
    BY <1>2 DEF Gone, D
  <1>8. Looped(w, D \cup {g})
    <2>1. ASSUME NEW u \in Side, NEW d \in D  PROVE w[Link(u, d)] = d
      <3>1. /\ Link(u, d) \in Cell /\ Link(u, d) # Hat(s)
            /\ Link(u, d) # Link(s, g) /\ Link(u, d) # Link(Opp(s), g)
        <4>1. Opp(s) \in Side /\ d \in AnyNode /\ d # g
          BY <1>7, Cells
        <4> QED BY <4>1, LinkApart
      <3>2. m[Link(u, d)] = d
        BY DEF Shape, Looped, D
      <3> QED BY <1>6, <3>1, <3>2
    <2>2. ASSUME NEW u \in Side  PROVE w[Link(u, g)] = g
      BY <1>6, Sides
    <2> QED BY <2>1, <2>2 DEF Looped
  <1>9. \A u \in Side : w[Hat(Opp(s))] = m[Hat(Opp(s))] /\ \A d \in AnyNode : d # g => w[Link(u, d)] = m[Link(u, d)]
    <2>1. Hat(Opp(s)) \in Cell /\ Hat(Opp(s)) # Hat(s) /\ Hat(Opp(s)) # Link(s, g) /\ Hat(Opp(s)) # Link(Opp(s), g)
      BY Cells
    <2>2. ASSUME NEW u \in Side, NEW d \in AnyNode, d # g
          PROVE  /\ Link(u, d) \in Cell /\ Link(u, d) # Hat(s)
                 /\ Link(u, d) # Link(s, g) /\ Link(u, d) # Link(Opp(s), g)
      <3>1. Opp(s) \in Side
        BY Cells
      <3> QED BY <2>2, <3>1, LinkApart
    <2> QED BY <1>6, <2>1, <2>2
  <1>10. m[Hat(Opp(s))] = At(q, Opp(s), 1) /\ m[Link(Opp(s), At(q, Opp(s), 1))] \in D
    BY <1>1, Cells DEF Shape, Outer, D
  <1>11. CASE Len(q) = 1
    <2>1. p = <<>> /\ Len(p) = 0
      BY <1>3, <1>11
    <2>2. At(q, Opp(s), 1) = g
      BY <1>2, <1>3, <1>11
    <2>3. i \in D /\ w[Hat(Opp(s))] = g
      BY <1>9, <1>10, <2>2
    <2>4. Outer(w, p, D \cup {g})
      BY <1>6, <2>1, <2>3, Sides DEF Outer
    <2>5. Inner(w, p)
      BY <2>1 DEF Inner
    <2>6. Shape(w, p, F)
      BY <1>4, <1>8, <2>4, <2>5 DEF Shape
    <2> QED BY <1>1, <1>2, <2>6 DEF w, p
  <1>12. CASE Len(q) # 1
    <2>0. PICK k \in Nat : Len(q) = k
      BY <1>2
    <2>1. 1 \in 1 .. Len(q) - 1 /\ 2 \in 1 .. Len(q) /\ 1 \in 1 .. Len(q) /\ Len(q) \in 1 .. Len(q) /\ p # <<>>
      <3>1. k # 0 /\ k # 1
        BY <1>2, <1>12, <2>0
      <3>2. 1 \in 1 .. k - 1 /\ 2 \in 1 .. k /\ 1 \in 1 .. k /\ k \in 1 .. k /\ k - 1 # 0
        BY <3>1
      <3> QED BY <1>3, <2>0, <3>2
    <2>2. At(p, s, 1) = At(q, s, 2) /\ At(p, Opp(s), 1) = At(q, Opp(s), 1)
      BY <1>3, <2>1
    <2>3. \A j \in 1 .. Len(q) : (j # 1 => At(q, s, j) # g) /\ (j # Len(q) => At(q, Opp(s), j) # g)
      BY <1>2, <1>3, <2>1, Cells DEF Shape, Apart
    <2>4. ASSUME NEW u \in Side  PROVE w[Hat(u)] = At(p, u, 1) /\ w[Link(u, At(p, u, 1))] \in D \cup {g}
      <3>1. CASE u = s
        <4>1. i = At(q, s, 2)
          <5>1. m[Link(Opp(s), At(q, s, 1))] = At(q, s, 1 + 1) /\ 1 + 1 = 2
            BY <2>1 DEF Shape, Inner
          <5> QED BY <1>2, <5>1
        <4>2. m[Link(s, At(q, s, 2))] = g
          <5>1. k - 1 \in Int /\ k - 1 \in 1 .. k - 1 /\ (k - 1) + 1 = k /\ k + 1 - (k - 1) = 2
            <6>1. k # 0 /\ k # 1
              BY <1>2, <1>12, <2>0
            <6> QED BY <6>1
          <5>2. At(q, Opp(s), k - 1) = At(q, s, 2)
            BY <2>0, <5>1, Mirror
          <5>3. m[Link(Opp(Opp(s)), At(q, Opp(s), k - 1))] = At(q, Opp(s), (k - 1) + 1)
            <6>1. Opp(s) \in Side /\ k - 1 \in 1 .. Len(q) - 1
              BY <2>0, <5>1, Cells
            <6> QED BY <6>1 DEF Shape, Inner
          <5> QED BY <1>2, <1>3, <2>0, <5>1, <5>2, <5>3, Cells
        <4> QED BY <1>5, <1>6, <1>9, <2>1, <2>2, <2>3, <3>1, <4>1, <4>2
      <3>2. CASE u = Opp(s)
        <4>1. At(q, Opp(s), 1) # g
          BY <2>1, <2>3, <1>12
        <4> QED BY <1>5, <1>9, <1>10, <2>1, <2>2, <3>2, <4>1, Cells
      <3> QED BY <3>1, <3>2, Sides
    <2>5. Outer(w, p, D \cup {g})
      BY <2>1, <2>4 DEF Outer
    <2>6. ASSUME NEW u \in Side, NEW j \in 1 .. Len(p) - 1
          PROVE  w[Link(Opp(u), At(p, u, j))] = At(p, u, j + 1)
      <3>1. /\ j \in 1 .. Len(q) - 1 /\ j + 1 \in 1 .. Len(q) - 1
            /\ j \in 1 .. Len(q) /\ j + 1 \in 1 .. Len(q) /\ j # Len(q) /\ j + 1 # 1
        <4>1. j \in 1 .. k - 2 /\ k \in Int
          BY <1>3, <2>0
        <4>2. j \in 1 .. k - 1 /\ j + 1 \in 1 .. k - 1 /\ j \in 1 .. k /\ j + 1 \in 1 .. k /\ j # k /\ j + 1 # 1
          BY <4>1
        <4> QED BY <2>0, <4>2
      <3>2. CASE u = s
        <4>1. At(p, u, j) = At(q, s, j + 1) /\ At(p, u, j + 1) = At(q, s, (j + 1) + 1)
          BY <1>3, <3>1, <3>2
        <4>2. m[Link(Opp(s), At(q, s, j + 1))] = At(q, s, (j + 1) + 1)
          BY <3>1 DEF Shape, Inner
        <4>3. At(q, s, j + 1) # g /\ At(q, s, j + 1) \in AnyNode
          BY <1>5, <2>3, <3>1
        <4> QED BY <1>9, <3>2, <4>1, <4>2, <4>3, Cells
      <3>3. CASE u = Opp(s)
        <4>1. At(p, u, j) = At(q, u, j) /\ At(p, u, j + 1) = At(q, u, j + 1)
          BY <1>3, <3>1, <3>3
        <4>2. m[Link(Opp(u), At(q, u, j))] = At(q, u, j + 1)
          BY <3>1 DEF Shape, Inner
        <4>3. At(q, u, j) # g /\ At(q, u, j) \in AnyNode
          BY <1>5, <2>3, <3>1, <3>3
        <4> QED BY <1>9, <4>1, <4>2, <4>3, Cells
      <3> QED BY <3>2, <3>3, Sides
    <2>8. Inner(w, p)
      BY <2>6 DEF Inner
    <2>7. Shape(w, p, F)
      BY <1>4, <1>8, <2>5, <2>8 DEF Shape
    <2> QED BY <1>1, <1>2, <2>7 DEF w, p
  <1> QED BY <1>11, <1>12

-----------------------------------------------------------------------------
(* The settled memory.                                                     *)

\* A word's settled value is that of the call or that of the memory.
LEMMA WithAt ==
  ASSUME NEW m, NEW c, NEW k, NEW a \in Cell
  PROVE  /\ With(m, c, k)[a] = m[a] \/ \E i \in DOMAIN c : c[i][1] = a /\ With(m, c, k)[a] = c[i][k]
         /\ (\A i \in DOMAIN c : c[i][1] # a) => With(m, c, k)[a] = m[a]
         /\ \A i \in DOMAIN c : c[i][1] = a /\ (\A j \in DOMAIN c : c[j][1] = a => j = i)
                                => With(m, c, k)[a] = c[i][k]
         /\ \A w : w[a] = m[a] => With(w, c, k)[a] = With(m, c, k)[a]
  <1> DEFINE W == {i \in DOMAIN c : c[i][1] = a}
             i0 == CHOOSE i \in W : TRUE
  <1>1. \A x : With(x, c, k)[a] = IF W = {} THEN x[a] ELSE c[i0][k]
    BY DEF With
  <1>2. W # {} => i0 \in DOMAIN c /\ c[i0][1] = a
    <2>1. W # {} => i0 \in W
      OBVIOUS
    <2> QED BY <2>1
  <1>3. (\A i \in DOMAIN c : c[i][1] # a) => W = {}
    OBVIOUS
  <1>4. ASSUME NEW i \in DOMAIN c, c[i][1] = a  PROVE W # {}
    BY <1>4
  <1> HIDE DEF W, i0
  <1> QED BY <1>1, <1>2, <1>3, <1>4

\* It is given by its words.
LEMMA WithIs ==
  ASSUME NEW m, NEW c, NEW k, NEW v \in [Cell -> AnyNode], \A a \in Cell : With(m, c, k)[a] = v[a]
  PROVE  With(m, c, k) = v
  <1> DEFINE f(a) == With(m, c, k)[a]
  <1>1. With(m, c, k) = [a \in Cell |-> f(a)]
    BY Zenon DEF With
  <1>2. [a \in Cell |-> f(a)] = [a \in Cell |-> v[a]]
    OBVIOUS
  <1>3. v = [a \in Cell |-> v[a]]
    OBVIOUS
  <1> QED BY <1>1, <1>2, <1>3

\* The words of a dcas.
LEMMA With2 ==
  ASSUME NEW m \in [Cell -> AnyNode], NEW a \in Cell, NEW b \in Cell, a # b,
         NEW x \in AnyNode, NEW y \in AnyNode, NEW c, DOMAIN c = {1, 2},
         c[1][1] = a, c[1][2] = x, c[2][1] = b, c[2][2] = y
  PROVE  With(m, c, 2) = [m EXCEPT ![a] = x, ![b] = y]
  <1> DEFINE W == With(m, c, 2)
             V == [m EXCEPT ![a] = x, ![b] = y]
  <1>1. DOMAIN c = {1, 2} /\ c[1][1] = a /\ c[2][1] = b /\ c[1][2] = x /\ c[2][2] = y
    OBVIOUS
  <1>2. ASSUME NEW d \in Cell  PROVE W[d] = V[d]
    <2>1. CASE d = a
      <3>1. W[d] = c[1][2]
        BY <1>1, <2>1, WithAt
      <3> QED BY <1>1, <2>1, <3>1
    <2>2. CASE d = b
      <3>1. W[d] = c[2][2]
        BY <1>1, <2>2, WithAt
      <3> QED BY <1>1, <2>2, <3>1
    <2>3. CASE d # a /\ d # b
      <3>1. W[d] = m[d]
        BY <1>1, <2>3, WithAt
      <3> QED BY <2>3, <3>1
    <2> QED BY <2>1, <2>2, <2>3
  <1>3. V \in [Cell -> AnyNode]
    OBVIOUS
  <1> HIDE DEF V
  <1>4. W = V
    BY <1>2, <1>3, WithIs
  <1> QED BY <1>4 DEF V

\* The words of a tcas.
LEMMA With3 ==
  ASSUME NEW m \in [Cell -> AnyNode], NEW a \in Cell, NEW b \in Cell, NEW d \in Cell,
         a # b, a # d, b # d, NEW x2 \in AnyNode, NEW y2 \in AnyNode, NEW z2 \in AnyNode,
         NEW c, DOMAIN c = {1, 2, 3},
         c[1][1] = a, c[1][3] = x2, c[2][1] = b, c[2][3] = y2, c[3][1] = d, c[3][3] = z2
  PROVE  With(m, c, 3) = [m EXCEPT ![a] = x2, ![b] = y2, ![d] = z2]
  <1> DEFINE W == With(m, c, 3)
             V == [m EXCEPT ![a] = x2, ![b] = y2, ![d] = z2]
  <1>1. /\ DOMAIN c = {1, 2, 3} /\ c[1][1] = a /\ c[2][1] = b /\ c[3][1] = d
        /\ c[1][3] = x2 /\ c[2][3] = y2 /\ c[3][3] = z2
    OBVIOUS
  <1>2. ASSUME NEW e \in Cell  PROVE W[e] = V[e]
    <2>1. CASE e = a
      <3>1. W[e] = c[1][3]
        BY <1>1, <2>1, WithAt
      <3> QED BY <1>1, <2>1, <3>1
    <2>2. CASE e = b
      <3>1. W[e] = c[2][3]
        BY <1>1, <2>2, WithAt
      <3> QED BY <1>1, <2>2, <3>1
    <2>3. CASE e = d
      <3>1. W[e] = c[3][3]
        BY <1>1, <2>3, WithAt
      <3> QED BY <1>1, <2>3, <3>1
    <2>4. CASE e # a /\ e # b /\ e # d
      <3>1. W[e] = m[e]
        BY <1>1, <2>4, WithAt
      <3> QED BY <2>4, <3>1
    <2> QED BY <2>1, <2>2, <2>3, <2>4
  <1>3. V \in [Cell -> AnyNode]
    OBVIOUS
  <1> HIDE DEF V
  <1>4. W = V
    BY <1>2, <1>3, WithIs
  <1> QED BY <1>4 DEF V

-----------------------------------------------------------------------------
(* The words of a thread's call.                                           *)

\* A push next to h compares and stores the hat of its side and the outer
\* link of h.
LEMMA NextWords ==
  ASSUME TypeOK, NEW t \in Thread, SideOf(t) \in Side, NEW o \in AnyNode, PushNext(t, o)
  PROVE  LET s == SideOf(t)  n == NodeOf(t)  g == h[t]  c == call[t] IN
         /\ g \in AnyNode /\ Hat(s) \in Cell /\ Link(s, g) \in Cell /\ Hat(s) # Link(s, g)
         /\ DOMAIN c = {1, 2} /\ Len(c) = 2
         /\ c[1][1] = Hat(s) /\ c[1][2] = g /\ c[1][3] = n
         /\ c[2][1] = Link(s, g) /\ c[2][2] = o /\ c[2][3] = n
         /\ \A m \in [Cell -> AnyNode] : With(m, c, 2) = SetNext(m, s, g, g, o)
  <1> DEFINE s == SideOf(t)  n == NodeOf(t)  g == h[t]  c == call[t]
  <1>1. g \in AnyNode /\ c = << <<Hat(s), g, n>>, <<Link(s, g), o, n>> >>
    BY DEF TypeOK, PushNext
  <1> HIDE DEF s, n, g, c
  <1>2. s \in Side
    BY DEF s
  <1>3. Hat(s) \in Cell /\ Link(s, g) \in Cell /\ Hat(s) # Link(s, g)
    BY <1>1, <1>2, Cells
  <1>4. ASSUME NEW m \in [Cell -> AnyNode]
        PROVE  With(m, c, 2) = SetNext(m, s, g, g, o)
    <2> DEFINE a == Hat(s)  b == Link(s, g)
    <2>1. /\ a \in Cell /\ b \in Cell /\ a # b /\ g \in AnyNode
          /\ DOMAIN c = {1, 2} /\ c[1][1] = a /\ c[1][2] = g /\ c[2][1] = b /\ c[2][2] = o
      BY <1>1, <1>3
    <2> HIDE DEF a, b
    <2>2. With(m, c, 2) = [m EXCEPT ![a] = g, ![b] = o]
      BY <2>1, With2
    <2> QED BY <2>2 DEF a, b, SetNext
  <1>5. /\ DOMAIN c = {1, 2} /\ Len(c) = 2
        /\ c[1][1] = Hat(s) /\ c[1][2] = g /\ c[1][3] = n
        /\ c[2][1] = Link(s, g) /\ c[2][2] = o /\ c[2][3] = n
    BY <1>1
  <1> QED BY <1>1, <1>3, <1>4, <1>5 DEF s, n, g, c

\* A push into the empty deque compares and stores the two hats.
LEMMA FirstWords ==
  ASSUME TypeOK, NEW t \in Thread, SideOf(t) \in Side, NEW o \in AnyNode, PushFirst(t, o)
  PROVE  LET s == SideOf(t)  n == NodeOf(t)  g == h[t]  c == call[t] IN
         /\ g \in AnyNode /\ Hat(s) \in Cell /\ Hat(Opp(s)) \in Cell /\ Hat(s) # Hat(Opp(s))
         /\ DOMAIN c = {1, 2} /\ Len(c) = 2
         /\ c[1][1] = Hat(s) /\ c[1][2] = g /\ c[1][3] = n
         /\ c[2][1] = Hat(Opp(s)) /\ c[2][2] = o /\ c[2][3] = n
         /\ \A m \in [Cell -> AnyNode] : With(m, c, 2) = SetFirst(m, s, g, o)
  <1> DEFINE s == SideOf(t)  n == NodeOf(t)  g == h[t]  c == call[t]
  <1>1. g \in AnyNode /\ c = << <<Hat(s), g, n>>, <<Hat(Opp(s)), o, n>> >>
    BY DEF TypeOK, PushFirst
  <1> HIDE DEF s, n, g, c
  <1>2. s \in Side
    BY DEF s
  <1>3. Hat(s) \in Cell /\ Hat(Opp(s)) \in Cell /\ Hat(s) # Hat(Opp(s))
    BY <1>1, <1>2, Cells
  <1>4. ASSUME NEW m \in [Cell -> AnyNode]
        PROVE  With(m, c, 2) = SetFirst(m, s, g, o)
    <2> DEFINE a == Hat(s)  b == Hat(Opp(s))
    <2>1. /\ a \in Cell /\ b \in Cell /\ a # b /\ g \in AnyNode
          /\ DOMAIN c = {1, 2} /\ c[1][1] = a /\ c[1][2] = g /\ c[2][1] = b /\ c[2][2] = o
      BY <1>1, <1>3
    <2> HIDE DEF a, b
    <2>2. With(m, c, 2) = [m EXCEPT ![a] = g, ![b] = o]
      BY <2>1, With2
    <2> QED BY <2>2 DEF a, b, SetFirst
  <1>5. /\ DOMAIN c = {1, 2} /\ Len(c) = 2
        /\ c[1][1] = Hat(s) /\ c[1][2] = g /\ c[1][3] = n
        /\ c[2][1] = Hat(Opp(s)) /\ c[2][2] = o /\ c[2][3] = n
    BY <1>1
  <1> QED BY <1>1, <1>3, <1>4, <1>5 DEF s, n, g, c

\* A pop of h compares and stores the hat of its side and both links of h.
LEMMA OneWords ==
  ASSUME TypeOK, NEW t \in Thread, SideOf(t) \in Side, NEW o \in AnyNode, NEW i \in AnyNode, PopOne(t, o, i)
  PROVE  LET s == SideOf(t)  g == h[t]  c == call[t] IN
         /\ g \in AnyNode /\ Hat(s) \in Cell /\ Link(s, g) \in Cell /\ Link(Opp(s), g) \in Cell
         /\ Hat(s) # Link(s, g) /\ Hat(s) # Link(Opp(s), g) /\ Link(s, g) # Link(Opp(s), g)
         /\ DOMAIN c = {1, 2, 3} /\ Len(c) = 3
         /\ c[1][1] = Hat(s) /\ c[1][2] = g /\ c[1][3] = i
         /\ c[2][1] = Link(Opp(s), g) /\ c[2][2] = i /\ c[2][3] = g
         /\ c[3][1] = Link(s, g) /\ c[3][2] = o /\ c[3][3] = g
         /\ \A m \in [Cell -> AnyNode] :
              With(m, c, 3) = SetPop(m, s, g, i)
  <1> DEFINE s == SideOf(t)  g == h[t]  c == call[t]
  <1>1. g \in AnyNode /\ c = << <<Hat(s), g, i>>, <<Link(Opp(s), g), i, g>>, <<Link(s, g), o, g>> >>
    BY DEF TypeOK, PopOne
  <1> HIDE DEF s, g, c
  <1>2. s \in Side /\ Opp(s) \in Side /\ Opp(s) # s
    BY Cells DEF s
  <1>3. /\ Hat(s) \in Cell /\ Link(s, g) \in Cell /\ Link(Opp(s), g) \in Cell
        /\ Hat(s) # Link(s, g) /\ Hat(s) # Link(Opp(s), g) /\ Link(s, g) # Link(Opp(s), g)
    BY <1>1, <1>2, Cells
  <1>4. ASSUME NEW m \in [Cell -> AnyNode]
        PROVE  With(m, c, 3) = SetPop(m, s, g, i)
    <2> DEFINE a == Hat(s)  b == Link(Opp(s), g)  d == Link(s, g)
    <2>1. /\ a \in Cell /\ b \in Cell /\ d \in Cell /\ a # b /\ a # d /\ b # d /\ g \in AnyNode
          /\ DOMAIN c = {1, 2, 3} /\ c[1][1] = a /\ c[2][1] = b /\ c[3][1] = d
          /\ c[1][3] = i /\ c[2][3] = g /\ c[3][3] = g
      BY <1>1, <1>3
    <2> HIDE DEF a, b, d
    <2>2. /\ a \in Cell /\ b \in Cell /\ d \in Cell /\ a # b /\ a # d /\ b # d
          /\ i \in AnyNode /\ g \in AnyNode
      BY <2>1
    <2>3. With(m, c, 3) = [m EXCEPT ![a] = i, ![b] = g, ![d] = g]
      BY <2>1, <2>2, With3, SMTT(60)
    <2> QED BY <2>3 DEF a, b, d, SetPop
  <1>5. /\ DOMAIN c = {1, 2, 3} /\ Len(c) = 3
        /\ c[1][1] = Hat(s) /\ c[1][2] = g /\ c[1][3] = i
        /\ c[2][1] = Link(Opp(s), g) /\ c[2][2] = i /\ c[2][3] = g
        /\ c[3][1] = Link(s, g) /\ c[3][2] = o /\ c[3][3] = g
    BY <1>1
  <1> QED BY <1>1, <1>3, <1>4, <1>5 DEF s, g, c

-----------------------------------------------------------------------------
(* What a thread can see in the memory, half-made calls and all.           *)

\* The nodes of a state; the owner of the lock is a thread at a call.
LEMMA View ==
  ASSUME IInv
  PROVE  /\ mem \in [Cell -> AnyNode] /\ deque \in Seq(Node)
         /\ Fresh \in SUBSET Node /\ Private \in SUBSET Fresh
         /\ Dead = Gone(deque, Fresh) /\ Dead \in SUBSET (AnyNode \ Fresh)
         /\ Shape(Settled, deque, Fresh)
  BY DEF IInv, TypeOK, Fresh, Private, Dead, Gone

\* The owner, having stored something, is at one of the three calls.
LEMMA Owner ==
  ASSUME IInv, ~(owner = NoThread \/ stored = 0)
  PROVE  /\ owner \in Thread /\ Storing(owner) /\ pc[owner] = "store" /\ SideOf(owner) \in Side
         /\ stored \in 1 .. 2 /\ stored < Len(call[owner]) /\ Stored(owner)
         /\ h[owner] \notin Private
         /\ IsPush(owner) => Pushing(owner) /\ NodeOf(owner) \in Fresh
         /\ \E o, i \in AnyNode : PushNext(owner, o) \/ PushFirst(owner, o) \/ PopOne(owner, o, i)
  <1>1. owner \in Thread /\ stored \in 0 .. 3 /\ pc[owner] = "store"
    BY DEF IInv, TypeOK, OwnerOK
  <1>2. ReqOK(owner) /\ HatRead(owner) /\ CallOK(owner) /\ Stored(owner) /\ stored < Len(call[owner])
    BY <1>1 DEF IInv, OwnerOK
  <1>3. SideOf(owner) \in Side /\ (IsPush(owner) => NodeOf(owner) \in Node)
    BY <1>1, <1>2 DEF ReqOK
  <1>4. IsPush(owner) => Pushing(owner) /\ NodeOf(owner) \in Fresh
    BY <1>1, <1>3 DEF Pushing, Fresh
  <1>5. h[owner] \notin Private
    BY <1>1, <1>2 DEF HatRead
  <1>6. PICK o \in AnyNode, i \in AnyNode : PushNext(owner, o) \/ PushFirst(owner, o) \/ PopOne(owner, o, i)
    BY <1>1, <1>2 DEF CallOK
  <1>7. stored \in 1 .. 2
    <2>1. Len(call[owner]) = 2 \/ Len(call[owner]) = 3
      <3>1. TypeOK
        BY DEF IInv
      <3>2. PushNext(owner, o) => Len(call[owner]) = 2
        BY <1>1, <1>3, <3>1, NextWords
      <3>3. PushFirst(owner, o) => Len(call[owner]) = 2
        BY <1>1, <1>3, <3>1, FirstWords
      <3>4. PopOne(owner, o, i) => Len(call[owner]) = 3
        BY <1>1, <1>3, <3>1, OneWords
      <3> QED BY <1>6, <3>2, <3>3, <3>4
    <2>2. PICK l \in {2, 3} : l = Len(call[owner])
      BY <2>1
    <2>3. stored # 0 /\ stored \in 0 .. 3 /\ stored < l
      BY <1>1, <1>2, <2>2
    <2> QED BY <2>3
  <1> QED BY <1>1, <1>2, <1>3, <1>4, <1>5, <1>6, <1>7 DEF Storing

\* The settled memory differs from the memory in a hat that already holds the
\* node of a push, and in a link that a pop is still to tie to its node.
LEMMA Settling ==
  ASSUME IInv
  PROVE  /\ Settled \in [Cell -> AnyNode]
         /\ \A u \in Side : \/ Settled[Hat(u)] = mem[Hat(u)]
                            \/ \E t \in Thread : Storing(t) /\ Pushing(t) /\ mem[Hat(u)] = NodeOf(t)
         /\ \A u \in Side, d \in AnyNode : \/ Settled[Link(u, d)] = mem[Link(u, d)]
                                           \/ Settled[Link(u, d)] = d /\ d \notin Fresh
  <1>0. TypeOK /\ mem \in [Cell -> AnyNode] /\ Private \in SUBSET Fresh
    BY View DEF IInv
  <1>1. CASE owner = NoThread \/ stored = 0
    BY <1>0, <1>1 DEF Settled
  <1>2. CASE ~(owner = NoThread \/ stored = 0)
    <2>0. PICK t \in Thread : t = owner
      BY <1>2, Owner
    <2> DEFINE s == SideOf(t)  n == NodeOf(t)  g == h[t]  c == call[t]
    <2>1. /\ t \in Thread /\ Storing(t) /\ s \in Side /\ stored \in 1 .. 2 /\ stored < Len(c) /\ Stored(t)
          /\ g \notin Private /\ (IsPush(t) => Pushing(t) /\ n \in Fresh)
          /\ Settled = With(mem, c, IF IsPush(t) THEN 2 ELSE 3)
      BY <1>2, <2>0, Owner DEF Settled
    <2>2. PICK o \in AnyNode, i \in AnyNode : PushNext(t, o) \/ PushFirst(t, o) \/ PopOne(t, o, i)
      BY <1>2, <2>0, Owner
    <2>3. \A k \in DOMAIN c : mem[c[k][1]] = IF k <= stored THEN c[k][3] ELSE c[k][2]
      BY <2>1 DEF Stored
    <2> HIDE DEF s, n, g, c
    <2>4. CASE PushNext(t, o)
      <3>1. /\ g \in AnyNode /\ Hat(s) \in Cell /\ Link(s, g) \in Cell /\ Hat(s) # Link(s, g)
            /\ DOMAIN c = {1, 2} /\ Len(c) = 2
            /\ c[1][1] = Hat(s) /\ c[1][2] = g /\ c[1][3] = n
            /\ c[2][1] = Link(s, g) /\ c[2][2] = o /\ c[2][3] = n
            /\ With(mem, c, 2) = SetNext(mem, s, g, g, o)
        <4>1. SideOf(t) \in Side
          BY <2>1 DEF s
        <4>2. /\ g \in AnyNode /\ Hat(s) \in Cell /\ Link(s, g) \in Cell /\ Hat(s) # Link(s, g)
            /\ DOMAIN c = {1, 2} /\ Len(c) = 2
            /\ c[1][1] = Hat(s) /\ c[1][2] = g /\ c[1][3] = n
            /\ c[2][1] = Link(s, g) /\ c[2][2] = o /\ c[2][3] = n
          BY <1>0, <2>4, <4>1, NextWords DEF s, n, g, c
        <4>3. \A m \in [Cell -> AnyNode] :
                With(m, call[t], 2) = SetNext(m, SideOf(t), h[t], h[t], o)
          BY <1>0, <2>4, <4>1, NextWords
        <4> QED BY <1>0, <4>2, <4>3 DEF s, n, g, c
      <3>2. stored = 1 /\ 1 <= stored /\ ~(2 <= stored)
        BY <2>1, <3>1
      <3>3. mem[Hat(s)] = n /\ mem[Link(s, g)] = o
        BY <2>3, <3>1, <3>2
      <3>4. IsPush(t) /\ Settled = SetNext(mem, s, g, g, o)
        BY <2>1, <2>4, <3>1 DEF PushNext
      <3>5. Settled \in [Cell -> AnyNode] /\ \A a \in Cell : a = Hat(s) \/ Settled[a] = mem[a]
        BY <1>0, <3>1, <3>3, <3>4 DEF SetNext, SetFirst
      <3>6. \A u \in Side, d \in AnyNode : Link(u, d) # Hat(s) /\ Link(u, d) \in Cell
        BY <2>1, Cells
      <3>7. \A u \in Side : Settled[Hat(u)] = mem[Hat(u)] \/ mem[Hat(u)] = NodeOf(t)
        BY <3>3, <3>5, Cells DEF n
      <3> QED BY <2>1, <3>4, <3>5, <3>6, <3>7
    <2>5. CASE PushFirst(t, o)
      <3>1. /\ g \in AnyNode /\ Hat(s) \in Cell /\ Hat(Opp(s)) \in Cell /\ Hat(s) # Hat(Opp(s))
            /\ DOMAIN c = {1, 2} /\ Len(c) = 2
            /\ c[1][1] = Hat(s) /\ c[1][2] = g /\ c[1][3] = n
            /\ c[2][1] = Hat(Opp(s)) /\ c[2][2] = o /\ c[2][3] = n
            /\ With(mem, c, 2) = SetFirst(mem, s, g, o)
        <4>1. SideOf(t) \in Side
          BY <2>1 DEF s
        <4>2. /\ g \in AnyNode /\ Hat(s) \in Cell /\ Hat(Opp(s)) \in Cell /\ Hat(s) # Hat(Opp(s))
            /\ DOMAIN c = {1, 2} /\ Len(c) = 2
            /\ c[1][1] = Hat(s) /\ c[1][2] = g /\ c[1][3] = n
            /\ c[2][1] = Hat(Opp(s)) /\ c[2][2] = o /\ c[2][3] = n
          BY <1>0, <2>5, <4>1, FirstWords DEF s, n, g, c
        <4>3. \A m \in [Cell -> AnyNode] :
                With(m, call[t], 2) = SetFirst(m, SideOf(t), h[t], o)
          BY <1>0, <2>5, <4>1, FirstWords
        <4> QED BY <1>0, <4>2, <4>3 DEF s, n, g, c
      <3>2. stored = 1 /\ 1 <= stored /\ ~(2 <= stored)
        BY <2>1, <3>1
      <3>3. mem[Hat(s)] = n /\ mem[Hat(Opp(s))] = o
        BY <2>3, <3>1, <3>2
      <3>4. IsPush(t) /\ Settled = SetFirst(mem, s, g, o)
        BY <2>1, <2>5, <3>1 DEF PushFirst
      <3>5. Settled \in [Cell -> AnyNode] /\ \A a \in Cell : a = Hat(s) \/ Settled[a] = mem[a]
        BY <1>0, <3>1, <3>3, <3>4 DEF SetNext, SetFirst
      <3>6. \A u \in Side, d \in AnyNode : Link(u, d) # Hat(s) /\ Link(u, d) \in Cell
        BY <2>1, Cells
      <3>7. \A u \in Side : Settled[Hat(u)] = mem[Hat(u)] \/ mem[Hat(u)] = NodeOf(t)
        BY <3>3, <3>5, Cells DEF n
      <3> QED BY <2>1, <3>4, <3>5, <3>6, <3>7
    <2>6. CASE PopOne(t, o, i)
      <3>1. /\ g \in AnyNode /\ Hat(s) \in Cell /\ Link(s, g) \in Cell /\ Link(Opp(s), g) \in Cell
            /\ DOMAIN c = {1, 2, 3} /\ Hat(s) # Link(s, g) /\ Hat(s) # Link(Opp(s), g)
            /\ c[1][1] = Hat(s) /\ c[1][3] = i
            /\ With(mem, c, 3) = SetPop(mem, s, g, i)
        <4>1. SideOf(t) \in Side
          BY <2>1 DEF s
        <4>2. /\ g \in AnyNode /\ Hat(s) \in Cell /\ Link(s, g) \in Cell /\ Link(Opp(s), g) \in Cell
            /\ DOMAIN c = {1, 2, 3} /\ Hat(s) # Link(s, g) /\ Hat(s) # Link(Opp(s), g)
            /\ c[1][1] = Hat(s) /\ c[1][3] = i
          BY <1>0, <2>6, <4>1, OneWords DEF s, g, c
        <4>3. \A m \in [Cell -> AnyNode] :
                With(m, call[t], 3) = SetPop(m, SideOf(t), h[t], i)
          BY <1>0, <2>6, <4>1, OneWords
        <4> QED BY <1>0, <4>2, <4>3 DEF s, g, c
      <3>2. 1 <= stored
        BY <2>1
      <3>3. mem[Hat(s)] = i
        BY <2>3, <3>1, <3>2
      <3>4. ~IsPush(t) /\ Settled = SetPop(mem, s, g, i)
        BY <2>1, <2>6, <3>1 DEF PopOne
      <3>5. /\ Settled \in [Cell -> AnyNode]
            /\ \A a \in Cell : a = Link(s, g) \/ a = Link(Opp(s), g) \/ Settled[a] = mem[a]
            /\ Settled[Link(s, g)] = g /\ Settled[Link(Opp(s), g)] = g
        BY <1>0, <3>1, <3>3, <3>4 DEF SetPop
      <3>6. g \notin Fresh
        BY <2>1, <3>4 DEF Private, Storing, Pushing
      <3>7. \A u \in Side : Hat(u) \in Cell /\ Hat(u) # Link(s, g) /\ Hat(u) # Link(Opp(s), g)
        BY <2>1, <3>1, Cells
      <3>8. ASSUME NEW u \in Side, NEW d \in AnyNode
            PROVE  Settled[Link(u, d)] = mem[Link(u, d)] \/ (Settled[Link(u, d)] = d /\ d \notin Fresh)
        <4>1. CASE d = g
          BY <3>5, <3>6, <4>1, <2>1, Sides
        <4>2. CASE d # g
          <5>1. Opp(s) \in Side
            BY <2>1, Cells
          <5>2. Link(u, d) \in Cell /\ Link(u, d) # Link(s, g) /\ Link(u, d) # Link(Opp(s), g)
            BY <2>1, <3>1, <4>2, <5>1, LinkApart
          <5> QED BY <3>5, <5>2
        <4> QED BY <4>1, <4>2
      <3> QED BY <3>5, <3>7, <3>8
    <2> QED BY <2>2, <2>4, <2>5, <2>6
  <1> QED BY <1>1, <1>2

\* A hat is never at a node that no store has made visible, and at a node that
\* is gone only when the deque is empty.
LEMMA SeeHat ==
  ASSUME IInv, NEW u \in Side
  PROVE  /\ mem[Hat(u)] \in AnyNode \ Private
         /\ mem[Hat(u)] \in Dead => deque = <<>>
  <1>0. /\ mem \in [Cell -> AnyNode] /\ deque \in Seq(Node) /\ Fresh \in SUBSET Node
        /\ Private \in SUBSET Fresh /\ Shape(Settled, deque, Fresh)
        /\ Dead = Gone(deque, Fresh) /\ Dead \in SUBSET (AnyNode \ Fresh)
    BY View
  <1>1. mem[Hat(u)] \in AnyNode
    BY <1>0, Cells
  <1>2. CASE Settled[Hat(u)] = mem[Hat(u)]
    <2>1. mem[Hat(u)] \notin Fresh
      <3>1. CASE deque = <<>>
        <4>1. Settled[Hat(u)] \in Gone(deque, Fresh)
          BY <1>0, <3>1, HatIs
        <4> QED BY <1>0, <1>2, <4>1
      <3>2. CASE deque # <<>>
        <4>1. Settled[Hat(u)] = At(deque, u, 1) /\ At(deque, u, 1) \in Node \ Fresh
          BY <1>0, <3>2, HatIs
        <4> QED BY <1>2, <4>1
      <3> QED BY <3>1, <3>2
    <2>2. mem[Hat(u)] \in Dead => deque = <<>>
      BY <1>0, <1>2, HatIs
    <2> QED BY <1>0, <1>1, <2>1, <2>2
  <1>3. CASE \E t \in Thread : Storing(t) /\ Pushing(t) /\ mem[Hat(u)] = NodeOf(t)
    <2>1. PICK t \in Thread : Storing(t) /\ Pushing(t) /\ mem[Hat(u)] = NodeOf(t)
      BY <1>3
    <2>2. mem[Hat(u)] \in Fresh /\ mem[Hat(u)] \notin Private
      <3>1. NodeOf(t) \in Node
        BY <2>1 DEF IInv, ReqOK, Pushing
      <3> QED BY <2>1, <3>1 DEF Fresh, Private
    <2> QED BY <1>0, <1>1, <2>2
  <1> QED BY <1>2, <1>3, Settling

\* A visible node linked to itself, on either side, is gone.
LEMMA SeeLoop ==
  ASSUME IInv, NEW u \in Side, NEW d \in AnyNode \ Private, mem[Link(u, d)] = d
  PROVE  d \in Dead
  <1>0. /\ mem \in [Cell -> AnyNode] /\ deque \in Seq(Node) /\ Fresh \in SUBSET Node
        /\ Dead = Gone(deque, Fresh) /\ Shape(Settled, deque, Fresh)
    BY View
  <1>1. Settled[Link(u, d)] = d
    BY Settling
  <1>2. CASE d \notin Fresh
    BY <1>0, <1>1, <1>2, LoopedIsGone
  <1>3. CASE d \in Fresh
    <2>1. PICK t \in Thread : Storing(t) /\ Pushing(t) /\ NodeOf(t) = d
      BY <1>3 DEF Private
    <2>2. ~(owner = NoThread \/ stored = 0) /\ owner = t
      BY <2>1, DistinctAssumption DEF Storing, IInv, TypeOK
    <2>3. PICK o \in AnyNode, i \in AnyNode : PushNext(t, o) \/ PushFirst(t, o) \/ PopOne(t, o, i)
      BY <2>2, Owner
    <2>4. SideOf(t) \in Side /\ mem[Link(SideOf(t), d)] = Dummy /\ d # Dummy
      BY <1>0, <1>3, <2>1, DistinctAssumption DEF IInv, ReqOK, Pushing
    <2>5. mem[Link(Opp(SideOf(t)), d)] # d
      BY <2>1, <2>3, <2>4 DEF PushNext, PushFirst, PopOne, Pushing
    <2> QED BY <2>4, <2>5, Sides
  <1> QED BY <1>2, <1>3

-----------------------------------------------------------------------------
(* Steps: what a step of one thread leaves to the others.                  *)

\* A step of another thread: the thread itself stays where it is.
Same(u) == /\ pc'[u] = pc[u] /\ req'[u] = req[u] /\ ret'[u] = ret[u]
           /\ h'[u] = h[u] /\ out'[u] = out[u] /\ call'[u] = call[u]

\* What holds of a thread goes on to hold while others step, as long as its
\* node's links are let alone, visible nodes stay visible and dead ones dead.
LEMMA OthersKept ==
  ASSUME IInv, NEW u \in Thread, Same(u), free' \in SUBSET free,
         Private' \in SUBSET Private, Dead \in SUBSET Dead',
         Pushing(u) => \A v \in Side : mem'[Link(v, NodeOf(u))] = mem[Link(v, NodeOf(u))]
  PROVE  ReqOK(u)' /\ HatRead(u)' /\ CallOK(u)'
  <1>1. ReqOK(u) /\ HatRead(u) /\ CallOK(u)
    BY DEF IInv
  <1>2. ReqOK(u)'
    BY <1>1 DEF ReqOK, Same, Pushing, IsPush, SideOf, NodeOf
  <1>3. HatRead(u)'
    <2>1. pc[u] = "other" => SideOf(u) \in Side /\ Pushing(u)
      BY <1>1 DEF ReqOK, HatRead, Pushing
    <2>2. pc[u] = "other" => mem'[Link(Opp(SideOf(u)), NodeOf(u))] = mem[Link(Opp(SideOf(u)), NodeOf(u))]
      BY <2>1, Cells
    <2> QED BY <1>1, <2>1, <2>2 DEF HatRead, Same, IsPush, SideOf, NodeOf
  <1>4. CallOK(u)'
    <2> SUFFICES ASSUME pc[u] \in {"mcas", "store"}
                 PROVE  \E o, i \in AnyNode : PushNext(u, o)' \/ PushFirst(u, o)' \/ PopOne(u, o, i)'
      BY DEF CallOK, Same
    <2>1. PICK o \in AnyNode, i \in AnyNode : PushNext(u, o) \/ PushFirst(u, o) \/ PopOne(u, o, i)
      BY <1>1 DEF CallOK
    <2>2. IsPush(u) => mem'[Link(Opp(SideOf(u)), NodeOf(u))] = mem[Link(Opp(SideOf(u)), NodeOf(u))]
      BY <1>1, Cells DEF ReqOK, Pushing
    <2>3. PushNext(u, o) => PushNext(u, o)'
      BY <2>2 DEF PushNext, Same, IsPush, SideOf, NodeOf
    <2>4. PushFirst(u, o) => PushFirst(u, o)'
      BY <2>2 DEF PushFirst, Same, IsPush, SideOf, NodeOf
    <2>5. PopOne(u, o, i) => PopOne(u, o, i)'
      BY DEF PopOne, Same, IsPush, SideOf, NodeOf
    <2> QED BY <2>1, <2>3, <2>4, <2>5
  <1> QED BY <1>2, <1>3, <1>4

\* The nodes of the pushes stay what they are while requests and stores do.
LEMMA FreshKept ==
  ASSUME IInv, NEW t \in Thread, \A u \in Thread \ {t} : Same(u), free' = free,
         Pushing(t)' <=> Pushing(t), Pushing(t) => NodeOf(t)' = NodeOf(t)
  PROVE  /\ Fresh' = Fresh /\ NodesApart'
         /\ (owner' = owner /\ stored' = stored) \/ (stored = 0 /\ stored' = 0) => Private' = Private
         /\ \A u \in Thread : (Pushing(u)' <=> Pushing(u)) /\ (Pushing(u) => NodeOf(u)' = NodeOf(u))
  <1>1. \A u \in Thread : (Pushing(u)' <=> Pushing(u)) /\ (Pushing(u) => NodeOf(u)' = NodeOf(u))
    BY DEF Same, Pushing, IsPush, NodeOf
  <1>2. Fresh' = Fresh
    BY <1>1 DEF Fresh
  <1>3. NodesApart'
    BY <1>1 DEF IInv, NodesApart
  <1>4. (owner' = owner /\ stored' = stored) \/ (stored = 0 /\ stored' = 0) => Private' = Private
    <2>1. stored = 0 /\ stored' = 0 => Private' = Fresh' /\ Private = Fresh
      BY DEF Private, Storing
    <2>2. owner' = owner /\ stored' = stored => Private' = Private
      BY <1>1, <1>2 DEF Private, Storing
    <2> QED BY <1>2, <2>1, <2>2
  <1> QED BY <1>1, <1>2, <1>3, <1>4

\* The node of a push that has not stored it anywhere is its own.
LEMMA OwnNode ==
  ASSUME IInv, NEW t \in Thread, Pushing(t), ~Storing(t)
  PROVE  NodeOf(t) \in Private /\ \A u \in Thread \ {t} : Pushing(u) => NodeOf(u) # NodeOf(t)
  BY DEF IInv, NodesApart, Private, Fresh, Pushing, ReqOK

\* The words of the owner's call are not links of a node that is private.
LEMMA CallCells ==
  ASSUME IInv, NEW t \in Thread, pc[t] = "store", NEW k \in DOMAIN call[t]
  PROVE  /\ call[t][k][1] \in Cell
         /\ \A v \in Side, n \in AnyNode : n \in Private => call[t][k][1] # Link(v, n)
  <1>1. TypeOK /\ SideOf(t) \in Side /\ h[t] \notin Private /\ h[t] \in AnyNode
    BY DEF IInv, ReqOK, HatRead, TypeOK
  <1>2. PICK o \in AnyNode, i \in AnyNode : PushNext(t, o) \/ PushFirst(t, o) \/ PopOne(t, o, i)
    BY DEF IInv, CallOK
  <1>3. \/ \E u \in Side : call[t][k][1] = Hat(u)
        \/ \E u \in Side : call[t][k][1] = Link(u, h[t])
    <2>1. Opp(SideOf(t)) \in Side
      BY <1>1, Cells
    <2>2. CASE PushNext(t, o)
      <3>1. DOMAIN call[t] = {1, 2} /\ call[t][1][1] = Hat(SideOf(t)) /\ call[t][2][1] = Link(SideOf(t), h[t])
        BY <1>1, <2>2, NextWords
      <3> QED BY <1>1, <3>1
    <2>3. CASE PushFirst(t, o)
      <3>1. DOMAIN call[t] = {1, 2} /\ call[t][1][1] = Hat(SideOf(t)) /\ call[t][2][1] = Hat(Opp(SideOf(t)))
        BY <1>1, <2>3, FirstWords
      <3> QED BY <1>1, <2>1, <3>1
    <2>4. CASE PopOne(t, o, i)
      <3>1. /\ DOMAIN call[t] = {1, 2, 3} /\ call[t][1][1] = Hat(SideOf(t))
            /\ call[t][2][1] = Link(Opp(SideOf(t)), h[t]) /\ call[t][3][1] = Link(SideOf(t), h[t])
        BY <1>1, <2>4, OneWords
      <3> QED BY <1>1, <2>1, <3>1
    <2> QED BY <1>2, <2>2, <2>3, <2>4
  <1>4. CASE \E u \in Side : call[t][k][1] = Hat(u)
    BY <1>4, Cells
  <1>5. CASE \E u \in Side : call[t][k][1] = Link(u, h[t])
    <2>1. PICK u \in Side : call[t][k][1] = Link(u, h[t])
      BY <1>5
    <2>2. \A v \in Side, n \in AnyNode : n \in Private => Link(u, h[t]) # Link(v, n)
      BY <1>1, LinkApart
    <2> QED BY <1>1, <2>1, <2>2, Cells
  <1> QED BY <1>3, <1>4, <1>5

\* A step that neither stores nor takes the lock keeps the invariant for all if
\* it keeps it for its thread.
LEMMA QuietStep ==
  ASSUME IInv, TypeOK', NEW t \in Thread, pc[t] # "store", pc'[t] # "store",
         deque' = deque, stored' = stored, owner' = owner, free' \in SUBSET free,
         Fresh' = Fresh, Private' = Private, NodesApart',
         \A u \in Thread \ {t} : Same(u),
         NEW n \in AnyNode,
         \A c \in Cell : mem'[c] = mem[c] \/ (n \in Private /\ \E v \in Side : c = Link(v, n)),
         n \in Private => \A u \in Thread \ {t} : Pushing(u) => NodeOf(u) # n,
         ReqOK(t)', HatRead(t)', CallOK(t)'
  PROVE  IInv'
  <1>0. /\ mem \in [Cell -> AnyNode] /\ deque \in Seq(Node) /\ Fresh \in SUBSET Node
        /\ Private \in SUBSET Fresh /\ Shape(Settled, deque, Fresh)
    BY View
  <1>1. Dead' = Dead
    BY DEF Dead
  <1>2. \A d \in AnyNode : d \notin Private \/ d # n => \A v \in Side : mem'[Link(v, d)] = mem[Link(v, d)]
    BY Cells
  <1>3. \A v \in Side : mem'[Hat(v)] = mem[Hat(v)]
    BY Cells
  <1>4. ASSUME NEW u \in Thread \ {t}  PROVE ReqOK(u)' /\ HatRead(u)' /\ CallOK(u)'
    <2>1. Pushing(u) => NodeOf(u) \in AnyNode
      BY DEF IInv, ReqOK, Pushing, AnyNode
    <2>2. Pushing(u) => \A v \in Side : mem'[Link(v, NodeOf(u))] = mem[Link(v, NodeOf(u))]
      BY <1>2, <2>1
    <2> QED BY <1>1, <2>2, OthersKept
  <1>5. owner # t
    BY DEF IInv, OwnerOK
  <1>6. (Settled = mem /\ Settled' = mem') \/ \E c, k : Settled = With(mem, c, k) /\ Settled' = With(mem', c, k)
    <2>1. CASE owner = NoThread \/ stored = 0
      BY <2>1 DEF Settled
    <2>2. CASE ~(owner = NoThread \/ stored = 0)
      <3>1. owner \in Thread \ {t} /\ call'[owner] = call[owner] /\ req'[owner] = req[owner]
        BY <1>5, <2>2, Owner DEF Same
      <3> QED BY <2>2, <3>1 DEF Settled, IsPush
    <2> QED BY <2>1, <2>2
  <1>7. \A c \in Cell : mem'[c] = mem[c] => Settled'[c] = Settled[c]
    BY <1>6, WithAt
  <1>8. Shape(Settled', deque, Fresh)
    <2>1. \A v \in Side : Settled'[Hat(v)] = Settled[Hat(v)]
      BY <1>3, <1>7, Cells
    <2>2. \A v \in Side : \A d \in AnyNode \ Fresh : Settled'[Link(v, d)] = Settled[Link(v, d)]
      BY <1>0, <1>2, <1>7, Cells
    <2> QED BY <1>0, <2>1, <2>2, ShapeFrame
  <1>9. OwnerOK'
    <2>1. \A u \in Thread : pc'[u] = "store" <=> owner' = u
      BY <1>5 DEF IInv, OwnerOK, Same
    <2>2. ASSUME owner # NoThread  PROVE stored < Len(call'[owner]) /\ Stored(owner)'
      <3>0. PICK o \in Thread : o = owner
        BY <2>2 DEF IInv, TypeOK
      <3>1. o \in Thread \ {t} /\ pc[o] = "store" /\ call'[o] = call[o] /\ Stored(o) /\ stored < Len(call[o])
        BY <1>5, <2>2, <3>0 DEF IInv, OwnerOK, Same
      <3>2. \A k \in DOMAIN call[o] : mem'[call[o][k][1]] = mem[call[o][k][1]]
        BY <3>1, CallCells
      <3>3. Stored(o)'
        BY <3>1, <3>2 DEF Stored
      <3> QED BY <3>0, <3>1, <3>3
    <2> QED BY <2>1, <2>2 DEF IInv, OwnerOK
  <1>10. DecidedOK'
    <2>1. \A u \in Thread : Decided(u)' => u # t /\ Decided(u) /\ h'[u] = h[u]
      BY <1>5 DEF Decided, IsPush, Same
    <2> QED BY <2>1 DEF IInv, DecidedOK
  <1> QED BY <1>4, <1>8, <1>9, <1>10 DEF IInv

-----------------------------------------------------------------------------
(* The steps that neither store nor take the lock.                         *)

\* A push takes a node of its own and links it to the dummy.
LEMMA PushStartKeeps ==
  ASSUME IInv, NEW t \in Thread, NEW s \in Side, PushStart(t, s)
  PROVE  IInv'
  <1> DEFINE n == CHOOSE m \in free : TRUE
  <1>0. n \in free
    BY DEF PushStart
  <1> HIDE DEF n
  <1>1. /\ pc[t] = "idle" /\ free' = free \ {n} /\ mem' = [mem EXCEPT ![Link(s, n)] = Dummy]
        /\ req' = [req EXCEPT ![t] = <<"push", s, n>>] /\ ret' = [ret EXCEPT ![t] = Pending]
        /\ pc' = [pc EXCEPT ![t] = "hat"] /\ UNCHANGED <<h, out, inn, call, owner, stored, deque>>
    BY DEF PushStart, Goto, n
  <1>2. TypeOK /\ free \in SUBSET Node /\ n \in Node /\ n \in AnyNode /\ ReqOK(t) /\ OwnerOK
    BY <1>0 DEF IInv, TypeOK, AnyNode
  <1>3. req'[t][1] = "push" /\ req'[t][2] = s /\ req'[t][3] = n /\ pc'[t] = "hat" /\ ret'[t] = Pending
    <2>1. DOMAIN pc = Thread /\ DOMAIN ret = Thread /\ DOMAIN req = Thread
      BY <1>2 DEF TypeOK
    <2>2. req'[t] = <<"push", s, n>>
      BY <1>1, <2>1
    <2> QED BY <1>1, <2>1, <2>2
  <1>4. TypeOK'
    <2>1. mem' \in [Cell -> AnyNode]
      BY <1>1, <1>2 DEF TypeOK, AnyNode
    <2>2. pc' \in [Thread -> PC] /\ ret' \in [Thread -> Node \cup {Pending, Void, Empty}]
      BY <1>1, <1>2 DEF TypeOK, PC
    <2> QED BY <1>1, <1>2, <2>1, <2>2 DEF TypeOK
  <1>5. \A u \in Thread \ {t} : Same(u)
    BY <1>1 DEF Same
  <1>6. ~Pushing(t) /\ Pushing(t)' /\ NodeOf(t)' = n /\ owner # t
    BY <1>1, <1>2, <1>3 DEF Pushing, IsPush, NodeOf, OwnerOK
  <1>7. \A u \in Thread \ {t} : (Pushing(u)' <=> Pushing(u)) /\ NodeOf(u)' = NodeOf(u)
    BY <1>5 DEF Same, Pushing, IsPush, NodeOf
  <1>8. \A u \in Thread : Pushing(u) => NodeOf(u) \notin free
    BY DEF IInv, ReqOK, Pushing
  <1>9. Fresh' = Fresh
    <2>1. \A d \in Node : d \in free \/ (\E u \in Thread : Pushing(u) /\ NodeOf(u) = d)
                      <=> d \in free' \/ (\E u \in Thread : Pushing(u)' /\ NodeOf(u)' = d)
      BY <1>0, <1>1, <1>6, <1>7
    <2> QED BY <2>1 DEF Fresh
  <1>10. NodesApart'
    BY <1>0, <1>6, <1>7, <1>8 DEF IInv, NodesApart
  <1>11. Private' = Private /\ n \in Private
    <2>1. ~Storing(t) /\ ~Storing(t)' /\ \A u \in Thread : Storing(u)' <=> Storing(u)
      BY <1>1, <1>6 DEF Storing
    <2>2. Private' = Private
      BY <1>7, <1>9, <2>1 DEF Private
    <2>3. n \in Private
      BY <1>0, <1>2, <1>8 DEF Private, Fresh
    <2> QED BY <2>2, <2>3
  <1>12. \A c \in Cell : mem'[c] = mem[c] \/ (n \in Private /\ \E v \in Side : c = Link(v, n))
    BY <1>1, <1>2, <1>11 DEF TypeOK
  <1>13. \A u \in Thread \ {t} : Pushing(u) => NodeOf(u) # n
    BY <1>0, <1>8
  <1>14. ReqOK(t)'
    <2>1. mem'[Link(s, n)] = Dummy
      BY <1>1, <1>2, Cells DEF TypeOK
    <2> QED BY <1>0, <1>1, <1>2, <1>3, <2>1 DEF ReqOK, SideOf, NodeOf
  <1>15. HatRead(t)' /\ CallOK(t)'
    BY <1>3 DEF HatRead, CallOK
  <1> QED BY <1>1, <1>2, <1>3, <1>4, <1>5, <1>9, <1>10, <1>11, <1>12, <1>13, <1>14, <1>15, QuietStep

\* A pop begins.
LEMMA PopStartKeeps ==
  ASSUME IInv, NEW t \in Thread, NEW s \in Side, PopStart(t, s)
  PROVE  IInv'
  <1>1. /\ pc[t] = "idle" /\ req' = [req EXCEPT ![t] = <<"pop", s>>] /\ ret' = [ret EXCEPT ![t] = Pending]
        /\ pc' = [pc EXCEPT ![t] = "hat"]
        /\ UNCHANGED <<mem, free, h, out, inn, call, owner, stored, deque>>
    BY DEF PopStart, Goto
  <1>2. TypeOK
    BY DEF IInv
  <1>3. req'[t][1] = "pop" /\ req'[t][2] = s /\ pc'[t] = "hat" /\ ret'[t] = Pending
    <2>1. DOMAIN pc = Thread /\ DOMAIN ret = Thread /\ DOMAIN req = Thread
      BY <1>2 DEF TypeOK
    <2>2. req'[t] = <<"pop", s>>
      BY <1>1, <2>1
    <2> QED BY <1>1, <2>1, <2>2
  <1>4. TypeOK'
    <2>2. pc' \in [Thread -> PC] /\ ret' \in [Thread -> Node \cup {Pending, Void, Empty}]
      BY <1>1, <1>2 DEF TypeOK, PC
    <2> QED BY <1>1, <1>2, <2>2 DEF TypeOK
  <1>5. \A u \in Thread \ {t} : Same(u)
    BY <1>1 DEF Same
  <1>6. ~Pushing(t) /\ ~Pushing(t)'
    BY <1>1, <1>3 DEF Pushing, IsPush
  <1>7. Fresh' = Fresh /\ NodesApart' /\ Private' = Private
    BY <1>1, <1>5, <1>6, FreshKept
  <1>8. ReqOK(t)' /\ HatRead(t)' /\ CallOK(t)'
    BY <1>3 DEF ReqOK, HatRead, CallOK, SideOf, IsPush
  <1>9. Dummy \in AnyNode /\ pc[t] # "store" /\ pc'[t] # "store" /\ Dummy \notin Private
    BY <1>1, <1>3, View, DistinctAssumption DEF AnyNode
  <1> QED BY <1>1, <1>4, <1>5, <1>7, <1>8, <1>9, QuietStep

\* A step on a thread's locals alone, which leaves a push a push of its node,
\* changes no node's kind, and keeps the invariant if it does for the thread.
LEMMA LocalStep ==
  ASSUME IInv, TypeOK', NEW t \in Thread, pc[t] # "store", pc'[t] # "store",
         UNCHANGED <<mem, free, owner, stored, deque>>, \A u \in Thread \ {t} : Same(u),
         Pushing(t)' <=> Pushing(t), Pushing(t) => NodeOf(t)' = NodeOf(t)
  PROVE  /\ Private' = Private /\ Dead' = Dead
         /\ ReqOK(t)' /\ HatRead(t)' /\ CallOK(t)' => IInv'
  <1>1. Fresh' = Fresh /\ NodesApart' /\ Private' = Private
    BY FreshKept
  <1>2. Dead' = Dead
    BY <1>1 DEF Dead
  <1>3. Dummy \in AnyNode /\ Dummy \notin Private
    BY View, DistinctAssumption DEF AnyNode
  <1>4. ASSUME ReqOK(t)', HatRead(t)', CallOK(t)'  PROVE IInv'
    BY <1>1, <1>3, <1>4, QuietStep
  <1> QED BY <1>1, <1>2, <1>4

\* The start of a round loads the hat.
LEMMA LoadHatKeeps ==
  ASSUME IInv, NEW t \in Thread, LoadHat(t)
  PROVE  IInv'
  <1>1. /\ pc[t] = "hat" /\ h' = [h EXCEPT ![t] = mem[Hat(SideOf(t))]] /\ pc' = [pc EXCEPT ![t] = "links"]
        /\ UNCHANGED <<mem, free, req, ret, out, inn, call, owner, stored, deque>>
    BY DEF LoadHat, Goto
  <1>2. TypeOK /\ ReqOK(t)
    BY DEF IInv
  <1>3. SideOf(t) \in Side
    BY <1>1, <1>2 DEF ReqOK
  <1>4. mem[Hat(SideOf(t))] \in AnyNode \ Private
    BY <1>3, SeeHat
  <1>5. TypeOK'
    BY <1>1, <1>2, <1>4 DEF TypeOK, PC
  <1>6. pc'[t] = "links" /\ h'[t] = mem[Hat(SideOf(t))] /\ \A u \in Thread \ {t} : Same(u)
    BY <1>1, <1>2 DEF TypeOK, Same
  <1>7. (Pushing(t)' <=> Pushing(t)) /\ NodeOf(t)' = NodeOf(t)
    BY <1>1, <1>6 DEF Pushing, IsPush, NodeOf
  <1>8. ReqOK(t)'
    BY <1>1, <1>2, <1>6 DEF ReqOK, IsPush, SideOf, NodeOf
  <1>9. Private' = Private /\ Dead' = Dead /\ (ReqOK(t)' /\ HatRead(t)' /\ CallOK(t)' => IInv')
    BY <1>1, <1>5, <1>6, <1>7, LocalStep
  <1> QED BY <1>4, <1>6, <1>8, <1>9 DEF HatRead, CallOK

\* A push looks at the outer link of the hat and aims its node's inner link.
LEMMA PushLoadLinkKeeps ==
  ASSUME IInv, NEW t \in Thread, PushLoadLink(t)
  PROVE  IInv'
  <1>0. PICK o : o = mem[Link(SideOf(t), h[t])]
    OBVIOUS
  <1> DEFINE s == SideOf(t)  n == NodeOf(t)
             x == IF o = h[t] THEN Dummy ELSE h[t]
  <1>1. /\ pc[t] = "links" /\ IsPush(t) /\ mem' = [mem EXCEPT ![Link(Opp(s), n)] = x]
        /\ UNCHANGED <<free, req, ret, h, out, inn, owner, stored, deque>>
    BY <1>0 DEF PushLoadLink
  <1>2. \/ /\ o = h[t] /\ pc' = [pc EXCEPT ![t] = "other"] /\ UNCHANGED call
        \/ /\ o # h[t] /\ pc' = [pc EXCEPT ![t] = "mcas"]
           /\ call' = [call EXCEPT ![t] = << <<Hat(s), h[t], n>>, <<Link(s, h[t]), o, n>> >>]
    BY <1>0 DEF PushLoadLink, Goto
  <1>3. TypeOK /\ ReqOK(t) /\ HatRead(t) /\ owner # t /\ mem \in [Cell -> AnyNode]
    BY <1>1 DEF IInv, OwnerOK, TypeOK
  <1>4. s \in Side /\ Opp(s) \in Side /\ Opp(s) # s /\ n \in Node /\ n \in AnyNode /\ h[t] \in AnyNode \ Private
    BY <1>1, <1>3, Cells DEF ReqOK, HatRead, TypeOK, AnyNode
  <1>5. Pushing(t) /\ ~Storing(t) /\ n \in Private /\ \A u \in Thread \ {t} : Pushing(u) => NodeOf(u) # n
    BY <1>1, <1>3, OwnNode DEF Pushing, Storing
  <1>6. o \in AnyNode /\ x \in AnyNode /\ Link(Opp(s), n) \in Cell /\ Link(s, n) # Link(Opp(s), n) /\ Link(s, n) \in Cell
    BY <1>0, <1>3, <1>4, Cells DEF AnyNode
  <1>7. o = h[t] => h[t] \in Dead
    BY <1>0, <1>4, SeeLoop
  <1> HIDE DEF s, n, x
  <1>8. pc'[t] \in {"other", "mcas"} /\ mem'[Link(Opp(s), n)] = x /\ mem'[Link(s, n)] = mem[Link(s, n)]
    BY <1>1, <1>2, <1>3, <1>6 DEF TypeOK
  <1>9. TypeOK'
    <2>1. mem' \in [Cell -> AnyNode] /\ pc' \in [Thread -> PC] /\ DOMAIN call' = Thread
      BY <1>1, <1>2, <1>3, <1>6 DEF TypeOK, PC
    <2> QED BY <1>1, <1>3, <2>1 DEF TypeOK
  <1>10. \A u \in Thread \ {t} : Same(u)
    <2>1. ASSUME NEW u \in Thread, u # t  PROVE pc'[u] = pc[u] /\ call'[u] = call[u]
      <3>1. DOMAIN pc = Thread /\ DOMAIN call = Thread
        BY <1>3 DEF TypeOK
      <3> QED BY <1>2, <2>1, <3>1
    <2> QED BY <1>1, <2>1 DEF Same
  <1>11. (Pushing(t)' <=> Pushing(t)) /\ NodeOf(t)' = NodeOf(t) /\ SideOf(t)' = SideOf(t) /\ IsPush(t)'
    BY <1>1, <1>5, <1>8 DEF Pushing, IsPush, NodeOf, SideOf
  <1>12. Fresh' = Fresh /\ NodesApart' /\ Private' = Private
    BY <1>1, <1>10, <1>11, FreshKept
  <1>13. Dead' = Dead
    BY <1>1, <1>12 DEF Dead
  <1>14. ReqOK(t)'
    BY <1>1, <1>3, <1>5, <1>8, <1>11 DEF ReqOK, Pushing, s, n
  <1>15. HatRead(t)'
    <2>1. pc'[t] = "other" => o = h[t] /\ x = Dummy
      BY <1>2, <1>3 DEF TypeOK, x
    <2>2. h'[t] = h[t]
      BY <1>1
    <2>3. mem'[Link(Opp(SideOf(t)'), NodeOf(t)')] = x
      BY <1>8, <1>11 DEF s, n
    <2> QED BY <1>4, <1>7, <1>8, <1>11, <1>12, <1>13, <2>1, <2>2, <2>3 DEF HatRead
  <1>16. CallOK(t)'
    <2> SUFFICES ASSUME pc'[t] = "mcas"  PROVE PushNext(t, o)'
      BY <1>6, <1>8 DEF CallOK
    <2>1. o # h[t] /\ x = h[t] /\ call'[t] = << <<Hat(s), h[t], n>>, <<Link(s, h[t]), o, n>> >>
      BY <1>2, <1>3 DEF TypeOK, x
    <2>2. h[t] # n /\ h'[t] = h[t]
      BY <1>1, <1>4, <1>5
    <2>3. mem'[Link(Opp(SideOf(t)'), NodeOf(t)')] = h[t]
      BY <1>8, <1>11, <2>1 DEF s, n
    <2> QED BY <1>11, <2>1, <2>2, <2>3 DEF PushNext, s, n
  <1>17. \A c \in Cell : mem'[c] = mem[c] \/ (n \in Private /\ \E v \in Side : c = Link(v, n))
    BY <1>1, <1>3, <1>4, <1>5
  <1>18. pc[t] # "store" /\ pc'[t] # "store"
    BY <1>1, <1>8
  <1> QED BY <1>1, <1>4, <1>5, <1>9, <1>10, <1>12, <1>14, <1>15, <1>16, <1>17, <1>18, QuietStep

\* A push into the empty deque loads the other hat.
LEMMA PushLoadOtherKeeps ==
  ASSUME IInv, NEW t \in Thread, PushLoadOther(t)
  PROVE  IInv'
  <1>0. PICK o : o = mem[Hat(Opp(SideOf(t)))]
    OBVIOUS
  <1> DEFINE s == SideOf(t)  n == NodeOf(t)
  <1>1. /\ pc[t] = "other" /\ pc' = [pc EXCEPT ![t] = "mcas"]
        /\ call' = [call EXCEPT ![t] = << <<Hat(s), h[t], n>>, <<Hat(Opp(s)), o, n>> >>]
        /\ UNCHANGED <<mem, free, req, ret, h, out, inn, owner, stored, deque>>
    BY <1>0 DEF PushLoadOther, Goto
  <1>2. TypeOK /\ ReqOK(t) /\ HatRead(t) /\ mem \in [Cell -> AnyNode]
    BY DEF IInv, TypeOK
  <1>3. s \in Side /\ Opp(s) \in Side /\ IsPush(t) /\ o \in AnyNode
    BY <1>0, <1>1, <1>2, Cells DEF ReqOK, HatRead
  <1>4. pc'[t] = "mcas" /\ call'[t] = << <<Hat(s), h[t], n>>, <<Hat(Opp(s)), o, n>> >>
    BY <1>1, <1>2 DEF TypeOK
  <1>5. TypeOK' /\ \A u \in Thread \ {t} : Same(u)
    BY <1>1, <1>2 DEF TypeOK, PC, Same
  <1>6. (Pushing(t)' <=> Pushing(t)) /\ NodeOf(t)' = NodeOf(t) /\ SideOf(t)' = SideOf(t) /\ IsPush(t)'
    BY <1>1, <1>3, <1>4 DEF Pushing, IsPush, NodeOf, SideOf
  <1> HIDE DEF s, n
  <1>7. Private' = Private /\ Dead' = Dead /\ (ReqOK(t)' /\ HatRead(t)' /\ CallOK(t)' => IInv')
    BY <1>1, <1>4, <1>5, <1>6, LocalStep
  <1>8. ReqOK(t)'
    BY <1>1, <1>2, <1>3, <1>4, <1>6 DEF ReqOK
  <1>9. HatRead(t)'
    BY <1>1, <1>2, <1>4, <1>7 DEF HatRead
  <1>10. PushFirst(t, o)'
    BY <1>1, <1>2, <1>4, <1>6, <1>7 DEF PushFirst, HatRead, s, n
  <1>11. CallOK(t)'
    BY <1>3, <1>10 DEF CallOK
  <1> QED BY <1>7, <1>8, <1>9, <1>11

\* A pop loads the link on the left of the node at its hat.
LEMMA PopLoadLKeeps ==
  ASSUME IInv, NEW t \in Thread, PopLoadL(t)
  PROVE  IInv'
  <1>0. PICK v : v = mem[Link("L", h[t])]
    OBVIOUS
  <1>1. /\ pc[t] = "links" /\ ~IsPush(t) /\ pc' = [pc EXCEPT ![t] = "links2"]
        /\ SideOf(t) = "L" => out' = [out EXCEPT ![t] = v] /\ UNCHANGED inn
        /\ SideOf(t) # "L" => inn' = [inn EXCEPT ![t] = v] /\ UNCHANGED out
        /\ UNCHANGED <<mem, free, req, ret, h, call, owner, stored, deque>>
    BY <1>0 DEF PopLoadL, Goto
  <1>2. TypeOK /\ ReqOK(t) /\ HatRead(t) /\ "L" \in Side /\ h[t] \in AnyNode \ Private
    BY <1>1 DEF IInv, TypeOK, Side, HatRead
  <1>3. v \in AnyNode /\ (v = h[t] => h[t] \in Dead)
    <2>1. mem \in [Cell -> AnyNode] /\ Link("L", h[t]) \in Cell
      BY <1>2, Cells DEF TypeOK
    <2> QED BY <1>0, <1>2, <2>1, SeeLoop
  <1>4. TypeOK'
    <2>1. out' \in [Thread -> AnyNode] /\ inn' \in [Thread -> AnyNode]
      BY <1>1, <1>2, <1>3 DEF TypeOK
    <2> QED BY <1>1, <1>2, <2>1 DEF TypeOK, PC
  <1>5. pc'[t] = "links2" /\ (SideOf(t) = "L" => out'[t] = v) /\ h'[t] = h[t]
    BY <1>1, <1>2 DEF TypeOK
  <1>6. \A u \in Thread \ {t} : Same(u)
    BY <1>1, <1>2 DEF TypeOK, Same
  <1>7. ~Pushing(t) /\ ~Pushing(t)' /\ ~IsPush(t)' /\ SideOf(t)' = SideOf(t)
    BY <1>1 DEF Pushing, IsPush, SideOf
  <1>8. Private' = Private /\ Dead' = Dead /\ (ReqOK(t)' /\ HatRead(t)' /\ CallOK(t)' => IInv')
    BY <1>1, <1>4, <1>5, <1>6, <1>7, LocalStep
  <1>9. ReqOK(t)'
    BY <1>1, <1>2, <1>5, <1>7 DEF ReqOK
  <1>10. HatRead(t)'
    BY <1>2, <1>3, <1>5, <1>7, <1>8 DEF HatRead
  <1>11. CallOK(t)'
    BY <1>5 DEF CallOK
  <1> QED BY <1>8, <1>9, <1>10, <1>11

\* The end of a round, or of an operation, clears the locals of its thread.
LEMMA RoundEnds ==
  ASSUME TypeOK, NEW t \in Thread, NEW l \in PC, EndRound(t, l)
  PROVE  /\ pc' \in [Thread -> PC] /\ pc'[t] = l /\ DOMAIN call' = Thread
         /\ h' \in [Thread -> AnyNode] /\ out' \in [Thread -> AnyNode] /\ inn' \in [Thread -> AnyNode]
         /\ \A u \in Thread \ {t} : pc'[u] = pc[u] /\ h'[u] = h[u] /\ out'[u] = out[u] /\ call'[u] = call[u]
  BY DEF EndRound, Goto, TypeOK, AnyNode

\* A pop that finds the deque empty returns.
LEMMA ReturnEmptyKeeps ==
  ASSUME IInv, NEW t \in Thread, pc[t] \notin {"idle", "store"}, ~IsPush(t), Return(t, Empty),
         UNCHANGED <<mem, free, owner, stored, deque>>
  PROVE  IInv'
  <1>1. TypeOK /\ ReqOK(t)
    BY DEF IInv
  <1>2. /\ EndRound(t, "idle") /\ ret' = [ret EXCEPT ![t] = Empty] /\ req' = [req EXCEPT ![t] = <<>>]
    BY DEF Return
  <1>3. /\ pc' \in [Thread -> PC] /\ pc'[t] = "idle" /\ DOMAIN call' = Thread
        /\ h' \in [Thread -> AnyNode] /\ out' \in [Thread -> AnyNode] /\ inn' \in [Thread -> AnyNode]
        /\ \A u \in Thread \ {t} : pc'[u] = pc[u] /\ h'[u] = h[u] /\ out'[u] = out[u] /\ call'[u] = call[u]
    <2>1. "idle" \in PC
      BY DEF PC
    <2> QED BY <1>1, <1>2, <2>1, RoundEnds
  <1>4. TypeOK' /\ ret'[t] = Empty
    BY <1>1, <1>2, <1>3 DEF TypeOK
  <1>5. \A u \in Thread \ {t} : Same(u)
    BY <1>1, <1>2, <1>3 DEF TypeOK, Same
  <1>6. ~Pushing(t) /\ ~Pushing(t)'
    BY <1>3 DEF Pushing
  <1>7. ReqOK(t)' /\ HatRead(t)' /\ CallOK(t)'
    BY <1>3, <1>4, DistinctAssumption DEF ReqOK, HatRead, CallOK
  <1> QED BY <1>3, <1>4, <1>5, <1>6, <1>7, LocalStep

\* A thread that starts over forgets its round.
LEMMA AgainKeeps ==
  ASSUME IInv, NEW t \in Thread, pc[t] \notin {"idle", "store"}, Again(t),
         UNCHANGED <<mem, free, owner, stored, deque>>
  PROVE  IInv'
  <1>1. TypeOK /\ ReqOK(t)
    BY DEF IInv
  <1>2. EndRound(t, "hat") /\ ret' = ret /\ req' = req
    BY DEF Again
  <1>3. /\ pc' \in [Thread -> PC] /\ pc'[t] = "hat" /\ DOMAIN call' = Thread
        /\ h' \in [Thread -> AnyNode] /\ out' \in [Thread -> AnyNode] /\ inn' \in [Thread -> AnyNode]
        /\ \A u \in Thread \ {t} : pc'[u] = pc[u] /\ h'[u] = h[u] /\ out'[u] = out[u] /\ call'[u] = call[u]
    <2>1. "hat" \in PC
      BY DEF PC
    <2> QED BY <1>1, <1>2, <2>1, RoundEnds
  <1>4. TypeOK'
    BY <1>1, <1>2, <1>3 DEF TypeOK
  <1>5. \A u \in Thread \ {t} : Same(u)
    BY <1>2, <1>3 DEF Same
  <1>6. (Pushing(t)' <=> Pushing(t)) /\ NodeOf(t)' = NodeOf(t)
    BY <1>2, <1>3 DEF Pushing, IsPush, NodeOf
  <1>7. ReqOK(t)'
    BY <1>1, <1>2, <1>3 DEF ReqOK, IsPush, SideOf, NodeOf
  <1>8. HatRead(t)' /\ CallOK(t)'
    BY <1>3 DEF HatRead, CallOK
  <1> QED BY <1>3, <1>4, <1>5, <1>6, <1>7, <1>8, LocalStep

\* A pop loads the other link and either decides that the deque may be empty or
\* aims its call at the three words.
LEMMA PopLoadRKeeps ==
  ASSUME IInv, NEW t \in Thread, PopLoadR(t)
  PROVE  IInv'
  <1>0. PICK r : r = mem[Link("R", h[t])]
    OBVIOUS
  <1> DEFINE s == SideOf(t)
  <1>00. PICK o, i : o = (IF s = "L" THEN out[t] ELSE r) /\ i = (IF s = "L" THEN r ELSE inn[t])
    OBVIOUS
  <1>1. TypeOK /\ ReqOK(t) /\ HatRead(t) /\ pc[t] = "links2" /\ UNCHANGED <<mem, free, owner, stored, deque>>
    BY DEF IInv, PopLoadR
  <1>2. ~IsPush(t) /\ s \in Side /\ "R" \in Side /\ h[t] \in AnyNode \ Private
    BY <1>1 DEF ReqOK, HatRead, Side, TypeOK
  <1>3. r \in AnyNode /\ (r = h[t] => h[t] \in Dead)
    <2>1. mem \in [Cell -> AnyNode] /\ Link("R", h[t]) \in Cell
      BY <1>1, <1>2, Cells DEF TypeOK
    <2> QED BY <1>0, <1>2, <2>1, SeeLoop
  <1>4. o \in AnyNode /\ i \in AnyNode /\ (o = h[t] => h[t] \in Dead)
    BY <1>00, <1>1, <1>3 DEF TypeOK, HatRead
  <1>5. CASE o = h[t] /\ ~Reread
    <2>1. Return(t, Empty)
      BY <1>0, <1>00, <1>5 DEF PopLoadR
    <2> QED BY <1>1, <1>2, <2>1, ReturnEmptyKeeps
  <1>6. CASE o = h[t] /\ Reread
    <2>1. pc' = [pc EXCEPT ![t] = "reread"] /\ UNCHANGED <<req, ret, h, out, inn, call>>
      BY <1>0, <1>00, <1>6 DEF PopLoadR, Goto
    <2>2. TypeOK' /\ pc'[t] = "reread" /\ \A u \in Thread \ {t} : Same(u)
      BY <1>1, <2>1 DEF TypeOK, PC, Same
    <2>3. ~Pushing(t) /\ ~Pushing(t)' /\ ~IsPush(t)' /\ SideOf(t)' = SideOf(t)
      BY <1>2, <2>1 DEF Pushing, IsPush, SideOf
    <2>4. Private' = Private /\ Dead' = Dead /\ (ReqOK(t)' /\ HatRead(t)' /\ CallOK(t)' => IInv')
      BY <1>1, <2>2, <2>3, LocalStep
    <2>5. ReqOK(t)' /\ HatRead(t)' /\ CallOK(t)'
      BY <1>1, <1>2, <1>4, <1>6, <2>1, <2>2, <2>3, <2>4 DEF ReqOK, HatRead, CallOK
    <2> QED BY <2>4, <2>5
  <1>7. CASE o # h[t]
    <2>1. /\ pc' = [pc EXCEPT ![t] = "mcas"] /\ UNCHANGED <<req, ret, h, out, inn>>
          /\ call' = [call EXCEPT ![t] =
               << <<Hat(s), h[t], i>>, <<Link(Opp(s), h[t]), i, h[t]>>, <<Link(s, h[t]), o, h[t]>> >>]
      BY <1>0, <1>00, <1>7 DEF PopLoadR, Goto
    <2>2. /\ pc'[t] = "mcas"
          /\ call'[t] = << <<Hat(s), h[t], i>>, <<Link(Opp(s), h[t]), i, h[t]>>, <<Link(s, h[t]), o, h[t]>> >>
      BY <1>1, <2>1 DEF TypeOK
    <2>3. TypeOK' /\ \A u \in Thread \ {t} : Same(u)
      BY <1>1, <2>1 DEF TypeOK, PC, Same
    <2>4. ~Pushing(t) /\ ~Pushing(t)' /\ ~IsPush(t)' /\ SideOf(t)' = SideOf(t)
      BY <1>2, <2>1 DEF Pushing, IsPush, SideOf
    <2>5. Private' = Private /\ Dead' = Dead /\ (ReqOK(t)' /\ HatRead(t)' /\ CallOK(t)' => IInv')
      BY <1>1, <2>2, <2>3, <2>4, LocalStep
    <2>6. ReqOK(t)' /\ HatRead(t)'
      BY <1>1, <1>2, <2>1, <2>2, <2>4, <2>5 DEF ReqOK, HatRead
    <2> HIDE DEF s
    <2>7. PopOne(t, o, i)'
      BY <1>7, <2>1, <2>2, <2>4 DEF PopOne, s
    <2>8. CallOK(t)'
      BY <1>4, <2>7 DEF CallOK
    <2> QED BY <2>5, <2>6, <2>8
  <1> QED BY <1>5, <1>6, <1>7

\* A pop looks at the hat again.
LEMMA PopRereadKeeps ==
  ASSUME IInv, NEW t \in Thread, PopReread(t)
  PROVE  IInv'
  <1>1. pc[t] = "reread" /\ HatRead(t) /\ UNCHANGED <<mem, free, owner, stored, deque>>
    BY DEF PopReread, IInv
  <1>2. Return(t, Empty) \/ Again(t)
    BY DEF PopReread
  <1> QED BY <1>1, <1>2, ReturnEmptyKeeps, AgainKeeps DEF HatRead

-----------------------------------------------------------------------------
(* The call: compare, and store word after word.                           *)

\* The words of a push, whichever of the two calls it makes.
LEMMA PushWords ==
  ASSUME IInv, NEW t \in Thread, pc[t] \in {"mcas", "store"}, IsPush(t)
  PROVE  /\ DOMAIN call[t] = {1, 2} /\ Len(call[t]) = 2
         /\ call[t][1][3] = NodeOf(t) /\ call[t][2][3] = NodeOf(t) /\ NodeOf(t) \in Node
         /\ call[t][1][1] \in Cell /\ call[t][2][1] \in Cell /\ call[t][1][1] # call[t][2][1]
         /\ call[t][1][2] \in AnyNode /\ call[t][2][2] \in AnyNode
  <1>1. TypeOK /\ SideOf(t) \in Side /\ NodeOf(t) \in Node /\ h[t] \in AnyNode
    BY DEF IInv, ReqOK, TypeOK
  <1>2. PICK o \in AnyNode, i \in AnyNode : PushNext(t, o) \/ PushFirst(t, o) \/ PopOne(t, o, i)
    BY DEF IInv, CallOK
  <1>3. CASE PushNext(t, o)
    <2>1. /\ DOMAIN call[t] = {1, 2} /\ Len(call[t]) = 2
          /\ call[t][1][3] = NodeOf(t) /\ call[t][2][3] = NodeOf(t)
          /\ call[t][1][1] = Hat(SideOf(t)) /\ call[t][2][1] = Link(SideOf(t), h[t])
          /\ call[t][1][2] = h[t] /\ call[t][2][2] = o
      BY <1>1, <1>3, NextWords
    <2> QED BY <1>1, <2>1, Cells
  <1>4. CASE PushFirst(t, o)
    <2>1. /\ DOMAIN call[t] = {1, 2} /\ Len(call[t]) = 2
          /\ call[t][1][3] = NodeOf(t) /\ call[t][2][3] = NodeOf(t)
          /\ call[t][1][1] = Hat(SideOf(t)) /\ call[t][2][1] = Hat(Opp(SideOf(t)))
          /\ call[t][1][2] = h[t] /\ call[t][2][2] = o
      BY <1>1, <1>4, FirstWords
    <2> QED BY <1>1, <2>1, Cells
  <1> QED BY <1>2, <1>3, <1>4 DEF PopOne

\* The words of a pop.
LEMMA PopWords ==
  ASSUME IInv, NEW t \in Thread, pc[t] \in {"mcas", "store"}, ~IsPush(t)
  PROVE  \E o, i \in AnyNode :
         /\ o # h[t] /\ h[t] \in AnyNode /\ SideOf(t) \in Side /\ h[t] \notin Private
         /\ Hat(SideOf(t)) \in Cell /\ Link(Opp(SideOf(t)), h[t]) \in Cell /\ Link(SideOf(t), h[t]) \in Cell
         /\ Hat(SideOf(t)) # Link(Opp(SideOf(t)), h[t]) /\ Hat(SideOf(t)) # Link(SideOf(t), h[t])
         /\ Link(SideOf(t), h[t]) # Link(Opp(SideOf(t)), h[t])
         /\ DOMAIN call[t] = {1, 2, 3} /\ Len(call[t]) = 3
         /\ call[t][1][1] = Hat(SideOf(t)) /\ call[t][1][2] = h[t] /\ call[t][1][3] = i
         /\ call[t][2][1] = Link(Opp(SideOf(t)), h[t]) /\ call[t][2][2] = i /\ call[t][2][3] = h[t]
         /\ call[t][3][1] = Link(SideOf(t), h[t]) /\ call[t][3][2] = o /\ call[t][3][3] = h[t]
  <1>1. TypeOK /\ SideOf(t) \in Side /\ h[t] \in AnyNode /\ h[t] \notin Private
    BY DEF IInv, ReqOK, TypeOK, HatRead
  <1>2. PICK o \in AnyNode, i \in AnyNode : PushNext(t, o) \/ PushFirst(t, o) \/ PopOne(t, o, i)
    BY DEF IInv, CallOK
  <1>3. PopOne(t, o, i) /\ o # h[t]
    BY <1>2 DEF PushNext, PushFirst, PopOne
  <1> QED BY <1>1, <1>3, OneWords

\* A call that takes the lock has found every word as expected.
LEMMA McasCompareKeeps ==
  ASSUME IInv, NEW t \in Thread, McasCompare(t)
  PROVE  IInv'
  <1>1. pc[t] = "mcas" /\ owner = NoThread /\ UNCHANGED <<mem, free, stored, deque>>
    BY DEF McasCompare
  <1>2. CASE ~\A i \in DOMAIN call[t] : mem[call[t][i][1]] = call[t][i][2]
    <2>1. Again(t) /\ UNCHANGED owner
      BY <1>2 DEF McasCompare
    <2> QED BY <1>1, <2>1, AgainKeeps
  <1>3. CASE \A i \in DOMAIN call[t] : mem[call[t][i][1]] = call[t][i][2]
    <2>1. owner' = t /\ pc' = [pc EXCEPT ![t] = "store"] /\ UNCHANGED <<req, ret, h, out, inn, call>>
      BY <1>3 DEF McasCompare, Goto
    <2>2. TypeOK /\ OwnerOK /\ stored = 0 /\ stored' = 0 /\ ReqOK(t) /\ HatRead(t) /\ CallOK(t)
      BY <1>1 DEF IInv, OwnerOK
    <2>3. TypeOK' /\ pc'[t] = "store" /\ \A u \in Thread \ {t} : Same(u)
      BY <1>1, <2>1, <2>2 DEF TypeOK, PC, Same
    <2>4. (Pushing(t)' <=> Pushing(t)) /\ NodeOf(t)' = NodeOf(t) /\ SideOf(t)' = SideOf(t) /\ (IsPush(t)' <=> IsPush(t))
      BY <1>1, <2>1, <2>3 DEF Pushing, IsPush, NodeOf, SideOf
    <2>5. Fresh' = Fresh /\ NodesApart' /\ Private' = Private
      BY <1>1, <2>2, <2>3, <2>4, FreshKept
    <2>6. Dead' = Dead /\ Settled' = Settled
      BY <1>1, <2>2, <2>5 DEF Dead, Settled
    <2>7. ReqOK(t)' /\ HatRead(t)'
      BY <1>1, <2>1, <2>2, <2>3, <2>4, <2>5, <2>6 DEF ReqOK, HatRead
    <2>8. CallOK(t)'
      <3>1. PICK o \in AnyNode, i \in AnyNode : PushNext(t, o) \/ PushFirst(t, o) \/ PopOne(t, o, i)
        BY <1>1, <2>2 DEF CallOK
      <3>2. PushNext(t, o)' \/ PushFirst(t, o)' \/ PopOne(t, o, i)'
        BY <1>1, <2>1, <2>4, <2>6, <3>1 DEF PushNext, PushFirst, PopOne
      <3> QED BY <3>2 DEF CallOK
    <2>9. \A u \in Thread \ {t} : ReqOK(u)' /\ HatRead(u)' /\ CallOK(u)'
      BY <1>1, <2>3, <2>5, <2>6, OthersKept
    <2>10. OwnerOK'
      <3>1. \A u \in Thread : pc'[u] = "store" <=> owner' = u
        BY <1>1, <2>1, <2>2, <2>3, DistinctAssumption DEF OwnerOK, Same
      <3>2. 0 < Len(call[t]) /\ \A k \in DOMAIN call[t] : ~(k <= 0)
        BY <1>1, PushWords, PopWords
      <3>3. Stored(t)'
        BY <1>1, <1>3, <2>1, <2>2, <3>2 DEF Stored
      <3> QED BY <2>1, <2>2, <3>1, <3>2, <3>3, DistinctAssumption DEF OwnerOK
    <2>11. DecidedOK'
      BY <2>2 DEF DecidedOK, Decided
    <2> QED BY <1>1, <2>3, <2>5, <2>6, <2>7, <2>8, <2>9, <2>10, <2>11 DEF IInv
  <1> QED BY <1>2, <1>3

\* A conflict leaves everything as it was.
LEMMA McasConflictKeeps ==
  ASSUME IInv, NEW t \in Thread, McasConflict(t)
  PROVE  IInv'
  BY AgainKeeps DEF McasConflict

\* The word a store writes, and the words of its call it leaves alone.
LEMMA StoreFacts ==
  ASSUME IInv, NEW t \in Thread, McasStore(t)
  PROVE  LET c == call[t]  k == stored + 1 IN
         /\ pc[t] = "store" /\ owner = t /\ owner # NoThread /\ Stored(t)
         /\ stored \in {0, 1, 2} /\ k \in DOMAIN c /\ c[k][1] \in Cell /\ c[k][3] \in AnyNode
         /\ k <= Len(c) /\ Len(c) = (IF IsPush(t) THEN 2 ELSE 3)
         /\ \A j \in DOMAIN c : j \in Int /\ (c[j][1] = c[k][1] => j = k)
         /\ mem' = [mem EXCEPT ![c[k][1]] = c[k][3]] /\ mem' \in [Cell -> AnyNode]
         /\ \A a \in Cell : a # c[k][1] => mem'[a] = mem[a]
         /\ mem'[c[k][1]] = c[k][3]
  <1> DEFINE c == call[t]  k == stored + 1
  <1>1. /\ pc[t] = "store" /\ owner = t /\ owner # NoThread /\ Stored(t)
        /\ stored \in Nat /\ stored < Len(c) /\ mem \in [Cell -> AnyNode]
    BY DistinctAssumption DEF McasStore, IInv, OwnerOK, TypeOK
  <1>2. /\ stored \in {0, 1, 2} /\ k \in DOMAIN c /\ c[k][1] \in Cell /\ c[k][3] \in AnyNode
        /\ k <= Len(c) /\ Len(c) = (IF IsPush(t) THEN 2 ELSE 3)
        /\ \A j \in DOMAIN c : j \in Int /\ (c[j][1] = c[k][1] => j = k)
    <2>1. CASE IsPush(t)
      <3>1. /\ DOMAIN c = {1, 2} /\ Len(c) = 2 /\ c[1][3] \in AnyNode /\ c[2][3] \in AnyNode
            /\ c[1][1] \in Cell /\ c[2][1] \in Cell /\ c[1][1] # c[2][1]
        BY <1>1, <2>1, PushWords DEF AnyNode
      <3>2. stored = 0 \/ stored = 1
        BY <1>1, <3>1
      <3> HIDE DEF c
      <3> QED BY <2>1, <3>1, <3>2
    <2>2. CASE ~IsPush(t)
      <3>1. /\ DOMAIN c = {1, 2, 3} /\ Len(c) = 3
            /\ c[1][3] \in AnyNode /\ c[2][3] \in AnyNode /\ c[3][3] \in AnyNode
            /\ c[1][1] \in Cell /\ c[2][1] \in Cell /\ c[3][1] \in Cell
            /\ c[1][1] # c[2][1] /\ c[1][1] # c[3][1] /\ c[2][1] # c[3][1]
        BY <1>1, <2>2, PopWords
      <3>2. stored = 0 \/ stored = 1 \/ stored = 2
        BY <1>1, <3>1
      <3> HIDE DEF c
      <3> QED BY <2>2, <3>1, <3>2
    <2> QED BY <2>1, <2>2
  <1>3. mem' = [mem EXCEPT ![c[k][1]] = c[k][3]]
    BY DEF McasStore
  <1> HIDE DEF c, k
  <1>4. /\ mem' \in [Cell -> AnyNode] /\ \A a \in Cell : a # c[k][1] => mem'[a] = mem[a]
        /\ mem'[c[k][1]] = c[k][3]
    BY <1>1, <1>2, <1>3
  <1> QED BY <1>1, <1>2, <1>3, <1>4 DEF c, k

\* A store that is not the last of its call.
LEMMA StoreOn ==
  ASSUME IInv, NEW t \in Thread, McasStore(t), stored + 1 # Len(call[t])
  PROVE  /\ Fresh' = Fresh /\ owner' = t /\ stored' = stored + 1 /\ ~(owner = NoThread \/ stored + 1 = 0)
         /\ UNCHANGED <<call, req>>
         /\ /\ deque' \in Seq(Node) /\ Dead \in SUBSET Dead' /\ Shape(Settled', deque', Fresh)
            /\ ~IsPush(t) => h[t] \in Node
            => IInv'
  <1> DEFINE c == call[t]  k == stored + 1
  <1>1. /\ pc[t] = "store" /\ owner = t /\ owner # NoThread /\ Stored(t)
        /\ stored \in {0, 1, 2} /\ k \in DOMAIN c /\ c[k][1] \in Cell /\ c[k][3] \in AnyNode
        /\ k <= Len(c) /\ Len(c) = (IF IsPush(t) THEN 2 ELSE 3)
        /\ \A j \in DOMAIN c : j \in Int /\ (c[j][1] = c[k][1] => j = k)
        /\ mem' \in [Cell -> AnyNode] /\ \A a \in Cell : a # c[k][1] => mem'[a] = mem[a]
        /\ mem'[c[k][1]] = c[k][3]
    BY StoreFacts
  <1>2. stored' = stored + 1 /\ UNCHANGED <<owner, pc, req, ret, h, out, inn, call, free>>
    BY DEF McasStore
  <1> HIDE DEF c, k
  <1>3. \A u \in Thread : Same(u)
    BY <1>2 DEF Same
  <1>4. Fresh' = Fresh /\ NodesApart'
    <2>1. (Pushing(t)' <=> Pushing(t)) /\ NodeOf(t)' = NodeOf(t)
      BY <1>2 DEF Pushing, IsPush, NodeOf
    <2> QED BY <1>2, <1>3, <2>1, FreshKept
  <1>5. Private' \in SUBSET Private
    <2>1. \A u \in Thread : Storing(u) /\ Pushing(u) => Storing(u)' /\ Pushing(u)' /\ NodeOf(u)' = NodeOf(u)
      BY <1>1, <1>2 DEF Storing, Pushing, IsPush, NodeOf
    <2> QED BY <1>4, <2>1 DEF Private
  <1>6. ASSUME Dead \in SUBSET Dead', NEW u \in Thread  PROVE ReqOK(u)' /\ HatRead(u)' /\ CallOK(u)'
    <2>1. Pushing(u) => NodeOf(u) \in Private /\ NodeOf(u) \in AnyNode
      <3>1. Pushing(u) => ~Storing(u)
        <4>1. u = t /\ IsPush(t) => stored = 0
          BY <1>1 DEF k, c
        <4> QED BY <1>1, <4>1 DEF Storing, Pushing
      <3>2. Private \in SUBSET AnyNode
        BY DEF Private, Fresh, AnyNode
      <3> QED BY <3>1, <3>2, OwnNode
    <2>2. Pushing(u) => \A v \in Side : Link(v, NodeOf(u)) \in Cell /\ Link(v, NodeOf(u)) # c[k][1]
      BY <1>1, <2>1, CallCells, Cells DEF c
    <2>3. Pushing(u) => \A v \in Side : mem'[Link(v, NodeOf(u))] = mem[Link(v, NodeOf(u))]
      BY <1>1, <2>2
    <2> QED BY <1>2, <1>3, <1>5, <1>6, <2>3, OthersKept
  <1>7. OwnerOK'
    <2>1. \A u \in Thread : pc'[u] = "store" <=> owner' = u
      BY <1>2 DEF IInv, OwnerOK
    <2>2. stored' < Len(call'[t])
      BY <1>1, <1>2 DEF c, k
    <2>3. ASSUME NEW j \in DOMAIN c
          PROVE  mem'[c[j][1]] = IF j <= stored' THEN c[j][3] ELSE c[j][2]
      <3>1. c[j][1] \in Cell /\ mem[c[j][1]] = IF j <= stored THEN c[j][3] ELSE c[j][2]
        BY <1>1, <2>3, CallCells DEF c, Stored
      <3>2. CASE j = k
        BY <1>1, <1>2, <3>2 DEF k
      <3>3. CASE j # k
        <4>1. j \in Int /\ mem'[c[j][1]] = mem[c[j][1]]
          BY <1>1, <2>3, <3>1, <3>3
        <4>2. j <= stored' <=> j <= stored
          BY <1>1, <1>2, <3>3, <4>1 DEF k
        <4> QED BY <3>1, <4>1, <4>2
      <3> QED BY <3>2, <3>3
    <2>4. Stored(t)'
      BY <1>2, <2>3 DEF Stored, c
    <2> QED BY <1>1, <1>2, <2>1, <2>2, <2>4 DEF OwnerOK
  <1>8. ASSUME deque' \in Seq(Node)  PROVE TypeOK'
    <2>1. stored' \in 0 .. 3
      BY <1>1, <1>2
    <2>2. TypeOK
      BY DEF IInv
    <2> QED BY <1>1, <1>2, <1>8, <2>1, <2>2 DEF TypeOK
  <1>9. ASSUME ~IsPush(t) => h[t] \in Node  PROVE DecidedOK'
    <2>1. \A u \in Thread : Decided(u)' => u = t /\ ~IsPush(t) /\ h'[u] = h[t]
      BY <1>1, <1>2 DEF Decided, IsPush
    <2> QED BY <1>9, <2>1 DEF DecidedOK
  <1>10. ~(owner = NoThread \/ stored + 1 = 0)
    BY <1>1
  <1> QED BY <1>1, <1>2, <1>4, <1>6, <1>7, <1>8, <1>9, <1>10 DEF IInv

\* The last store of a call: its thread gives the lock back and returns.
LEMMA StoreLast ==
  ASSUME IInv, NEW t \in Thread, McasStore(t), stored + 1 = Len(call[t])
  PROVE  /\ Fresh' = (IF IsPush(t) THEN Fresh \ {NodeOf(t)} ELSE Fresh)
         /\ owner' = NoThread
         /\ deque' \in Seq(Node) /\ Dead \in SUBSET Dead' /\ Shape(mem', deque', Fresh') => IInv'
  <1> DEFINE c == call[t]  k == stored + 1
             v == IF IsPush(t) THEN Void ELSE h[t]
  <1>1. /\ pc[t] = "store" /\ owner = t /\ owner # NoThread /\ Stored(t)
        /\ stored \in {0, 1, 2} /\ k \in DOMAIN c /\ c[k][1] \in Cell
        /\ k <= Len(c) /\ Len(c) = (IF IsPush(t) THEN 2 ELSE 3)
        /\ mem' \in [Cell -> AnyNode] /\ \A a \in Cell : a # c[k][1] => mem'[a] = mem[a]
    BY StoreFacts
  <1>2. /\ owner' = NoThread /\ stored' = 0 /\ Return(t, v) /\ free' = free
    BY DEF McasStore
  <1>3. /\ EndRound(t, "idle") /\ ret' = [ret EXCEPT ![t] = v] /\ req' = [req EXCEPT ![t] = <<>>]
    BY <1>2 DEF Return
  <1>4. TypeOK /\ stored > 0
    BY <1>1 DEF IInv, k, c
  <1>5. /\ pc' \in [Thread -> PC] /\ pc'[t] = "idle" /\ DOMAIN call' = Thread
        /\ h' \in [Thread -> AnyNode] /\ out' \in [Thread -> AnyNode] /\ inn' \in [Thread -> AnyNode]
        /\ \A u \in Thread \ {t} : pc'[u] = pc[u] /\ h'[u] = h[u] /\ out'[u] = out[u] /\ call'[u] = call[u]
    <2>1. "idle" \in PC
      BY DEF PC
    <2> QED BY <1>3, <1>4, <2>1, RoundEnds
  <1>6. v \in Node \cup {Void} /\ v # Pending
    <2>1. ~IsPush(t) => h[t] \in Node
      BY <1>1, <1>4 DEF IInv, DecidedOK, Decided
    <2> QED BY <2>1, DistinctAssumption
  <1> HIDE DEF c, k, v
  <1>7. ret'[t] = v /\ \A u \in Thread \ {t} : Same(u)
    BY <1>3, <1>4, <1>5 DEF Same, TypeOK
  <1>8. /\ ~Pushing(t)' /\ (Pushing(t) <=> IsPush(t)) /\ Storing(t)
        /\ \A u \in Thread \ {t} : (Pushing(u)' <=> Pushing(u)) /\ NodeOf(u)' = NodeOf(u) /\ ~Storing(u)
        /\ \A u \in Thread : ~Storing(u)'
    BY <1>1, <1>2, <1>4, <1>5, <1>7 DEF Pushing, Storing, IsPush, NodeOf, Same
  <1>9. NodesApart'
    BY <1>8 DEF IInv, NodesApart
  <1>10. Fresh' = (IF IsPush(t) THEN Fresh \ {NodeOf(t)} ELSE Fresh)
    <2>1. \A n : (\E u \in Thread : Pushing(u) /\ NodeOf(u) = n)' <=> \E u \in Thread \ {t} : Pushing(u) /\ NodeOf(u) = n
      BY <1>8
    <2>2. CASE ~IsPush(t)
      BY <1>2, <1>8, <2>1, <2>2 DEF Fresh
    <2>3. CASE IsPush(t)
      <3>1. NodeOf(t) \notin free
        BY <1>1, <2>3 DEF IInv, ReqOK
      <3>2. \A u \in Thread \ {t} : Pushing(u) => NodeOf(u) # NodeOf(t)
        BY <1>8, <2>3 DEF IInv, NodesApart
      <3> QED BY <1>2, <1>8, <2>1, <2>3, <3>1, <3>2 DEF Fresh
    <2> QED BY <2>2, <2>3
  <1>11. Private' \in SUBSET Private
    BY <1>8, <1>10 DEF Private
  <1>12. ASSUME Dead \in SUBSET Dead', NEW u \in Thread \ {t}  PROVE ReqOK(u)' /\ HatRead(u)' /\ CallOK(u)'
    <2>1. Pushing(u) => NodeOf(u) \in Private /\ NodeOf(u) \in AnyNode
      <3>2. Private \in SUBSET AnyNode
        BY DEF Private, Fresh, AnyNode
      <3> QED BY <1>8, <3>2, OwnNode
    <2>2. Pushing(u) => \A w \in Side : Link(w, NodeOf(u)) \in Cell /\ Link(w, NodeOf(u)) # c[k][1]
      BY <1>1, <2>1, CallCells, Cells DEF c
    <2>3. Pushing(u) => \A w \in Side : mem'[Link(w, NodeOf(u))] = mem[Link(w, NodeOf(u))]
      BY <1>1, <2>2
    <2> QED BY <1>2, <1>7, <1>11, <1>12, <2>3, OthersKept
  <1>13. ReqOK(t)' /\ HatRead(t)' /\ CallOK(t)'
    BY <1>5, <1>6, <1>7 DEF ReqOK, HatRead, CallOK
  <1>14. OwnerOK'
    BY <1>1, <1>2, <1>5, DistinctAssumption DEF IInv, OwnerOK
  <1>15. DecidedOK'
    BY <1>2 DEF DecidedOK, Decided
  <1>16. ASSUME deque' \in Seq(Node)  PROVE TypeOK'
    <2>1. ret' \in [Thread -> Node \cup {Pending, Void, Empty}] /\ DOMAIN req' = Thread
      BY <1>3, <1>4, <1>6 DEF TypeOK
    <2> QED BY <1>1, <1>2, <1>4, <1>5, <1>16, <2>1 DEF TypeOK
  <1>17. Settled' = mem'
    BY <1>2 DEF Settled
  <1> QED BY <1>2, <1>9, <1>10, <1>12, <1>13, <1>14, <1>15, <1>16, <1>17 DEF IInv

\* Two memories with the same words are the same.
LEMMA SameMem ==
  ASSUME NEW m \in [Cell -> AnyNode], NEW w \in [Cell -> AnyNode], \A a \in Cell : m[a] = w[a]
  PROVE  m = w
  OBVIOUS

\* The first store of a push changes nothing yet.
LEMMA PushFirstStore ==
  ASSUME IInv, NEW t \in Thread, McasStore(t), IsPush(t), stored = 0
  PROVE  IInv'
  <1> DEFINE c == call[t]
  <1>1. /\ pc[t] = "store" /\ owner = t /\ owner # NoThread /\ Stored(t) /\ Len(c) = 2
        /\ mem' \in [Cell -> AnyNode] /\ \A a \in Cell : a # c[1][1] => mem'[a] = mem[a]
    <2>1. /\ pc[t] = "store" /\ owner = t /\ owner # NoThread /\ Stored(t)
          /\ Len(c) = (IF IsPush(t) THEN 2 ELSE 3) /\ mem' \in [Cell -> AnyNode]
          /\ \A a \in Cell : a # c[stored + 1][1] => mem'[a] = mem[a]
      BY StoreFacts
    <2>2. stored + 1 = 1
      OBVIOUS
    <2> QED BY <2>1, <2>2
  <1>2. /\ DOMAIN c = {1, 2} /\ c[1][1] \in Cell /\ c[2][1] \in Cell /\ c[1][1] # c[2][1]
        /\ c[1][2] \in AnyNode /\ c[2][2] \in AnyNode
    BY <1>1, PushWords
  <1>3. /\ Fresh' = Fresh /\ owner' = t /\ stored' = 1 /\ UNCHANGED <<call, req>>
        /\ /\ deque' \in Seq(Node) /\ Dead \in SUBSET Dead' /\ Shape(Settled', deque', Fresh)
           /\ ~IsPush(t) => h[t] \in Node
           => IInv'
    BY <1>1, StoreOn
  <1>4. deque' = deque /\ Dead' = Dead
    BY <1>1, <1>3 DEF McasStore, Dead
  <1>5. mem[c[1][1]] = c[1][2] /\ mem[c[2][1]] = c[2][2] /\ mem \in [Cell -> AnyNode]
    BY <1>1, <1>2, View DEF Stored
  <1>6. Settled' = Settled
    <2>1. Settled = mem /\ Settled' = With(mem', c, 2)
      BY <1>1, <1>3 DEF Settled, IsPush
    <2> HIDE DEF c
    <2>2. PICK w : w = [mem' EXCEPT ![c[1][1]] = c[1][2], ![c[2][1]] = c[2][2]]
      OBVIOUS
    <2>3. With(mem', c, 2) = w
      BY <1>1, <1>2, <2>2, With2
    <2>4. w \in [Cell -> AnyNode] /\ \A a \in Cell : w[a] = mem[a]
      BY <1>1, <1>2, <1>5, <2>2
    <2> QED BY <1>5, <2>1, <2>3, <2>4, SameMem
  <1> QED BY <1>3, <1>4, <1>6, View

\* With its last store a push puts its node in the deque.
LEMMA PushLastStore ==
  ASSUME IInv, NEW t \in Thread, McasStore(t), IsPush(t), stored = 1
  PROVE  IInv' /\ deque' = Pushed(deque, SideOf(t), NodeOf(t)) /\ Return(t, Void)
  <1> DEFINE c == call[t]  s == SideOf(t)  n == NodeOf(t)  g == h[t]
  <1>1. /\ pc[t] = "store" /\ owner = t /\ owner # NoThread /\ Stored(t) /\ Len(c) = 2
        /\ mem' \in [Cell -> AnyNode] /\ \A a \in Cell : a # c[2][1] => mem'[a] = mem[a]
        /\ mem'[c[2][1]] = c[2][3]
    <2>1. /\ pc[t] = "store" /\ owner = t /\ owner # NoThread /\ Stored(t)
          /\ Len(c) = (IF IsPush(t) THEN 2 ELSE 3) /\ mem' \in [Cell -> AnyNode]
          /\ \A a \in Cell : a # c[stored + 1][1] => mem'[a] = mem[a]
          /\ mem'[c[stored + 1][1]] = c[stored + 1][3]
      BY StoreFacts
    <2>2. stored + 1 = 2
      OBVIOUS
    <2> QED BY <2>1, <2>2
  <1>2. /\ DOMAIN c = {1, 2} /\ c[1][1] \in Cell /\ c[2][1] \in Cell /\ c[1][1] # c[2][1]
        /\ c[1][2] \in AnyNode /\ c[2][2] \in AnyNode /\ n \in Node /\ c[1][3] = n /\ c[2][3] = n
    BY <1>1, PushWords
  <1>3. /\ Fresh' = Fresh \ {n}
        /\ deque' \in Seq(Node) /\ Dead \in SUBSET Dead' /\ Shape(mem', deque', Fresh') => IInv'
    BY <1>1, StoreLast
  <1>4. deque' = Pushed(deque, s, n) /\ Return(t, Void)
    BY <1>1 DEF McasStore
  <1>5. TypeOK /\ s \in Side /\ mem[Link(s, n)] = Dummy /\ mem \in [Cell -> AnyNode] /\ Pushing(t) /\ g \in AnyNode
    BY <1>1 DEF IInv, ReqOK, TypeOK, Pushing
  <1>6. n \in Fresh /\ deque \in Seq(Node) /\ Fresh \in SUBSET Node /\ Shape(Settled, deque, Fresh)
        /\ Settled \in [Cell -> AnyNode]
    BY <1>2, <1>5, View, Settling DEF Fresh
  <1>7. mem[c[1][1]] = n /\ mem[c[2][1]] = c[2][2]
    BY <1>1, <1>2 DEF Stored
  <1>8. Settled = With(mem, c, 2)
    BY <1>1 DEF Settled
  <1>9. deque' \in Seq(Node) /\ Dead' = Dead
    <2>1. deque' \in Seq(Node)
      BY <1>2, <1>4, <1>5, <1>6, PushedAt
    <2>2. Gone(Pushed(deque, s, n), Fresh \ {n}) = Gone(deque, Fresh)
      BY <1>5, <1>6, PushedIn DEF Shape
    <2> QED BY <1>3, <1>4, <2>1, <2>2 DEF Dead
  <1>10. PICK o \in AnyNode, i \in AnyNode : PushNext(t, o) \/ PushFirst(t, o) \/ PopOne(t, o, i)
    BY <1>1 DEF IInv, CallOK
  <1>11. CASE PushNext(t, o)
    <2>1. /\ Hat(s) \in Cell /\ Link(s, g) \in Cell /\ Hat(s) # Link(s, g)
          /\ c[1][1] = Hat(s) /\ c[1][2] = g /\ c[2][1] = Link(s, g) /\ c[2][2] = o
          /\ With(mem, c, 2) = SetNext(mem, s, g, g, o)
      BY <1>5, <1>11, NextWords
    <2>2. g # n /\ o # g /\ mem[Link(Opp(s), n)] = g
      BY <1>11 DEF PushNext
    <2> HIDE DEF c, s, n, g
    <2>3. \A a \in Cell : Settled[a] = IF a = Hat(s) THEN g ELSE IF a = Link(s, g) THEN o ELSE mem[a]
      BY <1>5, <1>8, <2>1 DEF SetNext
    <2>4. /\ Link(s, n) \in Cell /\ Link(Opp(s), n) \in Cell
          /\ Link(s, n) # Hat(s) /\ Link(s, n) # Link(s, g)
          /\ Link(Opp(s), n) # Hat(s) /\ Link(Opp(s), n) # Link(s, g)
      <3>1. Opp(s) \in Side /\ n \in AnyNode
        BY <1>2, <1>5, Cells DEF AnyNode
      <3> QED BY <1>5, <2>2, <3>1, LinkApart
    <2>5. Settled[Hat(s)] = g /\ Settled[Link(s, g)] # g /\ Settled[Link(s, n)] = Dummy /\ Settled[Link(Opp(s), n)] = g
      BY <1>5, <2>1, <2>2, <2>3, <2>4
    <2>6. Shape(SetNext(Settled, s, g, n, n), Pushed(deque, s, n), Fresh \ {n})
      BY <1>5, <1>6, <2>5, PushNextShape
    <2>7. mem' = SetNext(Settled, s, g, n, n)
      <3>1. PICK w : w = SetNext(Settled, s, g, n, n)
        OBVIOUS
      <3>2. w \in [Cell -> AnyNode] /\ \A a \in Cell : w[a] = IF a = Hat(s) \/ a = Link(s, g) THEN n ELSE Settled[a]
        BY <1>2, <1>6, <2>1, <3>1 DEF SetNext, AnyNode
      <3>3. \A a \in Cell : mem'[a] = w[a]
        BY <1>1, <1>2, <1>7, <2>1, <2>3, <3>2
      <3> QED BY <1>1, <3>1, <3>2, <3>3, SameMem
    <2>8. Shape(mem', deque', Fresh')
      BY <1>3, <1>4, <2>6, <2>7
    <2> QED BY <1>3, <1>4, <1>9, <2>8 DEF s, n
  <1>12. CASE PushFirst(t, o)
    <2>1. /\ Hat(s) \in Cell /\ Hat(Opp(s)) \in Cell /\ Hat(s) # Hat(Opp(s))
          /\ c[1][1] = Hat(s) /\ c[1][2] = g /\ c[2][1] = Hat(Opp(s)) /\ c[2][2] = o
          /\ With(mem, c, 2) = SetFirst(mem, s, g, o)
      BY <1>5, <1>12, FirstWords
    <2>2. g \in Dead /\ mem[Link(Opp(s), n)] = Dummy
      BY <1>12 DEF PushFirst
    <2> HIDE DEF c, s, n, g
    <2>3. \A a \in Cell : Settled[a] = IF a = Hat(s) THEN g ELSE IF a = Hat(Opp(s)) THEN o ELSE mem[a]
      BY <1>5, <1>8, <2>1 DEF SetFirst
    <2>4. Settled[Hat(s)] \in Gone(deque, Fresh) /\ Settled[Link(s, n)] = Dummy /\ Settled[Link(Opp(s), n)] = Dummy
      <3>1. Opp(s) \in Side /\ n \in AnyNode
        BY <1>2, <1>5, Cells DEF AnyNode
      <3>2. /\ Link(s, n) \in Cell /\ Link(Opp(s), n) \in Cell
            /\ Link(s, n) # Hat(s) /\ Link(s, n) # Hat(Opp(s))
            /\ Link(Opp(s), n) # Hat(s) /\ Link(Opp(s), n) # Hat(Opp(s))
        BY <1>5, <3>1, Cells
      <3> QED BY <1>5, <2>1, <2>2, <2>3, <3>2 DEF Dead
    <2>6. Shape(SetFirst(Settled, s, n, n), Pushed(deque, s, n), Fresh \ {n})
      BY <1>5, <1>6, <2>4, PushFirstShape
    <2>7. mem' = SetFirst(Settled, s, n, n)
      <3>1. PICK w : w = SetFirst(Settled, s, n, n)
        OBVIOUS
      <3>2. w \in [Cell -> AnyNode] /\ \A a \in Cell : w[a] = IF a = Hat(s) \/ a = Hat(Opp(s)) THEN n ELSE Settled[a]
        BY <1>2, <1>6, <2>1, <3>1 DEF SetFirst, AnyNode
      <3>3. \A a \in Cell : mem'[a] = w[a]
        BY <1>1, <1>2, <1>7, <2>1, <2>3, <3>2
      <3> QED BY <1>1, <3>1, <3>2, <3>3, SameMem
    <2>8. Shape(mem', deque', Fresh')
      BY <1>3, <1>4, <2>6, <2>7
    <2> QED BY <1>3, <1>4, <1>9, <2>8 DEF s, n
  <1> QED BY <1>10, <1>11, <1>12 DEF PopOne

\* What the steps of a pop's call find: the node taken and the word it stores.
LEMMA PopCall ==
  ASSUME IInv, NEW t \in Thread, McasStore(t), ~IsPush(t)
  PROVE  \E o, i \in AnyNode :
         LET s == SideOf(t)  g == h[t]  c == call[t] IN
         /\ o # g /\ g \in AnyNode /\ s \in Side
         /\ Hat(s) \in Cell /\ Link(Opp(s), g) \in Cell /\ Link(s, g) \in Cell
         /\ Hat(s) # Link(Opp(s), g) /\ Hat(s) # Link(s, g) /\ Link(s, g) # Link(Opp(s), g)
         /\ owner = t /\ owner # NoThread /\ stored \in {0, 1, 2}
         /\ mem \in [Cell -> AnyNode] /\ mem' \in [Cell -> AnyNode]
         /\ mem[Hat(s)] = (IF stored = 0 THEN g ELSE i)
         /\ mem[Link(Opp(s), g)] = (IF stored = 2 THEN g ELSE i)
         /\ mem[Link(s, g)] = o
         /\ stored = 0 => mem' = [mem EXCEPT ![Hat(s)] = i]
         /\ stored = 1 => mem' = [mem EXCEPT ![Link(Opp(s), g)] = g]
         /\ stored = 2 => mem' = [mem EXCEPT ![Link(s, g)] = g]
         /\ Len(c) = 3
         /\ \A m \in [Cell -> AnyNode] : With(m, c, 3) = SetPop(m, s, g, i)
  <1> DEFINE s == SideOf(t)  g == h[t]  c == call[t]
  <1>1. /\ pc[t] = "store" /\ owner = t /\ owner # NoThread /\ Stored(t)
        /\ stored \in {0, 1, 2} /\ mem' \in [Cell -> AnyNode]
        /\ mem' = [mem EXCEPT ![c[stored + 1][1]] = c[stored + 1][3]]
    BY StoreFacts
  <1>2. TypeOK /\ s \in Side /\ mem \in [Cell -> AnyNode]
    BY <1>1 DEF IInv, ReqOK, TypeOK
  <1>3. PICK o \in AnyNode, i \in AnyNode : PushNext(t, o) \/ PushFirst(t, o) \/ PopOne(t, o, i)
    BY <1>1 DEF IInv, CallOK
  <1>4. PopOne(t, o, i) /\ o # g
    BY <1>3 DEF PushNext, PushFirst, PopOne
  <1>5. /\ g \in AnyNode /\ Hat(s) \in Cell /\ Link(s, g) \in Cell /\ Link(Opp(s), g) \in Cell
        /\ Hat(s) # Link(s, g) /\ Hat(s) # Link(Opp(s), g) /\ Link(s, g) # Link(Opp(s), g)
        /\ DOMAIN c = {1, 2, 3} /\ Len(c) = 3
        /\ c[1][1] = Hat(s) /\ c[1][2] = g /\ c[1][3] = i
        /\ c[2][1] = Link(Opp(s), g) /\ c[2][2] = i /\ c[2][3] = g
        /\ c[3][1] = Link(s, g) /\ c[3][2] = o /\ c[3][3] = g
        /\ \A m \in [Cell -> AnyNode] : With(m, c, 3) = SetPop(m, s, g, i)
    BY <1>2, <1>4, OneWords
  <1>6. /\ mem[c[1][1]] = (IF 1 <= stored THEN c[1][3] ELSE c[1][2])
        /\ mem[c[2][1]] = (IF 2 <= stored THEN c[2][3] ELSE c[2][2])
        /\ mem[c[3][1]] = (IF 3 <= stored THEN c[3][3] ELSE c[3][2])
    BY <1>1, <1>5 DEF Stored
  <1> HIDE DEF c, s, g
  <1>7. /\ mem[Hat(s)] = (IF stored = 0 THEN g ELSE i)
        /\ mem[Link(Opp(s), g)] = (IF stored = 2 THEN g ELSE i)
        /\ mem[Link(s, g)] = o
    BY <1>1, <1>5, <1>6
  <1>8. /\ stored = 0 => mem' = [mem EXCEPT ![Hat(s)] = i]
        /\ stored = 1 => mem' = [mem EXCEPT ![Link(Opp(s), g)] = g]
        /\ stored = 2 => mem' = [mem EXCEPT ![Link(s, g)] = g]
    <2>1. stored = 0 => stored + 1 = 1
      OBVIOUS
    <2>2. stored = 1 => stored + 1 = 2
      OBVIOUS
    <2>3. stored = 2 => stored + 1 = 3
      OBVIOUS
    <2> QED BY <1>1, <1>5, <2>1, <2>2, <2>3
  <1> QED BY <1>1, <1>2, <1>4, <1>5, <1>7, <1>8 DEF c, s, g

\* With its first store a pop takes its node from the deque.
LEMMA PopFirstStore ==
  ASSUME IInv, NEW t \in Thread, McasStore(t), ~IsPush(t), stored = 0
  PROVE  /\ IInv' /\ deque' = Popped(deque, SideOf(t)) /\ deque # <<>> /\ h[t] = At(deque, SideOf(t), 1)
         /\ UNCHANGED <<req, ret, h, owner>> /\ owner = t /\ stored' = 1
  <1> DEFINE c == call[t]  s == SideOf(t)  g == h[t]
  <1>1. PICK o \in AnyNode, i \in AnyNode :
         /\ o # g /\ g \in AnyNode /\ s \in Side
         /\ Hat(s) \in Cell /\ Link(Opp(s), g) \in Cell /\ Link(s, g) \in Cell
         /\ Hat(s) # Link(Opp(s), g) /\ Hat(s) # Link(s, g) /\ Link(s, g) # Link(Opp(s), g)
         /\ owner = t /\ owner # NoThread
         /\ mem \in [Cell -> AnyNode] /\ mem' \in [Cell -> AnyNode]
         /\ mem[Hat(s)] = g /\ mem[Link(Opp(s), g)] = i /\ mem[Link(s, g)] = o
         /\ mem' = [mem EXCEPT ![Hat(s)] = i]
         /\ Len(c) = 3 /\ \A m \in [Cell -> AnyNode] : With(m, c, 3) = SetPop(m, s, g, i)
    BY PopCall
  <1>2. /\ Fresh' = Fresh /\ owner' = t /\ stored' = stored + 1 /\ UNCHANGED <<call, req>>
        /\ /\ deque' \in Seq(Node) /\ Dead \in SUBSET Dead' /\ Shape(Settled', deque', Fresh)
           /\ ~IsPush(t) => h[t] \in Node
           => IInv'
    <2>1. stored + 1 # Len(c)
      BY <1>1
    <2> QED BY <2>1, StoreOn
  <1>3. deque' = Popped(deque, s) /\ UNCHANGED <<req, ret, h, owner>> /\ stored' = 1
    BY <1>1, <1>2 DEF McasStore
  <1>4. Settled = mem /\ deque \in Seq(Node) /\ Fresh \in SUBSET Node /\ Shape(mem, deque, Fresh)
    <2>1. Settled = mem
      BY DEF Settled
    <2> QED BY <2>1, View
  <1>5. /\ deque # <<>> /\ g = At(deque, s, 1) /\ g \notin Fresh
        /\ Shape(SetPop(mem, s, g, i), Popped(deque, s), Fresh)
    BY <1>1, <1>4, PopShape
  <1>6. Settled' = SetPop(mem, s, g, i)
    <2>1. Settled' = With(mem', c, 3)
      BY <1>1, <1>2, <1>3 DEF Settled, IsPush
    <2>2. With(mem', c, 3) = SetPop(mem', s, g, i)
      BY <1>1
    <2> HIDE DEF c, s, g
    <2>3. PICK w, v : w = SetPop(mem', s, g, i) /\ v = SetPop(mem, s, g, i)
      OBVIOUS
    <2>4. w \in [Cell -> AnyNode] /\ v \in [Cell -> AnyNode] /\ \A a \in Cell : w[a] = v[a]
      BY <1>1, <2>3 DEF SetPop
    <2> QED BY <2>1, <2>2, <2>3, <2>4, SameMem
  <1>7. deque' \in Seq(Node) /\ g \in Node /\ Dead \in SUBSET Dead'
    <2>1. deque' \in Seq(Node)
      BY <1>1, <1>3, <1>4, <1>5, PoppedAt
    <2>2. Gone(Popped(deque, s), Fresh) = Gone(deque, Fresh) \cup {At(deque, s, 1)}
      BY <1>1, <1>4, <1>5, PoppedIn DEF Shape
    <2>3. At(deque, s, 1) \in Node
      BY <1>1, <1>4, <1>5, HatIs
    <2> QED BY <1>2, <1>3, <1>5, <2>1, <2>2, <2>3 DEF Dead
  <1>8. Shape(Settled', deque', Fresh)
    BY <1>3, <1>5, <1>6
  <1> QED BY <1>1, <1>2, <1>3, <1>5, <1>7, <1>8

\* Its other two stores finish the pop.
LEMMA PopLaterStore ==
  ASSUME IInv, NEW t \in Thread, McasStore(t), ~IsPush(t), stored # 0
  PROVE  /\ IInv' /\ deque' = deque /\ h[t] \in Node /\ owner = t /\ stored > 0
         /\ IF stored = 1 THEN UNCHANGED <<req, ret, h, owner>> /\ stored' = 2
                          ELSE Return(t, h[t]) /\ owner' = NoThread
  <1> DEFINE c == call[t]  s == SideOf(t)  g == h[t]
  <1>0. PICK o \in AnyNode, i \in AnyNode :
         /\ o # g /\ g \in AnyNode /\ s \in Side
         /\ Hat(s) \in Cell /\ Link(Opp(s), g) \in Cell /\ Link(s, g) \in Cell
         /\ Hat(s) # Link(Opp(s), g) /\ Hat(s) # Link(s, g) /\ Link(s, g) # Link(Opp(s), g)
         /\ owner = t /\ owner # NoThread /\ stored \in {0, 1, 2}
         /\ mem \in [Cell -> AnyNode] /\ mem' \in [Cell -> AnyNode]
         /\ mem[Hat(s)] = (IF stored = 0 THEN g ELSE i)
         /\ mem[Link(Opp(s), g)] = (IF stored = 2 THEN g ELSE i)
         /\ mem[Link(s, g)] = o
         /\ stored = 1 => mem' = [mem EXCEPT ![Link(Opp(s), g)] = g]
         /\ stored = 2 => mem' = [mem EXCEPT ![Link(s, g)] = g]
         /\ Len(c) = 3 /\ \A m \in [Cell -> AnyNode] : With(m, c, 3) = SetPop(m, s, g, i)
    BY PopCall
  <1>1. /\ stored \in {1, 2} /\ stored > 0 /\ mem[Hat(s)] = i /\ mem[Link(Opp(s), g)] = (IF stored = 2 THEN g ELSE i)
    BY <1>0
  <1>2. deque' = deque /\ h[t] \in Node
    BY <1>0, <1>1 DEF McasStore, IInv, DecidedOK, Decided
  <1>3. Settled = With(mem, c, 3)
    BY <1>0, <1>1 DEF Settled
  <1>4. deque' \in Seq(Node) /\ Shape(Settled, deque, Fresh) /\ (Fresh' = Fresh => Dead' = Dead)
    BY <1>2, View DEF Dead
  <1>5. CASE stored = 1
    <2>1. /\ Fresh' = Fresh /\ owner' = t /\ stored' = stored + 1 /\ UNCHANGED <<call, req>>
          /\ /\ deque' \in Seq(Node) /\ Dead \in SUBSET Dead' /\ Shape(Settled', deque', Fresh)
             /\ ~IsPush(t) => h[t] \in Node
             => IInv'
      <3>1. stored + 1 # Len(c)
        BY <1>0, <1>5
      <3> QED BY <3>1, StoreOn
    <2>2. UNCHANGED <<req, ret, h, owner>> /\ stored' = 2
      BY <1>0, <1>5, <2>1 DEF McasStore
    <2>3. Settled' = Settled
      <3>1. Settled' = With(mem', c, 3)
        BY <1>0, <2>1, <2>2 DEF Settled, IsPush
      <3>2. With(mem', c, 3) = SetPop(mem', s, g, i) /\ With(mem, c, 3) = SetPop(mem, s, g, i)
        BY <1>0
      <3> HIDE DEF c, s, g
      <3>3. PICK w, v : w = SetPop(mem', s, g, i) /\ v = SetPop(mem, s, g, i)
        OBVIOUS
      <3>4. w \in [Cell -> AnyNode] /\ v \in [Cell -> AnyNode] /\ \A a \in Cell : w[a] = v[a]
        BY <1>0, <1>5, <3>3 DEF SetPop
      <3> QED BY <1>3, <3>1, <3>2, <3>3, <3>4, SameMem
    <2> QED BY <1>0, <1>1, <1>2, <1>4, <1>5, <2>1, <2>2, <2>3
  <1>6. CASE stored = 2
    <2>1. /\ Fresh' = Fresh /\ owner' = NoThread
          /\ deque' \in Seq(Node) /\ Dead \in SUBSET Dead' /\ Shape(mem', deque', Fresh') => IInv'
      <3>1. stored + 1 = Len(c)
        BY <1>0, <1>6
      <3> QED BY <3>1, StoreLast
    <2>2. Return(t, h[t])
      BY <1>0, <1>6 DEF McasStore
    <2>3. mem' = Settled
      <3>1. With(mem, c, 3) = SetPop(mem, s, g, i)
        BY <1>0
      <3> HIDE DEF c, s, g
      <3>2. PICK v : v = SetPop(mem, s, g, i)
        OBVIOUS
      <3>3. v \in [Cell -> AnyNode] /\ \A a \in Cell : mem'[a] = v[a]
        BY <1>0, <1>1, <1>6, <3>2 DEF SetPop
      <3> QED BY <1>0, <1>3, <3>1, <3>2, <3>3, SameMem
    <2> QED BY <1>0, <1>1, <1>2, <1>4, <1>6, <2>1, <2>2, <2>3
  <1> QED BY <1>1, <1>5, <1>6

\* Every store keeps the invariant.
LEMMA McasStoreKeeps ==
  ASSUME IInv, NEW t \in Thread, McasStore(t)
  PROVE  IInv'
  <1>1. stored \in {0, 1, 2} /\ stored + 1 <= (IF IsPush(t) THEN 2 ELSE 3)
    BY StoreFacts
  <1>2. IsPush(t) => stored = 0 \/ stored = 1
    BY <1>1
  <1> QED BY <1>2, PushFirstStore, PushLastStore, PopFirstStore, PopLaterStore

-----------------------------------------------------------------------------
(* The invariant.                                                          *)

\* It holds in the beginning: Dummy is the only node that is dead.
LEMMA Begins == Init => IInv
  <1> SUFFICES ASSUME Init  PROVE IInv
    OBVIOUS
  <1>0. /\ mem = [c \in Cell |-> Dummy] /\ free = Node /\ pc = [t \in Thread |-> "idle"] /\ stored = 0
        /\ ret = [t \in Thread |-> Void] /\ owner = NoThread /\ deque = <<>>
    BY DEF Init
  <1>1. TypeOK
    BY DEF Init, TypeOK, PC, AnyNode
  <1>2. Fresh = Node /\ Settled = mem
    BY <1>0 DEF Fresh, Settled
  <1>3. In(deque) = {} /\ Gone(deque, Fresh) = {Dummy}
    <2>1. Len(deque) = 0 /\ 1 .. 0 = {}
      BY <1>0
    <2>2. In(deque) = {}
      BY <2>1 DEF In
    <2> QED BY <1>2, <2>2, DistinctAssumption DEF Gone, AnyNode
  <1>4. \A s \in Side : mem[Hat(s)] = Dummy /\ mem[Link(s, Dummy)] = Dummy
    <2>1. Dummy \in AnyNode
      BY DEF AnyNode
    <2> QED BY <1>0, <2>1, Cells
  <1>5. Shape(Settled, deque, Fresh)
    <2>1. Len(deque) = 0 /\ \A i \in 1 .. 0 : FALSE
      BY <1>0
    <2>2. \A i \in 1 .. Len(deque) - 1 : FALSE
      BY <2>1
    <2>3. Apart(deque, Fresh)
      BY <2>1 DEF Apart
    <2>4. Inner(Settled, deque)
      BY <2>2 DEF Inner
    <2>5. Looped(Settled, Gone(deque, Fresh)) /\ Outer(Settled, deque, Gone(deque, Fresh))
      BY <1>0, <1>2, <1>3, <1>4 DEF Looped, Outer
    <2> QED BY <2>3, <2>4, <2>5 DEF Shape
  <1>6. \A t \in Thread : ReqOK(t) /\ HatRead(t) /\ CallOK(t)
    BY <1>0, DistinctAssumption DEF ReqOK, HatRead, CallOK
  <1>7. NodesApart /\ OwnerOK /\ DecidedOK
    BY <1>0, DistinctAssumption DEF NodesApart, OwnerOK, DecidedOK, Decided, Pushing
  <1> QED BY <1>1, <1>5, <1>6, <1>7 DEF IInv

\* Every step keeps it.
LEMMA StepKeeps == IInv /\ [Next]_vars => IInv'
  <1> SUFFICES ASSUME IInv, [Next]_vars  PROVE IInv'
    OBVIOUS
  <1>1. ASSUME NEW t \in Thread, NEW s \in Side, PushStart(t, s) \/ PopStart(t, s)  PROVE IInv'
    BY <1>1, PushStartKeeps, PopStartKeeps
  <1>2. ASSUME NEW t \in Thread, Step(t) \/ McasConflict(t)  PROVE IInv'
    BY <1>2, LoadHatKeeps, PushLoadLinkKeeps, PushLoadOtherKeeps, PopLoadLKeeps, PopLoadRKeeps, PopRereadKeeps,
       McasCompareKeeps, McasStoreKeeps, McasConflictKeeps DEF Step
  <1>3. CASE UNCHANGED vars
    <2>1. UNCHANGED <<mem, free, pc, req, ret, h, out, inn, call, owner, stored, deque>>
      BY <1>3 DEF vars
    <2>2. TypeOK'
      BY <2>1 DEF IInv, TypeOK
    <2>3. Fresh' = Fresh /\ Private' = Private
      BY <2>1 DEF Fresh, Private, Pushing, Storing, IsPush, NodeOf
    <2>4. Dead' = Dead /\ Settled' = Settled
      BY <2>1, <2>3 DEF Dead, Settled, IsPush
    <2>5. \A t \in Thread : ReqOK(t)' /\ HatRead(t)' /\ CallOK(t)'
      <3>1. \A t \in Thread : Same(t)
        BY <2>1 DEF Same
      <3> QED BY <2>1, <2>3, <2>4, <3>1, OthersKept
    <2>6. NodesApart'
      BY <2>1 DEF IInv, NodesApart, Pushing, IsPush, NodeOf
    <2>7. OwnerOK'
      <3>1. (\A t \in Thread : pc'[t] = "store" <=> owner' = t) /\ (owner' = NoThread => stored' = 0)
        BY <2>1 DEF IInv, OwnerOK
      <3>2. ASSUME owner # NoThread  PROVE stored' < Len(call'[owner]) /\ Stored(owner)'
        <4>1. PICK o : o = owner
          OBVIOUS
        <4>2. stored < Len(call[o]) /\ Stored(o)
          BY <3>2, <4>1 DEF IInv, OwnerOK
        <4>3. stored' < Len(call'[o]) /\ Stored(o)'
          BY <2>1, <4>2 DEF Stored
        <4> QED BY <2>1, <4>1, <4>3
      <3> QED BY <2>1, <3>1, <3>2 DEF OwnerOK
    <2>8. DecidedOK'
      BY <2>1 DEF IInv, DecidedOK, Decided, IsPush
    <2> QED BY <2>1, <2>2, <2>3, <2>4, <2>5, <2>6, <2>7, <2>8 DEF IInv
  <1> QED BY <1>1, <1>2, <1>3 DEF Next

\* The settled memory is, at every moment, that of the deque: its nodes linked
\* in both directions, every node that left it looped, and every thread past a
\* hat at a node that is no longer private.
THEOREM DequeInvariant == Spec => []IInv
  BY Begins, StepKeeps, PTL DEF Spec

\* Both hats and both chains of links agree with the deque, dcas and tcas half
\* made or not: no order of the plain loads and the word-by-word stores leaves a
\* node linked one way only.
THEOREM DequeLinksOK == Spec => []LinksOK
  <1>1. IInv => LinksOK
    <2> SUFFICES ASSUME IInv  PROVE LinksAgree
      BY DEF IInv, LinksOK
    <2> DEFINE m == Settled
    <2>1. deque \in Seq(Node) /\ Fresh \in SUBSET Node /\ Shape(m, deque, Fresh)
      BY View
    <2> HIDE DEF m
    <2>2. ASSUME NEW s \in Side
          PROVE  /\ (deque = <<>>) = (m[Link(s, m[Hat(s)])] = m[Hat(s)])
                 /\ deque # <<>> => m[Hat(s)] = At(deque, s, 1)
                 /\ \A i \in 1 .. Len(deque) - 1 : m[Link(Opp(s), At(deque, s, i))] = At(deque, s, i + 1)
      <3>1. m[Link(s, m[Hat(s)])] = m[Hat(s)] <=> deque = <<>>
        BY <2>1, HatIs
      <3>2. deque # <<>> => m[Hat(s)] = At(deque, s, 1)
        BY <2>1, HatIs
      <3> QED BY <2>1, <3>1, <3>2 DEF Shape, Inner
    <2>3. \A i, j \in 1 .. Len(deque) : deque[i] = deque[j] => i = j
      <3>1. "L" \in Side /\ \A i : At(deque, "L", i) = deque[i]
        BY DEF Side, At
      <3> QED BY <2>1, <3>1 DEF Shape, Apart
    <2> QED BY <2>2, <2>3 DEF LinksAgree, m
  <1> QED BY <1>1, DequeInvariant, PTL

-----------------------------------------------------------------------------
(* Linearizability: the steps of DequeSpec.                                *)

\* What the refinement shows of the threads, and a step or a stutter of DequeSpec.
ReqSeen == [t \in Thread |-> IF Decided(t) THEN <<>> ELSE req[t]]
RetSeen == [t \in Thread |-> IF Decided(t) THEN h[t] ELSE ret[t]]
AbsStep == Abstract!Next \/ UNCHANGED <<deque, ReqSeen, RetSeen>>

\* A step of t shows on t alone.
LEMMA SeenOf ==
  ASSUME NEW t \in Thread, \A u \in Thread \ {t} : Same(u),
         \/ UNCHANGED <<owner, stored>>
         \/ (owner = t /\ owner' \in {t, NoThread})
         \/ (stored = 0 /\ stored' = 0)
  PROVE  /\ ReqSeen' = [ReqSeen EXCEPT ![t] = IF Decided(t)' THEN <<>> ELSE req'[t]]
         /\ RetSeen' = [RetSeen EXCEPT ![t] = IF Decided(t)' THEN h'[t] ELSE ret'[t]]
         /\ ReqSeen[t] = (IF Decided(t) THEN <<>> ELSE req[t])
         /\ RetSeen[t] = (IF Decided(t) THEN h[t] ELSE ret[t])
  <1>1. \A u \in Thread \ {t} : Decided(u)' <=> Decided(u)
    BY DistinctAssumption DEF Decided, Same, IsPush
  <1>2. ReqSeen' = [ReqSeen EXCEPT ![t] = IF Decided(t)' THEN <<>> ELSE req'[t]]
    BY <1>1 DEF ReqSeen, Same
  <1>3. RetSeen' = [RetSeen EXCEPT ![t] = IF Decided(t)' THEN h'[t] ELSE ret'[t]]
    BY <1>1 DEF RetSeen, Same
  <1> QED BY <1>2, <1>3 DEF ReqSeen, RetSeen

\* A step that changes no request, no result and nothing decided stutters.
LEMMA SeenSame ==
  ASSUME UNCHANGED <<deque, req, ret>>,
         \A t \in Thread : (Decided(t)' <=> Decided(t)) /\ (Decided(t) => h'[t] = h[t])
  PROVE  AbsStep
  BY DEF AbsStep, ReqSeen, RetSeen

\* An operation starts.
LEMMA Starts ==
  ASSUME IInv, NEW t \in Thread, NEW s \in Side, PushStart(t, s) \/ PopStart(t, s)
  PROVE  AbsStep
  <1> DEFINE n == CHOOSE m \in free : TRUE
  <1>0. PushStart(t, s) => n \in Node
    BY DEF PushStart, IInv, TypeOK
  <1> HIDE DEF n
  <1>1. PICK op : op = (IF PushStart(t, s) THEN <<"push", s, n>> ELSE <<"pop", s>>)
    OBVIOUS
  <1>2. /\ pc[t] = "idle" /\ req' = [req EXCEPT ![t] = op] /\ ret' = [ret EXCEPT ![t] = Pending]
        /\ UNCHANGED <<h, out, inn, call, owner, stored, deque>> /\ pc' = [pc EXCEPT ![t] = "hat"]
    BY <1>1 DEF PushStart, PopStart, Goto, n
  <1>3. TypeOK /\ OwnerOK /\ ret[t] # Pending
    BY <1>2 DEF IInv, ReqOK
  <1>4. ~Decided(t) /\ ~Decided(t)' /\ req'[t] = op /\ ret'[t] = Pending
    BY <1>2, <1>3 DEF OwnerOK, Decided, TypeOK
  <1>5. \A u \in Thread \ {t} : Same(u)
    BY <1>2, <1>3 DEF Same, TypeOK
  <1>6. /\ ReqSeen' = [ReqSeen EXCEPT ![t] = op] /\ RetSeen' = [RetSeen EXCEPT ![t] = Pending]
        /\ RetSeen[t] = ret[t]
    BY <1>2, <1>4, <1>5, SeenOf
  <1>7. Abstract!Invoke(t, op)
    BY <1>2, <1>3, <1>6 DEF Abstract!Invoke, ReqSeen, RetSeen
  <1>8. Abstract!InvokePush(t) \/ Abstract!InvokePop(t)
    <2>1. s \in Abstract!Side
      BY DEF Side, Abstract!Side
    <2> QED BY <1>0, <1>1, <1>7, <2>1 DEF Abstract!InvokePush, Abstract!InvokePop
  <1> QED BY <1>8 DEF AbsStep, Abstract!Next

\* The steps before the stores show nothing.
LEMMA QuietSteps ==
  ASSUME IInv, NEW t \in Thread,
         \/ LoadHat(t) \/ PushLoadLink(t) \/ PushLoadOther(t) \/ PopLoadL(t) \/ McasConflict(t) \/ McasCompare(t)
         \/ (PopLoadR(t) /\ Reread)
         \/ (PopReread(t) /\ Again(t))
  PROVE  AbsStep
  <1>1. UNCHANGED <<deque, req, ret>> /\ pc[t] # "store"
    BY DEF LoadHat, PushLoadLink, PushLoadOther, PopLoadL, PopLoadR, PopReread, McasConflict, McasCompare, Again
  <1>2. UNCHANGED <<owner, stored>> \/ (stored' = stored /\ owner = NoThread)
    BY DEF LoadHat, PushLoadLink, PushLoadOther, PopLoadL, PopLoadR, PopReread, McasConflict, McasCompare
  <1>3. TypeOK /\ OwnerOK /\ owner # t
    BY <1>1 DEF IInv, OwnerOK
  <1>4. \A u \in Thread \ {t} : h'[u] = h[u]
    BY <1>3 DEF LoadHat, PushLoadLink, PushLoadOther, PopLoadL, PopLoadR, PopReread, McasConflict, McasCompare,
                Again, EndRound, TypeOK
  <1>5. owner = NoThread => stored = 0
    BY <1>3 DEF OwnerOK
  <1>6. \A u \in Thread : (Decided(u)' <=> Decided(u)) /\ (Decided(u) => u # t)
    BY <1>1, <1>2, <1>3, <1>5 DEF Decided, IsPush
  <1> QED BY <1>1, <1>4, <1>6, SeenSame

\* A thread that returns has its result in the deque's specification.
LEMMA ReturnSeen ==
  ASSUME IInv, NEW t \in Thread, NEW v, Return(t, v), pc[t] # "idle",
         \/ (owner' = owner /\ stored' = stored /\ owner # t)
         \/ (owner = t /\ owner' = NoThread)
  PROVE  /\ ReqSeen' = [ReqSeen EXCEPT ![t] = <<>>] /\ RetSeen' = [RetSeen EXCEPT ![t] = v]
         /\ ReqSeen[t] = (IF Decided(t) THEN <<>> ELSE req[t])
         /\ RetSeen[t] = (IF Decided(t) THEN h[t] ELSE Pending)
  <1>1. TypeOK /\ ret[t] = Pending
    BY DEF IInv, ReqOK
  <1>2. EndRound(t, "idle") /\ ret' = [ret EXCEPT ![t] = v] /\ req' = [req EXCEPT ![t] = <<>>]
    BY DEF Return
  <1>3. \A u \in Thread \ {t} : Same(u)
    BY <1>1, <1>2 DEF Same, EndRound, Goto, TypeOK
  <1>4. ~Decided(t)' /\ req'[t] = <<>> /\ ret'[t] = v
    BY <1>1, <1>2, DistinctAssumption DEF Decided, TypeOK
  <1> QED BY <1>1, <1>3, <1>4, SeenOf

\* A pop that finds the hat where it read it, at a node that is dead, finds the
\* deque empty.
LEMMA RereadSeen ==
  ASSUME IInv, NEW t \in Thread, PopReread(t)
  PROVE  AbsStep
  <1>1. CASE mem[Hat(SideOf(t))] # h[t]
    BY <1>1, QuietSteps DEF PopReread
  <1>2. CASE mem[Hat(SideOf(t))] = h[t]
    <2>1. pc[t] = "reread" /\ Return(t, Empty) /\ UNCHANGED <<mem, owner, stored, deque>>
      BY <1>2 DEF PopReread
    <2>2. SideOf(t) \in Side /\ ~IsPush(t) /\ req[t][1] = "pop" /\ h[t] \in Dead /\ owner # t
      BY <2>1 DEF IInv, ReqOK, HatRead, OwnerOK, IsPush
    <2>3. deque = <<>>
      BY <1>2, <2>2, SeeHat
    <2>4. ~Decided(t)
      BY <2>2 DEF Decided
    <2>5. /\ ReqSeen' = [ReqSeen EXCEPT ![t] = <<>>] /\ RetSeen' = [RetSeen EXCEPT ![t] = Empty]
          /\ ReqSeen[t] = req[t] /\ RetSeen[t] = Pending
      <3>1. owner' = owner /\ stored' = stored /\ owner # t /\ pc[t] # "idle"
        BY <2>1, <2>2
      <3>2. Return(t, Empty)
        BY <2>1
      <3> QED BY <2>4, <3>1, <3>2, ReturnSeen
    <2>6. Abstract!PopEmpty(t)
      BY <2>1, <2>2, <2>3, <2>5 DEF Abstract!PopEmpty, Abstract!Return, ReqSeen, RetSeen
    <2> QED BY <2>6 DEF AbsStep, Abstract!Next
  <1> QED BY <1>1, <1>2

\* The first and the last node of a deque, and what is left without them.
LEMMA Ends ==
  ASSUME NEW q \in Seq(Node), q # <<>>
  PROVE  /\ Popped(q, "L") = Tail(q) /\ At(q, "L", 1) = Head(q)
         /\ Popped(q, "R") = SubSeq(q, 1, Len(q) - 1) /\ At(q, "R", 1) = q[Len(q)]
  <1>1. Len(q) \in Nat \ {0}
    OBVIOUS
  <1>2. Popped(q, "L") = SubSeq(q, 2, Len(q)) /\ Popped(q, "R") = SubSeq(q, 1, Len(q) - 1)
    BY DEF Popped
  <1>3. Tail(q) = SubSeq(q, 2, Len(q))
    BY <1>1
  <1>4. At(q, "L", 1) = q[1] /\ Head(q) = q[1]
    BY <1>1 DEF At
  <1>5. At(q, "R", 1) = q[Len(q) + 1 - 1] /\ Len(q) + 1 - 1 = Len(q)
    BY <1>1 DEF At
  <1> QED BY <1>2, <1>3, <1>4, <1>5

\* A push takes effect with its last store, a pop with its first.
LEMMA StoreSeen ==
  ASSUME IInv, NEW t \in Thread, McasStore(t)
  PROVE  AbsStep
  <1>1. /\ pc[t] = "store" /\ owner = t /\ owner # NoThread /\ stored \in {0, 1, 2}
        /\ stored + 1 <= (IF IsPush(t) THEN 2 ELSE 3)
    BY StoreFacts
  <1>2. TypeOK /\ ReqOK(t) /\ ret[t] = Pending /\ SideOf(t) \in Side /\ deque \in Seq(Node)
    BY <1>1 DEF IInv, ReqOK, TypeOK
  <1>3. CASE IsPush(t) /\ stored = 0
    <2>1. UNCHANGED <<deque, req, ret, h, owner>> /\ stored + 1 # Len(call[t])
      <3>1. stored + 1 # Len(call[t])
        BY <1>1, <1>3, PushWords
      <3> QED BY <1>3, <3>1 DEF McasStore
    <2>2. \A u \in Thread : ~Decided(u) /\ ~Decided(u)'
      BY <1>1, <1>3, <2>1 DEF Decided, IsPush
    <2> QED BY <2>1, <2>2, SeenSame
  <1>4. CASE IsPush(t) /\ stored = 1
    <2>1. deque' = Pushed(deque, SideOf(t), NodeOf(t)) /\ Return(t, Void)
      BY <1>4, PushLastStore
    <2>2. owner' = NoThread
      <3>1. stored + 1 = Len(call[t])
        BY <1>1, <1>4, PushWords
      <3> QED BY <3>1 DEF McasStore
    <2>3. ~Decided(t)
      BY <1>4 DEF Decided
    <2>4. /\ ReqSeen' = [ReqSeen EXCEPT ![t] = <<>>] /\ RetSeen' = [RetSeen EXCEPT ![t] = Void]
          /\ ReqSeen[t] = req[t] /\ RetSeen[t] = Pending
      BY <1>1, <2>1, <2>2, <2>3, ReturnSeen
    <2>5. Abstract!Push(t)
      BY <1>4, <2>1, <2>4 DEF Abstract!Push, Abstract!Return, ReqSeen, RetSeen, IsPush, SideOf, NodeOf, Pushed
    <2> QED BY <2>5 DEF AbsStep, Abstract!Next
  <1>5. CASE ~IsPush(t) /\ stored = 0
    <2>1. /\ deque' = Popped(deque, SideOf(t)) /\ deque # <<>> /\ h[t] = At(deque, SideOf(t), 1)
          /\ UNCHANGED <<req, ret, h, owner>> /\ owner = t /\ stored' = 1
      BY <1>5, PopFirstStore
    <2>2. Decided(t)' /\ ~Decided(t) /\ \A u \in Thread \ {t} : ~Decided(u) /\ ~Decided(u)'
      BY <1>5, <2>1 DEF Decided, IsPush
    <2>3. /\ ReqSeen' = [ReqSeen EXCEPT ![t] = <<>>] /\ RetSeen' = [RetSeen EXCEPT ![t] = h[t]]
          /\ ReqSeen[t] = req[t] /\ RetSeen[t] = Pending
      BY <1>2, <2>1, <2>2 DEF ReqSeen, RetSeen
    <2>4. req[t][1] = "pop" /\ req[t][2] = SideOf(t) /\ (SideOf(t) = "L" \/ SideOf(t) = "R")
      BY <1>1, <1>2, <1>5 DEF ReqOK, IsPush, SideOf, Side
    <2>5. IF req[t][2] = "L" THEN deque' = Tail(deque) /\ h[t] = Head(deque)
                             ELSE deque' = SubSeq(deque, 1, Len(deque) - 1) /\ h[t] = deque[Len(deque)]
      BY <1>2, <2>1, <2>4, Ends
    <2>6. Abstract!Pop(t)
      BY <2>1, <2>3, <2>4, <2>5 DEF Abstract!Pop, Abstract!Return, ReqSeen, RetSeen
    <2> QED BY <2>6 DEF AbsStep, Abstract!Next
  <1>6. CASE ~IsPush(t) /\ stored # 0
    <2>1. deque' = deque /\ stored > 0 /\ Decided(t)
      BY <1>1, <1>6, PopLaterStore DEF Decided
    <2>2. CASE stored = 1
      <3>1. UNCHANGED <<req, ret, h, owner>> /\ stored' = 2
        BY <1>6, <2>2, PopLaterStore
      <3>2. \A u \in Thread : Decided(u)' <=> Decided(u)
        BY <1>6, <2>2, <3>1 DEF Decided, IsPush
      <3> QED BY <2>1, <3>1, <3>2, SeenSame
    <2>3. CASE stored # 1
      <3>1. Return(t, h[t]) /\ owner' = NoThread
        BY <1>6, <2>3, PopLaterStore
      <3>2. /\ ReqSeen' = [ReqSeen EXCEPT ![t] = <<>>] /\ RetSeen' = [RetSeen EXCEPT ![t] = h[t]]
            /\ ReqSeen[t] = <<>> /\ RetSeen[t] = h[t]
        BY <1>1, <2>1, <3>1, ReturnSeen
      <3>3. ReqSeen' = ReqSeen /\ RetSeen' = RetSeen
        BY <3>2 DEF ReqSeen, RetSeen
      <3> QED BY <2>1, <3>3 DEF AbsStep
    <2> QED BY <2>2, <2>3
  <1>7. IsPush(t) => stored = 0 \/ stored = 1
    BY <1>1
  <1> QED BY <1>3, <1>4, <1>5, <1>6, <1>7

\* The deque is linearizable in a build that loads the hat again before it calls
\* the deque empty (Reread): pushes take effect with the last store of their
\* call, pops with the first, an unsuccessful pop when it looks at the hat again.
THEOREM DequeImplements ==
  ASSUME Reread
  PROVE  Spec => DequeLinearizable
  <1>1. Init => Abstract!Init
    BY DistinctAssumption DEF Init, Abstract!Init, Decided
  <1>2. IInv /\ [Next]_vars => AbsStep
    <2> SUFFICES ASSUME IInv, [Next]_vars  PROVE AbsStep
      OBVIOUS
    <2>1. ASSUME NEW t \in Thread, NEW s \in Side, PushStart(t, s) \/ PopStart(t, s)  PROVE AbsStep
      BY <2>1, Starts
    <2>2. ASSUME NEW t \in Thread, Step(t) \/ McasConflict(t)  PROVE AbsStep
      BY <2>2, QuietSteps, RereadSeen, StoreSeen DEF Step
    <2>3. CASE UNCHANGED vars
      <3>1. UNCHANGED <<deque, req, ret, owner, stored, h>>
        BY <2>3 DEF vars
      <3> QED BY <3>1, SeenSame DEF Decided, IsPush
    <2> QED BY <2>1, <2>2, <2>3 DEF Next
  <1>3. AbsStep => [Abstract!Next]_<<deque, ReqSeen, RetSeen>>
    BY DEF AbsStep
  <1> QED
    BY <1>1, <1>2, <1>3, DequeInvariant, PTL DEF Spec, DequeLinearizable, Abstract!Spec, Abstract!vars, ReqSeen, RetSeen
=============================================================================
