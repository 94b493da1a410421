--------------------------- MODULE McasListProofs ---------------------------
(***************************************************************************)
(* The list of lockfree-mcas/SortedList.h and HashMap.h keeps its links.   *)
(*                                                                         *)
(* A node is private until the first store of its insert.  IInv says that  *)
(* links never lead from a public node to a private one, that prev leads   *)
(* back along the list but for the store a qcas has still to make          *)
(* (Behind), that a node taken out has no links (Gone) and leads a walk    *)
(* nowhere while they are being cleared, and what each thread knows of the *)
(* nodes it has loaded.  The steps that hold no lock are modest: they      *)
(* write to private nodes at most.  The six stores are done one by one.    *)
(***************************************************************************)
EXTENDS MCMcasLists, FiniteSetTheorems, TLAPS

Storing(t) == owner = t /\ stored > 0

\* The nodes no other thread can have met: the first store of an insert makes
\* its node public.
Private == {n \in Node : n \in free \/ \E t \in Thread : node[t] = n /\ ~Storing(t)}
Public  == AnyNode \ Private

Inserting(t) == kind[t] = "insert"
Removing(t)  == kind[t] = "remove"

\* What pc says of the operation of a thread.
OpOK(t) ==
  /\ pc[t] = "idle" <=> kind[t] = "none"
  /\ node[t] # Null <=> Inserting(t)
  /\ kind[t] # "none" => arg[t] \in Key
  /\ sort = "list" => kind[t] # "find"
  /\ sort = "map" => kind[t] # "count"
  /\ pc[t] \in {"checkPrev", "checkNext", "reload", "assign"} => Inserting(t)
  /\ pc[t] \in {"delete", "delete2"} => Removing(t)
  /\ pc[t] \in {"found", "qcas", "store"} => Inserting(t) \/ Removing(t)
  /\ pc[t] = "reload" => reload
  /\ owner = t <=> pc[t] = "store"

NodesApart == \A t, u \in Thread : node[t] # Null /\ node[t] = node[u] => t = u
NodesTaken == \A t \in Thread : node[t] \notin free

\* What a thread knows of the nodes it has loaded.
AtRemove(t) == Removing(t) /\ pc[t] \in {"delete", "delete2", "qcas", "store"}
InCall(t)   == pc[t] \in {"qcas", "store"}
LocalsOK(t) ==
  /\ curr[t] \in (Public \ {ListHead}) \cup {Null}
  /\ prev[t] \in (Public \ {ListTail}) \cup {Null}
  /\ next[t] \in (Public \ {ListHead}) \cup {Null}
  /\ pc[t] \notin {"idle", "head", "walk", "crash"} => curr[t] # Null
  /\ sort = "map" /\ pc[t] = "found" /\ curr[t] # ListTail => keyOf[curr[t]] = arg[t]
  /\ pc[t] = "checkNext" => prev[t] # Null
  /\ InCall(t) /\ Inserting(t) /\ prev[t] = Null => reload /\ sort = "list"
  /\ sort = "map" /\ pc[t] \in {"checkPrev", "checkNext", "reload"} => curr[t] = ListTail
  /\ AtRemove(t) => curr[t] \in Node /\ keyOf[curr[t]] = arg[t]
  /\ pc[t] = "delete2" /\ prev[t] = Null => link["next"][curr[t]] = Null
  /\ InCall(t) /\ Removing(t) =>
       prev[t] # Null /\ (next[t] = Null => link["next"][curr[t]] = Null)

NoLinks(n) == link["next"][n] = Null /\ link["prev"][n] = Null

\* The links of the node of an insert, and its qcas.
NodeOK(t) ==
  /\ Inserting(t) /\ pc[t] \in {"walk", "found", "assign", "checkPrev", "checkNext", "reload"}
       => NoLinks(node[t])
  /\ Inserting(t) /\ InCall(t) =>
       link["next"][node[t]] = curr[t] /\ link["prev"][node[t]] = prev[t]

InsertCall(t) == <<Word("next", prev[t], curr[t], node[t]), Word("prev", curr[t], prev[t], node[t])>>
RemoveCall(t) == <<Word("next", prev[t], curr[t], next[t]), Word("prev", next[t], curr[t], prev[t]),
                   Word("next", curr[t], next[t], Null), Word("prev", curr[t], prev[t], Null)>>
CallOK(t) == InCall(t) => call[t] = IF Inserting(t) THEN InsertCall(t) ELSE RemoveCall(t)

\* Links lead from public nodes to public nodes, and never back to ListHead or on
\* to ListTail.
PublicLinks ==
  /\ \A n \in Public : link["next"][n] \in (Public \ {ListHead}) \cup {Null}
  /\ \A n \in Public : link["prev"][n] \in (Public \ {ListTail}) \cup {Null}
  /\ link["next"][ListTail] = Null /\ link["prev"][ListHead] = Null
FreeLinks == \A n \in free : NoLinks(n)

\* prev of a node in the list, with the second store of a qcas made along with
\* the first.
Behind(n) ==
  IF owner # NoThread /\ stored = 1
  THEN IF Inserting(owner) THEN IF n = curr[owner] THEN node[owner] ELSE link["prev"][n]
                           ELSE IF n = next[owner] THEN prev[owner] ELSE link["prev"][n]
  ELSE link["prev"][n]
Chain == /\ On \subseteq Public /\ ListTail \in On
         /\ \A n \in On \ {ListTail} : link["next"][n] # Null /\ Behind(link["next"][n]) = n

\* The nodes taken out.
Leaving(n) == owner # NoThread /\ stored > 0 /\ Removing(owner) /\ n = curr[owner]
Gone       == \A n \in Public \ On : NoLinks(n) \/ Leaving(n)

\* The stores that the owner of the lock has made, and those it has not.
InsertStored(t) ==
  LET p == prev[t]  c == curr[t]  m == node[t] IN
  /\ stored \in {0, 1} /\ p \in On
  /\ link["prev"][c] = p
  /\ link["next"][p] = IF stored = 0 THEN c ELSE m
RemoveStored(t) ==
  LET p == prev[t]  c == curr[t]  n == next[t] IN
  /\ stored \in {0, 1, 2, 3} /\ p \in On /\ n \in On
  /\ stored > 0 => c \notin On
  /\ link["next"][p] = IF stored = 0 THEN c ELSE n
  /\ link["prev"][n] = IF stored < 2 THEN c ELSE p
  /\ link["next"][c] = IF stored < 3 THEN n ELSE Null
  /\ link["prev"][c] = p
StoredOK ==
  IF owner = NoThread THEN stored = 0
  ELSE IF Inserting(owner) THEN InsertStored(owner) ELSE RemoveStored(owner)

\* A node that a walk has not left behind for good.
Alive(n) == n \in On \/ link["next"][n] # Null
WalkOK(t) ==
  /\ kind[t] \notin {"count", "find"} => stable[t] = {}
  /\ stable[t] \subseteq {n \in InList : keyOf[n] = arg[t]}
  /\ kind[t] # "count" \/ pc[t] = "head" => n_val[t] = 0
  /\ pc[t] = "walk" /\ curr[t] # Null /\ Alive(curr[t]) =>
       /\ kind[t] = "find" => stable[t] \subseteq From(curr[t])
       /\ kind[t] = "count" => n_val[t] >= Cardinality(stable[t] \ From(curr[t]))

CrashOK ==
  /\ crashed <=> \E t \in Thread : pc[t] = "crash"
  /\ ShortCircuit => \A t \in Thread : pc[t] = "crash" =>
       reload /\ sort = "list" /\ Inserting(t) /\ prev[t] = Null

IInv ==
  /\ TypeOK
  /\ \A t \in Thread : OpOK(t) /\ LocalsOK(t) /\ NodeOK(t) /\ CallOK(t)
  /\ NodesApart /\ NodesTaken
  /\ PublicLinks /\ FreeLinks /\ Chain /\ Gone /\ StoredOK
  /\ \A t \in Thread : WalkOK(t)
  /\ CrashOK

-----------------------------------------------------------------------------
(* The constants.                                                          *)

\* The sentinels and Null are apart from each other and from the nodes.
LEMMA NullApart ==
  /\ Null \notin AnyNode /\ ListHead # ListTail
  /\ ListHead \in AnyNode /\ ListTail \in AnyNode /\ Node \subseteq AnyNode
  /\ ListHead \notin Node /\ ListTail \notin Node /\ Null \notin Node
<1>1. ListHead # ListTail /\ ListHead # Null /\ ListTail # Null
  <2>1. \A a, b : Cardinality({a, b}) # 3
    <3> SUFFICES ASSUME NEW a, NEW b
                 PROVE  Cardinality({a, b}) # 3
      OBVIOUS
    <3>1. IsFiniteSet({a}) /\ Cardinality({a}) = 1
      BY FS_Singleton
    <3>2. Cardinality({a} \cup {b}) = IF b \in {a} THEN Cardinality({a}) ELSE Cardinality({a}) + 1
      BY <3>1, FS_AddElement
    <3>3. {a, b} = {a} \cup {b}
      OBVIOUS
    <3> QED
      BY <3>1, <3>2, <3>3
  <2>2. ListHead = ListTail \/ ListHead = Null \/ ListTail = Null =>
          {ListHead, ListTail, Null} = {ListHead, Null} \/ {ListHead, ListTail, Null} = {ListHead, ListTail}
    OBVIOUS
  <2> QED
    BY <2>1, <2>2, ListAssumption
<1> QED
  BY <1>1, ListAssumption DEF AnyNode

-----------------------------------------------------------------------------
(* Reach, for any links.                                                   *)

\* What Reach holds: its start, and with a node the next one.
LEMMA ReachClosed ==
  ASSUME NEW nx \in [AnyNode -> Pointer], NEW x \in AnyNode
  PROVE  /\ x \in Reach(nx, x)
         /\ Reach(nx, x) \subseteq AnyNode
         /\ \A m \in Reach(nx, x) : nx[m] # Null => nx[m] \in Reach(nx, x)
<1>1. x \in Reach(nx, x) /\ Reach(nx, x) \subseteq AnyNode
  BY DEF Reach
<1>2. ASSUME NEW m \in Reach(nx, x), nx[m] # Null
      PROVE  nx[m] \in Reach(nx, x)
  <2>1. m \in AnyNode /\ nx[m] \in AnyNode
    BY <1>1, <1>2 DEF Pointer
  <2>2. ASSUME NEW S \in SUBSET AnyNode, x \in S, Closed(nx, S)
        PROVE  nx[m] \in S
    <3>1. m \in S
      BY <2>2 DEF Reach
    <3> QED
      BY <3>1, <2>2, <1>2 DEF Closed
  <2> QED
    BY <2>1, <2>2 DEF Reach
<1> QED
  BY <1>1, <1>2

\* Reach is the least such set.
LEMMA ReachLeast ==
  ASSUME NEW nx, NEW x, NEW S \in SUBSET AnyNode, x \in S, Closed(nx, S)
  PROVE  Reach(nx, x) \subseteq S
BY DEF Reach

\* Every node that is reached has a predecessor.
LEMMA ReachPred ==
  ASSUME NEW nx \in [AnyNode -> Pointer], NEW x \in AnyNode,
         NEW c \in Reach(nx, x), c # x
  PROVE  \E m \in Reach(nx, x) : nx[m] = c
<1> SUFFICES ASSUME \A m \in Reach(nx, x) : nx[m] # c
             PROVE  FALSE
  OBVIOUS
<1> DEFINE S == Reach(nx, x) \ {c}
<1>1. S \in SUBSET AnyNode /\ x \in S
  BY ReachClosed
<1>2. Closed(nx, S)
  BY ReachClosed DEF Closed
<1>3. Reach(nx, x) \subseteq S
  BY ReachLeast, <1>1, <1>2
<1> QED
  BY <1>3

\* What is reached depends on the links of what is reached.
LEMMA ReachFrame ==
  ASSUME NEW nx \in [AnyNode -> Pointer], NEW ny \in [AnyNode -> Pointer],
         NEW P \in SUBSET AnyNode, Closed(nx, P), \A m \in P : ny[m] = nx[m],
         NEW x \in P
  PROVE  /\ Reach(ny, x) = Reach(nx, x)
         /\ Reach(nx, x) \subseteq P
<1>1. Reach(nx, x) \subseteq P
  BY ReachLeast
<1>2. Closed(ny, P)
  BY DEF Closed
<1>3. Reach(ny, x) \subseteq P
  BY ReachLeast, <1>2
<1>4. Closed(ny, Reach(nx, x)) /\ Closed(nx, Reach(ny, x))
  BY ReachClosed, <1>1, <1>3 DEF Closed
<1>5. x \in Reach(nx, x) /\ x \in Reach(ny, x) /\ Reach(nx, x) \subseteq AnyNode /\ Reach(ny, x) \subseteq AnyNode
  BY ReachClosed
<1>6. Reach(ny, x) \subseteq Reach(nx, x) /\ Reach(nx, x) \subseteq Reach(ny, x)
  BY ReachLeast, <1>4, <1>5
<1> QED
  BY <1>1, <1>6

\* A node m is put between p and c.
LEMMA ReachInsert ==
  ASSUME NEW nx \in [AnyNode -> Pointer], NEW P \in SUBSET AnyNode, Closed(nx, P),
         NEW p \in P, NEW c \in P, NEW m \in AnyNode \ P, nx[p] = c, nx[m] = c,
         NEW ny \in [AnyNode -> Pointer], ny[p] = m,
         \A n \in AnyNode : n # p => ny[n] = nx[n],
         NEW x \in P
  PROVE  /\ Reach(nx, x) \subseteq Reach(ny, x)
         /\ p \in Reach(nx, x) => Reach(ny, x) = Reach(nx, x) \cup {m}
<1>0. ny[m] = c
  OBVIOUS
<1>1. x \in Reach(ny, x) /\ Reach(ny, x) \subseteq AnyNode /\ \A n \in Reach(ny, x) : ny[n] # Null => ny[n] \in Reach(ny, x)
  BY <1>0, ReachClosed
<1>2. x \in Reach(nx, x) /\ Reach(nx, x) \subseteq AnyNode /\ \A n \in Reach(nx, x) : nx[n] # Null => nx[n] \in Reach(nx, x)
  BY ReachClosed
<1>3. Reach(nx, x) \subseteq P
  BY ReachLeast
<1>4. c # Null /\ m # Null
  BY ListAssumption, NullApart
<1>5. Closed(nx, Reach(ny, x))
  <2> SUFFICES ASSUME NEW n \in Reach(ny, x), nx[n] # Null
               PROVE  nx[n] \in Reach(ny, x)
    BY DEF Closed
  <2>1. CASE n = p
    <3>1. m \in Reach(ny, x)
      BY <2>1, <1>0, <1>1, <1>4
    <3> QED
      BY <3>1, <2>1, <1>0, <1>1, <1>4
  <2>2. CASE n # p
    BY <2>2, <1>0, <1>1
  <2> QED
    BY <2>1, <2>2
<1>6. Reach(nx, x) \subseteq Reach(ny, x)
  BY ReachLeast, <1>5, <1>1
<1>7. ASSUME p \in Reach(nx, x)
      PROVE  Reach(ny, x) = Reach(nx, x) \cup {m}
  <2>1. Closed(ny, Reach(nx, x) \cup {m})
    BY <1>0, <1>2, <1>7, <1>4 DEF Closed
  <2>2. Reach(ny, x) \subseteq Reach(nx, x) \cup {m}
    BY ReachLeast, <2>1, <1>2
  <2>3. m \in Reach(ny, x)
    BY <1>6, <1>7, <1>0, <1>1, <1>4
  <2> QED
    BY <2>2, <2>3, <1>6
<1> QED
  BY <1>6, <1>7

\* The node c after p is taken out.
LEMMA ReachRemove ==
  ASSUME NEW nx \in [AnyNode -> Pointer], NEW p \in AnyNode, NEW c \in AnyNode,
         nx[p] = c, nx[c] # Null,
         NEW ny \in [AnyNode -> Pointer], ny[p] = nx[c],
         \A n \in AnyNode : n # p => ny[n] = nx[n],
         NEW x \in AnyNode
  PROVE  /\ Reach(nx, x) \ {c} \subseteq Reach(ny, x)
         /\ x # c /\ p # c /\ nx[c] # c /\ (\A n \in Reach(nx, x) : nx[n] = c => n = p)
              => Reach(ny, x) = Reach(nx, x) \ {c}
<1>1. x \in Reach(ny, x) /\ Reach(ny, x) \subseteq AnyNode /\ \A n \in Reach(ny, x) : ny[n] # Null => ny[n] \in Reach(ny, x)
  BY ReachClosed
<1>2. x \in Reach(nx, x) /\ Reach(nx, x) \subseteq AnyNode /\ \A n \in Reach(nx, x) : nx[n] # Null => nx[n] \in Reach(nx, x)
  BY ReachClosed
<1>3. Reach(nx, x) \ {c} \subseteq Reach(ny, x)
  <2>1. CASE p \in Reach(ny, x)
    <3>1. nx[c] \in Reach(ny, x)
      BY <2>1, <1>1
    <3>2. Closed(nx, Reach(ny, x) \cup {c})
      <4> SUFFICES ASSUME NEW n \in Reach(ny, x) \cup {c}, nx[n] # Null
                   PROVE  nx[n] \in Reach(ny, x) \cup {c}
        BY DEF Closed
      <4>1. CASE n = c
        BY <3>1, <4>1
      <4>2. CASE n = p
        BY <4>2
      <4>3. CASE n \in Reach(ny, x) /\ n # p
        BY <4>3, <1>1
      <4> QED
        BY <4>1, <4>2, <4>3
    <3> QED
      BY ReachLeast, <3>2, <1>1
  <2>2. CASE p \notin Reach(ny, x)
    <3>1. Closed(nx, Reach(ny, x))
      BY <2>2, <1>1 DEF Closed
    <3> QED
      BY ReachLeast, <3>1, <1>1
  <2> QED
    BY <2>1, <2>2
<1>4. ASSUME x # c, p # c, nx[c] # c, \A n \in Reach(nx, x) : nx[n] = c => n = p
      PROVE  Reach(ny, x) = Reach(nx, x) \ {c}
  <2>1. Closed(ny, Reach(nx, x) \ {c})
    <3> SUFFICES ASSUME NEW n \in Reach(nx, x) \ {c}, ny[n] # Null
                 PROVE  ny[n] \in Reach(nx, x) \ {c}
      BY DEF Closed
    <3>1. CASE n = p
      <4>1. c \in Reach(nx, x)
        BY <3>1, <1>2, NullApart
      <4> QED
        BY <4>1, <3>1, <1>2, <1>4
    <3>2. CASE n # p
      BY <3>2, <1>2, <1>4
    <3> QED
      BY <3>1, <3>2
  <2>2. Reach(ny, x) \subseteq Reach(nx, x) \ {c}
    BY ReachLeast, <2>1, <1>2, <1>4
  <2> QED
    BY <2>2, <1>3
<1> QED
  BY <1>3, <1>4

-----------------------------------------------------------------------------
(* What a step of a thread leaves as it is.                                *)

\* The part of the state that a step of another thread leaves to u.
SameRun(u) ==
  /\ pc'[u] = pc[u] /\ kind'[u] = kind[u] /\ arg'[u] = arg[u] /\ node'[u] = node[u]
  /\ curr'[u] = curr[u] /\ prev'[u] = prev[u] /\ next'[u] = next[u] /\ call'[u] = call[u]
SameFor(u) == SameRun(u) /\ stable'[u] = stable[u] /\ n_val'[u] = n_val[u]

SameLinks(n) == link'["next"][n] = link["next"][n] /\ link'["prev"][n] = link["prev"][n]

\* A step that neither takes nor holds the lock: it may write to the links of
\* nodes that are still private.
Modest(t) ==
  /\ pc[t] # "store" /\ owner' = owner /\ stored' = stored /\ sort' = sort /\ reload' = reload
  /\ \A u \in Thread \ {t} : SameFor(u)
  /\ Public \subseteq Public' /\ free' \subseteq free
  /\ \A n \in Public : SameLinks(n)
  /\ \A n \in Public \cap Node : keyOf'[n] = keyOf[n]
  /\ \A n \in Public' \ Public : NoLinks(n)'
  /\ \A n \in free' : NoLinks(n)'
  /\ \A u \in Thread \ {t} : Inserting(u) => SameLinks(node[u])

ThreadOK(t) == OpOK(t) /\ LocalsOK(t) /\ NodeOK(t) /\ CallOK(t)

\* What a step that leaves u and its node as they are preserves of u.
LEMMA OtherThread ==
  ASSUME NEW u \in Thread, ThreadOK(u), SameRun(u), sort' = sort /\ reload' = reload,
         owner' = u <=> owner = u, Public \subseteq Public',
         \A n \in Public : link["next"][n] = Null => link'["next"][n] = Null,
         \A n \in Public \cap Node : keyOf'[n] = keyOf[n],
         Inserting(u) => SameLinks(node[u])
  PROVE  ThreadOK(u)'
<1> USE DEF ThreadOK, SameRun
<1>1. OpOK(u)'
  BY DEF OpOK, Inserting, Removing
<1>2. LocalsOK(u)'
  <2>1. /\ curr[u] # Null => curr[u] \in Public
        /\ curr[u] # Null /\ curr[u] # ListTail => curr[u] \in Public \cap Node
    BY DEF LocalsOK, Public, AnyNode
  <2>2. InCall(u) \/ pc[u] \in {"delete2", "found"} => curr[u] # Null
    BY DEF LocalsOK, InCall
  <2> QED
    BY <2>1, <2>2 DEF LocalsOK, InCall, Inserting, Removing, AtRemove
<1>3. NodeOK(u)'
  BY DEF NodeOK, InCall, Inserting, NoLinks, SameLinks
<1>4. CallOK(u)'
  BY DEF CallOK, InCall, Inserting, InsertCall, RemoveCall, Word
<1> QED
  BY <1>1, <1>2, <1>3, <1>4

\* The public nodes are closed under next.
LEMMA PublicFacts ==
  ASSUME TypeOK, PublicLinks
  PROVE  /\ link["next"] \in [AnyNode -> Pointer] /\ link["prev"] \in [AnyNode -> Pointer]
         /\ Public \subseteq AnyNode /\ ListHead \in Public /\ ListTail \in Public
         /\ Closed(link["next"], Public)
<1>1. link["next"] \in [AnyNode -> Pointer] /\ link["prev"] \in [AnyNode -> Pointer]
  BY DEF TypeOK, ListTypeOK
<1>2. Public \subseteq AnyNode /\ ListHead \in Public /\ ListTail \in Public
  BY NullApart DEF Public, Private
<1>3. Closed(link["next"], Public)
  BY DEF PublicLinks, Closed
<1> QED
  BY <1>1, <1>2, <1>3

\* A modest step leaves the list as it is.
LEMMA ModestReach ==
  ASSUME IInv, TypeOK', NEW t \in Thread, Modest(t)
  PROVE  /\ On' = On
         /\ \A x \in Public : From(x)' = From(x) /\ From(x) \subseteq Public
<1>1. /\ link["next"] \in [AnyNode -> Pointer] /\ link'["next"] \in [AnyNode -> Pointer]
      /\ Public \in SUBSET AnyNode /\ ListHead \in Public
      /\ Closed(link["next"], Public)
  BY PublicFacts DEF IInv, TypeOK, ListTypeOK
<1>2. \A n \in Public : link'["next"][n] = link["next"][n]
  BY DEF Modest, SameLinks
<1>3. \A x \in Public : Reach(link'["next"], x) = Reach(link["next"], x) /\ Reach(link["next"], x) \subseteq Public
  BY <1>1, <1>2, ReachFrame
<1> QED
  BY <1>1, <1>3 DEF On, From

\* A modest step keeps what the invariant says of the links.
LEMMA ModestHeap ==
  ASSUME IInv, TypeOK', NEW t \in Thread, Modest(t)
  PROVE  PublicLinks' /\ FreeLinks' /\ Chain' /\ Gone' /\ StoredOK'
<1>1. On' = On /\ On \subseteq Public
  BY ModestReach, PublicFacts DEF IInv, On
<1>2. owner # NoThread =>
        /\ owner \in Thread /\ owner # t /\ SameFor(owner) /\ ThreadOK(owner)
        /\ curr[owner] \in Public
  <2>1. owner # NoThread => owner \in Thread /\ owner # t
    BY DEF IInv, TypeOK, ListTypeOK, OpOK, Modest
  <2> QED
    BY <2>1 DEF IInv, ThreadOK, LocalsOK, Modest, OpOK
<1>3. \A n \in On : SameLinks(n)
  BY <1>1 DEF Modest
<1>4. PublicLinks'
  <2>1. \A n \in Public' : (n \in Public /\ SameLinks(n)) \/ NoLinks(n)'
    BY DEF Modest
  <2>2. SameLinks(ListTail) /\ SameLinks(ListHead)
    BY PublicFacts DEF IInv, Modest
  <2> QED
    BY <2>1, <2>2 DEF IInv, PublicLinks, SameLinks, NoLinks, Modest
<1>5. FreeLinks'
  BY DEF FreeLinks, Modest
<1>6. \A n \in On : n # ListTail => link["next"][n] \in On
  BY ReachClosed, PublicFacts DEF IInv, Chain, On, From
<1>7. Chain'
  <2>1. \A n \in On : Behind(n)' = Behind(n)
    BY <1>2, <1>3 DEF Behind, SameFor, SameRun, SameLinks, Modest, Inserting
  <2> QED
    BY <1>1, <1>3, <1>6, <2>1 DEF IInv, Chain, Modest, SameLinks
<1>8. Gone'
  <2>1. \A n : Leaving(n) => Leaving(n)'
    BY <1>2 DEF Leaving, SameFor, SameRun, Modest, Removing
  <2>2. \A n \in Public \ On : NoLinks(n) => NoLinks(n)'
    BY DEF NoLinks, Modest, SameLinks
  <2> QED
    BY <1>1, <2>1, <2>2 DEF IInv, Gone, Modest
<1>9. StoredOK'
  <2>1. CASE owner = NoThread
    BY <2>1 DEF IInv, StoredOK, Modest
  <2>2. CASE owner # NoThread /\ Inserting(owner)
    <3>1. InsertStored(owner)
      BY <2>2 DEF IInv, StoredOK
    <3>2. prev[owner] \in Public /\ curr[owner] \in Public
      BY <1>1, <1>2, <2>2, <3>1 DEF InsertStored
    <3>3. SameLinks(prev[owner]) /\ SameLinks(curr[owner])
      BY <3>2 DEF Modest
    <3> QED
      BY <1>1, <1>2, <2>2, <3>1, <3>3 DEF StoredOK, InsertStored, SameFor, SameRun, SameLinks, Modest, Inserting
  <2>3. CASE owner # NoThread /\ ~Inserting(owner)
    <3>1. RemoveStored(owner)
      BY <2>3 DEF IInv, StoredOK
    <3>2. prev[owner] \in Public /\ curr[owner] \in Public /\ next[owner] \in Public
      <4>1. prev[owner] \in On /\ next[owner] \in On
        BY <3>1 DEF RemoveStored
      <4> QED
        BY <4>1, <1>1, <1>2, <2>3
    <3>3. SameLinks(prev[owner]) /\ SameLinks(curr[owner]) /\ SameLinks(next[owner])
      BY <3>2 DEF Modest
    <3> QED
      BY <1>1, <1>2, <2>3, <3>1, <3>3 DEF StoredOK, RemoveStored, SameFor, SameRun, SameLinks, Modest, Inserting
  <2> QED
    BY <2>1, <2>2, <2>3
<1> QED
  BY <1>4, <1>5, <1>7, <1>8, <1>9

\* A modest step keeps what the invariant says of the other threads.
LEMMA ModestOthers ==
  ASSUME IInv, TypeOK', NEW t \in Thread, Modest(t), NEW u \in Thread \ {t}
  PROVE  ThreadOK(u)' /\ WalkOK(u)'
<1>1. ThreadOK(u)'
  BY OtherThread DEF IInv, ThreadOK, Modest, SameLinks, SameFor
<1>2. WalkOK(u)'
  <2>1. On' = On /\ On \subseteq Public
    BY ModestReach, PublicFacts DEF IInv, On
  <2>2. SameFor(u) /\ WalkOK(u)
    BY DEF IInv, Modest
  <2>3. CASE curr[u] = Null
    <3>1. InList' = InList /\ \A n \in InList : keyOf'[n] = keyOf[n]
      BY <2>1 DEF InList, Modest
    <3> QED
      BY <2>2, <2>3, <3>1 DEF WalkOK, SameFor, SameRun
  <2>4. CASE curr[u] # Null
    <3> DEFINE c == curr[u]
    <3>1. c \in Public
      BY <2>4 DEF IInv, LocalsOK
    <3>2. InList' = InList /\ \A n \in InList : keyOf'[n] = keyOf[n]
      BY <2>1 DEF InList, Modest
    <3>3. From(curr[u])' = From(curr[u])
      BY <2>2, <3>1, ModestReach DEF SameFor, SameRun, From
    <3>4. Alive(curr[u])' <=> Alive(curr[u])
      BY <2>1, <2>2, <3>1 DEF SameFor, SameRun, Alive, Modest, SameLinks
    <3> HIDE DEF c
    <3> QED
      BY <2>2, <3>2, <3>3, <3>4 DEF WalkOK, SameFor, SameRun
  <2> QED
    BY <2>3, <2>4
<1> QED
  BY <1>1, <1>2

-----------------------------------------------------------------------------
(* Steps that write to no link.                                            *)

Quiet(t) ==
  /\ pc[t] # "store" /\ UNCHANGED <<sort, reload, link, keyOf, free, owner, stored>>
  /\ \A u \in Thread : node'[u] = node[u]
  /\ \A u \in Thread \ {t} : SameFor(u)

\* A step that writes to no link and allocates no node is modest.
LEMMA QuietModest ==
  ASSUME IInv, NEW t \in Thread, Quiet(t)
  PROVE  /\ Modest(t) /\ NodesApart' /\ NodesTaken'
         /\ Public' = Public /\ On' = On
<1>1. Public' = Public /\ On' = On
  BY DEF Quiet, Public, Private, On, From, Storing
<1>2. Modest(t)
  BY <1>1 DEF IInv, Quiet, Modest, SameLinks, FreeLinks, NoLinks
<1>3. NodesApart' /\ NodesTaken'
  BY DEF IInv, Quiet, NodesApart, NodesTaken
<1> QED
  BY <1>1, <1>2, <1>3

\* A modest step that is right for its own thread keeps the invariant.
LEMMA ModestStep ==
  ASSUME IInv, TypeOK', NEW t \in Thread, Modest(t), NodesApart', NodesTaken',
         ThreadOK(t)', WalkOK(t)', CrashOK'
  PROVE  IInv'
<1>1. \A u \in Thread : ThreadOK(u)' /\ WalkOK(u)'
  BY ModestOthers
<1> QED
  BY <1>1, ModestHeap DEF IInv, ThreadOK

\* The rest of what a step leaves alone.
LEMMA CrashKept ==
  ASSUME IInv, NEW t \in Thread, \A u \in Thread \ {t} : SameRun(u),
         crashed' = crashed, sort' = sort /\ reload' = reload, pc'[t] # "crash", pc[t] # "crash"
  PROVE  CrashOK'
BY DEF IInv, CrashOK, Inserting, SameFor, SameRun

\* The end of a round keeps the types of the locals.
LEMMA EndRoundTypes ==
  ASSUME TypeOK, NEW t \in Thread, NEW l \in Place, EndRound(t, l)
  PROVE  /\ pc' \in [Thread -> Place]
         /\ curr' \in [Thread -> Pointer] /\ prev' \in [Thread -> Pointer]
         /\ next' \in [Thread -> Pointer] /\ call' \in [Thread -> Seq(CasWord)]
<1>1. <<>> \in Seq(CasWord) /\ Null \in Pointer
  BY DEF Pointer
<1>2. call' \in [Thread -> Seq(CasWord)]
  BY <1>1 DEF TypeOK, ListTypeOK, EndRound, Set
<1> QED
  BY <1>1, <1>2 DEF TypeOK, ListTypeOK, EndRound, Goto, Set

\* A thread that starts over at the head knows nothing.
LEMMA AgainThread ==
  ASSUME IInv, TypeOK', NEW t \in Thread, Quiet(t), Again(t), pc[t] # "idle",
         stable'[t] = stable[t], n_val'[t] = 0
  PROVE  ThreadOK(t)' /\ WalkOK(t)'
<1> USE DEF ThreadOK, IInv, Quiet, Again, EndRound, Goto, Set
<1>1. /\ pc'[t] = "head" /\ kind' = kind /\ arg' = arg /\ node' = node
      /\ curr'[t] = Null /\ prev'[t] = Null /\ next'[t] = Null
  BY DEF TypeOK, ListTypeOK, req
<1>2. OpOK(t)'
  BY <1>1 DEF OpOK, Inserting, Removing
<1>3. LocalsOK(t)' /\ NodeOK(t)' /\ CallOK(t)'
  BY <1>1 DEF LocalsOK, NodeOK, CallOK, InCall, Inserting, Removing, AtRemove
<1>4. WalkOK(t)'
  <2>1. InList' = InList
    BY QuietModest DEF InList
  <2> QED
    BY <1>1, <2>1 DEF WalkOK
<1> QED
  BY <1>2, <1>3, <1>4

\* A thread that returns knows nothing and has no node.
LEMMA ReturnThread ==
  ASSUME IInv, TypeOK', NEW t \in Thread, Return(t),
         (pc[t] # "store" /\ owner' = owner) \/ (pc[t] = "store" /\ owner' = NoThread),
         stable'[t] = {}, n_val'[t] = 0
  PROVE  ThreadOK(t)' /\ WalkOK(t)'
<1> USE DEF ThreadOK, IInv, Return, EndRound, Goto, Set
<1>1. /\ pc'[t] = "idle" /\ kind'[t] = "none" /\ arg'[t] = Null /\ node'[t] = Null
      /\ curr'[t] = Null /\ prev'[t] = Null /\ next'[t] = Null
  BY DEF TypeOK, ListTypeOK
<1>2. owner' # t
  BY ListAssumption DEF OpOK
<1>3. OpOK(t)'
  BY <1>1, <1>2 DEF OpOK, Inserting, Removing
<1>4. LocalsOK(t)' /\ NodeOK(t)' /\ CallOK(t)'
  BY <1>1 DEF LocalsOK, NodeOK, CallOK, InCall, Inserting, Removing, AtRemove
<1>5. WalkOK(t)'
  BY <1>1 DEF WalkOK
<1> QED
  BY <1>3, <1>4, <1>5

\* A quiet step that is right for its own thread keeps the invariant.
LEMMA QuietStep ==
  ASSUME IInv, TypeOK', NEW t \in Thread, Quiet(t), ThreadOK(t)', WalkOK(t)',
         crashed' = crashed, pc'[t] # "crash", pc[t] # "crash"
  PROVE  IInv'
<1>1. CrashOK'
  BY CrashKept DEF Quiet, SameFor
<1> QED
  BY <1>1, QuietModest, ModestStep

\* An insert or a remove has no walk to keep.
LEMMA UpdateWalk ==
  ASSUME IInv, NEW t \in Thread, kind[t] \in {"insert", "remove"},
         kind'[t] = kind[t], stable'[t] = stable[t], n_val'[t] = n_val[t]
  PROVE  WalkOK(t)'
BY DEF IInv, WalkOK

\* The rounds that start over, and the returns that write to no link.
LEMMA AgainStep ==
  ASSUME IInv, NEW t \in Thread, Again(t), pc[t] \notin {"idle", "store", "crash"},
         UNCHANGED <<sort, reload, heap, casLock, crashed, ops, stable, result, mapVars>>,
         n_val' \in [Thread -> Nat], \A u \in Thread \ {t} : n_val'[u] = n_val[u],
         n_val'[t] = IF kind[t] = "count" THEN 0 ELSE n_val[t]
  PROVE  IInv'
<1> USE DEF IInv, heap, casLock, mapVars
<1>1. UNCHANGED <<node, kind, arg>>
  BY DEF Again, req
<1>2. TypeOK'
  BY <1>1, EndRoundTypes DEF TypeOK, ListTypeOK, Place, Again
<1>3. Quiet(t)
  BY <1>1 DEF Quiet, SameFor, SameRun, TypeOK, ListTypeOK, Again, EndRound, Goto, Set
<1>4. n_val'[t] = 0
  BY DEF WalkOK
<1>5. ThreadOK(t)' /\ WalkOK(t)'
  BY <1>2, <1>3, <1>4, AgainThread
<1>6. pc'[t] = "head"
  BY DEF Again, EndRound, Goto, TypeOK, ListTypeOK
<1> QED
  BY <1>2, <1>3, <1>5, <1>6, QuietStep

\* A return outside qcas.
LEMMA ReturnStep ==
  ASSUME IInv, NEW t \in Thread, Return(t), pc[t] \notin {"store", "crash"}, node[t] = Null,
         UNCHANGED <<sort, reload, heap, casLock, crashed, ops, value, newValue, old>>,
         n_val' \in [Thread -> Nat], result' \in [Thread -> Nat],
         found' \in [Thread -> Value \cup {NotFound}], stable' \in [Thread -> SUBSET Node],
         \A u \in Thread \ {t} : n_val'[u] = n_val[u] /\ stable'[u] = stable[u],
         stable'[t] = {}, n_val'[t] = 0
  PROVE  IInv'
<1> USE DEF IInv, heap, casLock
<1>1. TypeOK'
  <2>1. /\ kind' = [kind EXCEPT ![t] = "none"] /\ arg' = [arg EXCEPT ![t] = Null]
        /\ node' = [node EXCEPT ![t] = Null]
    BY DEF Return, Set
  <2> QED
    BY <2>1, EndRoundTypes DEF TypeOK, ListTypeOK, Place, Return
<1>2. Quiet(t)
  BY DEF Quiet, SameFor, SameRun, TypeOK, ListTypeOK, Return, EndRound, Goto, Set
<1>3. ThreadOK(t)' /\ WalkOK(t)'
  BY <1>1, ReturnThread
<1>4. pc'[t] = "idle"
  BY DEF Return, EndRound, Goto, TypeOK, ListTypeOK
<1> QED
  BY <1>1, <1>2, <1>3, <1>4, QuietStep

\* Steps of insert and remove that only move on.
LEMMA MoveStep ==
  ASSUME IInv, NEW t \in Thread, NEW l \in Place \ {"idle", "walk", "store", "crash", "assign"},
         Goto(t, l), UNCHANGED <<sort, reload, heap, req, curr, next, call, casLock, crashed, ops, stable>>,
         UNCHANGED countVars, UNCHANGED <<value, newValue, found, old>>,
         prev' \in [Thread -> Pointer], \A u \in Thread \ {t} : prev'[u] = prev[u],
         pc[t] \notin {"idle", "store", "crash"}, kind[t] \in {"insert", "remove"},
         OpOK(t)', LocalsOK(t)', NodeOK(t)', l # "qcas"
  PROVE  IInv'
<1> USE DEF IInv, heap, casLock, req, countVars
<1>1. TypeOK'
  BY DEF TypeOK, ListTypeOK, Goto
<1>2. Quiet(t)
  BY DEF Quiet, SameFor, SameRun, TypeOK, ListTypeOK, Goto
<1>3. pc'[t] = l
  BY DEF Goto, TypeOK, ListTypeOK
<1>4. CallOK(t)'
  BY <1>3 DEF CallOK, InCall
<1>5. WalkOK(t)'
  BY UpdateWalk DEF TypeOK, ListTypeOK
<1> QED
  BY <1>1, <1>2, <1>3, <1>4, <1>5, QuietStep DEF ThreadOK

-----------------------------------------------------------------------------
(* The walks of insert and remove, and what follows them.                  *)

\* The walk of an insert or of a remove.
LEMMA UpdateWalkStep ==
  ASSUME IInv, NEW t \in Thread, NEW STATE stop,
         Walk(t, stop), UNCHANGED <<countVars, mapVars>>, kind[t] \in {"insert", "remove"},
         stop /\ sort = "map" => keyOf[curr[t]] = arg[t]
  PROVE  IInv'
<1> USE DEF IInv, Walk
<1>0. pc[t] = "walk" /\ UNCHANGED <<sort, reload, link, keyOf, free, owner, stored, crashed, ops, stable>>
  BY DEF heap, casLock
<1>1. CASE curr[t] = Null
  BY <1>1, AgainStep DEF countVars, TypeOK
<1>2. CASE curr[t] # Null /\ (curr[t] = ListTail \/ stop)
  <2>1. Goto(t, "found") /\ UNCHANGED <<kind, arg, node, curr, prev, next, call>>
    BY <1>2 DEF req, locals
  <2>2. pc'[t] = "found"
    BY <2>1 DEF Goto, TypeOK, ListTypeOK
  <2>3. Public' = Public
    BY <1>0, <2>1 DEF Public, Private, Storing
  <2>4. OpOK(t)' /\ NodeOK(t)'
    BY <1>0, <2>1, <2>2 DEF OpOK, NodeOK, Inserting, Removing, InCall, NoLinks
  <2>5. LocalsOK(t)'
    BY <1>0, <1>2, <2>1, <2>2, <2>3 DEF LocalsOK, AtRemove, InCall
  <2> QED
    BY <1>0, <2>1, <2>4, <2>5, MoveStep DEF TypeOK, ListTypeOK, Place, req, heap, casLock, mapVars
<1>3. CASE curr[t] # Null /\ ~(curr[t] = ListTail \/ stop)
  <2>1. /\ curr' = [curr EXCEPT ![t] = link["next"][curr[t]]]
        /\ UNCHANGED <<pc, kind, arg, node, prev, next, call>>
    BY <1>3 DEF Set, req
  <2>2. curr[t] \in Public /\ link["next"][curr[t]] \in (Public \ {ListHead}) \cup {Null}
    BY <1>3 DEF LocalsOK, PublicLinks
  <2>3. TypeOK'
    BY <1>0, <2>1, <2>2, PublicFacts DEF TypeOK, ListTypeOK, Pointer, countVars, mapVars
  <2>4. Quiet(t)
    BY <1>0, <2>1 DEF Quiet, SameFor, SameRun, TypeOK, ListTypeOK, countVars
  <2>5. curr'[t] = link["next"][curr[t]]
    BY <2>1 DEF TypeOK, ListTypeOK
  <2>6. OpOK(t)' /\ NodeOK(t)' /\ CallOK(t)'
    BY <1>0, <2>1 DEF OpOK, NodeOK, CallOK, Inserting, Removing, InCall, NoLinks
  <2>7. LocalsOK(t)'
    BY <1>0, <2>1, <2>2, <2>4, <2>5, QuietModest DEF LocalsOK, AtRemove, InCall
  <2>8. WalkOK(t)'
    BY <1>0, <2>1, UpdateWalk DEF countVars
  <2> QED
    BY <1>0, <2>1, <2>3, <2>4, <2>6, <2>7, <2>8, QuietStep DEF ThreadOK
<1> QED
  BY <1>1, <1>2, <1>3

\* WalkSorted, SortedList.h.
LEMMA WalkSortedStep ==
  ASSUME IInv, NEW t \in Thread, WalkSorted(t), UNCHANGED <<countVars, mapVars>>
  PROVE  IInv'
<1>1. kind[t] \in {"insert", "remove"}
  BY DEF IInv, OpOK, WalkSorted, Walk, TypeOK
<1> QED
  BY <1>1, UpdateWalkStep DEF WalkSorted

\* WalkUpdate, HashMap.h.
LEMMA WalkUpdateStep ==
  ASSUME IInv, NEW t \in Thread, WalkUpdate(t), UNCHANGED countVars
  PROVE  IInv'
<1>1. kind[t] \in {"insert", "remove"}
  BY DEF IInv, OpOK, WalkUpdate, Walk, TypeOK
<1> QED
  BY <1>1, UpdateWalkStep DEF WalkUpdate

\* The place has been found.
LEMMA MoveFrom ==
  ASSUME IInv, NEW t \in Thread, NEW l \in {"checkPrev", "delete"},
         Goto(t, l), UNCHANGED <<sort, reload, heap, req, locals, casLock, crashed, ops, stable>>,
         UNCHANGED <<countVars, mapVars>>, pc[t] = "found", curr[t] # Null,
         l = "checkPrev" => Inserting(t) /\ (sort = "map" => curr[t] = ListTail),
         l = "delete" => Removing(t) /\ curr[t] \in Node /\ keyOf[curr[t]] = arg[t]
  PROVE  IInv'
<1> USE DEF IInv
<1>0. UNCHANGED <<sort, reload, link, keyOf, free, owner, stored, kind, arg, node, curr, prev, next, call>>
  BY DEF heap, casLock, req, locals
<1>1. pc'[t] = l
  BY DEF Goto, TypeOK, ListTypeOK
<1>2. Public' = Public
  BY <1>0 DEF Public, Private, Storing
<1>3. OpOK(t)'
  BY <1>0, <1>1 DEF OpOK, Inserting, Removing
<1>4. NodeOK(t)'
  BY <1>0, <1>1 DEF NodeOK, Inserting, Removing, InCall, NoLinks
<1>5. LocalsOK(t)'
  BY <1>0, <1>1, <1>2 DEF LocalsOK, AtRemove, InCall, Removing, Inserting
<1> QED
  BY <1>0, <1>3, <1>4, <1>5, MoveStep DEF TypeOK, ListTypeOK, Place, Inserting, Removing, req, heap, casLock, mapVars

\* The tests at the place found.
LEMMA FoundStep ==
  ASSUME IInv, NEW t \in Thread,
         \/ InsertFound(t) /\ UNCHANGED <<countVars, mapVars>>
         \/ ListRemoveFound(t) /\ UNCHANGED <<countVars, mapVars>>
         \/ InsertAtTail(t) /\ UNCHANGED countVars
         \/ MapRemoveFound(t) /\ UNCHANGED countVars
  PROVE  IInv'
<1> USE DEF IInv
<1>0. /\ pc[t] = "found" /\ kind[t] \in {"insert", "remove"} /\ UNCHANGED <<countVars, mapVars>>
      /\ UNCHANGED <<sort, reload, heap, casLock, crashed, ops, stable>>
      /\ n_val' = n_val /\ n_val \in [Thread -> Nat] /\ result' = result
  BY DEF InsertFound, ListRemoveFound, InsertAtTail, MapRemoveFound, mapVars, countVars, TypeOK
<1>1. curr[t] # Null /\ (curr[t] # ListTail => curr[t] \in Node)
  BY <1>0 DEF LocalsOK, Public, AnyNode
<1>2. CASE Again(t)
  BY <1>0, <1>2, AgainStep
<1>3. CASE Return(t) /\ kind[t] = "remove"
  <2>1. node[t] = Null /\ stable[t] = {} /\ n_val[t] = 0
    BY <1>3 DEF OpOK, WalkOK, Inserting
  <2> QED
    BY <1>0, <1>3, <2>1, ReturnStep DEF TypeOK, ListTypeOK, mapVars
<1>4. CASE /\ Goto(t, "checkPrev") /\ kind[t] = "insert" /\ UNCHANGED <<req, locals>>
           /\ sort = "map" => curr[t] = ListTail
  BY <1>0, <1>1, <1>4, MoveFrom DEF Place, Inserting
<1>5. CASE /\ Goto(t, "delete") /\ kind[t] = "remove" /\ UNCHANGED <<req, locals>>
           /\ curr[t] # ListTail /\ keyOf[curr[t]] = arg[t]
  BY <1>0, <1>1, <1>5, MoveFrom DEF Place, Removing
<1> QED
  BY <1>0, <1>1, <1>2, <1>3, <1>4, <1>5 DEF InsertFound, ListRemoveFound, InsertAtTail, MapRemoveFound, LocalsOK

\* The value is loaded for the cas.
LEMMA AssignLoadStep ==
  ASSUME IInv, NEW t \in Thread, AssignLoad(t), UNCHANGED countVars
  PROVE  IInv'
<1> USE DEF IInv
<1>0. /\ pc[t] = "found" /\ kind[t] = "insert" /\ curr[t] \in Node
      /\ UNCHANGED <<sort, reload, link, keyOf, free, owner, stored, kind, arg, node, curr, prev, next, call,
                     crashed, ops, stable, n_val, result, value, newValue, found>>
      /\ pc' = [pc EXCEPT ![t] = "assign"] /\ old' = [old EXCEPT ![t] = value[curr[t]]]
  BY DEF AssignLoad, LocalsOK, Public, AnyNode, heap, casLock, req, locals, countVars, Goto, Set
<1>1. pc'[t] = "assign"
  BY <1>0 DEF TypeOK, ListTypeOK
<1>2. TypeOK'
  BY <1>0 DEF TypeOK, ListTypeOK, Place
<1>3. Quiet(t)
  BY <1>0 DEF Quiet, SameFor, SameRun, TypeOK, ListTypeOK
<1>4. OpOK(t)' /\ NodeOK(t)' /\ CallOK(t)'
  BY <1>0, <1>1 DEF OpOK, NodeOK, CallOK, Inserting, Removing, InCall, NoLinks
<1>5. LocalsOK(t)'
  BY <1>0, <1>1, <1>3, QuietModest DEF LocalsOK, AtRemove, InCall, Removing
<1>6. WalkOK(t)'
  BY <1>0, UpdateWalk
<1> QED
  BY <1>0, <1>1, <1>2, <1>3, <1>4, <1>5, <1>6, QuietStep DEF ThreadOK

\* CheckPrev: the place has a node before it.
LEMMA CheckPrevStep ==
  ASSUME IInv, NEW t \in Thread, CheckPrev(t), UNCHANGED <<countVars, mapVars>>
  PROVE  IInv'
<1> USE DEF IInv
<1>0. /\ pc[t] = "checkPrev" /\ kind[t] = "insert" /\ curr[t] \in Public
      /\ UNCHANGED <<sort, reload, link, keyOf, free, owner, stored, crashed, ops, stable>>
      /\ n_val \in [Thread -> Nat] /\ n_val' = n_val /\ result' = result
  BY DEF CheckPrev, OpOK, LocalsOK, heap, casLock, Inserting, TypeOK, countVars
<1>1. CASE Again(t)
  BY <1>0, <1>1, AgainStep DEF heap, casLock
<1>2. CASE ~Again(t)
  <2>1. /\ link["prev"][curr[t]] # Null
        /\ prev' = [prev EXCEPT ![t] = link["prev"][curr[t]]]
        /\ Goto(t, "checkNext") /\ UNCHANGED <<kind, arg, node, curr, next, call>>
    BY <1>2 DEF CheckPrev, req, Set
  <2>2. link["prev"][curr[t]] \in (Public \ {ListTail}) \cup {Null}
    BY <1>0 DEF PublicLinks
  <2>3. pc'[t] = "checkNext" /\ prev'[t] = link["prev"][curr[t]] /\ prev' \in [Thread -> Pointer]
    BY <2>1, <2>2, PublicFacts DEF Goto, TypeOK, ListTypeOK, Pointer
  <2>4. Public' = Public
    BY <1>0, <2>1 DEF Public, Private, Storing
  <2>5. OpOK(t)' /\ NodeOK(t)'
    BY <1>0, <2>1, <2>3 DEF OpOK, NodeOK, Inserting, Removing, InCall, NoLinks
  <2>6. LocalsOK(t)'
    BY <1>0, <2>1, <2>2, <2>3, <2>4 DEF LocalsOK, AtRemove, InCall
  <2> QED
    BY <1>0, <2>1, <2>3, <2>5, <2>6, MoveStep DEF Place, TypeOK, ListTypeOK, req, heap, casLock, mapVars
<1> QED
  BY <1>1, <1>2

-----------------------------------------------------------------------------
(* delete_node, and the comparison of qcas.                                *)

\* Facts about a node in the list.
LEMMA OnFacts ==
  ASSUME IInv
  PROVE  /\ On \subseteq Public /\ ListHead \in On /\ Null \notin On
         /\ \A n \in On : link["next"][n] # Null => link["next"][n] \in On
         /\ \A n \in On \ {ListTail} : link["next"][n] \in On /\ link["next"][n] # Null
         /\ \A c \in On \ {ListHead} :
              \E m \in On \ {ListTail} : link["next"][m] = c /\ Behind(c) = m
<1>1. /\ link["next"] \in [AnyNode -> Pointer] /\ ListHead \in AnyNode
      /\ On = Reach(link["next"], ListHead) /\ Null \notin AnyNode
  BY NullApart DEF IInv, TypeOK, ListTypeOK, On, From
<1>2. /\ On \subseteq Public /\ ListHead \in On /\ Null \notin On
      /\ \A n \in On : link["next"][n] # Null => link["next"][n] \in On
  BY <1>1, ReachClosed DEF IInv, Chain
<1>3. \A n \in On \ {ListTail} : link["next"][n] \in On /\ link["next"][n] # Null
  BY <1>2 DEF IInv, Chain
<1>4. ASSUME NEW c \in On \ {ListHead}
      PROVE  \E m \in On \ {ListTail} : link["next"][m] = c /\ Behind(c) = m
  <2>1. PICK m \in On : link["next"][m] = c
    BY <1>1, ReachPred
  <2>2. m # ListTail
    BY <1>2, <2>1 DEF IInv, PublicLinks
  <2> QED
    BY <2>1, <2>2 DEF IInv, Chain
<1> QED
  BY <1>2, <1>3, <1>4

\* Only ListHead is in the list without a prev.
LEMMA OnHasPrev ==
  ASSUME IInv, NEW c \in On, c # ListHead
  PROVE  link["prev"][c] # Null
<1> SUFFICES ASSUME link["prev"][c] = Null
             PROVE  FALSE
  OBVIOUS
<1>1. owner # NoThread => owner \in Thread /\ curr[owner] # Null
  BY DEF IInv, TypeOK, ListTypeOK, OpOK, LocalsOK
<1>2. Behind(c) # Null /\ Behind(c) # link["prev"][c]
  BY OnFacts
<1>3. owner # NoThread /\ stored = 1
  BY <1>2 DEF Behind
<1>4. CASE Inserting(owner)
  <2>1. c = curr[owner] /\ InsertStored(owner)
    BY <1>2, <1>3, <1>4 DEF Behind, IInv, StoredOK
  <2> QED
    BY <2>1, OnFacts DEF InsertStored
<1>5. CASE ~Inserting(owner)
  <2>1. c = next[owner] /\ RemoveStored(owner)
    BY <1>2, <1>3, <1>5 DEF Behind, IInv, StoredOK
  <2> QED
    BY <1>1, <1>3, <2>1 DEF RemoveStored
<1> QED
  BY <1>4, <1>5

\* A node whose prev is null has been taken out, its next is null as well.
LEMMA NoPrevNoNext ==
  ASSUME IInv, NEW c \in Public \cap Node, link["prev"][c] = Null
  PROVE  link["next"][c] = Null
<1>3. c \notin On
  BY OnHasPrev, NullApart
<1>4. CASE NoLinks(c)
  BY <1>4 DEF NoLinks
<1>5. CASE Leaving(c)
  <2>1. RemoveStored(owner) /\ c = curr[owner]
    BY <1>5 DEF Leaving, IInv, StoredOK, Removing, Inserting
  <2> QED
    BY <2>1, OnFacts DEF RemoveStored
<1> QED
  BY <1>3, <1>4, <1>5 DEF IInv, Gone

\* LoadPrev: if prev is null then next is null and stays so.
LEMMA LoadPrevStep ==
  ASSUME IInv, NEW t \in Thread, LoadPrev(t), UNCHANGED <<countVars, mapVars>>
  PROVE  IInv'
<1> USE DEF IInv
<1>0. /\ pc[t] = "delete" /\ kind[t] = "remove" /\ curr[t] \in Public \cap Node
      /\ keyOf[curr[t]] = arg[t]
      /\ UNCHANGED <<sort, reload, link, keyOf, free, owner, stored, crashed, ops, stable, kind, arg, node,
                     curr, next, call>>
      /\ prev' = [prev EXCEPT ![t] = link["prev"][curr[t]]] /\ Goto(t, "delete2")
  BY DEF LoadPrev, OpOK, LocalsOK, AtRemove, Removing, heap, casLock, req, Set, Public, AnyNode
<1>1. link["prev"][curr[t]] \in (Public \ {ListTail}) \cup {Null}
  BY <1>0 DEF PublicLinks
<1>2. pc'[t] = "delete2" /\ prev'[t] = link["prev"][curr[t]] /\ prev' \in [Thread -> Pointer]
  BY <1>0, <1>1, PublicFacts DEF Goto, TypeOK, ListTypeOK, Pointer
<1>3. Public' = Public
  BY <1>0 DEF Public, Private, Storing
<1>4. OpOK(t)' /\ NodeOK(t)'
  BY <1>0, <1>2 DEF OpOK, NodeOK, Inserting, Removing, InCall, NoLinks
<1>5. LocalsOK(t)'
  BY <1>0, <1>1, <1>2, <1>3, NoPrevNoNext, NullApart DEF LocalsOK, AtRemove, InCall
<1> QED
  BY <1>0, <1>2, <1>4, <1>5, MoveStep DEF Place, TypeOK, ListTypeOK, req, heap, casLock, mapVars

\* A word of a qcas on nodes or null.
LEMMA WordType ==
  ASSUME NEW f \in {"next", "prev"}, NEW n \in Pointer, NEW a \in Pointer, NEW b \in Pointer
  PROVE  Word(f, n, a, b) \in CasWord
BY DEF Word, CasWord

\* LoadNext: the qcas of a remove is put together.
LEMMA LoadNextStep ==
  ASSUME IInv, NEW t \in Thread, LoadNext(t), UNCHANGED <<countVars, mapVars>>
  PROVE  IInv'
<1> USE DEF IInv
<1>0. /\ pc[t] = "delete2" /\ kind[t] = "remove" /\ curr[t] \in Public \cap Node
      /\ keyOf[curr[t]] = arg[t]
      /\ UNCHANGED <<sort, reload, link, keyOf, free, owner, stored, crashed, ops, stable>>
      /\ n_val \in [Thread -> Nat] /\ n_val' = n_val /\ result' = result
  BY DEF LoadNext, OpOK, LocalsOK, AtRemove, Removing, heap, casLock, req, Set, Public, AnyNode,
         TypeOK, countVars
<1>1. CASE Again(t)
  BY <1>0, <1>1, AgainStep DEF heap, casLock
<1>2. CASE ~Again(t)
  <2> DEFINE n == link["next"][curr[t]]
             ws == <<Word("next", prev[t], curr[t], n), Word("prev", n, curr[t], prev[t]),
                     Word("next", curr[t], n, Null), Word("prev", curr[t], prev[t], Null)>>
  <2>1. /\ prev[t] # Null \/ n # Null
        /\ next' = [next EXCEPT ![t] = n] /\ call' = [call EXCEPT ![t] = ws]
        /\ pc' = [pc EXCEPT ![t] = "qcas"] /\ UNCHANGED <<kind, arg, node, curr, prev>>
    BY <1>2 DEF LoadNext, req, Set, Goto
  <2>2. n \in (Public \ {ListHead}) \cup {Null} /\ n \in Pointer /\ prev[t] \in Pointer /\ curr[t] \in Pointer /\ Null \in Pointer
    BY <1>0, PublicFacts DEF PublicLinks, Pointer, TypeOK, ListTypeOK
  <2>3. prev[t] # Null
    BY <1>0, <2>1 DEF LocalsOK
  <2>4. ws \in Seq(CasWord)
    BY <2>2, WordType
  <2>5. /\ pc'[t] = "qcas" /\ next'[t] = n /\ call'[t] = ws
        /\ next' \in [Thread -> Pointer] /\ call' \in [Thread -> Seq(CasWord)]
    <3> HIDE DEF n, ws
    <3> QED
      BY <2>1, <2>2, <2>4 DEF TypeOK, ListTypeOK
  <2>6. TypeOK'
    BY <1>0, <2>1, <2>5 DEF TypeOK, ListTypeOK, Place, countVars, mapVars
  <2>7. Quiet(t)
    <3> HIDE DEF n, ws
    <3> QED
      BY <1>0, <2>1 DEF Quiet, SameFor, SameRun, TypeOK, ListTypeOK, countVars
  <2>8. OpOK(t)' /\ NodeOK(t)'
    BY <1>0, <2>1, <2>5 DEF OpOK, NodeOK, Inserting, Removing, InCall, NoLinks
  <2>9. CallOK(t)'
    BY <1>0, <2>1, <2>5 DEF CallOK, RemoveCall, Inserting, Word
  <2>10. LocalsOK(t)'
    BY <1>0, <2>1, <2>2, <2>3, <2>5, <2>7, QuietModest, NullApart DEF LocalsOK, AtRemove, InCall, Inserting
  <2>11. WalkOK(t)'
    BY <1>0, <2>1, UpdateWalk
  <2> QED
    BY <1>0, <2>5, <2>6, <2>7, <2>8, <2>9, <2>10, <2>11, QuietStep DEF ThreadOK
<1> QED
  BY <1>1, <1>2

\* A word of a call that has a node and holds the old value.
Matches(w) == w.n # Null /\ ~Differs(w)

\* What the words that && reaches say.
LEMMA CallWords ==
  ASSUME IInv, NEW t \in Thread, InCall(t)
  PROVE  /\ Inserting(t) \/ Removing(t)
         /\ Inserting(t) => call[t] = InsertCall(t) /\ DOMAIN call[t] = {1, 2}
         /\ ~Inserting(t) => call[t] = RemoveCall(t) /\ DOMAIN call[t] = {1, 2, 3, 4}
<1>1. Inserting(t) \/ Removing(t)
  BY DEF IInv, OpOK, InCall
<1>2. CASE Inserting(t)
  <2>1. call[t] = InsertCall(t)
    BY <1>2 DEF IInv, CallOK
  <2>2. DOMAIN InsertCall(t) = {1, 2}
    BY DEF InsertCall
  <2> QED
    BY <1>1, <1>2, <2>1, <2>2
<1>3. CASE ~Inserting(t)
  <2>1. call[t] = RemoveCall(t)
    BY <1>3 DEF IInv, CallOK
  <2>2. DOMAIN RemoveCall(t) = {1, 2, 3, 4}
    BY DEF RemoveCall
  <2> QED
    BY <1>1, <1>3, <2>1, <2>2
<1> QED
  BY <1>2, <1>3

\* While nobody holds the lock, a public node with next is in the list.
LEMMA LinkedIsOn ==
  ASSUME IInv, owner = NoThread, NEW p \in Public, NEW c, link["next"][p] = c, c # Null
  PROVE  p \in On /\ c \in On /\ p # ListTail
<1>1. p \in On
  BY DEF IInv, Gone, NoLinks, Leaving
<1> QED
  BY <1>1, OnFacts DEF IInv, PublicLinks

\* No qcas that && stops at the first difference has the address of a null node.
LEMMA NoNullWord ==
  ASSUME IInv, NEW t \in Thread, pc[t] = "qcas", owner = NoThread, ShortCircuit,
         Inserting(t) => prev[t] # Null,
         NEW i \in DOMAIN call[t],
         \A j \in 1 .. i - 1 : Matches(call[t][j])
  PROVE  call[t][i].n # Null
<1>0. InCall(t) /\ curr[t] # Null
  BY DEF InCall, IInv, LocalsOK
<1>1. CASE Inserting(t)
  <2>1. prev[t] # Null /\ call[t] = InsertCall(t) /\ i \in {1, 2}
    BY <1>0, <1>1, CallWords DEF IInv, LocalsOK
  <2> QED
    BY <1>0, <2>1 DEF InsertCall, Word
<1>2. CASE ~Inserting(t)
  <2>1. /\ prev[t] # Null /\ call[t] = RemoveCall(t) /\ i \in {1, 2, 3, 4}
        /\ prev[t] \in Public /\ curr[t] \in Node
        /\ next[t] = Null => link["next"][curr[t]] = Null
    BY <1>0, <1>2, CallWords DEF IInv, LocalsOK, InCall, AtRemove
  <2>2. ASSUME i = 2, next[t] = Null
        PROVE  FALSE
    <3>1. Matches(call[t][1])
      BY <2>2
    <3>2. link["next"][prev[t]] = curr[t]
      BY <2>1, <3>1 DEF Matches, Differs, RemoveCall, Word
    <3>3. curr[t] \in On /\ curr[t] # ListTail
      BY <1>0, <2>1, <3>2, LinkedIsOn, NullApart
    <3> QED
      BY <2>1, <2>2, <3>3, OnFacts
  <2> QED
    BY <1>0, <2>1, <2>2 DEF RemoveCall, Word
<1> QED
  BY <1>1, <1>2

\* The words are compared: what the call finds when all are as expected.
LEMMA CompareAll ==
  ASSUME IInv, NEW t \in Thread, pc[t] = "qcas",
         NEW reached,
         reached = {i \in DOMAIN call[t] : ShortCircuit =>
                     \A j \in 1 .. i - 1 : call[t][j].n # Null /\ ~Differs(call[t][j])},
         \A i \in reached : call[t][i].n # Null /\ ~Differs(call[t][i])
  PROVE  \A i \in DOMAIN call[t] : call[t][i].n # Null /\ ~Differs(call[t][i])
<1> DEFINE D == DOMAIN call[t]
           M(i) == call[t][i].n # Null /\ ~Differs(call[t][i])
<1>0. D \in {{1, 2}, {1, 2, 3, 4}}
  BY CallWords DEF InCall
<1>1. \A i \in D : (\A j \in 1 .. i - 1 : M(j)) => M(i)
  OBVIOUS
<1> HIDE DEF D, M
<1>2. 1 .. 1 - 1 = {} /\ 1 .. 2 - 1 = {1} /\ 1 .. 3 - 1 = {1, 2} /\ 1 .. 4 - 1 = {1, 2, 3}
  OBVIOUS
<1>3. M(1)
  BY <1>0, <1>1, <1>2
<1>4. M(2)
  BY <1>0, <1>1, <1>2, <1>3
<1>5. 3 \in D => M(3)
  BY <1>1, <1>2, <1>3, <1>4
<1>6. 3 \in D /\ 4 \in D => M(4)
  BY <1>1, <1>2, <1>3, <1>4, <1>5
<1>7. \A i \in D : M(i)
  BY <1>0, <1>3, <1>4, <1>5, <1>6
<1> QED
  BY <1>7 DEF D, M

\* A comparison that meets a word in a null node.
LEMMA QcasCrashStep ==
  ASSUME IInv, NEW t \in Thread, pc[t] = "qcas", Crash(t),
         ShortCircuit => reload /\ sort = "list" /\ Inserting(t) /\ prev[t] = Null,
         UNCHANGED <<sort, reload, heap, owner, stored, ops, stable, countVars, mapVars>>
  PROVE  IInv'
<1> USE DEF IInv
<1>0. /\ kind[t] \in {"insert", "remove"}
      /\ UNCHANGED <<sort, reload, link, keyOf, free, owner, stored, ops, stable, kind, arg, node, curr, prev,
                     next, call, n_val>>
      /\ pc' = [pc EXCEPT ![t] = "crash"] /\ crashed'
  BY DEF OpOK, heap, req, locals, Crash, Goto, countVars, Inserting, Removing
<1>1. TypeOK'
  BY <1>0 DEF TypeOK, ListTypeOK, Place, Crash, countVars, mapVars
<1>2. pc'[t] = "crash"
  BY <1>0 DEF TypeOK, ListTypeOK
<1>3. Quiet(t)
  BY <1>0 DEF Quiet, SameFor, SameRun, TypeOK, ListTypeOK
<1>4. OpOK(t)' /\ NodeOK(t)' /\ CallOK(t)'
  BY <1>0, <1>2 DEF OpOK, NodeOK, CallOK, Inserting, Removing, InCall, NoLinks
<1>5. LocalsOK(t)'
  BY <1>0, <1>2, <1>3, QuietModest DEF LocalsOK, AtRemove, InCall
<1>6. WalkOK(t)'
  BY <1>0, UpdateWalk
<1>7. CrashOK'
  <2>1. \A u \in Thread : /\ pc'[u] = (IF u = t THEN "crash" ELSE pc[u])
                          /\ Inserting(u)' <=> Inserting(u)
    BY <1>0 DEF TypeOK, ListTypeOK, Inserting
  <2>2. crashed' <=> \E u \in Thread : pc'[u] = "crash"
    BY <1>0, <2>1
  <2>3. ASSUME ShortCircuit, NEW u \in Thread, pc'[u] = "crash"
        PROVE  reload' /\ sort' = "list" /\ Inserting(u)' /\ prev'[u] = Null
    BY <1>0, <2>1, <2>3 DEF CrashOK
  <2> QED
    BY <2>2, <2>3 DEF CrashOK
<1> QED
  BY <1>1, <1>3, <1>4, <1>5, <1>6, <1>7, QuietModest, ModestStep DEF ThreadOK

\* The lock is taken: what it guards is as the call expects it.
LEMMA Compared ==
  ASSUME IInv, NEW t \in Thread, pc[t] = "qcas", owner = NoThread,
         \A i \in DOMAIN call[t] : call[t][i].n # Null /\ ~Differs(call[t][i])
  PROVE  LET p == prev[t]  c == curr[t]  n == next[t] IN
         /\ p \in On /\ c \in On /\ link["next"][p] = c /\ link["prev"][c] = p
         /\ ~Inserting(t) => n \in On /\ link["next"][c] = n /\ link["prev"][n] = c
<1>0. InCall(t) /\ curr[t] # Null
  BY DEF InCall, IInv, LocalsOK
<1>1. CASE Inserting(t)
  <2>1. call[t] = InsertCall(t) /\ DOMAIN call[t] = {1, 2}
    BY <1>0, <1>1, CallWords
  <2>2. prev[t] # Null /\ link["next"][prev[t]] = curr[t] /\ link["prev"][curr[t]] = prev[t]
    BY <2>1 DEF InsertCall, Word, Differs
  <2> QED
    BY <1>0, <1>1, <2>2, LinkedIsOn DEF IInv, LocalsOK
<1>2. CASE ~Inserting(t)
  <2>1. call[t] = RemoveCall(t) /\ DOMAIN call[t] = {1, 2, 3, 4}
    BY <1>0, <1>2, CallWords
  <2>2. /\ prev[t] # Null /\ link["next"][prev[t]] = curr[t] /\ link["prev"][curr[t]] = prev[t]
        /\ next[t] # Null /\ link["next"][curr[t]] = next[t] /\ link["prev"][next[t]] = curr[t]
    BY <2>1 DEF RemoveCall, Word, Differs
  <2>3. prev[t] \in On /\ curr[t] \in On
    BY <1>0, <2>2, LinkedIsOn DEF IInv, LocalsOK
  <2> QED
    BY <1>2, <2>2, <2>3, OnFacts
<1> QED
  BY <1>1, <1>2

\* All words are as expected: the lock is taken.
LEMMA AcquireStep ==
  ASSUME IInv, NEW t \in Thread, pc[t] = "qcas", owner = NoThread,
         \A i \in DOMAIN call[t] : call[t][i].n # Null /\ ~Differs(call[t][i]),
         owner' = t, Goto(t, "store"), UNCHANGED <<req, locals, crashed>>,
         UNCHANGED <<sort, reload, heap, stored, ops, stable>>, UNCHANGED <<countVars, mapVars>>
  PROVE  IInv'
<1> USE DEF IInv
<1>0. /\ kind[t] \in {"insert", "remove"} /\ InCall(t) /\ stored = 0 /\ t # NoThread
      /\ UNCHANGED <<sort, reload, link, keyOf, free, stored, ops, stable, crashed, kind, arg, node,
                     curr, prev, next, call, n_val>>
      /\ pc' = [pc EXCEPT ![t] = "store"]
  BY ListAssumption DEF OpOK, StoredOK, heap, req, locals, Goto, countVars, Inserting, Removing, InCall
<1>1. TypeOK'
  BY <1>0 DEF TypeOK, ListTypeOK, Place, countVars, mapVars
<1>2. pc'[t] = "store" /\ \A u \in Thread \ {t} : SameFor(u)
  BY <1>0 DEF SameFor, SameRun, TypeOK, ListTypeOK
<1>3. Public' = Public /\ On' = On
  BY <1>0 DEF Public, Private, Storing, On, From
<1>4. \A u \in Thread \ {t} : ThreadOK(u)'
  <2> SUFFICES ASSUME NEW u \in Thread \ {t}
               PROVE  ThreadOK(u)'
    OBVIOUS
  <2>1. owner' = u <=> owner = u
    BY ListAssumption
  <2> QED
    BY <1>0, <1>2, <1>3, <2>1, OtherThread DEF ThreadOK, SameLinks, SameFor
<1>5. OpOK(t)' /\ NodeOK(t)' /\ CallOK(t)'
  BY <1>0, <1>2 DEF OpOK, NodeOK, CallOK, Inserting, Removing, InCall, NoLinks, InsertCall, RemoveCall, Word
<1>6. LocalsOK(t)'
  BY <1>0, <1>2, <1>3 DEF LocalsOK, AtRemove, InCall, Inserting, Removing
<1>7. NodesApart' /\ NodesTaken' /\ PublicLinks' /\ FreeLinks'
  BY <1>0, <1>3 DEF NodesApart, NodesTaken, PublicLinks, FreeLinks, NoLinks
<1>8. Chain' /\ Gone'
  BY <1>0, <1>3 DEF Chain, Gone, Behind, Leaving, NoLinks
<1>9. StoredOK'
  BY <1>0, <1>3, Compared DEF StoredOK, InsertStored, RemoveStored, Inserting
<1>10. \A u \in Thread : WalkOK(u)'
  <2> SUFFICES ASSUME NEW u \in Thread
               PROVE  WalkOK(u)'
    OBVIOUS
  <2>1. CASE u = t
    BY <1>0, <2>1, UpdateWalk
  <2>2. CASE u # t
    <3>1. InList' = InList /\ From(curr[u])' = From(curr[u]) /\ Alive(curr[u])' = Alive(curr[u])
      BY <1>0, <1>3 DEF InList, From, Alive
    <3>2. WalkOK(u) /\ SameFor(u) /\ keyOf' = keyOf
      BY <1>0, <1>2, <2>2
    <3> HIDE DEF IInv
    <3> QED
      BY <3>1, <3>2 DEF WalkOK, SameFor, SameRun
  <2> QED
    BY <2>1, <2>2
<1>11. CrashOK'
  BY <1>0, <1>2, CrashKept DEF SameFor
<1> QED
  BY <1>1, <1>4, <1>5, <1>6, <1>7, <1>8, <1>9, <1>10, <1>11 DEF ThreadOK

\* QcasCompare, by the outcome of the comparison.
LEMMA QcasCompareStep ==
  ASSUME IInv, NEW t \in Thread, QcasCompare(t), UNCHANGED <<countVars, mapVars>>
  PROVE  IInv'
<1> DEFINE reached == {i \in DOMAIN call[t] : ShortCircuit =>
                         \A j \in 1 .. i - 1 : call[t][j].n # Null /\ ~Differs(call[t][j])}
<1>0. /\ pc[t] = "qcas" /\ owner = NoThread
      /\ UNCHANGED <<sort, reload, heap, stored, ops, stable>>
      /\ n_val \in [Thread -> Nat] /\ n_val' = n_val /\ result' = result
  BY DEF QcasCompare, IInv, TypeOK, countVars
<1>1. CASE \E i \in reached : call[t][i].n = Null
  <2>1. Crash(t) /\ owner' = owner
    BY <1>1 DEF QcasCompare
  <2>2. ShortCircuit => Inserting(t) /\ prev[t] = Null
    BY <1>0, <1>1, NoNullWord DEF Matches
  <2>3. ShortCircuit => reload /\ sort = "list" /\ Inserting(t) /\ prev[t] = Null
    BY <1>0, <2>2 DEF IInv, LocalsOK, InCall
  <2> QED
    BY <1>0, <2>1, <2>3, QcasCrashStep
<1>2. CASE (\A i \in reached : call[t][i].n # Null) /\ \E i \in reached : Differs(call[t][i])
  <2>1. Again(t) /\ owner' = owner /\ crashed' = crashed
    BY <1>2 DEF QcasCompare
  <2>2. kind[t] # "count"
    BY <1>0 DEF IInv, OpOK, Inserting, Removing
  <2> QED
    BY <1>0, <2>1, <2>2, AgainStep DEF casLock
<1>3. CASE \A i \in reached : call[t][i].n # Null /\ ~Differs(call[t][i])
  <2>1. owner' = t /\ Goto(t, "store") /\ UNCHANGED <<req, locals, crashed>>
    BY <1>3 DEF QcasCompare
  <2>2. \A i \in DOMAIN call[t] : call[t][i].n # Null /\ ~Differs(call[t][i])
    BY <1>0, <1>3, CompareAll
  <2> QED
    BY <1>0, <2>1, <2>2, AcquireStep
<1> QED
  BY <1>1, <1>2, <1>3

-----------------------------------------------------------------------------
(* Steps that write to the links of the thread's own node.                 *)

\* Both links of one node are set.
LEMMA SetLinks ==
  ASSUME TypeOK, NEW m \in AnyNode, NEW a \in Pointer, NEW b \in Pointer,
         link' \in [{"next", "prev"} -> [AnyNode -> Pointer]],
         link'["next"] = [link["next"] EXCEPT ![m] = a],
         link'["prev"] = [link["prev"] EXCEPT ![m] = b]
  PROVE  /\ link'["next"][m] = a /\ link'["prev"][m] = b
         /\ \A n \in AnyNode \ {m} : SameLinks(n)
<1>1. link["next"] \in [AnyNode -> Pointer] /\ link["prev"] \in [AnyNode -> Pointer]
  BY DEF TypeOK, ListTypeOK
<1> QED
  BY <1>1 DEF SameLinks

\* A write to the thread's own node is modest.
LEMMA OwnModest ==
  ASSUME IInv, NEW t \in Thread, pc[t] # "store",
         UNCHANGED <<sort, reload, keyOf, free, node, owner, stored>>,
         \A u \in Thread \ {t} : SameFor(u),
         \A n \in AnyNode \ {node[t]} : SameLinks(n)
  PROVE  Modest(t) /\ NodesApart' /\ NodesTaken' /\ Public' = Public
<1> USE DEF IInv
<1>1. Public' = Public
  BY DEF Public, Private, Storing
<1>2. owner # t
  BY DEF OpOK
<1>3. node[t] \notin Public
  BY <1>2, NullApart DEF Public, Private, Storing, TypeOK, ListTypeOK
<1>4. \A n \in free : n # node[t] /\ n \in AnyNode
  BY NullApart DEF NodesTaken, TypeOK, ListTypeOK
<1>5. \A n \in free' : NoLinks(n)'
  BY <1>4 DEF FreeLinks, NoLinks, SameLinks
<1>6. \A u \in Thread \ {t} : Inserting(u) => SameLinks(node[u])
  <2> SUFFICES ASSUME NEW u \in Thread \ {t}, Inserting(u)
               PROVE  SameLinks(node[u])
    OBVIOUS
  <2>1. node[u] # Null /\ node[u] \in AnyNode
    BY NullApart DEF OpOK, TypeOK, ListTypeOK
  <2> QED
    BY <2>1 DEF NodesApart
<1>7. \A n \in Public : SameLinks(n)
  BY <1>3 DEF Public
<1>8. NodesApart' /\ NodesTaken'
  BY DEF NodesApart, NodesTaken
<1> QED
  BY <1>1, <1>5, <1>6, <1>7, <1>8 DEF Modest

\* What is reached from a node, apart from itself, is reached from the next one.
LEMMA ReachNext ==
  ASSUME NEW nx \in [AnyNode -> Pointer], NEW x \in AnyNode, nx[x] # Null
  PROVE  Reach(nx, x) \subseteq Reach(nx, nx[x]) \cup {x}
<1>1. nx[x] \in AnyNode
  BY DEF Pointer
<1>2. Closed(nx, Reach(nx, nx[x]) \cup {x}) /\ Reach(nx, nx[x]) \cup {x} \subseteq AnyNode
  BY <1>1, ReachClosed DEF Closed
<1> QED
  BY <1>2, ReachLeast

\* LoadHead: an insert clears the links of its node.
LEMMA LoadHeadStep ==
  ASSUME IInv, NEW t \in Thread, LoadHead(t), UNCHANGED <<countVars, mapVars>>
  PROVE  IInv'
<1> USE DEF IInv
<1> DEFINE first == link["next"][ListHead]
<1>0. /\ pc[t] = "head" /\ owner # t
      /\ UNCHANGED <<sort, reload, keyOf, free, kind, arg, node, prev, next, call, owner, stored, crashed,
                     ops, stable, n_val>>
      /\ pc' = [pc EXCEPT ![t] = "walk"] /\ curr' = [curr EXCEPT ![t] = first]
  BY DEF LoadHead, Goto, Set, req, casLock, countVars, OpOK
<1>1. first \in On /\ first # Null /\ first # ListHead /\ first \in Public /\ first \in Pointer
  BY OnFacts, PublicFacts, NullApart DEF PublicLinks, Pointer
<1>2. /\ link' \in [{"next", "prev"} -> [AnyNode -> Pointer]]
      /\ \A n \in AnyNode \ {node[t]} : SameLinks(n)
      /\ Inserting(t) => NoLinks(node[t])'
  <2>1. CASE node[t] = Null
    BY <2>1 DEF LoadHead, SameLinks, TypeOK, ListTypeOK, OpOK
  <2>2. CASE node[t] # Null
    <3>1. /\ node[t] \in AnyNode /\ Null \in Pointer /\ node'[t] = node[t]
          /\ link' = [link EXCEPT !["next"][node[t]] = Null, !["prev"][node[t]] = Null]
      BY <1>0, <2>2, NullApart DEF LoadHead, TypeOK, ListTypeOK, Pointer
    <3>2. link["next"] \in [AnyNode -> Pointer] /\ link["prev"] \in [AnyNode -> Pointer]
      BY DEF TypeOK, ListTypeOK
    <3>3. /\ link'["next"] = [link["next"] EXCEPT ![node[t]] = Null]
          /\ link'["prev"] = [link["prev"] EXCEPT ![node[t]] = Null]
          /\ link' \in [{"next", "prev"} -> [AnyNode -> Pointer]]
      BY <3>1, <3>2 DEF TypeOK, ListTypeOK
    <3>4. PICK m \in AnyNode : m = node[t]
      BY <3>1
    <3>5. TypeOK
      OBVIOUS
    <3>6. /\ link'["next"] = [link["next"] EXCEPT ![m] = Null]
          /\ link'["prev"] = [link["prev"] EXCEPT ![m] = Null]
          /\ Null \in Pointer /\ link' \in [{"next", "prev"} -> [AnyNode -> Pointer]]
      BY <3>1, <3>3, <3>4
    <3> HIDE DEF IInv
    <3>7. /\ link'["next"][m] = Null /\ link'["prev"][m] = Null
          /\ \A n \in AnyNode \ {m} : SameLinks(n)
      BY <3>5, <3>6, SetLinks
    <3>8. m = node'[t]
      BY <3>1, <3>4
    <3>9. NoLinks(node[t])'
      BY <3>7, <3>8 DEF NoLinks
    <3> QED
      BY <3>3, <3>4, <3>7, <3>9
  <2> QED
    BY <2>1, <2>2
<1>3. TypeOK'
  BY <1>0, <1>1, <1>2 DEF TypeOK, ListTypeOK, Place, countVars, mapVars
<1>4. \A u \in Thread \ {t} : SameFor(u)
  BY <1>0 DEF SameFor, SameRun, TypeOK, ListTypeOK
<1>5. Modest(t) /\ NodesApart' /\ NodesTaken' /\ Public' = Public
  BY <1>0, <1>2, <1>4, OwnModest
<1>6. pc'[t] = "walk" /\ curr'[t] = first
  BY <1>0 DEF TypeOK, ListTypeOK
<1>7. OpOK(t)' /\ CallOK(t)'
  BY <1>0, <1>6 DEF OpOK, CallOK, Inserting, Removing, InCall
<1>8. NodeOK(t)'
  BY <1>0, <1>2, <1>6 DEF NodeOK, InCall, Inserting
<1>9. LocalsOK(t)'
  BY <1>0, <1>1, <1>5, <1>6 DEF LocalsOK, AtRemove, InCall
<1>10. WalkOK(t)'
  <2>1. /\ InList' = InList /\ Reach(link'["next"], first) = From(first)
    BY <1>1, <1>3, <1>5, ModestReach DEF InList, From
  <2>2. From(curr[t])' = From(first)
    BY <1>6, <2>1 DEF From
  <2>3. On \subseteq From(first) \cup {ListHead}
    BY <1>1, ReachNext, PublicFacts, NullApart DEF On, From
  <2>4. stable[t] \subseteq From(first)
    BY <2>3, NullApart DEF WalkOK, InList
  <2>5. kind[t] = "count" => n_val[t] >= Cardinality(stable[t] \ From(first))
    <3>1. stable[t] \ From(first) = {}
      BY <2>4
    <3>2. kind[t] = "count" => n_val[t] = 0
      BY <1>0 DEF WalkOK
    <3>3. Cardinality({}) = 0
      BY FS_EmptySet
    <3> QED
      BY <3>1, <3>2, <3>3
  <2> QED
    BY <1>0, <1>6, <2>1, <2>2, <2>4, <2>5 DEF WalkOK
<1>11. CrashOK'
  BY <1>0, <1>4, <1>6, CrashKept DEF SameFor
<1> QED
  BY <1>3, <1>5, <1>7, <1>8, <1>9, <1>10, <1>11, ModestStep DEF ThreadOK

\* LinkNode: the node's links are set and the qcas is put together.
LEMMA LinkStep ==
  ASSUME IInv, NEW t \in Thread, pc[t] \in {"checkNext", "reload"},
         NEW p \in (Public \ {ListTail}) \cup {Null}, p = Null => reload /\ sort = "list",
         LinkNode(t, p),
         prev' \in [Thread -> Pointer], prev'[t] = p, \A u \in Thread \ {t} : prev'[u] = prev[u],
         UNCHANGED <<sort, reload, keyOf, free, req, curr, next, casLock, crashed, ops, stable>>,
         UNCHANGED <<countVars, mapVars>>
  PROVE  IInv'
<1> USE DEF IInv
<1> DEFINE c == curr[t]
           m == node[t]
           ws == <<Word("next", p, c, m), Word("prev", c, p, m)>>
<1>0. /\ kind[t] = "insert" /\ owner # t /\ m \in Node /\ c \in Pointer /\ p \in Pointer /\ m \in Pointer
      /\ UNCHANGED <<sort, reload, keyOf, free, kind, arg, node, curr, next, owner, stored, crashed,
                     ops, stable, n_val>>
      /\ pc' = [pc EXCEPT ![t] = "qcas"] /\ call' = [call EXCEPT ![t] = ws]
      /\ link' = [link EXCEPT !["next"][m] = c, !["prev"][m] = p]
  BY NullApart, PublicFacts DEF LinkNode, Goto, Set, req, casLock, countVars, OpOK, Inserting, TypeOK,
                   ListTypeOK, Pointer
<1>1. /\ link' \in [{"next", "prev"} -> [AnyNode -> Pointer]]
      /\ link'["next"][m] = c /\ link'["prev"][m] = p
      /\ \A n \in AnyNode \ {m} : SameLinks(n)
  <2> HIDE DEF c, m, ws
  <2>1. link["next"] \in [AnyNode -> Pointer] /\ link["prev"] \in [AnyNode -> Pointer]
    BY DEF TypeOK, ListTypeOK
  <2>2. /\ link'["next"] = [link["next"] EXCEPT ![m] = c]
        /\ link'["prev"] = [link["prev"] EXCEPT ![m] = p]
        /\ link' \in [{"next", "prev"} -> [AnyNode -> Pointer]]
    BY <1>0, <2>1, NullApart DEF TypeOK, ListTypeOK
  <2>3. PICK n : n = m
    OBVIOUS
  <2>4. PICK d : d = c
    OBVIOUS
  <2> QED
    BY <1>0, <2>2, <2>3, <2>4, SetLinks, NullApart
<1>2. ws \in Seq(CasWord)
  <2>1. Word("next", p, c, m) \in CasWord /\ Word("prev", c, p, m) \in CasWord
    BY <1>0, WordType
  <2> QED
    BY <2>1
<1>3. /\ pc'[t] = "qcas" /\ call'[t] = ws /\ call' \in [Thread -> Seq(CasWord)]
      /\ \A u \in Thread \ {t} : SameFor(u)
  <2> HIDE DEF c, m, ws
  <2> QED
    BY <1>0, <1>2 DEF SameFor, SameRun, TypeOK, ListTypeOK
<1>4. TypeOK'
  BY <1>0, <1>1, <1>3 DEF TypeOK, ListTypeOK, Place, countVars, mapVars
<1>5. Modest(t) /\ NodesApart' /\ NodesTaken' /\ Public' = Public
  BY <1>0, <1>1, <1>3, OwnModest
<1>6. OpOK(t)'
  BY <1>0, <1>3 DEF OpOK, Inserting, Removing
<1>7. CallOK(t)'
  BY <1>0, <1>3 DEF CallOK, InsertCall, Inserting, Word
<1>8. NodeOK(t)'
  BY <1>0, <1>1, <1>3 DEF NodeOK, InCall, Inserting
<1>9. LocalsOK(t)'
  BY <1>0, <1>3, <1>5 DEF LocalsOK, AtRemove, InCall, Inserting, Removing
<1>10. WalkOK(t)'
  BY <1>0, UpdateWalk
<1>11. CrashOK'
  BY <1>0, <1>3, CrashKept DEF SameFor
<1> QED
  BY <1>4, <1>5, <1>6, <1>7, <1>8, <1>9, <1>10, <1>11, ModestStep DEF ThreadOK

\* CheckNext, with the value of prev loaded by CheckPrev.
LEMMA CheckNextStep ==
  ASSUME IInv, NEW t \in Thread, CheckNext(t), UNCHANGED <<countVars, mapVars>>
  PROVE  IInv'
<1> USE DEF IInv
<1>0. /\ pc[t] = "checkNext" /\ kind[t] = "insert" /\ prev[t] # Null
      /\ prev[t] \in Public \ {ListTail} /\ curr[t] # Null
      /\ UNCHANGED <<sort, reload, keyOf, free, owner, stored, crashed, ops, stable>>
      /\ n_val \in [Thread -> Nat] /\ n_val' = n_val /\ result' = result
  BY DEF CheckNext, OpOK, LocalsOK, Inserting, casLock, TypeOK, countVars
<1>1. CASE Again(t) /\ UNCHANGED link
  BY <1>0, <1>1, AgainStep DEF heap, casLock
<1>2. CASE reload /\ Goto(t, "reload") /\ UNCHANGED <<link, req, locals>>
  <2>1. UNCHANGED <<kind, arg, node, curr, prev, next, call>>
    BY <1>2 DEF req, locals
  <2>2. pc'[t] = "reload"
    BY <1>2 DEF Goto, TypeOK, ListTypeOK
  <2>3. Public' = Public
    BY <1>0, <1>2, <2>1 DEF Public, Private, Storing
  <2>4. OpOK(t)' /\ NodeOK(t)'
    BY <1>0, <1>2, <2>1, <2>2 DEF OpOK, NodeOK, Inserting, Removing, InCall, NoLinks
  <2>5. LocalsOK(t)'
    BY <1>0, <2>1, <2>2, <2>3 DEF LocalsOK, AtRemove, InCall
  <2> QED
    BY <1>0, <1>2, <2>1, <2>4, <2>5, MoveStep DEF Place, TypeOK, ListTypeOK, req, heap, casLock, mapVars
<1>3. CASE LinkNode(t, prev[t]) /\ UNCHANGED <<req, curr, prev, next>>
  <2>1. prev' \in [Thread -> Pointer] /\ prev' = prev
    BY <1>3 DEF TypeOK, ListTypeOK
  <2>2. PICK p : p = prev[t]
    OBVIOUS
  <2>3. LinkNode(t, p) /\ prev'[t] = p
    BY <1>3, <2>1, <2>2
  <2> QED
    BY <1>0, <1>3, <2>1, <2>2, <2>3, LinkStep DEF casLock
<1> QED
  BY <1>1, <1>2, <1>3 DEF CheckNext

\* ReloadPrev: prev may be null by now.
LEMMA ReloadPrevStep ==
  ASSUME IInv, NEW t \in Thread, ReloadPrev(t), UNCHANGED <<countVars, mapVars>>
  PROVE  IInv'
<1> USE DEF IInv
<1>0. /\ pc[t] = "reload" /\ reload /\ curr[t] \in Public
      /\ prev' = [prev EXCEPT ![t] = link["prev"][curr[t]]]
  BY DEF ReloadPrev, OpOK, LocalsOK, Set
<1>1. PICK p : p = link["prev"][curr[t]]
  OBVIOUS
<1>2. p \in (Public \ {ListTail}) \cup {Null} /\ p \in Pointer
  BY <1>0, <1>1, PublicFacts DEF PublicLinks, Pointer
<1>3. /\ prev' \in [Thread -> Pointer] /\ prev'[t] = p
      /\ \A u \in Thread \ {t} : prev'[u] = prev[u]
  BY <1>0, <1>1, <1>2 DEF TypeOK, ListTypeOK
<1>4. LinkNode(t, p)
  BY <1>3 DEF ReloadPrev
<1>5. p = Null => sort = "list"
  <2>1. sort = "map" => curr[t] = ListTail
    BY <1>0 DEF LocalsOK
  <2>2. ListTail \in On /\ ListTail # ListHead
    BY NullApart DEF Chain
  <2> QED
    BY <1>1, <2>1, <2>2, OnHasPrev DEF TypeOK, ListTypeOK
<1> QED
  BY <1>0, <1>2, <1>3, <1>4, <1>5, LinkStep DEF ReloadPrev

-----------------------------------------------------------------------------
(* An operation starts.                                                    *)

\* An operation starts; a free node has no links.
LEMMA StartStep ==
  ASSUME IInv, NEW t \in Thread, NEW k \in Key, NEW op \in {"insert", "remove", "count", "find"},
         Start(t, op, k), sort = "list" => op # "find", sort = "map" => op # "count",
         UNCHANGED countVars, UNCHANGED <<old, found>>,
         value' \in [Node -> Value], newValue' \in [Thread -> Value]
  PROVE  IInv'
<1> USE DEF IInv
<1> DEFINE n == CHOOSE m \in free : TRUE
           before == {m \in InList : keyOf[m] = k}
<1>0. /\ pc[t] = "idle" /\ ops < MaxOps /\ ops' = ops + 1
      /\ pc' = [pc EXCEPT ![t] = "head"] /\ kind' = [kind EXCEPT ![t] = op] /\ arg' = [arg EXCEPT ![t] = k]
      /\ stable' = [stable EXCEPT ![t] = IF op \in {"count", "find"} THEN before ELSE {}]
      /\ UNCHANGED <<sort, reload, link, curr, prev, next, call, owner, stored, crashed, n_val, result>>
  BY DEF Start, Goto, Set, locals, casLock, countVars
<1>1. /\ op = "insert" => /\ n \in free /\ free' = free \ {n} /\ node' = [node EXCEPT ![t] = n]
                          /\ keyOf' = [keyOf EXCEPT ![n] = k]
      /\ op # "insert" => UNCHANGED <<free, keyOf, node>>
  BY DEF Start, Set
<1>2. node[t] = Null /\ kind[t] = "none" /\ owner # t
  BY <1>0 DEF OpOK, Inserting
<1> HIDE DEF n
<1>3. before \subseteq InList /\ InList \subseteq Public \cap Node
  BY OnFacts DEF InList
<1>4. TypeOK'
  <2>1. ops' \in 0 .. MaxOps
    BY <1>0, ListAssumption DEF TypeOK, ListTypeOK
  <2>2. stable' \in [Thread -> SUBSET Node]
    BY <1>0, <1>3 DEF TypeOK, ListTypeOK
  <2>3. free' \subseteq Node /\ keyOf' \in [Node -> Key \cup {Null}] /\ node' \in [Thread -> Node \cup {Null}]
        /\ \A m \in Node \ free' : keyOf'[m] \in Key
    <3>1. CASE op = "insert"
      <4>1. n \in Node /\ k \in Key \cup {Null} /\ n \in Node \cup {Null}
        BY <1>1, <3>1 DEF TypeOK, ListTypeOK
      <4>2. keyOf' \in [Node -> Key \cup {Null}] /\ node' \in [Thread -> Node \cup {Null}]
        <5>1. keyOf \in [Node -> Key \cup {Null}] /\ node \in [Thread -> Node \cup {Null}]
          BY DEF TypeOK, ListTypeOK
        <5>2. [keyOf EXCEPT ![n] = k] \in [Node -> Key \cup {Null}]
          BY <4>1, <5>1
        <5>3. [node EXCEPT ![t] = n] \in [Thread -> Node \cup {Null}]
          BY <4>1, <5>1
        <5> QED
          BY <1>1, <3>1, <5>2, <5>3
      <4>3. \A m \in Node \ free' : keyOf'[m] \in Key
        BY <1>1, <3>1, <4>1 DEF TypeOK, ListTypeOK
      <4> QED
        BY <1>1, <3>1, <4>2, <4>3 DEF TypeOK, ListTypeOK
    <3>2. CASE op # "insert"
      BY <1>1, <3>2 DEF TypeOK, ListTypeOK
    <3> QED
      BY <3>1, <3>2
  <2>4. pc' \in [Thread -> Place] /\ arg' \in [Thread -> Key \cup {Null}]
        /\ kind' \in [Thread -> {"none", "insert", "remove", "count", "find"}]
    BY <1>0 DEF TypeOK, ListTypeOK, Place
  <2> QED
    BY <1>0, <2>1, <2>2, <2>3, <2>4 DEF TypeOK, ListTypeOK
<1>5. \A u \in Thread \ {t} : SameFor(u)
  BY <1>0, <1>1 DEF SameFor, SameRun, TypeOK, ListTypeOK
<1>6. /\ pc'[t] = "head" /\ kind'[t] = op /\ arg'[t] = k /\ link' = link
      /\ stable'[t] = IF op \in {"count", "find"} THEN before ELSE {}
      /\ node'[t] = IF op = "insert" THEN n ELSE Null
      /\ curr'[t] = curr[t] /\ prev'[t] = prev[t] /\ next'[t] = next[t] /\ n_val'[t] = 0
  BY <1>0, <1>1, <1>2 DEF TypeOK, ListTypeOK, WalkOK
<1>7. op = "insert" => n \in Node /\ n # Null /\ n \notin Public /\ \A u \in Thread : node[u] # n
  BY <1>1, NullApart DEF Public, Private, NodesTaken, TypeOK, ListTypeOK
<1>8. Public' = Public
  <2>1. \A m \in Node : m \in Private' <=> m \in Private
    <3> SUFFICES ASSUME NEW m \in Node
                 PROVE  (m \in free' \/ \E u \in Thread : node'[u] = m /\ ~Storing(u)')
                          <=> (m \in free \/ \E u \in Thread : node[u] = m /\ ~Storing(u))
      BY DEF Private
    <3>1. \A u \in Thread : Storing(u)' <=> Storing(u)
      BY <1>0 DEF Storing
    <3>2. \A u \in Thread \ {t} : node'[u] = node[u]
      BY <1>5 DEF SameFor, SameRun
    <3>3. ~Storing(t)
      BY <1>2 DEF Storing
    <3>4. CASE op = "insert"
      BY <1>1, <1>2, <1>6, <1>7, <3>1, <3>2, <3>3, <3>4, NullApart
    <3>5. CASE op # "insert"
      BY <1>1, <3>1, <3>5
    <3> QED
      BY <3>4, <3>5
  <2>2. Private \subseteq Node /\ Private' \subseteq Node
    BY DEF Private
  <2> QED
    BY <2>1, <2>2 DEF Public
<1>9. Modest(t)
  <2>1. \A m \in Public \cap Node : keyOf'[m] = keyOf[m]
    BY <1>1, <1>7 DEF TypeOK, ListTypeOK
  <2>2. \A m \in free' : NoLinks(m)'
    BY <1>0, <1>1 DEF FreeLinks, NoLinks
  <2> QED
    BY <1>0, <1>1, <1>5, <1>8, <2>1, <2>2 DEF Modest, SameLinks
<1>10. NodesApart' /\ NodesTaken'
  <2>1. \A u \in Thread \ {t} : node'[u] = node[u]
    BY <1>5 DEF SameFor, SameRun
  <2>2. NodesApart'
    BY <1>6, <1>7, <2>1 DEF NodesApart
  <2>3. NodesTaken'
    BY <1>1, <1>6, <1>7, <2>1, NullApart DEF NodesTaken, TypeOK, ListTypeOK
  <2> QED
    BY <2>2, <2>3
<1>11. OpOK(t)'
  BY <1>0, <1>2, <1>6, <1>7 DEF OpOK, Inserting, Removing
<1>12. LocalsOK(t)' /\ NodeOK(t)' /\ CallOK(t)'
  BY <1>6, <1>8 DEF LocalsOK, NodeOK, CallOK, InCall, AtRemove
<1>13. WalkOK(t)'
  <2>1. InList' = InList
    BY <1>4, <1>9, ModestReach DEF InList
  <2>2. \A m \in InList : keyOf'[m] = keyOf[m]
    BY <1>3, <1>9 DEF Modest
  <2> QED
    BY <1>6, <2>1, <2>2 DEF WalkOK
<1>14. CrashOK'
  BY <1>0, <1>5, <1>6, CrashKept DEF SameFor
<1> QED
  BY <1>4, <1>9, <1>10, <1>11, <1>12, <1>13, <1>14, ModestStep DEF ThreadOK

\* The calls of the two users.
LEMMA CallStep ==
  ASSUME IInv, NEW t \in Thread,
         \/ ListCall(t) /\ UNCHANGED <<countVars, mapVars>>
         \/ MapCall(t) /\ UNCHANGED countVars
  PROVE  IInv'
<1>0. value \in [Node -> Value] /\ newValue \in [Thread -> Value]
  BY DEF IInv, TypeOK
<1>1. CASE ListCall(t) /\ UNCHANGED <<countVars, mapVars>>
  <2>1. PICK k \in Key, op \in {"insert", "remove", "count"} : sort = "list" /\ Start(t, op, k)
    BY <1>1 DEF ListCall
  <2> QED
    BY <1>0, <1>1, <2>1, StartStep DEF mapVars
<1>2. CASE MapCall(t) /\ UNCHANGED countVars
  <2>1. PICK k \in Key, op \in {"insert", "remove", "find"} : sort = "map" /\ Start(t, op, k)
    BY <1>2 DEF MapCall
  <2>2. value' \in [Node -> Value] /\ newValue' \in [Thread -> Value] /\ UNCHANGED <<old, found>>
    BY <1>0, <1>2 DEF MapCall, Set
  <2> QED
    BY <1>2, <2>1, <2>2, StartStep
<1> QED
  BY <1>1, <1>2

-----------------------------------------------------------------------------
(* The cas of insert_or_assign, and the walks of count and find.           *)

\* AssignCas: the new node was never linked and is deleted.
LEMMA AssignCasStep ==
  ASSUME IInv, NEW t \in Thread, AssignCas(t), UNCHANGED countVars
  PROVE  IInv'
<1> USE DEF IInv
<1>0. /\ pc[t] = "assign" /\ kind[t] = "insert" /\ owner = NoThread
      /\ curr[t] \in Public /\ node[t] \in Node /\ NoLinks(node[t])
      /\ UNCHANGED <<sort, reload, heap, casLock, crashed, ops, stable, newValue, old, found, n_val, result>>
      /\ UNCHANGED <<link, free, keyOf, owner, stored>>
      /\ n_val \in [Thread -> Nat] /\ n_val' = n_val /\ result' = result
      /\ stable[t] = {} /\ n_val[t] = 0
  <2>1. /\ pc[t] = "assign" /\ owner = NoThread
        /\ UNCHANGED <<sort, reload, heap, casLock, crashed, ops, stable, newValue, old, found, n_val, result>>
    BY DEF AssignCas, countVars
  <2>2. UNCHANGED <<link, free, keyOf, owner, stored>>
    BY <2>1 DEF heap, casLock
  <2>3. kind[t] = "insert" /\ curr[t] \in Public
    BY <2>1 DEF OpOK, LocalsOK, Inserting
  <2>4. node[t] \in Node /\ NoLinks(node[t])
    BY <2>1, <2>3 DEF OpOK, NodeOK, Inserting, TypeOK, ListTypeOK
  <2>5. stable[t] = {} /\ n_val[t] = 0 /\ n_val \in [Thread -> Nat]
    BY <2>3 DEF WalkOK, TypeOK
  <2> QED
    BY <2>1, <2>2, <2>3, <2>4, <2>5
<1>1. CASE Again(t) /\ UNCHANGED value
  BY <1>0, <1>1, AgainStep DEF mapVars
<1>2. CASE Return(t) /\ value' = [value EXCEPT ![curr[t]] = newValue[t]]
  <2>1. /\ kind' = [kind EXCEPT ![t] = "none"] /\ arg' = [arg EXCEPT ![t] = Null]
        /\ node' = [node EXCEPT ![t] = Null] /\ EndRound(t, "idle")
    BY <1>2 DEF Return, Set
  <2>2. TypeOK'
    BY <1>0, <1>2, <2>1, EndRoundTypes DEF TypeOK, ListTypeOK, Place
  <2>3. \A u \in Thread \ {t} : SameFor(u)
    BY <1>0, <2>1 DEF SameFor, SameRun, TypeOK, ListTypeOK, EndRound, Goto, Set
  <2>4. node'[t] = Null /\ \A u \in Thread \ {t} : node'[u] = node[u]
    BY <2>1 DEF TypeOK, ListTypeOK
  <2>5. \A m : m \in Private' <=> m \in Private /\ m # node[t]
    <3> SUFFICES ASSUME NEW m \in Node
                 PROVE  (m \in free' \/ \E u \in Thread : node'[u] = m /\ ~Storing(u)')
                          <=> ((m \in free \/ \E u \in Thread : node[u] = m /\ ~Storing(u)) /\ m # node[t])
      BY DEF Private
    <3>1. \A u \in Thread : ~Storing(u)' /\ ~Storing(u)
      BY <1>0, ListAssumption DEF Storing
    <3>2. \A u \in Thread \ {t} : node[u] # node[t]
      BY <1>0, NullApart DEF NodesApart
    <3> QED
      BY <1>0, <2>4, <3>1, <3>2, NullApart DEF NodesTaken
  <2>6. Public \subseteq Public' /\ Public' \subseteq Public \cup {node[t]}
    BY <2>5 DEF Public
  <2>7. Modest(t)
    BY <1>0, <2>3, <2>6 DEF Modest, SameLinks, NoLinks, FreeLinks
  <2>8. NodesApart' /\ NodesTaken'
    <3>1. NodesApart'
      BY <2>4 DEF NodesApart
    <3>2. NodesTaken'
      BY <1>0, <2>4, NullApart DEF NodesTaken, TypeOK, ListTypeOK
    <3> QED
      BY <3>1, <3>2
  <2>9. ThreadOK(t)' /\ WalkOK(t)'
    BY <1>0, <1>2, <2>2, ReturnThread
  <2>10. CrashOK'
    <3>1. pc'[t] = "idle"
      BY <2>1 DEF EndRound, Goto, TypeOK, ListTypeOK
    <3> QED
      BY <1>0, <2>3, <3>1, CrashKept DEF SameFor
  <2> QED
    BY <2>2, <2>7, <2>8, <2>9, <2>10, ModestStep
<1> QED
  BY <1>1, <1>2 DEF AssignCas

\* A walk goes one node on: stable nodes that are not ahead have been seen.
LEMMA WalkOn ==
  ASSUME IInv, NEW c \in Public, c # Null, link["next"][c] # Null
  PROVE  /\ From(c) \subseteq From(link["next"][c]) \cup {c}
         /\ Alive(c)
<1>1. From(c) \subseteq From(link["next"][c]) \cup {c}
  BY ReachNext, PublicFacts DEF IInv, From
<1> QED
  BY <1>1 DEF Alive

\* What is counted so far: c is added if its key is the one looked for.
LEMMA CountOne ==
  ASSUME NEW S \in SUBSET Node, NEW A, NEW B, NEW c, NEW m \in Nat, NEW d \in {0, 1},
         A \subseteq B \cup {c}, m >= Cardinality(S \ A), c \in S => d = 1
  PROVE  m + d >= Cardinality(S \ B)
<1>1. IsFiniteSet(S) /\ IsFiniteSet(S \ A) /\ IsFiniteSet(S \ B)
  BY ListAssumption, FS_Subset
<1>2. Cardinality(S \ A) \in Nat /\ Cardinality(S \ B) \in Nat
  BY <1>1, FS_CardinalityType
<1>3. CASE c \in S
  <2>1. S \ B \subseteq (S \ A) \cup {c}
    OBVIOUS
  <2>2. /\ IsFiniteSet((S \ A) \cup {c})
        /\ Cardinality((S \ A) \cup {c}) <= Cardinality(S \ A) + 1
        /\ Cardinality((S \ A) \cup {c}) \in Nat
    <3>1. PICK T : T = S \ A
      OBVIOUS
    <3>2. /\ IsFiniteSet(T \cup {c})
          /\ Cardinality(T \cup {c}) = IF c \in T THEN Cardinality(T) ELSE Cardinality(T) + 1
      BY <1>1, <3>1, FS_AddElement
    <3>3. Cardinality(T) \in Nat
      BY <1>2, <3>1
    <3> QED
      BY <3>1, <3>2, <3>3
  <2>3. Cardinality(S \ B) <= Cardinality((S \ A) \cup {c})
    BY <2>1, <2>2, FS_Subset
  <2> QED
    BY <1>2, <1>3, <2>2, <2>3
<1>4. CASE c \notin S
  <2>1. S \ B \subseteq S \ A
    BY <1>4
  <2>2. Cardinality(S \ B) <= Cardinality(S \ A)
    BY <1>1, <2>1, FS_Subset
  <2> QED
    BY <1>2, <2>2
<1> QED
  BY <1>3, <1>4

\* A step that changes nothing.
LEMMA StutterStep ==
  ASSUME IInv, UNCHANGED vars
  PROVE  IInv'
<1> USE DEF IInv
<1>0. /\ UNCHANGED <<sort, reload, link, keyOf, free, pc, kind, arg, node, curr, prev, next, call>>
      /\ UNCHANGED <<owner, stored, crashed, ops, stable, n_val, result>>
      /\ UNCHANGED <<value, newValue, old, found>>
  BY DEF vars, lvars, heap, req, locals, casLock, countVars, mapVars
<1>1. TypeOK'
  BY <1>0 DEF TypeOK, ListTypeOK
<1>2. Public' = Public /\ On' = On
  BY <1>0 DEF Public, Private, Storing, On, From
<1>3. \A t \in Thread : ThreadOK(t)'
  <2> SUFFICES ASSUME NEW t \in Thread
               PROVE  ThreadOK(t)'
    OBVIOUS
  <2>1. SameFor(t)
    BY <1>0 DEF SameFor, SameRun
  <2> QED
    BY <1>0, <1>2, <2>1, OtherThread DEF ThreadOK, SameLinks, SameFor
<1>4. NodesApart' /\ NodesTaken' /\ PublicLinks' /\ FreeLinks' /\ CrashOK'
  BY <1>0, <1>2 DEF NodesApart, NodesTaken, PublicLinks, FreeLinks, NoLinks, CrashOK, Inserting
<1>5. Chain' /\ Gone' /\ StoredOK'
  BY <1>0, <1>2 DEF Chain, Gone, Behind, Leaving, NoLinks, StoredOK, InsertStored, RemoveStored,
                    Inserting, Removing
<1>6. \A t \in Thread : WalkOK(t)'
  <2> SUFFICES ASSUME NEW t \in Thread
               PROVE  WalkOK(t)'
    OBVIOUS
  <2>1. InList' = InList /\ From(curr[t])' = From(curr[t]) /\ Alive(curr[t])' = Alive(curr[t])
    BY <1>0, <1>2 DEF InList, From, Alive
  <2> QED
    BY <1>0, <2>1 DEF WalkOK
<1> QED
  BY <1>1, <1>3, <1>4, <1>5, <1>6 DEF ThreadOK

\* A step of count or find to the next node.
LEMMA WalkMore ==
  ASSUME IInv, NEW t \in Thread, pc[t] = "walk", kind[t] \in {"count", "find"}, curr[t] # Null,
         curr' = Set(curr, t, link["next"][curr[t]]),
         UNCHANGED <<sort, reload, heap, casLock, crashed, ops, pc, req, prev, next, call, stable, result, mapVars>>,
         n_val' \in [Thread -> Nat], \A u \in Thread \ {t} : n_val'[u] = n_val[u],
         kind[t] = "count" =>
           \E d \in {0, 1} : n_val'[t] = n_val[t] + d /\ (curr[t] \in stable[t] => d = 1),
         kind[t] = "find" => curr[t] \notin stable[t] /\ n_val'[t] = n_val[t]
  PROVE  IInv'
<1> USE DEF IInv
<1> DEFINE c == curr[t]
           n == link["next"][c]
<1>0. /\ c \in Public /\ c # Null
      /\ curr' = [curr EXCEPT ![t] = n]
      /\ UNCHANGED <<sort, reload, link, keyOf, free, owner, stored, crashed, ops, pc, kind, arg, node, prev,
                     next, call, stable>>
  BY DEF LocalsOK, heap, casLock, req, Set
<1>1. n \in (Public \ {ListHead}) \cup {Null} /\ n \in Pointer
  BY <1>0, PublicFacts DEF PublicLinks, Pointer
<1>2. TypeOK'
  BY <1>0, <1>1 DEF TypeOK, ListTypeOK, mapVars
<1>3. curr'[t] = n
  BY <1>0 DEF TypeOK, ListTypeOK
<1>4. Quiet(t)
  BY <1>0 DEF Quiet, SameFor, SameRun, TypeOK, ListTypeOK
<1>5. OpOK(t)' /\ NodeOK(t)' /\ CallOK(t)'
  BY <1>0 DEF OpOK, NodeOK, CallOK, Inserting, Removing, InCall, NoLinks
<1>6. LocalsOK(t)'
  BY <1>0, <1>1, <1>3, <1>4, QuietModest DEF LocalsOK, AtRemove, InCall
<1>7. WalkOK(t)'
  <2>1. InList' = InList /\ Reach(link'["next"], n) = From(n)
    BY <1>0, <1>4, QuietModest DEF InList, From
  <2>2. From(curr[t])' = From(n)
    BY <1>3, <2>1 DEF From
  <2>3. n # Null => From(c) \subseteq From(n) \cup {c} /\ Alive(c)
    BY <1>0, WalkOn
  <2>4. n # Null /\ kind[t] = "find" => stable[t] \subseteq From(n)
    <3> SUFFICES ASSUME n # Null, kind[t] = "find"
                 PROVE  stable[t] \subseteq From(n)
      OBVIOUS
    <3>1. stable[t] \subseteq From(c) /\ c \notin stable[t]
      BY <1>0, <2>3 DEF WalkOK
    <3> HIDE DEF c, n, IInv
    <3> QED
      BY <2>3, <3>1
  <2>5. ASSUME n # Null, kind[t] = "count"
        PROVE  n_val'[t] >= Cardinality(stable[t] \ From(n))
    <3>1. PICK d \in {0, 1} : n_val'[t] = n_val[t] + d /\ (c \in stable[t] => d = 1)
      BY <2>5
    <3>2. n_val[t] \in Nat /\ stable[t] \in SUBSET Node
      BY DEF TypeOK, ListTypeOK
    <3>3. n_val[t] >= Cardinality(stable[t] \ From(c))
      BY <1>0, <2>3, <2>5 DEF WalkOK
    <3>4. PICK S \in SUBSET Node : S = stable[t]
      BY <3>2
    <3>5. PICK m \in Nat : m = n_val[t]
      BY <3>2
    <3> HIDE DEF c, n
    <3>6. PICK x : x = c
      OBVIOUS
    <3>7. PICK A : A = From(c)
      OBVIOUS
    <3>8. PICK B : B = From(n)
      OBVIOUS
    <3>9. A \subseteq B \cup {x} /\ m >= Cardinality(S \ A) /\ (x \in S => d = 1)
      BY <2>3, <2>5, <3>1, <3>3, <3>4, <3>5, <3>6, <3>7, <3>8
    <3>10. m + d >= Cardinality(S \ B)
      BY <3>9, CountOne
    <3> QED
      BY <3>1, <3>4, <3>5, <3>10, <3>7, <3>8
  <2>6. kind[t] # "count" => n_val'[t] = 0
    BY DEF WalkOK
  <2> QED
    BY <1>0, <1>3, <2>1, <2>2, <2>4, <2>5, <2>6 DEF WalkOK
<1>8. pc'[t] # "crash"
  BY <1>0
<1> QED
  BY <1>0, <1>2, <1>4, <1>5, <1>6, <1>7, <1>8, QuietStep DEF ThreadOK

\* CountWalk: a node in stable that is passed is counted.
LEMMA CountWalkStep ==
  ASSUME IInv, NEW t \in Thread, CountWalk(t), UNCHANGED mapVars
  PROVE  IInv'
<1> USE DEF IInv
<1>0. /\ pc[t] = "walk" /\ kind[t] = "count" /\ UNCHANGED <<sort, reload, heap, casLock, crashed, ops>>
      /\ node[t] = Null /\ n_val \in [Thread -> Nat] /\ result \in [Thread -> Nat]
      /\ found \in [Thread -> Value \cup {NotFound}] /\ stable \in [Thread -> SUBSET Node]
      /\ UNCHANGED <<value, newValue, old, found>>
  BY DEF CountWalk, OpOK, Inserting, TypeOK, ListTypeOK, mapVars
<1>1. CASE Again(t) /\ n_val' = Set(n_val, t, 0) /\ UNCHANGED <<result, stable>>
  BY <1>0, <1>1, AgainStep DEF Set
<1>2. CASE CountReturn(t)
  <2>1. /\ Return(t) /\ n_val' = [n_val EXCEPT ![t] = 0]
        /\ result' = [result EXCEPT ![t] = n_val[t]] /\ stable' = [stable EXCEPT ![t] = {}]
    BY <1>2 DEF CountReturn, Set
  <2> QED
    BY <1>0, <2>1, ReturnStep
<1>3. CASE curr[t] # Null /\ CountMore(t)
  <2> DEFINE d == IF keyOf[curr[t]] = arg[t] THEN 1 ELSE 0
  <2>1. n_val' = [n_val EXCEPT ![t] = n_val[t] + d] /\ d \in {0, 1}
    BY <1>3 DEF CountMore, Set
  <2>2. /\ n_val' \in [Thread -> Nat] /\ n_val'[t] = n_val[t] + d
        /\ \A u \in Thread \ {t} : n_val'[u] = n_val[u]
    BY <1>0, <2>1
  <2>3. curr[t] \in stable[t] => d = 1
    BY DEF WalkOK
  <2> HIDE DEF d
  <2> QED
    BY <1>0, <1>3, <2>1, <2>2, <2>3, WalkMore DEF CountMore
<1> QED
  BY <1>1, <1>2, <1>3 DEF CountWalk

\* FindWalk: a node in stable is not passed, it is found.
LEMMA FindWalkStep ==
  ASSUME IInv, NEW t \in Thread, FindWalk(t), UNCHANGED countVars
  PROVE  IInv'
<1> USE DEF IInv
<1>0. /\ pc[t] = "walk" /\ kind[t] = "find"
      /\ UNCHANGED <<sort, reload, heap, casLock, crashed, ops, value, newValue, old, n_val, result>>
      /\ node[t] = Null /\ n_val \in [Thread -> Nat] /\ result \in [Thread -> Nat] /\ n_val[t] = 0
      /\ found \in [Thread -> Value \cup {NotFound}] /\ stable \in [Thread -> SUBSET Node]
      /\ value \in [Node -> Value]
  BY DEF FindWalk, OpOK, WalkOK, Inserting, TypeOK, ListTypeOK, countVars
<1>1. CASE UNCHANGED <<pc, req, locals, found, stable>>
  BY <1>0, <1>1, StutterStep DEF vars, lvars, countVars, mapVars
<1>2. ASSUME NEW v \in Value \cup {NotFound}, FindReturn(t, v)
      PROVE  IInv'
  <2>1. /\ Return(t) /\ found' = [found EXCEPT ![t] = v] /\ stable' = [stable EXCEPT ![t] = {}]
    BY <1>2 DEF FindReturn, Set
  <2>2. found' \in [Thread -> Value \cup {NotFound}]
    BY <1>0, <2>1
  <2>3. /\ stable' \in [Thread -> SUBSET Node] /\ stable'[t] = {}
        /\ \A u \in Thread \ {t} : n_val'[u] = n_val[u] /\ stable'[u] = stable[u]
    BY <1>0, <2>1
  <2> QED
    BY <1>0, <2>1, <2>2, <2>3, ReturnStep
<1>3. CASE /\ curr[t] # Null /\ curr[t] # ListTail /\ keyOf[curr[t]] = arg[t]
           /\ FindReturn(t, value[curr[t]])
  <2>1. curr[t] \in Node
    BY <1>3 DEF LocalsOK, Public, AnyNode
  <2>2. PICK v : v = value[curr[t]]
    OBVIOUS
  <2> QED
    BY <1>0, <1>2, <1>3, <2>1, <2>2
<1>4. CASE curr[t] # Null /\ keyOf[curr[t]] # arg[t] /\ FindMore(t)
  <2>1. curr[t] \notin stable[t]
    BY <1>4 DEF WalkOK
  <2> QED
    BY <1>0, <1>4, <2>1, WalkMore DEF FindMore, mapVars
<1> QED
  BY <1>1, <1>2, <1>3, <1>4 DEF FindWalk

-----------------------------------------------------------------------------
(* The stores of qcas.                                                     *)

\* What every store has in common.
Store(t) ==
  /\ pc[t] = "store" /\ UNCHANGED <<sort, reload, keyOf, free, crashed, ops, n_val, result, mapVars>>
  /\ \A u \in Thread \ {t} : SameRun(u)
  /\ stable' = [u \in Thread |-> stable[u] \cap InList']
  /\ \/ owner' = t /\ stored' = stored + 1 /\ SameRun(t)
        /\ UNCHANGED <<pc, kind, arg, node, curr, prev, next, call>>
     \/ owner' = NoThread /\ stored' = 0 /\ Return(t)

\* A store puts v in field f of node x.
Write(f, x, v) ==
  /\ link' \in [{"next", "prev"} -> [AnyNode -> Pointer]]
  /\ link'[f] = [link[f] EXCEPT ![x] = v]
  /\ \A g \in {"next", "prev"} \ {f} : link'[g] = link[g]

\* What a store may do to what a walk has still to see.
WalksKept ==
  \A x \in Public : Alive(x)' =>
    Alive(x) /\ Reach(link["next"], x) \cap InList' \subseteq Reach(link'["next"], x)

\* A store keeps the types.
LEMMA StoreTypes ==
  ASSUME IInv, NEW t \in Thread, Store(t), stored < 4,
         link' \in [{"next", "prev"} -> [AnyNode -> Pointer]]
  PROVE  TypeOK'
<1> USE DEF IInv, Store
<1>1. stable' \in [Thread -> SUBSET Node]
  BY DEF TypeOK, ListTypeOK
<1>2. CASE SameRun(t) /\ owner' = t /\ stored' = stored + 1 /\ UNCHANGED <<pc, kind, arg, node, curr, prev, next, call>>
  <2>1. stored' \in 0 .. 4
    BY <1>2 DEF TypeOK, ListTypeOK
  <2> QED
    BY <1>1, <1>2, <2>1 DEF TypeOK, ListTypeOK, mapVars
<1>3. CASE owner' = NoThread /\ stored' = 0 /\ Return(t)
  <2>1. /\ kind' = [kind EXCEPT ![t] = "none"] /\ arg' = [arg EXCEPT ![t] = Null]
        /\ node' = [node EXCEPT ![t] = Null] /\ EndRound(t, "idle")
    BY <1>3 DEF Return, Set
  <2> QED
    BY <1>1, <1>3, <2>1, EndRoundTypes DEF TypeOK, ListTypeOK, Place, mapVars
<1> QED
  BY <1>2, <1>3

\* A store keeps what the invariant says of every thread and its walk.
LEMMA StoreThreads ==
  ASSUME IInv, TypeOK', NEW t \in Thread, Store(t), Public \subseteq Public',
         \A n \in Public : link["next"][n] = Null => link'["next"][n] = Null,
         \A n \in Private : SameLinks(n),
         owner' = t /\ Inserting(t) => stored = 0,
         WalksKept
  PROVE  \A u \in Thread : ThreadOK(u)' /\ WalkOK(u)'
<1> USE DEF IInv
<1>0. /\ owner = t /\ t # NoThread /\ stable[t] = {} /\ n_val[t] = 0
      /\ kind[t] \in {"insert", "remove"}
  BY ListAssumption DEF Store, OpOK, WalkOK, Inserting, Removing
<1>1. \A u \in Thread : stable'[u] = stable[u] \cap InList' /\ n_val'[u] = n_val[u]
  BY DEF Store
<1>2. ASSUME NEW u \in Thread, SameRun(u), owner' = u <=> owner = u
      PROVE  ThreadOK(u)'
  <2>1. Inserting(u) => SameLinks(node[u])
    <3> SUFFICES ASSUME Inserting(u)
                 PROVE  node[u] \in Private
      OBVIOUS
    <3>1. node[u] \in Node
      BY DEF OpOK, TypeOK, ListTypeOK
    <3>2. ~Storing(u)
      BY <1>0, <1>2 DEF Storing, TypeOK, ListTypeOK
    <3> QED
      BY <3>1, <3>2 DEF Private
  <2>2. \A n \in Public \cap Node : keyOf'[n] = keyOf[n]
    BY DEF Store
  <2> QED
    BY <1>2, <2>1, <2>2, OtherThread DEF ThreadOK, Store
<1>3. ASSUME NEW u \in Thread \ {t}
      PROVE  WalkOK(u)'
  <2>1. SameRun(u) /\ n_val'[u] = n_val[u] /\ stable'[u] = stable[u] \cap InList' /\ WalkOK(u)
    BY <1>1 DEF Store
  <2>2. InList' \subseteq Node /\ keyOf' = keyOf
    BY DEF InList, Store
  <2>3. stable'[u] \subseteq {n \in InList : keyOf[n] = arg[u]}'
    BY <2>1, <2>2 DEF WalkOK, SameRun
  <2>4. ASSUME pc[u] = "walk", curr[u] # Null, Alive(curr[u])'
        PROVE  /\ kind[u] = "find" => stable'[u] \subseteq From(curr[u])'
               /\ kind[u] = "count" => n_val[u] >= Cardinality(stable'[u] \ From(curr[u])')
    <3>1. PICK x \in Public : x = curr[u] /\ x = curr'[u]
      BY <2>1, <2>4 DEF LocalsOK, SameRun
    <3>2. Alive(x)'
      BY <2>4, <3>1 DEF Alive
    <3>3. /\ Alive(curr[u]) /\ From(curr[u])' = Reach(link'["next"], x)
          /\ From(curr[u]) \cap InList' \subseteq Reach(link'["next"], x)
      BY <3>1, <3>2 DEF WalksKept, Alive, From
    <3>4. stable'[u] \ Reach(link'["next"], x) \subseteq stable[u] \ From(curr[u])
      BY <2>1, <3>3
    <3>5. kind[u] = "find" => stable'[u] \subseteq From(curr[u])'
      BY <2>1, <2>4, <3>3 DEF WalkOK
    <3>6. kind[u] = "count" => n_val[u] >= Cardinality(stable'[u] \ From(curr[u])')
      <4>1. PICK S : S = stable[u] \ From(curr[u])
        OBVIOUS
      <4>2. PICK R : R = stable'[u] \ From(curr[u])'
        OBVIOUS
      <4>3. IsFiniteSet(S) /\ R \subseteq S
        <5>1. S \subseteq Node
          BY <4>1 DEF TypeOK, ListTypeOK
        <5> QED
          BY <5>1, <3>3, <3>4, <4>1, <4>2, ListAssumption, FS_Subset
      <4>4. Cardinality(R) <= Cardinality(S) /\ Cardinality(R) \in Nat /\ Cardinality(S) \in Nat
        BY <4>3, FS_Subset, FS_CardinalityType
      <4>5. kind[u] = "count" => n_val[u] >= Cardinality(S)
        BY <2>1, <2>4, <3>3, <4>1 DEF WalkOK
      <4>6. n_val[u] \in Nat
        BY DEF TypeOK
      <4> QED
        BY <4>2, <4>4, <4>5, <4>6
    <3> QED
      BY <3>5, <3>6
  <2>5. kind'[u] = kind[u] /\ pc'[u] = pc[u] /\ curr'[u] = curr[u]
    BY <2>1 DEF SameRun
  <2>6. /\ kind[u] \notin {"count", "find"} => stable'[u] = {}
        /\ kind[u] # "count" \/ pc[u] = "head" => n_val'[u] = 0
    BY <2>1 DEF WalkOK
  <2> QED
    BY <2>1, <2>3, <2>4, <2>5, <2>6 DEF WalkOK
<1>4. \A u \in Thread \ {t} : ThreadOK(u)' /\ WalkOK(u)'
  <2> SUFFICES ASSUME NEW u \in Thread \ {t}
               PROVE  ThreadOK(u)'
    BY <1>3
  <2>1. u # NoThread
    BY ListAssumption
  <2> QED
    BY <1>0, <1>2, <2>1 DEF Store
<1>5. CASE owner' = NoThread /\ Return(t)
  <2>1. ThreadOK(t)' /\ WalkOK(t)'
    BY <1>0, <1>1, <1>5, ReturnThread DEF Store
  <2> QED
    BY <1>4, <2>1
<1>6. CASE owner' = t /\ SameRun(t)
  <2>1. ThreadOK(t)'
    BY <1>0, <1>2, <1>6
  <2>2. WalkOK(t)'
    BY <1>0, <1>1, <1>6, UpdateWalk DEF SameRun
  <2> QED
    BY <1>4, <2>1, <2>2
<1> QED
  BY <1>5, <1>4, <1>6 DEF Store

HeapOK == NodesApart /\ NodesTaken /\ PublicLinks /\ FreeLinks /\ Chain /\ Gone /\ StoredOK

\* What is known of the owner of the lock.
LEMMA OwnerFacts ==
  ASSUME IInv, NEW t \in Thread, pc[t] = "store"
  PROVE  /\ owner = t /\ t # NoThread /\ curr[t] \in Public \ {ListHead} /\ prev[t] \in On
         /\ prev[t] # ListTail
         /\ Inserting(t) => /\ node[t] \in Node /\ InsertStored(t) /\ curr[t] \in On
                            /\ link["next"][node[t]] = curr[t] /\ link["prev"][node[t]] = prev[t]
                            /\ stored = 0 => node[t] \in Private
                            /\ stored = 1 => node[t] \in Public
         /\ ~Inserting(t) => /\ Removing(t) /\ node[t] = Null /\ RemoveStored(t)
                             /\ curr[t] \in Node /\ keyOf[curr[t]] = arg[t] /\ curr[t] # ListTail
                             /\ next[t] \in On \ {ListHead}
                             /\ prev[t] # curr[t] /\ next[t] # curr[t]
                             /\ stored = 0 => curr[t] \in On
<1> USE DEF IInv
<1>0. /\ owner = t /\ t # NoThread /\ curr[t] \in Public \ {ListHead}
      /\ Inserting(t) \/ Removing(t)
      /\ Inserting(t) <=> node[t] # Null
  BY ListAssumption DEF OpOK, LocalsOK
<1>1. prev[t] \in On
  BY <1>0 DEF StoredOK, InsertStored, RemoveStored
<1>2. prev[t] # ListTail
  BY <1>1, OnFacts DEF LocalsOK
<1>3. ASSUME stored = 0, curr[t] \in On, link["prev"][curr[t]] = prev[t]
      PROVE  link["next"][curr[t]] # curr[t]
  <2> SUFFICES ASSUME link["next"][curr[t]] = curr[t]
               PROVE  FALSE
    OBVIOUS
  <2>1. curr[t] # ListTail /\ curr[t] # ListHead
    BY <1>0, NullApart DEF PublicLinks
  <2>2. \A y \in On \ {ListTail} : link["prev"][link["next"][y]] = y
    BY <1>3 DEF Chain, Behind
  <2>3. \A y \in On : link["next"][y] = curr[t] => y = curr[t]
    BY <1>3, <2>1, <2>2, OnFacts DEF PublicLinks
  <2>4. Closed(link["next"], On \ {curr[t]})
    BY <2>3, OnFacts DEF Closed
  <2>5. On \subseteq On \ {curr[t]}
    <3>1. ListHead \in On \ {curr[t]} /\ On \ {curr[t]} \in SUBSET AnyNode
      BY <2>1, OnFacts, PublicFacts
    <3> QED
      BY <2>4, <3>1, ReachLeast DEF On, From
  <2> QED
    BY <1>3, <2>5
<1>4. CASE Inserting(t)
  <2>1. InsertStored(t) /\ node[t] \in Node
    BY <1>0, <1>4 DEF StoredOK, TypeOK, ListTypeOK
  <2>2. link["next"][node[t]] = curr[t] /\ link["prev"][node[t]] = prev[t]
    BY <1>4 DEF NodeOK, InCall
  <2>3. stored = 0 => node[t] \in Private
    BY <1>0, <2>1 DEF Private, Storing
  <2>4. stored = 1 => node[t] \in Public
    <3>1. \A u \in Thread : node[u] = node[t] => u = t
      BY <1>0, <1>4, <2>1, NullApart DEF NodesApart
    <3>2. node[t] \notin free
      BY DEF NodesTaken
    <3>3. stored = 1 => Storing(t)
      BY <1>0 DEF Storing
    <3> QED
      BY <2>1, <3>1, <3>2, <3>3 DEF Public, Private, AnyNode
  <2>5. stored \in {0, 1} /\ link["next"][prev[t]] = (IF stored = 0 THEN curr[t] ELSE node[t])
    BY <2>1 DEF InsertStored
  <2>6. curr[t] \in On
    <3>1. CASE stored = 0
      BY <1>0, <1>1, <2>5, <3>1, OnFacts, NullApart, PublicFacts
    <3>2. CASE stored = 1
      <4>1. node[t] \in On
        BY <1>1, <2>1, <2>5, <3>2, OnFacts, NullApart
      <4> QED
        BY <1>0, <2>2, <4>1, OnFacts, NullApart, PublicFacts
    <3> QED
      BY <2>5, <3>1, <3>2
  <2> QED
    BY <1>0, <1>1, <1>2, <1>4, <2>1, <2>2, <2>3, <2>4, <2>6
<1>5. CASE ~Inserting(t)
  <2>1. RemoveStored(t) /\ Removing(t) /\ node[t] = Null
    BY <1>0, <1>5 DEF StoredOK
  <2>2. curr[t] \in Node /\ keyOf[curr[t]] = arg[t] /\ curr[t] # ListTail
    BY <2>1, NullApart DEF LocalsOK, AtRemove
  <2>3. next[t] \in On \ {ListHead}
    BY <2>1, OnFacts DEF RemoveStored, LocalsOK
  <2>4. stored = 0 => curr[t] \in On
    BY <1>0, <1>1, <2>1, OnFacts, NullApart, PublicFacts DEF RemoveStored
  <2>5. prev[t] # curr[t] /\ next[t] # curr[t]
    <3>1. CASE stored = 0
      BY <1>3, <2>1, <2>4, <3>1 DEF RemoveStored
    <3>2. CASE stored > 0
      BY <1>1, <2>1, <2>3, <3>2 DEF RemoveStored
    <3> QED
      BY <2>1, <3>1, <3>2 DEF RemoveStored
  <2> QED
    BY <1>0, <1>1, <1>2, <1>5, <2>1, <2>2, <2>3, <2>4, <2>5
<1> QED
  BY <1>4, <1>5

\* A store to prev leaves what is reached as it is.
LEMMA PrevReach ==
  ASSUME IInv, link'["next"] = link["next"]
  PROVE  /\ On' = On /\ InList' = InList
         /\ \A x \in Public : Reach(link'["next"], x) = Reach(link["next"], x)
         /\ WalksKept
<1>1. /\ On' = On /\ InList' = InList
      /\ \A x \in Public : Reach(link'["next"], x) = Reach(link["next"], x)
  BY DEF On, InList, From
<1> QED
  BY <1>1 DEF WalksKept, Alive

\* The first store of an insert: the node is in the list.
LEMMA InsertNext ==
  ASSUME IInv, TypeOK', NEW t \in Thread, Store(t), Inserting(t), stored = 0,
         owner' = t, SameRun(t), stored' = 1, Write("next", prev[t], node[t])
  PROVE  /\ HeapOK' /\ Public \subseteq Public' /\ WalksKept
         /\ node[t] \in Node \ On /\ On' = On \cup {node[t]}
<1> USE DEF IInv
<1> DEFINE p == prev[t]
           c == curr[t]
           m == node[t]
           nx == link["next"]
           ny == link'["next"]
<1>0. /\ owner = t /\ t # NoThread /\ c \in Public \ {ListHead} /\ c \in On /\ p \in On /\ p # ListTail
      /\ m \in Node /\ m \in Private /\ nx[m] = c /\ link["prev"][m] = p
      /\ nx[p] = c /\ link["prev"][c] = p
  BY OwnerFacts DEF Store, InsertStored
<1>1. /\ nx \in [AnyNode -> Pointer] /\ ny = [nx EXCEPT ![p] = m] /\ link'["prev"] = link["prev"]
      /\ Public \in SUBSET AnyNode /\ Closed(nx, Public) /\ On \subseteq Public
      /\ ListHead \in Public /\ m \in AnyNode \ Public
  BY <1>0, PublicFacts, OnFacts, NullApart DEF Write, Public
<1>2. /\ pc'[t] = pc[t] /\ kind'[t] = kind[t] /\ node'[t] = m /\ curr'[t] = c /\ prev'[t] = p
      /\ \A u \in Thread : node'[u] = node[u] /\ free' = free
  BY DEF Store, SameRun
<1>3. Public' = Public \cup {m}
  <2>1. \A u \in Thread : Storing(u)' <=> u = t
    BY <1>0 DEF Storing
  <2>2. \A u \in Thread : ~Storing(u)
    BY DEF Storing
  <2>3. \A u \in Thread : node[u] = m => u = t
    BY <1>0, NullApart DEF NodesApart
  <2>4. Private' = Private \ {m}
    BY <1>0, <1>2, <2>1, <2>2, <2>3 DEF Private, NodesTaken
  <2> QED
    BY <1>0, <2>4 DEF Public, AnyNode
<1>4. /\ ny[p] = m /\ \A x \in AnyNode \ {p} : ny[x] = nx[x]
      /\ \A x \in Public : Reach(nx, x) \subseteq Reach(ny, x)
      /\ \A x \in Public : p \in Reach(nx, x) => Reach(ny, x) = Reach(nx, x) \cup {m}
  <2> HIDE DEF p, c, m, nx, ny
  <2>1. p \in Public /\ c \in Public
    BY <1>0, <1>1
  <2>2. ny \in [AnyNode -> Pointer]
    BY DEF ny, TypeOK, ListTypeOK
  <2>3. ny[p] = m /\ \A x \in AnyNode : x # p => ny[x] = nx[x]
    BY <1>1, <2>1
  <2>4. PICK a : a = nx
    OBVIOUS
  <2>5. PICK b : b = ny
    OBVIOUS
  <2>6. PICK i \in Public : i = p
    BY <2>1
  <2>7. PICK j : j = m
    OBVIOUS
  <2>8. PICK P : P = Public
    OBVIOUS
  <2>9. /\ a \in [AnyNode -> Pointer] /\ b \in [AnyNode -> Pointer]
         /\ P \in SUBSET AnyNode /\ Closed(a, P) /\ i \in P /\ a[i] \in P /\ j \in AnyNode \ P
         /\ a[j] = a[i] /\ b[i] = j /\ \A x \in AnyNode : x # i => b[x] = a[x]
    BY <1>0, <1>1, <2>1, <2>2, <2>3, <2>4, <2>5, <2>6, <2>7, <2>8
  <2>10. \A x \in P : /\ Reach(a, x) \subseteq Reach(b, x)
                      /\ i \in Reach(a, x) => Reach(b, x) = Reach(a, x) \cup {j}
    BY <2>9, ReachInsert
  <2> QED
    BY <2>3, <2>4, <2>5, <2>6, <2>7, <2>8, <2>10
<1>5. On' = On \cup {m}
  BY <1>0, <1>1, <1>4 DEF On, From
<1>6. WalksKept
  <2> SUFFICES ASSUME NEW x \in Public, Alive(x)'
               PROVE  Alive(x)
    BY <1>4 DEF WalksKept
  <2>1. x \in On' => x \in On
    BY <1>1, <1>5
  <2>2. ny[x] # Null => nx[x] # Null \/ x \in On
    BY <1>0, <1>1, <1>4
  <2> QED
    BY <2>1, <2>2 DEF Alive
<1>7. NodesApart' /\ NodesTaken'
  BY <1>2 DEF NodesApart, NodesTaken
<1>8. PublicLinks'
  <2>1. \A x \in Public' : ny[x] \in (Public' \ {ListHead}) \cup {Null}
    BY <1>0, <1>1, <1>3, <1>4, NullApart DEF PublicLinks
  <2>2. \A x \in Public' : link'["prev"][x] \in (Public' \ {ListTail}) \cup {Null}
    BY <1>0, <1>1, <1>3 DEF PublicLinks
  <2> QED
    BY <1>0, <1>1, <1>4, <2>1, <2>2, NullApart DEF PublicLinks
<1>9. FreeLinks'
  <2>1. \A x \in free : x \in AnyNode /\ x # p
    BY <1>0, <1>1, NullApart DEF Public, Private, TypeOK, ListTypeOK
  <2> QED
    BY <1>1, <1>2, <1>4, <2>1 DEF FreeLinks, NoLinks
<1>10. Chain'
  <2>1. /\ On' \subseteq Public' /\ ListTail \in On'
    BY <1>1, <1>3, <1>5 DEF Chain
  <2>2. \A x : Behind(link["next"][x])' = IF ny[x] = c THEN m ELSE link["prev"][ny[x]]
    BY <1>0, <1>1, <1>2 DEF Behind, Inserting
  <2>3. \A x \in On \ {ListTail} : nx[x] # Null /\ link["prev"][nx[x]] = x
    BY DEF Chain, Behind
  <2>4. ASSUME NEW x \in On' \ {ListTail}
        PROVE  (link["next"][x] # Null /\ Behind(link["next"][x]) = x)'
    <3>1. CASE x = m
      BY <1>0, <1>1, <1>4, <2>2, <3>1, NullApart
    <3>2. CASE x = p
      BY <1>0, <1>1, <1>4, <2>2, <3>2, NullApart
    <3>3. CASE x # m /\ x # p
      <4>1. x \in On \ {ListTail} /\ ny[x] = nx[x]
        BY <1>1, <1>4, <1>5, <3>3
      <4>2. nx[x] # c
        BY <1>0, <2>3, <3>3, <4>1
      <4> QED
        BY <2>2, <2>3, <4>1, <4>2
    <3> QED
      BY <3>1, <3>2, <3>3
  <2> QED
    BY <2>1, <2>4 DEF Chain
<1>11. Gone'
  <2>1. \A x \in Public' \ On' : x \in Public \ On /\ x # p
    BY <1>0, <1>3, <1>5
  <2>2. \A x \in Public \ On : NoLinks(x)
    BY DEF Gone, Leaving
  <2>3. \A x \in Public' \ On' : NoLinks(x)'
    BY <1>1, <1>4, <2>1, <2>2 DEF NoLinks
  <2> QED
    BY <2>3 DEF Gone
<1>12. StoredOK'
  BY <1>0, <1>1, <1>2, <1>4, <1>5 DEF StoredOK, InsertStored, Inserting
<1> QED
  BY <1>0, <1>1, <1>3, <1>5, <1>6, <1>7, <1>8, <1>9, <1>10, <1>11, <1>12 DEF HeapOK

\* A last store makes nobody's node public, and one by a thread with no node does not.
LEMMA SamePublic ==
  ASSUME IInv, NEW t \in Thread, Store(t),
         (stored > 0 /\ owner' = NoThread) \/ (node[t] = Null /\ owner' = t)
  PROVE  Public' = Public /\ NodesApart' /\ NodesTaken' /\ free' = free
<1> USE DEF IInv
<1>1. owner = t /\ t # NoThread /\ \A u \in Thread \ {t} : node'[u] = node[u]
  BY OwnerFacts DEF Store, SameRun
<1>2. /\ owner' = NoThread => node'[t] = Null /\ stored > 0
      /\ owner' = t => node'[t] = node[t] /\ node[t] = Null
  BY <1>1 DEF Store, SameRun, Return, Set, TypeOK, ListTypeOK
<1>3. free' = free /\ node'[t] = Null /\ free \subseteq Node
  BY <1>1, <1>2 DEF Store, TypeOK, ListTypeOK
<1>4. \A u \in Thread \ {t} : ~Storing(u) /\ ~Storing(u)'
  BY <1>1, ListAssumption DEF Storing, Store
<1>5. \A n \in Node : ~(node[t] = n /\ ~Storing(t)) /\ ~(node'[t] = n)
  BY <1>1, <1>2, <1>3, NullApart DEF Storing
<1>6. Private' = Private
  BY <1>1, <1>3, <1>4, <1>5 DEF Private
<1>7. Public' = Public
  BY <1>6 DEF Public
<1>8. NodesTaken'
  BY <1>1, <1>3, NullApart DEF NodesTaken
<1>9. NodesApart'
  BY <1>1, <1>3 DEF NodesApart
<1> QED
  BY <1>3, <1>7, <1>8, <1>9

\* The last store of an insert.
LEMMA InsertPrev ==
  ASSUME IInv, TypeOK', NEW t \in Thread, Store(t), Inserting(t), stored = 1,
         owner' = NoThread, stored' = 0, Write("prev", curr[t], node[t])
  PROVE  HeapOK' /\ Public' = Public /\ WalksKept /\ On' = On
<1> USE DEF IInv
<1> DEFINE p == prev[t]
           c == curr[t]
           m == node[t]
<1>0. /\ owner = t /\ t # NoThread /\ c \in Public \ {ListHead} /\ c \in On /\ p \in On /\ p # ListTail
      /\ m \in Node /\ m \in Public
  BY OwnerFacts DEF Store, InsertStored
<1>1. /\ link'["next"] = link["next"] /\ link'["prev"] = [link["prev"] EXCEPT ![c] = m]
      /\ link["prev"] \in [AnyNode -> Pointer] /\ Public \in SUBSET AnyNode /\ On \subseteq Public
  BY PublicFacts, OnFacts DEF Write
<1>2. Public' = Public /\ NodesApart' /\ NodesTaken' /\ free' = free
  BY <1>0, SamePublic
<1>3. /\ link'["prev"][c] = m /\ \A x \in AnyNode : x # c => link'["prev"][x] = link["prev"][x]
      /\ On' = On /\ WalksKept
  BY <1>0, <1>1, PrevReach
<1>4. PublicLinks'
  BY <1>0, <1>1, <1>2, <1>3, NullApart DEF PublicLinks
<1>5. FreeLinks'
  <2>1. \A x \in free : x \in AnyNode /\ x # c
    BY <1>0, NullApart DEF Public, Private, TypeOK, ListTypeOK
  <2> QED
    BY <1>1, <1>2, <1>3, <2>1 DEF FreeLinks, NoLinks
<1>6. Chain'
  <2>1. \A x \in On \ {ListTail} : Behind(link["next"][x])' = Behind(link["next"][x])
    <3> SUFFICES ASSUME NEW x \in On \ {ListTail}
                 PROVE  Behind(link["next"][x])' = Behind(link["next"][x])
      OBVIOUS
    <3>1. link["next"][x] \in AnyNode
      BY <1>1, PublicFacts, OnFacts DEF Chain, PublicLinks
    <3> QED
      BY <1>0, <1>1, <1>3, <3>1 DEF Behind
  <2> QED
    BY <1>1, <1>2, <1>3, <2>1 DEF Chain
<1>7. Gone'
  <2>1. \A x \in Public \ On : NoLinks(x)
    BY <1>0 DEF Gone, Leaving, Inserting, Removing
  <2> QED
    BY <1>0, <1>1, <1>2, <1>3, <2>1 DEF Gone, NoLinks
<1> QED
  BY <1>2, <1>3, <1>4, <1>5, <1>6, <1>7 DEF HeapOK, StoredOK

\* What a remove knows while it makes its stores.
LEMMA RemoverFacts ==
  ASSUME IInv, NEW t \in Thread, Store(t), ~Inserting(t)
  PROVE  LET p == prev[t]  c == curr[t]  n == next[t] IN
         /\ owner = t /\ t # NoThread /\ Removing(t) /\ node[t] = Null
         /\ p \in On \ {ListTail} /\ n \in On \ {ListHead} /\ c \in Public /\ c # ListHead /\ c # ListTail
         /\ p # c /\ n # c /\ keyOf[c] = arg[t] /\ c \in Node
         /\ stored \in {0, 1, 2, 3} /\ (stored = 0 <=> c \in On)
         /\ link["next"][p] = IF stored = 0 THEN c ELSE n
         /\ link["prev"][n] = IF stored < 2 THEN c ELSE p
         /\ link["next"][c] = IF stored < 3 THEN n ELSE Null
         /\ link["prev"][c] = p
BY OwnerFacts DEF Store, RemoveStored

\* The first store of a remove: the node is out of the list.
LEMMA RemoveNext ==
  ASSUME IInv, TypeOK', NEW t \in Thread, Store(t), ~Inserting(t), stored = 0,
         owner' = t, SameRun(t), stored' = 1, Write("next", prev[t], next[t])
  PROVE  /\ HeapOK' /\ Public' = Public /\ WalksKept
         /\ curr[t] \in On /\ On' = On \ {curr[t]}
<1> USE DEF IInv
<1> DEFINE p == prev[t]
           c == curr[t]
           n == next[t]
           nx == link["next"]
           ny == link'["next"]
<1>0. /\ owner = t /\ t # NoThread /\ Removing(t) /\ ~Inserting(t) /\ node[t] = Null
      /\ p \in On \ {ListTail} /\ n \in On \ {ListHead} /\ c \in On /\ c # ListHead /\ c # ListTail
      /\ p # c /\ n # c
      /\ nx[p] = c /\ link["prev"][n] = c /\ nx[c] = n /\ link["prev"][c] = p
  BY RemoverFacts
<1>1. /\ nx \in [AnyNode -> Pointer] /\ ny = [nx EXCEPT ![p] = n] /\ link'["prev"] = link["prev"]
      /\ Public \in SUBSET AnyNode /\ On \subseteq Public /\ n # Null
      /\ ListHead \in AnyNode /\ nx[ListTail] = Null
      /\ ny \in [AnyNode -> Pointer]
  <2>1. nx \in [AnyNode -> Pointer] /\ Public \in SUBSET AnyNode /\ On \subseteq Public
    BY PublicFacts, OnFacts
  <2>2. ny \in [AnyNode -> Pointer] /\ ny = [nx EXCEPT ![p] = n] /\ link'["prev"] = link["prev"]
    BY DEF Write
  <2>3. n # Null /\ ListHead \in AnyNode /\ nx[ListTail] = Null
    BY <1>0, <2>1, NullApart DEF PublicLinks
  <2> QED
    BY <2>1, <2>2, <2>3
<1>2. /\ pc'[t] = pc[t] /\ kind'[t] = kind[t] /\ node'[t] = node[t]
      /\ curr'[t] = c /\ prev'[t] = p /\ next'[t] = n
  BY DEF SameRun
<1>3. Public' = Public /\ NodesApart' /\ NodesTaken' /\ free' = free
  BY <1>0, SamePublic
<1>4. ny[p] = n /\ \A x \in AnyNode : x # p => ny[x] = nx[x]
  BY <1>0, <1>1
<1>5. \A x \in On \ {ListTail} : nx[x] # Null /\ link["prev"][nx[x]] = x
  BY DEF Chain, Behind
<1>6. \A x \in On : nx[x] = c => x = p
  BY <1>0, <1>1, <1>5, NullApart
<1>7. /\ \A x \in AnyNode : Reach(nx, x) \ {c} \subseteq Reach(ny, x)
      /\ Reach(ny, ListHead) = Reach(nx, ListHead) \ {c}
  <2> HIDE DEF p, c, n, nx, ny
  <2>1. PICK a : a = nx
    OBVIOUS
  <2>2. PICK b : b = ny
    OBVIOUS
  <2>3. PICK i \in AnyNode : i = p
    BY <1>0, <1>1
  <2>4. PICK j \in AnyNode : j = c
    BY <1>0, <1>1
  <2>5. /\ a \in [AnyNode -> Pointer] /\ b \in [AnyNode -> Pointer] /\ a[i] = j /\ a[j] # Null
        /\ b[i] = a[j] /\ \A x \in AnyNode : x # i => b[x] = a[x]
    BY <1>0, <1>1, <1>4, <2>1, <2>2, <2>3, <2>4
  <2>6. \A x \in AnyNode : /\ Reach(a, x) \ {j} \subseteq Reach(b, x)
                           /\ x # j /\ i # j /\ a[j] # j /\ (\A y \in Reach(a, x) : a[y] = j => y = i)
                                => Reach(b, x) = Reach(a, x) \ {j}
    BY <2>5, ReachRemove
  <2>7. On = Reach(a, ListHead)
    BY <2>1 DEF On, From, nx
  <2>8. ListHead # j /\ i # j /\ a[j] # j /\ \A y \in Reach(a, ListHead) : a[y] = j => y = i
    BY <1>0, <1>6, <2>1, <2>3, <2>4, <2>7
  <2>9. Reach(b, ListHead) = Reach(a, ListHead) \ {j}
    BY <1>1, <2>6, <2>8
  <2> QED
    BY <2>1, <2>2, <2>4, <2>6, <2>9
<1>8. On' = On \ {c}
  BY <1>7 DEF On, From
<1>9. WalksKept
  <2> SUFFICES ASSUME NEW x \in Public, Alive(x)'
               PROVE  Alive(x) /\ Reach(nx, x) \cap InList' \subseteq Reach(ny, x)
    BY DEF WalksKept
  <2>1. Alive(x)
    BY <1>0, <1>1, <1>4, <1>8 DEF Alive
  <2>2. InList' \subseteq On \ {c}
    BY <1>8 DEF InList
  <2> QED
    BY <1>1, <1>7, <2>1, <2>2
<1>10. PublicLinks'
  BY <1>0, <1>1, <1>3, <1>4, NullApart DEF PublicLinks
<1>11. FreeLinks'
  <2>1. \A x \in free : x \in AnyNode /\ x # p
    BY <1>0, <1>1, NullApart DEF Public, Private, TypeOK, ListTypeOK
  <2> QED
    BY <1>1, <1>3, <1>4, <2>1 DEF FreeLinks, NoLinks
<1>12. Chain'
  <2>1. On' \subseteq Public' /\ ListTail \in On'
    BY <1>0, <1>1, <1>3, <1>8 DEF Chain
  <2>2. \A x : Behind(link["next"][x])' = IF ny[x] = n THEN p ELSE link["prev"][ny[x]]
    BY <1>0, <1>1, <1>2 DEF Behind, Inserting
  <2>3. ASSUME NEW x \in On' \ {ListTail}
        PROVE  (link["next"][x] # Null /\ Behind(link["next"][x]) = x)'
    <3>1. CASE x = p
      BY <1>1, <1>4, <2>2, <3>1
    <3>2. CASE x # p
      <4>1. x \in On \ {ListTail} /\ x # c /\ ny[x] = nx[x]
        BY <1>1, <1>4, <1>8, <3>2
      <4>2. nx[x] # n
        BY <1>0, <1>5, <4>1
      <4> QED
        BY <1>5, <2>2, <4>1, <4>2
    <3> QED
      BY <3>1, <3>2
  <2> QED
    BY <2>1, <2>3 DEF Chain
<1>13. Gone'
  <2>1. \A x \in Public \ On : NoLinks(x) /\ x # p
    BY <1>0 DEF Gone, Leaving
  <2>2. \A x \in Public \ On : NoLinks(x)'
    BY <1>1, <1>4, <2>1 DEF NoLinks
  <2>3. \A x : x = c => Leaving(x)'
    BY <1>0, <1>2 DEF Leaving, Removing
  <2> QED
    BY <1>3, <1>8, <2>2, <2>3 DEF Gone
<1>14. StoredOK'
  BY <1>0, <1>1, <1>2, <1>4, <1>8 DEF StoredOK, RemoveStored, Inserting
<1> QED
  BY <1>0, <1>3, <1>8, <1>9, <1>10, <1>11, <1>12, <1>13, <1>14 DEF HeapOK

\* The second store of a remove, and its last one: prev of another node is set.
LEMMA RemovePrev ==
  ASSUME IInv, TypeOK', NEW t \in Thread, Store(t), ~Inserting(t), stored = 1,
         owner' = t, SameRun(t), stored' = 2, Write("prev", next[t], prev[t])
  PROVE  HeapOK' /\ Public' = Public /\ WalksKept /\ On' = On
<1> USE DEF IInv
<1> DEFINE p == prev[t]
           c == curr[t]
           n == next[t]
<1>0. /\ owner = t /\ t # NoThread /\ Removing(t) /\ ~Inserting(t) /\ node[t] = Null
      /\ p \in On \ {ListTail} /\ n \in On \ {ListHead} /\ c \in Public /\ c \notin On
      /\ p # c /\ n # c
      /\ link["next"][p] = n /\ link["next"][c] = n /\ link["prev"][c] = p
  BY RemoverFacts
<1>1. /\ link'["next"] = link["next"] /\ link'["prev"] = [link["prev"] EXCEPT ![n] = p]
      /\ link["prev"] \in [AnyNode -> Pointer] /\ Public \in SUBSET AnyNode /\ On \subseteq Public
  BY PublicFacts, OnFacts DEF Write
<1>2. /\ pc'[t] = pc[t] /\ kind'[t] = kind[t] /\ node'[t] = node[t]
      /\ curr'[t] = c /\ prev'[t] = p /\ next'[t] = n
  BY DEF SameRun
<1>3. Public' = Public /\ NodesApart' /\ NodesTaken' /\ free' = free
  BY <1>0, SamePublic
<1>4. /\ link'["prev"][n] = p /\ \A x \in AnyNode : x # n => link'["prev"][x] = link["prev"][x]
      /\ On' = On /\ WalksKept
  BY <1>0, <1>1, PrevReach
<1>5. PublicLinks'
  BY <1>0, <1>1, <1>3, <1>4, NullApart DEF PublicLinks
<1>6. FreeLinks'
  <2>1. \A x \in free : x \in AnyNode /\ x # n
    BY <1>0, <1>1, NullApart DEF Public, Private, TypeOK, ListTypeOK
  <2> QED
    BY <1>1, <1>3, <1>4, <2>1 DEF FreeLinks, NoLinks
<1>7. Chain'
  <2>1. \A x \in On \ {ListTail} : Behind(link["next"][x])' = Behind(link["next"][x])
    <3> SUFFICES ASSUME NEW x \in On \ {ListTail}
                 PROVE  Behind(link["next"][x])' = Behind(link["next"][x])
      OBVIOUS
    <3>1. link["next"][x] \in AnyNode
      BY <1>1, PublicFacts, OnFacts DEF Chain, PublicLinks
    <3> QED
      BY <1>0, <1>1, <1>4, <3>1 DEF Behind
  <2> QED
    BY <1>1, <1>3, <1>4, <2>1 DEF Chain
<1>8. Gone'
  <2>1. \A x \in Public \ On : x # n /\ (NoLinks(x) \/ x = c)
    BY <1>0 DEF Gone, Leaving
  <2>2. \A x \in Public \ On : NoLinks(x)' \/ x = c
    BY <1>1, <1>4, <2>1 DEF NoLinks
  <2>3. \A x : x = c => Leaving(x)'
    BY <1>0, <1>2 DEF Leaving, Removing
  <2> QED
    BY <1>3, <1>4, <2>2, <2>3 DEF Gone
<1>9. StoredOK'
  BY <1>0, <1>1, <1>2, <1>4 DEF StoredOK, RemoveStored, Inserting
<1> QED
  BY <1>3, <1>4, <1>5, <1>6, <1>7, <1>8, <1>9 DEF HeapOK

\* The third store of a remove: the node removed leads nowhere.
LEMMA RemoveCutNext ==
  ASSUME IInv, TypeOK', NEW t \in Thread, Store(t), ~Inserting(t), stored = 2,
         owner' = t, SameRun(t), stored' = 3, Write("next", curr[t], Null)
  PROVE  HeapOK' /\ Public' = Public /\ WalksKept /\ On' = On
<1> USE DEF IInv
<1> DEFINE p == prev[t]
           c == curr[t]
           n == next[t]
           nx == link["next"]
           ny == link'["next"]
<1>0. /\ owner = t /\ t # NoThread /\ Removing(t) /\ ~Inserting(t) /\ node[t] = Null
      /\ p \in On \ {ListTail} /\ n \in On \ {ListHead} /\ c \in Public /\ c \notin On
      /\ p # c /\ n # c /\ c # ListTail /\ c # ListHead
      /\ nx[p] = n /\ nx[c] = n /\ link["prev"][n] = p /\ link["prev"][c] = p
  BY RemoverFacts
<1>1. /\ nx \in [AnyNode -> Pointer] /\ Public \in SUBSET AnyNode /\ On \subseteq Public
      /\ ny \in [AnyNode -> Pointer] /\ ny = [nx EXCEPT ![c] = Null] /\ link'["prev"] = link["prev"]
  BY PublicFacts, OnFacts DEF Write
<1>2. /\ pc'[t] = pc[t] /\ kind'[t] = kind[t] /\ node'[t] = node[t]
      /\ curr'[t] = c /\ prev'[t] = p /\ next'[t] = n
  BY DEF SameRun
<1>3. Public' = Public /\ NodesApart' /\ NodesTaken' /\ free' = free
  BY <1>0, SamePublic
<1>4. ny[c] = Null /\ \A x \in AnyNode : x # c => ny[x] = nx[x]
  BY <1>0, <1>1
<1>5. \A x \in On : Reach(ny, x) = Reach(nx, x)
  <2> HIDE DEF p, c, n, nx, ny
  <2>1. PICK a : a = nx
    OBVIOUS
  <2>2. PICK b : b = ny
    OBVIOUS
  <2>3. PICK P : P = On
    OBVIOUS
  <2>4. Closed(a, P) /\ ListHead \in P
    BY <1>1, <2>1, <2>3, OnFacts, NullApart, ReachClosed DEF On, From, nx, Closed
  <2>5. /\ a \in [AnyNode -> Pointer] /\ b \in [AnyNode -> Pointer] /\ P \in SUBSET AnyNode
        /\ \A x \in P : b[x] = a[x]
    BY <1>0, <1>1, <1>4, <2>1, <2>2, <2>3
  <2>6. \A x \in P : Reach(b, x) = Reach(a, x)
    BY <2>4, <2>5, ReachFrame
  <2> QED
    BY <2>1, <2>2, <2>3, <2>6
<1>6. On' = On
  BY <1>5, OnFacts DEF On, From
<1>7. \A x \in Public \ On : NoLinks(x) \/ x = c
  BY <1>0 DEF Gone, Leaving
<1>8. WalksKept
  <2> SUFFICES ASSUME NEW x \in Public, Alive(x)'
               PROVE  x \in On
    BY <1>5 DEF WalksKept, Alive
  <2> SUFFICES ASSUME ny[x] # Null, x \notin On
               PROVE  FALSE
    BY <1>6 DEF Alive
  <2> QED
    BY <1>1, <1>4, <1>7 DEF NoLinks
<1>9. PublicLinks'
  BY <1>0, <1>1, <1>3, <1>4, NullApart DEF PublicLinks
<1>10. FreeLinks'
  <2>1. \A x \in free : x \in AnyNode /\ x # c
    BY <1>0, NullApart DEF Public, Private, TypeOK, ListTypeOK
  <2> QED
    BY <1>1, <1>3, <1>4, <2>1 DEF FreeLinks, NoLinks
<1>11. Chain'
  <2>1. \A x : Behind(link["next"][x])' = link["prev"][ny[x]]
    BY <1>1 DEF Behind
  <2>2. \A x \in On \ {ListTail} : nx[x] # Null /\ link["prev"][nx[x]] = x /\ ny[x] = nx[x]
    BY <1>0, <1>1, <1>4 DEF Chain, Behind
  <2>3. \A x \in On' \ {ListTail} : (link["next"][x] # Null /\ Behind(link["next"][x]) = x)'
    BY <1>6, <2>1, <2>2
  <2>4. On' \subseteq Public' /\ ListTail \in On'
    BY <1>3, <1>6 DEF Chain
  <2> QED
    BY <2>3, <2>4 DEF Chain
<1>12. Gone'
  <2>1. \A x \in Public \ On : NoLinks(x)' \/ x = c
    BY <1>1, <1>4, <1>7 DEF NoLinks
  <2>2. \A x : x = c => Leaving(x)'
    BY <1>0, <1>2 DEF Leaving, Removing
  <2> QED
    BY <1>3, <1>6, <2>1, <2>2 DEF Gone
<1>13. StoredOK'
  BY <1>0, <1>1, <1>2, <1>4, <1>6 DEF StoredOK, RemoveStored, Inserting
<1> QED
  BY <1>3, <1>6, <1>8, <1>9, <1>10, <1>11, <1>12, <1>13 DEF HeapOK

\* The last store of a remove: nothing is left of the node's links.
LEMMA RemoveCutPrev ==
  ASSUME IInv, TypeOK', NEW t \in Thread, Store(t), ~Inserting(t), stored = 3,
         owner' = NoThread, stored' = 0, Write("prev", curr[t], Null)
  PROVE  HeapOK' /\ Public' = Public /\ WalksKept /\ On' = On
<1> USE DEF IInv
<1> DEFINE c == curr[t]
<1>0. /\ owner = t /\ t # NoThread /\ Removing(t) /\ ~Inserting(t)
      /\ c \in Public /\ c \notin On /\ link["next"][c] = Null
  BY RemoverFacts
<1>1. /\ link'["next"] = link["next"] /\ link'["prev"] = [link["prev"] EXCEPT ![c] = Null]
      /\ link["prev"] \in [AnyNode -> Pointer] /\ Public \in SUBSET AnyNode /\ On \subseteq Public
  BY PublicFacts, OnFacts DEF Write
<1>2. Public' = Public /\ NodesApart' /\ NodesTaken' /\ free' = free
  BY SamePublic
<1>3. /\ link'["prev"][c] = Null /\ \A x \in AnyNode : x # c => link'["prev"][x] = link["prev"][x]
      /\ On' = On /\ WalksKept
  BY <1>0, <1>1, PrevReach
<1>4. PublicLinks'
  BY <1>0, <1>1, <1>2, <1>3, NullApart DEF PublicLinks
<1>5. FreeLinks'
  <2>1. \A x \in free : x \in AnyNode /\ x # c
    BY <1>0, NullApart DEF Public, Private, TypeOK, ListTypeOK
  <2> QED
    BY <1>1, <1>2, <1>3, <2>1 DEF FreeLinks, NoLinks
<1>6. Chain'
  <2>1. \A x \in On \ {ListTail} : Behind(link["next"][x])' = Behind(link["next"][x])
    <3> SUFFICES ASSUME NEW x \in On \ {ListTail}
                 PROVE  Behind(link["next"][x])' = Behind(link["next"][x])
      OBVIOUS
    <3>1. link["next"][x] \in On
      BY OnFacts DEF Chain
    <3> QED
      BY <1>0, <1>1, <1>3, <3>1 DEF Behind
  <2> QED
    BY <1>1, <1>2, <1>3, <2>1 DEF Chain
<1>7. Gone'
  <2>1. \A x \in Public \ On : NoLinks(x) \/ x = c
    BY <1>0 DEF Gone, Leaving
  <2> QED
    BY <1>0, <1>1, <1>2, <1>3, <2>1 DEF Gone, NoLinks
<1> QED
  BY <1>2, <1>3, <1>4, <1>5, <1>6, <1>7 DEF HeapOK, StoredOK

\* A store by its field, node and value.
LEMMA WordWrite ==
  ASSUME TypeOK, NEW f \in {"next", "prev"}, NEW x \in AnyNode, NEW v \in Pointer,
         link' = [link EXCEPT ![f][x] = v]
  PROVE  Write(f, x, v)
<1>1. link \in [{"next", "prev"} -> [AnyNode -> Pointer]]
  BY DEF TypeOK, ListTypeOK
<1>2. link[f] \in [AnyNode -> Pointer]
  BY <1>1
<1>3. [link[f] EXCEPT ![x] = v] \in [AnyNode -> Pointer]
  BY <1>2
<1>4. link' = [link EXCEPT ![f] = [link[f] EXCEPT ![x] = v]]
  OBVIOUS
<1> QED
  BY <1>1, <1>3, <1>4 DEF Write

\* The word that is stored, for an insert and for a remove.
StoresWord(t) ==
  /\ Inserting(t) => \/ stored = 0 /\ Write("next", prev[t], node[t])
                     \/ stored = 1 /\ Write("prev", curr[t], node[t])
  /\ ~Inserting(t) => \/ stored = 0 /\ Write("next", prev[t], next[t])
                      \/ stored = 1 /\ Write("prev", next[t], prev[t])
                      \/ stored = 2 /\ Write("next", curr[t], Null)
                      \/ stored = 3 /\ Write("prev", curr[t], Null)

\* QcasStore as a store of the next word of the qcas.
LEMMA QcasStores ==
  ASSUME IInv, NEW t \in Thread, QcasStore(t), UNCHANGED <<countVars, mapVars>>
  PROVE  /\ Store(t) /\ StoresWord(t)
         /\ link' \in [{"next", "prev"} -> [AnyNode -> Pointer]]
         /\ IF stored = (IF Inserting(t) THEN 1 ELSE 3) THEN owner' = NoThread /\ stored' = 0
            ELSE owner' = t /\ SameRun(t) /\ stored' = stored + 1
<1> USE DEF IInv
<1>0. pc[t] = "store" /\ InCall(t) /\ TypeOK
  BY DEF QcasStore, InCall
<1>1. /\ owner = t /\ prev[t] \in AnyNode /\ curr[t] \in AnyNode /\ TypeOK
      /\ Inserting(t) => node[t] \in AnyNode /\ stored \in {0, 1}
      /\ ~Inserting(t) => next[t] \in AnyNode /\ stored \in {0, 1, 2, 3}
  BY <1>0, OwnerFacts, OnFacts, PublicFacts, NullApart DEF InsertStored, RemoveStored
<1>2. Null \in Pointer /\ AnyNode \subseteq Pointer
  BY DEF Pointer
<1>3. link' = [link EXCEPT ![call[t][stored + 1].f][call[t][stored + 1].n] = call[t][stored + 1].new]
  BY DEF QcasStore
<1>4. /\ Inserting(t) => call[t] = InsertCall(t) /\ Len(call[t]) = 2
      /\ ~Inserting(t) => call[t] = RemoveCall(t) /\ Len(call[t]) = 4
  <2>1. Len(InsertCall(t)) = 2 /\ Len(RemoveCall(t)) = 4
    BY DEF InsertCall, RemoveCall
  <2> QED
    BY <1>0, <2>1, CallWords
<1>5. /\ \A u \in Thread \ {t} : SameRun(u)
      /\ IF stored = (IF Inserting(t) THEN 1 ELSE 3) THEN owner' = NoThread /\ stored' = 0 /\ Return(t)
         ELSE /\ owner' = t /\ SameRun(t) /\ stored' = stored + 1
              /\ UNCHANGED <<pc, kind, arg, node, curr, prev, next, call>>
  <2>1. stored + 1 = Len(call[t]) <=> stored = (IF Inserting(t) THEN 1 ELSE 3)
    <3>1. \A s \in {0, 1, 2, 3} : (s + 1 = 2 <=> s = 1) /\ (s + 1 = 4 <=> s = 3)
      OBVIOUS
    <3>2. stored \in {0, 1, 2, 3}
      BY <1>1
    <3>3. CASE Inserting(t)
      BY <1>4, <3>1, <3>2, <3>3
    <3>4. CASE ~Inserting(t)
      BY <1>4, <3>1, <3>2, <3>4
    <3> QED
      BY <3>3, <3>4
  <2>2. CASE stored + 1 = Len(call[t])
    <3>1. owner' = NoThread /\ stored' = 0 /\ Return(t)
      BY <2>2 DEF QcasStore
    <3>2. \A u \in Thread \ {t} : SameRun(u)
      BY <3>1 DEF Return, EndRound, Goto, Set, SameRun, TypeOK, ListTypeOK
    <3> QED
      BY <2>1, <2>2, <3>1, <3>2
  <2>3. CASE stored + 1 # Len(call[t])
    <3>1. /\ UNCHANGED <<pc, kind, arg, node, curr, prev, next, call>>
          /\ owner' = owner /\ stored' = stored + 1
      BY <2>3 DEF QcasStore, req, locals
    <3>2. \A u \in Thread : SameRun(u)
      BY <3>1 DEF SameRun
    <3> QED
      BY <1>1, <2>1, <2>3, <3>1, <3>2
  <2> QED
    BY <2>2, <2>3
<1>6. Store(t)
  <2>1. UNCHANGED <<sort, reload, keyOf, free, crashed, ops, n_val, result, mapVars>>
    BY DEF QcasStore, countVars
  <2>2. stable' = [u \in Thread |-> stable[u] \cap InList']
    BY DEF QcasStore
  <2> QED
    BY <1>0, <1>5, <2>1, <2>2 DEF Store
<1>7. StoresWord(t)
  <2>1. PICK f : f = call[t][stored + 1].f
    OBVIOUS
  <2>2. PICK x : x = call[t][stored + 1].n
    OBVIOUS
  <2>3. PICK v : v = call[t][stored + 1].new
    OBVIOUS
  <2>4. f \in {"next", "prev"} /\ x \in AnyNode /\ v \in Pointer => Write(f, x, v)
    BY <1>1, <1>3, <2>1, <2>2, <2>3, WordWrite
  <2>5. CASE Inserting(t)
    <3>1. stored = 0 => f = "next" /\ x = prev[t] /\ v = node[t]
      BY <1>4, <2>1, <2>2, <2>3, <2>5 DEF InsertCall, Word
    <3>2. stored = 1 => f = "prev" /\ x = curr[t] /\ v = node[t]
      BY <1>4, <2>1, <2>2, <2>3, <2>5 DEF InsertCall, Word
    <3> QED
      BY <1>1, <1>2, <2>4, <2>5, <3>1, <3>2 DEF StoresWord
  <2>6. CASE ~Inserting(t)
    <3>1. stored = 0 => f = "next" /\ x = prev[t] /\ v = next[t]
      BY <1>4, <2>1, <2>2, <2>3, <2>6 DEF RemoveCall, Word
    <3>2. stored = 1 => f = "prev" /\ x = next[t] /\ v = prev[t]
      BY <1>4, <2>1, <2>2, <2>3, <2>6 DEF RemoveCall, Word
    <3>3. stored = 2 => f = "next" /\ x = curr[t] /\ v = Null
      BY <1>4, <2>1, <2>2, <2>3, <2>6 DEF RemoveCall, Word
    <3>4. stored = 3 => f = "prev" /\ x = curr[t] /\ v = Null
      BY <1>4, <2>1, <2>2, <2>3, <2>6 DEF RemoveCall, Word
    <3> QED
      BY <1>1, <1>2, <2>4, <2>6, <3>1, <3>2, <3>3, <3>4 DEF StoresWord
  <2> QED
    BY <2>5, <2>6
<1>8. link' \in [{"next", "prev"} -> [AnyNode -> Pointer]]
  BY <1>1, <1>7 DEF StoresWord, Write
<1> QED
  BY <1>5, <1>6, <1>7, <1>8

\* What a store does to the list.
LEMMA StoreHeap ==
  ASSUME IInv, TypeOK', NEW t \in Thread, QcasStore(t), UNCHANGED <<countVars, mapVars>>
  PROVE  /\ HeapOK' /\ Public \subseteq Public' /\ WalksKept
         /\ \/ On' = On
            \/ Inserting(t) /\ node[t] \in Node \ On /\ On' = On \cup {node[t]}
            \/ Removing(t) /\ curr[t] \in On /\ On' = On \ {curr[t]}
<1>1. Store(t) /\ StoresWord(t)
  BY QcasStores
<1>2. CASE Inserting(t)
  <2>1. ASSUME stored = 0, Write("next", prev[t], node[t])
        PROVE  /\ HeapOK' /\ Public \subseteq Public' /\ WalksKept
               /\ node[t] \in Node \ On /\ On' = On \cup {node[t]}
    <3>1. owner' = t /\ SameRun(t) /\ stored' = 1
      BY <1>2, <2>1, QcasStores
    <3> QED
      BY <1>1, <1>2, <2>1, <3>1, InsertNext
  <2>2. ASSUME stored = 1, Write("prev", curr[t], node[t])
        PROVE  HeapOK' /\ Public' = Public /\ WalksKept /\ On' = On
    <3>1. owner' = NoThread /\ stored' = 0
      BY <1>2, <2>2, QcasStores
    <3> QED
      BY <1>1, <1>2, <2>2, <3>1, InsertPrev
  <2> QED
    BY <1>1, <1>2, <2>1, <2>2 DEF StoresWord
<1>3. CASE ~Inserting(t)
  <2>0. Removing(t)
    BY <1>1, <1>3, RemoverFacts
  <2>1. ASSUME stored = 0, Write("next", prev[t], next[t])
        PROVE  /\ HeapOK' /\ Public' = Public /\ WalksKept
               /\ curr[t] \in On /\ On' = On \ {curr[t]}
    <3>1. owner' = t /\ SameRun(t) /\ stored' = 1
      BY <1>3, <2>1, QcasStores
    <3> QED
      BY <1>1, <1>3, <2>1, <3>1, RemoveNext
  <2>2. ASSUME stored = 1, Write("prev", next[t], prev[t])
        PROVE  HeapOK' /\ Public' = Public /\ WalksKept /\ On' = On
    <3>1. owner' = t /\ SameRun(t) /\ stored' = 2
      BY <1>3, <2>2, QcasStores
    <3> QED
      BY <1>1, <1>3, <2>2, <3>1, RemovePrev
  <2>3. ASSUME stored = 2, Write("next", curr[t], Null)
        PROVE  HeapOK' /\ Public' = Public /\ WalksKept /\ On' = On
    <3>1. owner' = t /\ SameRun(t) /\ stored' = 3
      BY <1>3, <2>3, QcasStores
    <3> QED
      BY <1>1, <1>3, <2>3, <3>1, RemoveCutNext
  <2>4. ASSUME stored = 3, Write("prev", curr[t], Null)
        PROVE  HeapOK' /\ Public' = Public /\ WalksKept /\ On' = On
    <3>1. owner' = NoThread /\ stored' = 0
      BY <1>3, <2>4, QcasStores
    <3> QED
      BY <1>1, <1>3, <2>4, <3>1, RemoveCutPrev
  <2> QED
    BY <1>1, <1>3, <2>0, <2>1, <2>2, <2>3, <2>4 DEF StoresWord
<1> QED
  BY <1>2, <1>3

\* QcasStore keeps the invariant.
LEMMA QcasStoreStep ==
  ASSUME IInv, NEW t \in Thread, QcasStore(t), UNCHANGED <<countVars, mapVars>>
  PROVE  TypeOK' /\ IInv'
<1>1. /\ Store(t) /\ StoresWord(t)
      /\ link' \in [{"next", "prev"} -> [AnyNode -> Pointer]]
  BY QcasStores
<1>2. stored < 4
  BY <1>1 DEF StoresWord
<1>3. TypeOK'
  BY <1>1, <1>2, StoreTypes
<1>4. HeapOK' /\ Public \subseteq Public' /\ WalksKept
  BY <1>3, StoreHeap
<1>5. \A n \in Public : link["next"][n] = Null => link'["next"][n] = Null
  <2> SUFFICES ASSUME NEW n \in Public, link["next"][n] = Null
               PROVE  link'["next"][n] = Null
    OBVIOUS
  <2>1. link["next"] \in [AnyNode -> Pointer] /\ n \in AnyNode
    BY PublicFacts DEF IInv
  <2>2. CASE link'["next"] = link["next"]
    BY <2>2
  <2>3. CASE Write("next", curr[t], Null)
    BY <2>1, <2>3 DEF Write
  <2>4. CASE stored = 0
    <3>1. prev[t] # n
      <4>1. link["next"][prev[t]] = curr[t]
        BY <1>1, <2>4, OwnerFacts DEF Store, InsertStored, RemoveStored
      <4>2. curr[t] # Null
        BY <1>1, OwnerFacts, PublicFacts, NullApart DEF Store, IInv
      <4> QED
        BY <4>1, <4>2
    <3>2. \E v : Write("next", prev[t], v)
      BY <1>1, <2>4 DEF StoresWord
    <3> QED
      BY <2>1, <3>1, <3>2 DEF Write
  <2> QED
    BY <1>1, <2>2, <2>3, <2>4 DEF StoresWord, Write
<1>6. \A n \in Private : SameLinks(n)
  <2> SUFFICES ASSUME NEW n \in Private
               PROVE  SameLinks(n)
    OBVIOUS
  <2>1. /\ link["next"] \in [AnyNode -> Pointer] /\ link["prev"] \in [AnyNode -> Pointer]
        /\ n \in AnyNode /\ n \notin Public
    BY PublicFacts, NullApart DEF IInv, Private, Public
  <2>2. prev[t] \in Public /\ curr[t] \in Public /\ (~Inserting(t) => next[t] \in Public)
    BY <1>1, OwnerFacts, OnFacts DEF Store
  <2>3. ASSUME NEW f \in {"next", "prev"}, NEW x \in Public, NEW v, Write(f, x, v)
        PROVE  SameLinks(n)
    BY <2>1, <2>3 DEF Write, SameLinks
  <2> QED
    BY <1>1, <2>2, <2>3 DEF StoresWord
<1>7. owner' = t /\ Inserting(t) => stored = 0
  <2>1. t # NoThread
    BY ListAssumption
  <2> QED
    BY <1>1, <2>1, QcasStores DEF StoresWord
<1>8. \A u \in Thread : ThreadOK(u)' /\ WalkOK(u)'
  BY <1>1, <1>3, <1>4, <1>5, <1>6, <1>7, StoreThreads
<1>9. CrashOK'
  <2>1. pc'[t] # "crash"
    BY <1>1 DEF Store, SameRun, Return, EndRound, Goto, IInv, TypeOK, ListTypeOK
  <2> QED
    BY <1>1, <2>1, CrashKept DEF Store
<1> QED
  BY <1>3, <1>4, <1>8, <1>9 DEF IInv, HeapOK, ThreadOK

-----------------------------------------------------------------------------
(* The start.                                                              *)

\* A set of numbers up to a bound has a least one.
LEMMA LeastNumber ==
  ASSUME NEW last \in Nat, NEW B \in SUBSET (0 .. last), B # {}
  PROVE  \E i \in B : \A j \in B : i <= j
<1> DEFINE S == 0 .. last
           T == {0 .. i : i \in B}
<1>1. IsFiniteSet(S)
  BY FS_Interval
<1>2. IsWellFoundedOn(StrictSubsetOrdering(S), SUBSET S)
  BY <1>1, FS_StrictSubsetOrderingWellFounded, FS_FiniteSubsetsOfFinite
<1>3. T \in SUBSET (SUBSET S) /\ T # {}
  <2>1. \A i \in B : 0 .. i \in SUBSET S
    OBVIOUS
  <2>2. \E i \in B : 0 .. i \in T
    OBVIOUS
  <2> QED
    BY <2>1, <2>2
<1>4. PICK x \in T : \A y \in T : ~ (<<y, x>> \in StrictSubsetOrdering(S))
  <2> HIDE DEF S, T
  <2> QED
    BY <1>2, <1>3, WFMin
<1>5. PICK i \in B : x = 0 .. i
  OBVIOUS
<1>6. ASSUME NEW j \in B, ~ (i <= j)
      PROVE  FALSE
  <2>1. i \in 0 .. last /\ j \in 0 .. last /\ j < i
    BY <1>6
  <2>2. (0 .. j) \subseteq (0 .. i) /\ (0 .. j) # (0 .. i)
    <3>1. i \in 0 .. i /\ i \notin 0 .. j
      BY <2>1
    <3> QED
      BY <2>1, <3>1
  <2>3. <<0 .. j, 0 .. i>> \in StrictSubsetOrdering(S)
    BY <2>1, <2>2 DEF StrictSubsetOrdering
  <2> QED
    BY <1>4, <1>5, <1>6, <2>3
<1> QED
  BY <1>6

\* A set with the first node of a path in it, and with each node the next one,
\* holds the whole path.
LEMMA AlongPath ==
  ASSUME NEW last \in Nat, NEW path, NEW S, path[0] \in S,
         \A i \in 0 .. last : i # last /\ path[i] \in S => path[i + 1] \in S
  PROVE  \A i \in 0 .. last : path[i] \in S
<1> DEFINE B == {i \in 0 .. last : path[i] \notin S}
<1> SUFFICES ASSUME B # {}
             PROVE  FALSE
  OBVIOUS
<1>1. PICK i \in B : \A j \in B : i <= j
  BY LeastNumber
<1>2. i # 0 /\ i - 1 \in 0 .. last /\ i - 1 # last /\ (i - 1) + 1 = i
  BY <1>1
<1>3. i - 1 \notin B
  BY <1>1, <1>2
<1> QED
  BY <1>1, <1>2, <1>3

\* The list at the start, as a path from ListHead to ListTail.
IsPath(path, last) ==
  /\ path[0] = ListHead /\ path[last] = ListTail
  /\ \A i, j \in 0 .. last : path[i] = path[j] => i = j
  /\ \A i \in 0 .. last : link["next"][path[i]] = IF i = last THEN Null ELSE path[i + 1]
  /\ \A i \in 0 .. last : link["prev"][path[i]] = IF i = 0 THEN Null ELSE path[i - 1]
  /\ \A n \in AnyNode : n \in free \/ \E i \in 0 .. last : path[i] = n
  /\ \A n \in free : NoLinks(n) /\ \A i \in 0 .. last : path[i] # n

\* ListInit builds a path.
LEMMA InitPath ==
  ASSUME Init
  PROVE  \E last \in Nat \ {0} : \E path \in [0 .. last -> AnyNode] :
           IsPath(path, last)
<1> DEFINE last == Len(Prefill) + 1
           s    == CHOOSE s \in [1 .. Len(Prefill) -> Node] : Injective(s)
           path == [i \in 0 .. last |->
                     IF i = 0 THEN ListHead ELSE IF i = last THEN ListTail ELSE s[i]]
           Beside(n, d) ==
             IF \E i \in 0 .. last : path[i] = n /\ i + d \in 0 .. last
             THEN path[(CHOOSE i \in 0 .. last : path[i] = n) + d] ELSE Null
<1>1. /\ link = [f \in {"next", "prev"} |-> [n \in AnyNode |->
                   Beside(n, IF f = "next" THEN 1 ELSE -1)]]
      /\ free = {n \in Node : \A i \in DOMAIN s : s[i] # n}
  BY DEF Init, ListInit
<1>2. last \in Nat \ {0} /\ Len(Prefill) \in Nat
  BY ListAssumption
<1>3. s \in [1 .. Len(Prefill) -> Node] /\ Injective(s)
  BY ListAssumption
<1>4. path \in [0 .. last -> AnyNode] /\ path[0] = ListHead /\ path[last] = ListTail
  BY <1>2, <1>3, NullApart
<1>5. \A i \in 0 .. last : i # 0 /\ i # last => path[i] = s[i] /\ i \in DOMAIN s /\ path[i] \in Node
  BY <1>2, <1>3
<1>6. \A i, j \in 0 .. last : path[i] = path[j] => i = j
  <2> HIDE DEF last, s, path
  <2> QED
    BY <1>3, <1>4, <1>5, NullApart DEF Injective
<1>7. \A n \in Node : (\E i \in DOMAIN s : s[i] = n) <=> \E i \in 0 .. last : path[i] = n
  <2>1. DOMAIN s = 1 .. Len(Prefill) /\ \A i \in DOMAIN s : i \in 0 .. last /\ i # 0 /\ i # last
    BY <1>2, <1>3
  <2> HIDE DEF last, s, path
  <2> QED
    BY <1>4, <1>5, <2>1, NullApart
<1>8. /\ link["next"] = [n \in AnyNode |-> Beside(n, 1)]
      /\ link["prev"] = [n \in AnyNode |-> Beside(n, -1)]
  BY <1>1
<1>9. ASSUME NEW i \in 0 .. last, NEW d \in {1, -1}
      PROVE  Beside(path[i], d) = IF i + d \in 0 .. last THEN path[i + d] ELSE Null
  <2>1. (CHOOSE j \in 0 .. last : path[j] = path[i]) = i
    BY <1>6
  <2>2. (\E j \in 0 .. last : path[j] = path[i] /\ j + d \in 0 .. last) <=> i + d \in 0 .. last
    BY <1>6
  <2> HIDE DEF last, s, path
  <2> QED
    BY <2>1, <2>2
<1>10. ASSUME NEW n \in AnyNode, \A i \in 0 .. last : path[i] # n, NEW d
       PROVE  Beside(n, d) = Null
  BY <1>10
<1>11. \A i \in 0 .. last : link["next"][path[i]] = IF i = last THEN Null ELSE path[i + 1]
  <2> SUFFICES ASSUME NEW i \in 0 .. last
               PROVE  link["next"][path[i]] = IF i = last THEN Null ELSE path[i + 1]
    OBVIOUS
  <2>1. i + 1 \in 0 .. last <=> i # last
    BY <1>2
  <2> HIDE DEF last, s, path, Beside
  <2> QED
    BY <1>4, <1>8, <1>9, <2>1
<1>12. \A i \in 0 .. last : link["prev"][path[i]] = IF i = 0 THEN Null ELSE path[i - 1]
  <2> SUFFICES ASSUME NEW i \in 0 .. last
               PROVE  link["prev"][path[i]] = IF i = 0 THEN Null ELSE path[i - 1]
    OBVIOUS
  <2>1. (i + (-1) \in 0 .. last <=> i # 0) /\ i + (-1) = i - 1
    BY <1>2
  <2> HIDE DEF last, s, path, Beside
  <2> QED
    BY <1>4, <1>8, <1>9, <2>1
<1>13. \A n \in free : NoLinks(n) /\ \A i \in 0 .. last : path[i] # n
  <2> HIDE DEF last, s, path, Beside
  <2>1. \A n \in free : n \in Node /\ n \in AnyNode /\ \A i \in 0 .. last : path[i] # n
    BY <1>1, <1>7, NullApart
  <2> QED
    BY <1>8, <1>10, <2>1 DEF NoLinks
<1>14. \A n \in AnyNode : n \in free \/ \E i \in 0 .. last : path[i] = n
  <2> HIDE DEF s, path, Beside
  <2>1. \A n \in Node : n \in free \/ \E i \in 0 .. last : path[i] = n
    BY <1>1, <1>7
  <2>2. 0 \in 0 .. last /\ last \in 0 .. last
    BY <1>2
  <2> HIDE DEF last
  <2> QED
    BY <1>4, <2>1, <2>2 DEF AnyNode
<1> HIDE DEF last, s, path, Beside
<1>15. IsPath(path, last)
  BY <1>4, <1>6, <1>11, <1>12, <1>13, <1>14 DEF IsPath
<1> QED
  BY <1>2, <1>4, <1>15

\* The list is the path, and the path is all that is public.
LEMMA InitOn ==
  ASSUME Init, link["next"] \in [AnyNode -> Pointer],
         NEW last \in Nat \ {0}, NEW path \in [0 .. last -> AnyNode], IsPath(path, last)
  PROVE  /\ On = {path[i] : i \in 0 .. last}
         /\ Public = On
<1> DEFINE P == {path[i] : i \in 0 .. last}
<1>1. P \in SUBSET AnyNode /\ ListHead \in P /\ ListHead \in AnyNode /\ Null \notin AnyNode
  <2>1. 0 \in 0 .. last
    OBVIOUS
  <2> QED
    BY <2>1, NullApart DEF IsPath
<1>2. Closed(link["next"], P)
  <2> SUFFICES ASSUME NEW i \in 0 .. last
               PROVE  link["next"][path[i]] \in P \cup {Null}
    BY DEF Closed
  <2>1. i # last => i + 1 \in 0 .. last
    OBVIOUS
  <2> QED
    BY <2>1 DEF IsPath
<1>3. On \subseteq P
  BY <1>1, <1>2, ReachLeast DEF On, From
<1>4. \A i \in 0 .. last : path[i] \in On
  <2>1. path[0] \in On /\ \A m \in On : link["next"][m] # Null => link["next"][m] \in On
    BY <1>1, ReachClosed DEF IsPath, On, From
  <2>2. ASSUME NEW i \in 0 .. last, i # last, path[i] \in On
        PROVE  path[i + 1] \in On
    <3>1. link["next"][path[i]] = path[i + 1] /\ i + 1 \in 0 .. last
      BY <2>2 DEF IsPath
    <3>2. path[i + 1] # Null
      BY <1>1, <3>1
    <3> QED
      BY <2>1, <2>2, <3>1, <3>2
  <2>3. PICK S : S = On
    OBVIOUS
  <2>4. path[0] \in S /\ \A i \in 0 .. last : i # last /\ path[i] \in S => path[i + 1] \in S
    BY <2>1, <2>2, <2>3
  <2> QED
    BY <2>3, <2>4, AlongPath
<1>5. On = P
  BY <1>3, <1>4
<1>6. Private = free
  <2>1. \A t \in Thread : node[t] = Null
    BY DEF Init, ListInit
  <2>2. free \subseteq Node /\ Null \notin Node
    BY NullApart DEF Init, ListInit
  <2> QED
    BY <2>1, <2>2 DEF Private
<1>7. AnyNode \ free = P
  BY <1>1 DEF IsPath
<1> QED
  BY <1>5, <1>6, <1>7 DEF Public

\* Types at the start.
LEMMA InitTypes ==
  ASSUME Init
  PROVE  TypeOK
<1>1. PICK last \in Nat \ {0} : \E path \in [0 .. last -> AnyNode] : IsPath(path, last)
  BY InitPath
<1>2. PICK path \in [0 .. last -> AnyNode] : IsPath(path, last)
  BY <1>1
<1>3. \A n \in AnyNode : link["next"][n] \in Pointer /\ link["prev"][n] \in Pointer
  <2> SUFFICES ASSUME NEW n \in AnyNode
               PROVE  link["next"][n] \in Pointer /\ link["prev"][n] \in Pointer
    OBVIOUS
  <2>1. CASE n \in free
    BY <1>2, <2>1 DEF IsPath, NoLinks, Pointer
  <2>2. CASE \E i \in 0 .. last : path[i] = n
    <3>1. PICK i \in 0 .. last : path[i] = n
      BY <2>2
    <3>2. (i # last => i + 1 \in 0 .. last) /\ (i # 0 => i - 1 \in 0 .. last)
      OBVIOUS
    <3> QED
      BY <1>2, <3>1, <3>2 DEF IsPath, Pointer
  <2> QED
    BY <1>2, <2>1, <2>2 DEF IsPath
<1>4. link \in [{"next", "prev"} -> [AnyNode -> Pointer]]
  <2>1. link = [f \in {"next", "prev"} |-> link[f]]
    BY DEF Init, ListInit
  <2>2. link["next"] = [n \in AnyNode |-> link["next"][n]]
    BY DEF Init, ListInit
  <2>3. link["prev"] = [n \in AnyNode |-> link["prev"][n]]
    BY DEF Init, ListInit
  <2>4. link["next"] \in [AnyNode -> Pointer] /\ link["prev"] \in [AnyNode -> Pointer]
    BY <1>3, <2>2, <2>3
  <2> QED
    BY <2>1, <2>4
<1>5. keyOf \in [Node -> Key \cup {Null}] /\ free \subseteq Node /\ \A n \in Node \ free : keyOf[n] \in Key
  <2> DEFINE s == CHOOSE s \in [1 .. Len(Prefill) -> Node] : Injective(s)
  <2>1. /\ free = {n \in Node : \A i \in DOMAIN s : s[i] # n}
        /\ keyOf = [n \in Node |-> IF \E i \in DOMAIN s : s[i] = n
                      THEN Prefill[CHOOSE i \in DOMAIN s : s[i] = n] ELSE Null]
    BY DEF Init, ListInit
  <2>2. DOMAIN s = 1 .. Len(Prefill) /\ \A i \in 1 .. Len(Prefill) : Prefill[i] \in Key
    BY ListAssumption
  <2> HIDE DEF s
  <2>3. \A n \in Node : (\E i \in DOMAIN s : s[i] = n) => Prefill[CHOOSE i \in DOMAIN s : s[i] = n] \in Key
    BY <2>2
  <2> QED
    BY <2>1, <2>3
<1>6. /\ pc \in [Thread -> Place] /\ curr \in [Thread -> Pointer] /\ prev \in [Thread -> Pointer]
      /\ next \in [Thread -> Pointer] /\ node \in [Thread -> Node \cup {Null}]
      /\ arg \in [Thread -> Key \cup {Null}] /\ stable \in [Thread -> SUBSET Node]
      /\ kind \in [Thread -> {"none", "insert", "remove", "count", "find"}]
  BY DEF Init, ListInit, Place, Pointer
<1>7. call \in [Thread -> Seq(CasWord)] /\ ops \in 0 .. MaxOps /\ stored \in 0 .. 4
  BY ListAssumption DEF Init, ListInit
<1>8. n_val \in [Thread -> Nat] /\ result \in [Thread -> Nat]
  BY DEF Init, CountInit
<1>9. /\ value \in [Node -> Value] /\ newValue \in [Thread -> Value]
      /\ old \in [Thread -> Value] /\ found \in [Thread -> Value \cup {NotFound}]
  BY ValueAssumption DEF Init, MapInit
<1> QED
  BY <1>4, <1>5, <1>6, <1>7, <1>8, <1>9 DEF TypeOK, ListTypeOK, Init, ListInit

\* Links at the start.
LEMMA InitHeap ==
  ASSUME Init, TypeOK
  PROVE  PublicLinks /\ FreeLinks /\ Chain /\ Gone
<1>1. PICK last \in Nat \ {0} : \E path \in [0 .. last -> AnyNode] : IsPath(path, last)
  BY InitPath
<1>2. PICK path \in [0 .. last -> AnyNode] : IsPath(path, last)
  BY <1>1
<1>3. On = {path[i] : i \in 0 .. last} /\ Public = On
  BY <1>2, InitOn DEF TypeOK, ListTypeOK
<1>4. 0 \in 0 .. last /\ last \in 0 .. last /\ last # 0
  OBVIOUS
<1>5. \A i \in 0 .. last : /\ i # last => i + 1 \in 0 .. last /\ i + 1 # 0
                           /\ i # 0 => i - 1 \in 0 .. last /\ i - 1 # last
  OBVIOUS
<1>6. FreeLinks
  BY <1>2 DEF FreeLinks, IsPath
<1>7. Gone
  BY <1>3 DEF Gone
<1>8. PublicLinks
  <2>1. \A i \in 0 .. last : link["next"][path[i]] \in (Public \ {ListHead}) \cup {Null}
    BY <1>2, <1>3, <1>4, <1>5 DEF IsPath
  <2>2. \A i \in 0 .. last : link["prev"][path[i]] \in (Public \ {ListTail}) \cup {Null}
    BY <1>2, <1>3, <1>4, <1>5 DEF IsPath
  <2>3. link["next"][ListTail] = Null /\ link["prev"][ListHead] = Null
    BY <1>2, <1>4 DEF IsPath
  <2> QED
    BY <1>3, <2>1, <2>2, <2>3 DEF PublicLinks
<1>9. Chain
  <2>1. ASSUME NEW i \in 0 .. last, path[i] # ListTail
        PROVE  /\ link["next"][path[i]] # Null
               /\ link["prev"][link["next"][path[i]]] = path[i]
    <3>1. i # last
      BY <1>2, <2>1 DEF IsPath
    <3>2. i + 1 \in 0 .. last /\ i + 1 # 0 /\ (i + 1) - 1 = i
      BY <3>1, <1>5
    <3>3. link["next"][path[i]] = path[i + 1] /\ path[i + 1] \in AnyNode
      BY <1>2, <3>1, <3>2 DEF IsPath
    <3>4. link["prev"][path[i + 1]] = path[i]
      BY <1>2, <3>2 DEF IsPath
    <3> QED
      BY <3>3, <3>4, NullApart
  <2>2. ListTail \in On
    BY <1>2, <1>3, <1>4 DEF IsPath
  <2>3. owner = NoThread
    BY DEF Init, ListInit
  <2> QED
    BY <1>3, <2>1, <2>2, <2>3 DEF Chain, Behind
<1> QED
  BY <1>6, <1>7, <1>8, <1>9

\* The list starts in a state that the invariant allows.
LEMMA InitOK == Init => IInv
<1> SUFFICES ASSUME Init
             PROVE  IInv
  OBVIOUS
<1>1. TypeOK
  BY InitTypes
<1>2. PublicLinks /\ FreeLinks /\ Chain /\ Gone
  BY <1>1, InitHeap
<1>3. /\ \A t \in Thread : /\ pc[t] = "idle" /\ kind[t] = "none" /\ node[t] = Null /\ curr[t] = Null
                           /\ prev[t] = Null /\ next[t] = Null /\ stable[t] = {} /\ n_val[t] = 0
      /\ owner = NoThread /\ stored = 0 /\ ~crashed /\ free \subseteq Node
  BY <1>1 DEF Init, ListInit, CountInit, TypeOK, ListTypeOK
<1>4. \A t \in Thread : t # NoThread
  BY ListAssumption
<1>5. \A t \in Thread : OpOK(t) /\ NodeOK(t) /\ CallOK(t)
  BY <1>3, <1>4 DEF OpOK, NodeOK, CallOK, InCall, Inserting, Removing
<1>6. \A t \in Thread : LocalsOK(t)
  BY <1>3 DEF LocalsOK, InCall, AtRemove, Removing
<1>7. \A t \in Thread : WalkOK(t)
  BY <1>3 DEF WalkOK
<1>8. NodesApart /\ NodesTaken
  BY <1>3, NullApart DEF NodesApart, NodesTaken
<1>9. StoredOK /\ CrashOK
  BY <1>3 DEF StoredOK, CrashOK
<1> QED
  BY <1>1, <1>2, <1>5, <1>6, <1>7, <1>8, <1>9 DEF IInv

-----------------------------------------------------------------------------
(* The theorems.                                                           *)

\* Every step of a thread keeps the invariant.
LEMMA StepKept ==
  ASSUME IInv, NEW t \in Thread, Step(t)
  PROVE  IInv'
<1>1. CASE ListStep(t) /\ UNCHANGED <<countVars, mapVars>>
  BY <1>1, LoadHeadStep, CheckPrevStep, CheckNextStep, ReloadPrevStep, LoadPrevStep, LoadNextStep,
     QcasCompareStep, QcasStoreStep DEF ListStep
<1>2. CASE SortedStep(t) /\ UNCHANGED mapVars
  <2>1. CASE WalkSorted(t) /\ UNCHANGED countVars
    BY <1>2, <2>1, WalkSortedStep
  <2>2. CASE (InsertFound(t) \/ ListRemoveFound(t)) /\ UNCHANGED countVars
    BY <1>2, <2>2, FoundStep
  <2>3. CASE CountWalk(t)
    BY <1>2, <2>3, CountWalkStep
  <2> QED
    BY <1>2, <2>1, <2>2, <2>3 DEF SortedStep
<1>3. CASE BucketStep(t) /\ UNCHANGED countVars
  BY <1>3, WalkUpdateStep, FoundStep, AssignLoadStep, AssignCasStep, FindWalkStep DEF BucketStep
<1> QED
  BY <1>1, <1>2, <1>3 DEF Step

\* Every step keeps the invariant.
LEMMA NextKept == IInv /\ [Next]_vars => IInv'
<1> SUFFICES ASSUME IInv, [Next]_vars
             PROVE  IInv'
  OBVIOUS
<1>1. CASE UNCHANGED vars
  BY <1>1, StutterStep
<1>2. ASSUME NEW t \in Thread,
             \/ ListCall(t) /\ UNCHANGED <<countVars, mapVars>>
             \/ MapCall(t) /\ UNCHANGED countVars
             \/ Step(t)
      PROVE  IInv'
  BY <1>2, CallStep, StepKept
<1> QED
  BY <1>1, <1>2 DEF Next, Terminating

\* Types, locals, links, what walks have still to see: all of it, always.
THEOREM ListInvariant == Spec => []IInv
<1> QED
  BY InitOK, NextKept, PTL DEF Spec

\* The links as they will be when the stores of the qcas are made.
LEMMA SettledQuiet ==
  ASSUME IInv, owner = NoThread \/ stored = 0
  PROVE  \A x \in AnyNode : /\ Settled["next"][x] = link["next"][x]
                            /\ Settled["prev"][x] = link["prev"][x]
                            /\ Behind(x) = link["prev"][x]
  BY DEF Settled, Behind

\* In the list next has its final value, prev has that of Behind, and a node
\* taken out will point nowhere.
LEMMA SettledIs ==
  ASSUME IInv
  PROVE  /\ \A x \in On : Settled["next"][x] = link["next"][x] /\ Settled["prev"][x] = Behind(x)
         /\ \A x \in Public \ On : Settled["next"][x] = Null /\ Settled["prev"][x] = Null
<1> USE DEF IInv
<1>0. On \subseteq AnyNode /\ Public \subseteq AnyNode
  BY OnFacts, PublicFacts
<1>1. CASE owner = NoThread \/ stored = 0
  <2>1. \A x \in Public \ On : NoLinks(x)
    BY <1>1, ListAssumption DEF Gone, Leaving, TypeOK, ListTypeOK
  <2> QED
    BY <1>0, <1>1, <2>1, SettledQuiet DEF NoLinks
<1>2. CASE owner # NoThread /\ stored # 0
  <2>0. PICK t \in Thread : t = owner
    BY <1>2 DEF TypeOK, ListTypeOK
  <2>1. pc[t] = "store" /\ InCall(t) /\ stored > 0
    BY <1>2, <2>0 DEF OpOK, InCall, TypeOK, ListTypeOK
  <2>2. \A f \in {"next", "prev"}, x \in AnyNode :
          Settled[f][x] = LET w == {i \in DOMAIN call[t] : call[t][i].f = f /\ call[t][i].n = x}
                          IN  IF w = {} THEN link[f][x] ELSE call[t][CHOOSE i \in w : TRUE].new
    BY <1>2, <2>0 DEF Settled
  <2>3. ASSUME NEW f \in {"next", "prev"}, NEW x \in AnyNode,
               \A i \in DOMAIN call[t] : ~ (call[t][i].f = f /\ call[t][i].n = x)
        PROVE  Settled[f][x] = link[f][x]
    BY <2>2, <2>3
  <2>4. ASSUME NEW f \in {"next", "prev"}, NEW x \in AnyNode, NEW i \in DOMAIN call[t],
               call[t][i].f = f, call[t][i].n = x,
               \A j \in DOMAIN call[t] : call[t][j].f = f /\ call[t][j].n = x => j = i
        PROVE  Settled[f][x] = call[t][i].new
    <3>1. PICK w : w = {j \in DOMAIN call[t] : call[t][j].f = f /\ call[t][j].n = x}
      OBVIOUS
    <3>2. w = {i}
      BY <2>4, <3>1
    <3>3. (CHOOSE j \in w : TRUE) = i
      BY <3>2
    <3>4. Settled[f][x] = IF w = {} THEN link[f][x] ELSE call[t][CHOOSE j \in w : TRUE].new
      BY <2>2, <3>1
    <3> QED
      BY <3>2, <3>3, <3>4
  <2>5. CASE Inserting(t)
    <3>1. /\ DOMAIN call[t] = {1, 2} /\ call[t] = InsertCall(t)
          /\ stored = 1 /\ curr[t] \in On /\ prev[t] \in On
          /\ link["next"][prev[t]] = node[t] /\ node[t] \in Node /\ t # NoThread
      BY <2>0, <2>1, <2>5, CallWords, OwnerFacts DEF InsertStored
    <3>2. /\ call[t][1].f = "next" /\ call[t][1].n = prev[t] /\ call[t][1].new = node[t]
          /\ call[t][2].f = "prev" /\ call[t][2].n = curr[t] /\ call[t][2].new = node[t]
      BY <3>1 DEF InsertCall, Word
    <3>3. \A x \in AnyNode : Settled["next"][x] = link["next"][x]
      <4> SUFFICES ASSUME NEW x \in AnyNode
                   PROVE  Settled["next"][x] = link["next"][x]
        OBVIOUS
      <4>1. CASE x = prev[t]
        <5>1. 1 \in DOMAIN call[t] /\ \A j \in DOMAIN call[t] : call[t][j].f = "next" => j = 1
          BY <3>1, <3>2
        <5> QED
          BY <2>4, <3>1, <3>2, <4>1, <5>1
      <4>2. CASE x # prev[t]
        BY <2>3, <3>1, <3>2, <4>2
      <4> QED
        BY <4>1, <4>2
    <3>4. \A x \in AnyNode : Settled["prev"][x] = Behind(x)
      <4> SUFFICES ASSUME NEW x \in AnyNode
                   PROVE  Settled["prev"][x] = Behind(x)
        OBVIOUS
      <4>1. Behind(x) = IF x = curr[t] THEN node[t] ELSE link["prev"][x]
        BY <1>2, <2>0, <2>5, <3>1 DEF Behind
      <4>2. CASE x = curr[t]
        <5>1. 2 \in DOMAIN call[t] /\ \A j \in DOMAIN call[t] : call[t][j].f = "prev" => j = 2
          BY <3>1, <3>2
        <5> QED
          BY <2>4, <3>2, <4>1, <4>2, <5>1
      <4>3. CASE x # curr[t]
        BY <2>3, <3>1, <3>2, <4>1, <4>3
      <4> QED
        BY <4>2, <4>3
    <3>5. \A x \in Public \ On : NoLinks(x) /\ x # curr[t]
      BY <2>0, <2>5, <3>1 DEF Gone, Leaving, Inserting, Removing
    <3>6. \A x \in Public \ On : Settled["next"][x] = Null /\ Settled["prev"][x] = Null
      <4>1. \A x \in Public \ On : Behind(x) = link["prev"][x]
        BY <1>2, <2>0, <2>5, <3>1, <3>5 DEF Behind
      <4> QED
        BY <1>0, <3>3, <3>4, <3>5, <4>1 DEF NoLinks
    <3> QED
      BY <1>0, <3>3, <3>4, <3>6
  <2>6. CASE ~Inserting(t)
    <3>1. /\ DOMAIN call[t] = {1, 2, 3, 4} /\ call[t] = RemoveCall(t)
          /\ prev[t] \in On /\ next[t] \in On /\ curr[t] \notin On /\ curr[t] \in AnyNode
          /\ prev[t] # curr[t] /\ next[t] # curr[t] /\ Removing(t)
          /\ link["next"][prev[t]] = next[t]
          /\ stored \in {1, 2, 3} /\ (stored # 1 => link["prev"][next[t]] = prev[t])
      BY <2>0, <2>1, <2>6, CallWords, OwnerFacts, NullApart DEF RemoveStored
    <3>2. /\ call[t][1].f = "next" /\ call[t][1].n = prev[t] /\ call[t][1].new = next[t]
          /\ call[t][2].f = "prev" /\ call[t][2].n = next[t] /\ call[t][2].new = prev[t]
          /\ call[t][3].f = "next" /\ call[t][3].n = curr[t] /\ call[t][3].new = Null
          /\ call[t][4].f = "prev" /\ call[t][4].n = curr[t] /\ call[t][4].new = Null
      BY <3>1 DEF RemoveCall, Word
    <3>3. Settled["next"][curr[t]] = Null
      <4>1. 3 \in DOMAIN call[t] /\ \A j \in DOMAIN call[t] :
                call[t][j].f = "next" /\ call[t][j].n = curr[t] => j = 3
        BY <3>1, <3>2
      <4> QED
        BY <2>4, <3>1, <3>2, <4>1
    <3>4. Settled["prev"][curr[t]] = Null
      <4>1. 4 \in DOMAIN call[t] /\ \A j \in DOMAIN call[t] :
                call[t][j].f = "prev" /\ call[t][j].n = curr[t] => j = 4
        BY <3>1, <3>2
      <4> QED
        BY <2>4, <3>1, <3>2, <4>1
    <3>5. Settled["next"][prev[t]] = next[t]
      <4>1. 1 \in DOMAIN call[t] /\ \A j \in DOMAIN call[t] :
                call[t][j].f = "next" /\ call[t][j].n = prev[t] => j = 1
        BY <3>1, <3>2
      <4> QED
        BY <1>0, <2>4, <3>1, <3>2, <4>1
    <3>6. Settled["prev"][next[t]] = prev[t]
      <4>1. 2 \in DOMAIN call[t] /\ \A j \in DOMAIN call[t] :
                call[t][j].f = "prev" /\ call[t][j].n = next[t] => j = 2
        BY <3>1, <3>2
      <4> QED
        BY <1>0, <2>4, <3>1, <3>2, <4>1
    <3>7. \A x \in AnyNode \ {prev[t], curr[t]} : Settled["next"][x] = link["next"][x]
      BY <2>3, <3>1, <3>2
    <3>8. \A x \in AnyNode \ {next[t], curr[t]} : Settled["prev"][x] = link["prev"][x]
      BY <2>3, <3>1, <3>2
    <3>9. \A x \in On : Settled["next"][x] = link["next"][x]
      BY <1>0, <3>1, <3>5, <3>7
    <3>10. \A x \in On : Settled["prev"][x] = Behind(x)
      <4>1. \A x : Behind(x) = IF stored = 1 /\ x = next[t] THEN prev[t] ELSE link["prev"][x]
        BY <1>2, <2>0, <2>6 DEF Behind
      <4> QED
        BY <1>0, <3>1, <3>6, <3>8, <4>1
    <3>11. \A x \in Public \ On : x = curr[t] \/ NoLinks(x)
      BY <2>0 DEF Gone, Leaving
    <3> QED
      BY <1>0, <3>1, <3>3, <3>4, <3>7, <3>8, <3>9, <3>10, <3>11 DEF NoLinks
  <2> QED
    BY <2>5, <2>6
<1> QED
  BY <1>1, <1>2

\* The invariant is stronger than LinksOK.
LEMMA InvariantLinks == IInv => LinksOK
<1> SUFFICES ASSUME IInv
             PROVE  LinksOK
  OBVIOUS
<1> USE DEF IInv
<1>1. ListTail \in On
  BY DEF Chain
<1>2. \A n \in On \ {ListTail} : Settled["next"][n] \in On /\ Settled["prev"][Settled["next"][n]] = n
  <2> SUFFICES ASSUME NEW n \in On \ {ListTail}
               PROVE  Settled["next"][n] \in On /\ Settled["prev"][Settled["next"][n]] = n
    OBVIOUS
  <2>1. link["next"][n] \in On /\ Behind(link["next"][n]) = n
    BY OnFacts DEF Chain
  <2> QED
    BY <2>1, SettledIs
<1>3. ASSUME NEW n \in Node \ (On \cup free)
      PROVE  \/ Settled["next"][n] = Null /\ Settled["prev"][n] = Null
             \/ \E t \in Thread : node[t] = n /\ pc[t] # "idle"
  <2>1. CASE n \in Public
    BY <2>1, SettledIs
  <2>2. CASE n \notin Public
    <3>1. PICK t \in Thread : node[t] = n
      BY <2>2, NullApart DEF Public, Private
    <3>2. Inserting(t)
      BY <3>1, NullApart DEF OpOK
    <3>3. pc[t] # "idle"
      BY <3>2 DEF OpOK, Inserting
    <3> QED
      BY <3>1, <3>3
  <2> QED
    BY <2>1, <2>2
<1> QED
  BY <1>1, <1>2, <1>3 DEF LinksOK, LinksAgree

\* The list leads to its tail and its two directions agree, whatever qcas is
\* under way, and a node taken out points nowhere.
THEOREM ListLinksOK == Spec => []LinksOK
<1> QED
  BY ListInvariant, InvariantLinks, PTL

\* With the && of mcas-lock.h a null pointer is dereferenced only by an insert into
\* the list that has loaded next->prev again after its test (SortedList.h:33).
THEOREM ListNullOnlyAtReload ==
  ASSUME ShortCircuit
  PROVE  Spec => []NullOnlyAtReload
<1>1. IInv => NullOnlyAtReload
  BY DEF IInv, CrashOK, NullOnlyAtReload, Inserting
<1> QED
  BY <1>1, ListInvariant, PTL

\* A step that writes only to links of private nodes leaves the list as it is.
LEMMA PrivateWrite ==
  ASSUME IInv, TypeOK', \A n \in Public : SameLinks(n)
  PROVE  On' = On
<1>1. /\ link["next"] \in [AnyNode -> Pointer] /\ link'["next"] \in [AnyNode -> Pointer]
      /\ Public \in SUBSET AnyNode /\ ListHead \in Public
      /\ Closed(link["next"], Public)
  BY PublicFacts DEF IInv, TypeOK, ListTypeOK
<1>2. \A n \in Public : link'["next"][n] = link["next"][n]
  BY DEF SameLinks
<1>3. \A x \in Public : Reach(link'["next"], x) = Reach(link["next"], x)
  BY <1>1, <1>2, ReachFrame
<1> QED
  BY <1>1, <1>3 DEF On, From

\* A write to the thread's own node leaves the list as it is.
LEMMA OwnWrite ==
  ASSUME IInv, TypeOK', NEW t \in Thread, node[t] # Null, pc[t] # "store",
         NEW a, NEW b,
         link' = [link EXCEPT !["next"][node[t]] = a, !["prev"][node[t]] = b]
  PROVE  On' = On
<1>1. node[t] \in Private
  BY DEF IInv, OpOK, Storing, Private, TypeOK, ListTypeOK
<1>2. \A n \in Public : n \in AnyNode /\ n # node[t]
  BY <1>1 DEF Public
<1>3. link \in [{"next", "prev"} -> [AnyNode -> Pointer]]
  BY DEF IInv, TypeOK, ListTypeOK
<1>4. \A n \in Public : SameLinks(n)
  BY <1>2, <1>3 DEF SameLinks
<1> QED
  BY <1>4, PrivateWrite

\* Only LoadHead, LinkNode and QcasStore write to a link.
LEMMA LinkWriters ==
  ASSUME IInv, Next, link' # link
  PROVE  \E t \in Thread :
           \/ LoadHead(t) /\ node[t] # Null
           \/ pc[t] \in {"checkNext", "reload"} /\ \E p \in Pointer : LinkNode(t, p)
           \/ QcasStore(t) /\ UNCHANGED <<countVars, mapVars>>
<1>1. PICK t \in Thread :
        \/ ListCall(t) /\ UNCHANGED <<countVars, mapVars>>
        \/ MapCall(t) /\ UNCHANGED countVars
        \/ Step(t)
  BY DEF Next, Terminating, vars, lvars, heap
<1>2. CASE ListCall(t) \/ MapCall(t)
  BY <1>2 DEF ListCall, MapCall, Start
<1>3. CASE ListStep(t) /\ UNCHANGED <<countVars, mapVars>>
  <2>1. CASE LoadHead(t)
    BY <2>1 DEF LoadHead
  <2>2. CASE CheckPrev(t) \/ LoadPrev(t) \/ LoadNext(t) \/ QcasCompare(t)
    BY <2>2 DEF CheckPrev, LoadPrev, LoadNext, QcasCompare, heap
  <2>3. CASE CheckNext(t)
    <3>1. pc[t] = "checkNext" /\ LinkNode(t, prev[t])
      BY <2>3 DEF CheckNext
    <3>2. prev[t] \in Pointer
      BY DEF IInv, TypeOK, ListTypeOK
    <3> QED
      BY <3>1, <3>2
  <2>4. CASE ReloadPrev(t)
    <3>1. pc[t] = "reload" /\ LinkNode(t, prev'[t]) /\ prev' = Set(prev, t, link["prev"][curr[t]])
      BY <2>4 DEF ReloadPrev
    <3>2. curr[t] \in AnyNode /\ prev \in [Thread -> Pointer]
      BY <3>1, PublicFacts DEF IInv, LocalsOK, TypeOK, ListTypeOK
    <3>3. prev'[t] \in Pointer
      BY <3>1, <3>2, PublicFacts DEF Set, IInv
    <3>4. PICK p \in Pointer : p = prev'[t]
      BY <3>3
    <3>5. LinkNode(t, p)
      BY <3>1, <3>4
    <3> QED
      BY <3>1, <3>5
  <2>5. CASE QcasStore(t)
    BY <1>3, <2>5
  <2> QED
    BY <1>3, <2>1, <2>2, <2>3, <2>4, <2>5 DEF ListStep
<1>4. CASE SortedStep(t)
  BY <1>4 DEF SortedStep, WalkSorted, InsertFound, ListRemoveFound, CountWalk, Walk, heap
<1>5. CASE BucketStep(t)
  BY <1>5 DEF BucketStep, WalkUpdate, InsertAtTail, AssignLoad, AssignCas, MapRemoveFound, FindWalk, Walk, heap
<1> QED
  BY <1>1, <1>2, <1>3, <1>4, <1>5 DEF Step

\* Under the invariant every step changes the list as ContentsStep says.
LEMMA InvariantContents == IInv /\ [Next]_vars => [ContentsChange]_link
<1> SUFFICES ASSUME IInv, [Next]_vars, link' # link
             PROVE  ContentsChange
  OBVIOUS
<1>0. Next /\ TypeOK' /\ TypeOK
  BY NextKept DEF IInv, vars, lvars, heap
<1>1. PICK t \in Thread :
           \/ LoadHead(t) /\ node[t] # Null
           \/ pc[t] \in {"checkNext", "reload"} /\ \E p \in Pointer : LinkNode(t, p)
           \/ QcasStore(t) /\ UNCHANGED <<countVars, mapVars>>
  BY <1>0, LinkWriters
<1>2. On' = On => ContentsChange
  BY DEF ContentsChange, InList
<1>3. CASE LoadHead(t) /\ node[t] # Null
  <2>1. pc[t] # "store" /\ link' = [link EXCEPT !["next"][node[t]] = Null, !["prev"][node[t]] = Null]
    BY <1>3 DEF LoadHead
  <2> QED
    BY <1>0, <1>2, <1>3, <2>1, OwnWrite
<1>4. ASSUME pc[t] \in {"checkNext", "reload"}, NEW p \in Pointer, LinkNode(t, p)
      PROVE  On' = On
  <2>1. link' = [link EXCEPT !["next"][node[t]] = curr[t], !["prev"][node[t]] = p]
    BY <1>4 DEF LinkNode
  <2>2. node[t] # Null
    BY <1>4 DEF IInv, OpOK
  <2>3. PICK a : a = curr[t]
    OBVIOUS
  <2> QED
    BY <1>0, <1>4, <2>1, <2>2, <2>3, OwnWrite
<1>5. CASE QcasStore(t) /\ UNCHANGED <<countVars, mapVars>>
  <2>1. pc[t] = "store"
    BY <1>5 DEF QcasStore
  <2>2. CASE Inserting(t) /\ node[t] \in Node \ On /\ On' = On \cup {node[t]}
    <3>1. InList' = InList \cup {node[t]} /\ node[t] \notin InList
      BY <2>2 DEF InList
    <3> QED
      BY <2>1, <2>2, <3>1 DEF ContentsChange, Inserting
  <2>3. CASE Removing(t) /\ curr[t] \in On /\ On' = On \ {curr[t]}
    <3>1. curr[t] \in Node /\ keyOf[curr[t]] = arg[t]
      BY <2>1, <2>3, OwnerFacts DEF Inserting, Removing
    <3>2. InList' = InList \ {curr[t]} /\ curr[t] \in InList
      BY <2>3, <3>1 DEF InList
    <3> QED
      BY <2>1, <2>3, <3>1, <3>2 DEF ContentsChange, Removing
  <2> QED
    BY <1>0, <1>2, <1>5, <2>2, <2>3, StoreHeap
<1> QED
  BY <1>1, <1>2, <1>3, <1>4, <1>5

\* Only the first store of a qcas changes what is in the list: an insert adds
\* its own node, a remove takes out one node with its key.
THEOREM ListContents == Spec => ContentsStep
<1>1. Spec => [][ContentsChange]_link
  BY ListInvariant, InvariantContents, PTL DEF Spec
<1> QED
  BY <1>1 DEF ContentsStep

\* A walk at the tail has nothing left to see.
LEMMA FromTail ==
  ASSUME IInv
  PROVE  From(ListTail) = {ListTail} /\ Alive(ListTail)
<1>1. Closed(link["next"], {ListTail}) /\ {ListTail} \in SUBSET AnyNode
  BY NullApart DEF IInv, PublicLinks, Closed
<1>2. From(ListTail) \subseteq {ListTail}
  BY <1>1, ReachLeast DEF From
<1>3. ListTail \in From(ListTail)
  BY NullApart, PublicFacts, ReachClosed DEF From, IInv
<1> QED
  BY <1>2, <1>3 DEF IInv, Chain, Alive

\* The step with which a walk ends.
LEMMA WalkReturns ==
  ASSUME IInv, Next, NEW t \in Thread, pc[t] = "walk", kind[t] \in {"count", "find"}, pc'[t] = "idle"
  PROVE  (CountWalk(t) /\ kind[t] = "count") \/ (FindWalk(t) /\ kind[t] = "find")
<1>1. PICK u \in Thread :
        \/ ListCall(u) /\ UNCHANGED <<countVars, mapVars>>
        \/ MapCall(u) /\ UNCHANGED countVars
        \/ Step(u)
  BY DEF Next, Terminating, vars, lvars
<1>2. \E l \in Place : pc' = [pc EXCEPT ![u] = l]
  <2>1. pc \in [Thread -> Place]
    BY DEF IInv, TypeOK, ListTypeOK
  <2>2. \A v \in Thread : pc = [pc EXCEPT ![v] = pc[v]] /\ pc[v] \in Place
    BY <2>1
  <2>3. {"idle", "head", "walk", "found", "checkPrev", "checkNext", "reload", "assign",
          "delete", "delete2", "qcas", "store", "crash"} \subseteq Place
    BY DEF Place
  <2>4. \A l \in Place : Goto(u, l) => \E k \in Place : pc' = [pc EXCEPT ![u] = k]
    BY DEF Goto
  <2>5. UNCHANGED pc => \E k \in Place : pc' = [pc EXCEPT ![u] = k]
    BY <2>2
  <2>6. Again(u) \/ Return(u) => \E k \in Place : pc' = [pc EXCEPT ![u] = k]
    BY <2>3, <2>4 DEF Again, Return, EndRound
  <2> USE <2>3, <2>4, <2>5, <2>6
  <2>7. CASE ListCall(u) \/ MapCall(u)
    BY <2>7 DEF ListCall, MapCall, Start
  <2>8. CASE ListStep(u)
    BY <2>8 DEF ListStep, LoadHead, CheckPrev, CheckNext, ReloadPrev, LinkNode, LoadPrev, LoadNext,
                QcasCompare, Crash, QcasStore
  <2>9. CASE SortedStep(u)
    BY <2>9 DEF SortedStep, WalkSorted, InsertFound, ListRemoveFound, CountWalk, CountReturn, CountMore, Walk
  <2>10. CASE BucketStep(u)
    BY <2>10 DEF BucketStep, WalkUpdate, InsertAtTail, AssignLoad, AssignCas, MapRemoveFound, FindWalk,
                 FindReturn, FindMore, Walk
  <2> QED
    BY <1>1, <2>7, <2>8, <2>9, <2>10 DEF Step
<1>3. u = t
  BY <1>2 DEF IInv, TypeOK, ListTypeOK
<1>4. sort = "map" => kind[t] # "count"
  BY DEF IInv, OpOK
<1>5. ~ ListCall(t) /\ ~ MapCall(t) /\ ~ ListStep(t)
  BY DEF ListCall, MapCall, Start, ListStep, LoadHead, CheckPrev, CheckNext, ReloadPrev, LoadPrev, LoadNext,
         QcasCompare, QcasStore
<1>6. CASE SortedStep(t)
  <2>1. kind[t] = "count"
    <3>1. ~ (sort = "list" /\ kind[t] = "find")
      BY DEF IInv, OpOK
    <3> QED
      BY <1>6, <3>1 DEF SortedStep, WalkSorted, InsertFound, ListRemoveFound, CountWalk
  <2> QED
    BY <1>6, <2>1 DEF SortedStep, WalkSorted, InsertFound, ListRemoveFound
<1>7. CASE BucketStep(t)
  BY <1>4, <1>7 DEF BucketStep, WalkUpdate, InsertAtTail, AssignLoad, AssignCas, MapRemoveFound, FindWalk
<1> QED
  BY <1>1, <1>3, <1>5, <1>6, <1>7 DEF Step

\* count has counted every node of stable when it is at the tail.
LEMMA CountComplete == IInv /\ [Next]_vars => [CountMissesNothing]_vars
<1> SUFFICES ASSUME IInv, Next, NEW t \in Thread, kind[t] = "count", pc[t] = "walk", pc'[t] = "idle"
             PROVE  result'[t] >= Cardinality(stable[t])
  BY DEF CountMissesNothing
<1>1. CountWalk(t)
  BY WalkReturns
<1>2. pc \in [Thread -> Place] /\ result \in [Thread -> Nat] /\ n_val[t] \in Nat
  BY DEF IInv, TypeOK, ListTypeOK
<1>3. curr[t] = ListTail /\ CountReturn(t)
  BY <1>1, <1>2 DEF CountWalk, Again, EndRound, Goto, CountMore
<1>4. result'[t] = n_val[t]
  BY <1>2, <1>3 DEF CountReturn, Set
<1>5. n_val[t] >= Cardinality(stable[t] \ From(curr[t]))
  BY <1>3, FromTail, NullApart DEF IInv, WalkOK
<1>6. stable[t] \ From(curr[t]) = stable[t]
  BY <1>3, FromTail, NullApart DEF IInv, TypeOK, ListTypeOK
<1> QED
  BY <1>4, <1>5, <1>6

\* find that is at the tail has no node of stable left behind it.
LEMMA FindComplete == IInv /\ [Next]_vars => [FindMissesNothing]_vars
<1> SUFFICES ASSUME IInv, Next, NEW t \in Thread, kind[t] = "find", pc[t] = "walk", pc'[t] = "idle",
                    found'[t] = NotFound
             PROVE  stable[t] = {}
  BY DEF FindMissesNothing
<1>1. FindWalk(t)
  BY WalkReturns
<1>2. pc \in [Thread -> Place] /\ found \in [Thread -> Value \cup {NotFound}] /\ value \in [Node -> Value]
  BY DEF IInv, TypeOK, ListTypeOK
<1>3. curr[t] # Null
  BY <1>1, <1>2 DEF FindWalk
<1>4. curr[t] = ListTail
  <2> SUFFICES ASSUME curr[t] # ListTail
               PROVE  FALSE
    OBVIOUS
  <2>1. FindReturn(t, value[curr[t]])
    BY <1>1, <1>2, <1>3 DEF FindWalk, FindMore
  <2>2. curr[t] \in Node
    BY <1>3 DEF IInv, LocalsOK, Public, AnyNode
  <2>3. found'[t] = value[curr[t]]
    BY <1>2, <2>1 DEF FindReturn, Set
  <2> QED
    BY <1>2, <2>2, <2>3, ValueAssumption
<1>5. stable[t] \subseteq From(ListTail)
  BY <1>3, <1>4, FromTail DEF IInv, WalkOK
<1> QED
  BY <1>5, FromTail, NullApart DEF IInv, TypeOK, ListTypeOK

\* Neither count nor find misses a node that stays in the list while it walks.
THEOREM ListWalks == Spec => WalksSeeStableNodes
<1>1. IInv /\ [Next]_vars => [CountMissesNothing /\ FindMissesNothing]_vars
  BY CountComplete, FindComplete
<1>2. Spec => [][CountMissesNothing /\ FindMissesNothing]_vars
  BY <1>1, ListInvariant, PTL DEF Spec
<1> QED
  BY <1>2 DEF WalksSeeStableNodes
=============================================================================
