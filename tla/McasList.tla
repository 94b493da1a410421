------------------------------ MODULE McasList ------------------------------
(***************************************************************************)
(* The doubly linked list between two sentinels that                       *)
(* lockfree-mcas/SortedList.h and each bucket of lockfree-mcas/HashMap.h   *)
(* keep: the walk along next, insert_before and delete_node on qcas.       *)
(* McasSortedList and McasHashMap are the two users.                       *)
(*                                                                         *)
(* Links are read by plain loads.  qcas is the one of mcas-lock.h: the     *)
(* words are compared and then stored one after another under              *)
(* global_cas_lock.  Nodes are never reused.                               *)
(***************************************************************************)
EXTENDS Integers, Sequences, FiniteSets

CONSTANTS
  Thread,
  Node,          \* the nodes that can be allocated: bounds the inserts
  ListHead, ListTail,   \* the sentinels
  Null, NoThread,
  Key,
  Prefill,       \* the keys of the list at the start
  ShortCircuit,  \* TRUE: && of mcas-lock.h, FALSE: & of mcas-lock-no-if.h
  MaxOps         \* bound: operations the threads make between them

Injective(s) == \A i, j \in DOMAIN s : s[i] = s[j] => i = j

ASSUME ListAssumption ==
  /\ Cardinality({ListHead, ListTail, Null}) = 3
  /\ {ListHead, ListTail, Null} \cap Node = {}
  /\ NoThread \notin Thread
  /\ ShortCircuit \in BOOLEAN /\ MaxOps \in Nat
  /\ IsFiniteSet(Node)
  /\ Prefill \in Seq(Key)
  /\ \E s \in [1 .. Len(Prefill) -> Node] : Injective(s)

AnyNode == Node \cup {ListHead, ListTail}
Pointer == AnyNode \cup {Null}

VARIABLES
  sort,     \* "list" or "map"; it never changes
  reload,   \* does the build load next->prev again at SortedList.h:33 (HashMap.h:37)
            \* after its test?  It never changes.
  link,     \* link["next"][n] and link["prev"][n]
  keyOf,    \* the key each allocated node carries; it never changes
  free,     \* the nodes not allocated yet
  pc,
  kind,     \* the operation a thread is in
  arg,      \* its key
  node,     \* the node it has allocated, if it is an insert
  curr, prev, next,   \* locals
  call,     \* the qcas a thread is about to make or is making
  owner, stored,      \* who holds global_cas_lock, and the words it has stored
  crashed,  \* has a null pointer been dereferenced?
  ops,      \* operations started so far
  stable    \* history: for a count or find, the nodes with its key that were in
            \* the list when it was called and have not left it since

heap   == <<link, keyOf, free>>
req    == <<kind, arg, node>>
locals == <<curr, prev, next, call>>
casLock == <<owner, stored>>
lvars  == <<sort, reload, heap, pc, req, locals, casLock, crashed, ops, stable>>

Place == {"idle", "head", "walk", "found", "checkPrev", "checkNext", "reload", "assign",
          "delete", "delete2", "qcas", "store", "crash"}

\* A word of a qcas: field f of n goes from old to new.
CasWord == [f : {"next", "prev"}, n : Pointer, old : Pointer, new : Pointer]

ListTypeOK ==
  /\ sort \in {"list", "map"} /\ reload \in BOOLEAN
  /\ link \in [{"next", "prev"} -> [AnyNode -> Pointer]]
  /\ keyOf \in [Node -> Key \cup {Null}]
  /\ free \subseteq Node /\ \A n \in Node \ free : keyOf[n] \in Key
  /\ pc \in [Thread -> Place]
  /\ curr \in [Thread -> Pointer] /\ prev \in [Thread -> Pointer]
  /\ next \in [Thread -> Pointer] /\ node \in [Thread -> Node \cup {Null}]
  /\ arg \in [Thread -> Key \cup {Null}] /\ ops \in 0 .. MaxOps
  /\ call \in [Thread -> Seq(CasWord)]
  /\ stable \in [Thread -> SUBSET Node]
  /\ owner \in Thread \cup {NoThread} /\ stored \in 0 .. 4
  /\ crashed \in BOOLEAN

\* The list holds the keys of Prefill.
ListInit ==
  /\ sort \in {"list", "map"} /\ reload \in BOOLEAN
  /\ LET last == Len(Prefill) + 1
         s    == CHOOSE s \in [1 .. Len(Prefill) -> Node] : Injective(s)
         path == [i \in 0 .. last |->
                   IF i = 0 THEN ListHead ELSE IF i = last THEN ListTail ELSE s[i]]
         Beside(n, d) ==
           IF \E i \in 0 .. last : path[i] = n /\ i + d \in 0 .. last
           THEN path[(CHOOSE i \in 0 .. last : path[i] = n) + d] ELSE Null
     IN /\ link = [f \in {"next", "prev"} |-> [n \in AnyNode |->
                     Beside(n, IF f = "next" THEN 1 ELSE -1)]]
        /\ keyOf = [n \in Node |-> IF \E i \in DOMAIN s : s[i] = n
                     THEN Prefill[CHOOSE i \in DOMAIN s : s[i] = n] ELSE Null]
        /\ free = {n \in Node : \A i \in DOMAIN s : s[i] # n}
  /\ pc = [t \in Thread |-> "idle"]
  /\ arg = [t \in Thread |-> Null]
  /\ kind = [t \in Thread |-> "none"]
  /\ node = [t \in Thread |-> Null]
  /\ curr = [t \in Thread |-> Null]
  /\ prev = [t \in Thread |-> Null]
  /\ next = [t \in Thread |-> Null]
  /\ call = [t \in Thread |-> <<>>]
  /\ owner = NoThread /\ stored = 0
  /\ crashed = FALSE
  /\ ops = 0
  /\ stable = [t \in Thread |-> {}]

-----------------------------------------------------------------------------
(* The list, for the properties.                                           *)

\* The nodes that a walk along next from n can meet, n with them: the least set
\* with n in it that next does not leave.
Closed(nextOf, S) == \A m \in S : nextOf[m] \in S \cup {Null}
Reach(nextOf, n) ==
  {m \in AnyNode : \A S \in SUBSET AnyNode : n \in S /\ Closed(nextOf, S) => m \in S}

From(n) == Reach(link["next"], n)
On      == From(ListHead)
InList  == On \cap Node

\* The links as they will be when the qcas in progress has made all its stores.
Settled == [f \in {"next", "prev"} |-> [n \in AnyNode |->
  IF owner = NoThread \/ stored = 0 THEN link[f][n]
  ELSE LET w == {i \in DOMAIN call[owner] : call[owner][i].f = f /\ call[owner][i].n = n}
       IN IF w = {} THEN link[f][n] ELSE call[owner][CHOOSE i \in w : TRUE].new]]

-----------------------------------------------------------------------------
(* Steps of the operations.                                                *)

Goto(t, l) == pc' = [pc EXCEPT ![t] = l]
Set(var, t, v) == [var EXCEPT ![t] = v]

\* The end of a round of the outer loop; its locals die.
EndRound(t, l) ==
  /\ Goto(t, l)
  /\ curr' = Set(curr, t, Null) /\ prev' = Set(prev, t, Null)
  /\ next' = Set(next, t, Null) /\ call' = Set(call, t, <<>>)

Again(t) == EndRound(t, "head") /\ UNCHANGED req

Return(t) ==
  /\ EndRound(t, "idle")
  /\ kind' = Set(kind, t, "none")
  /\ arg' = Set(arg, t, Null) /\ node' = Set(node, t, Null)

\* Load of a field of n, which crashes when n is null.
Crash(t) ==
  /\ crashed' = TRUE
  /\ Goto(t, "crash")
  /\ UNCHANGED <<req, locals>>

\* An operation starts; an insert allocates its node.  Which of the free nodes
\* it gets makes no difference.
Start(t, op, k) ==
  /\ pc[t] = "idle" /\ ops < MaxOps
  /\ ops' = ops + 1
  /\ Goto(t, "head")
  /\ kind' = Set(kind, t, op) /\ arg' = Set(arg, t, k)
  /\ IF op = "insert"
     THEN LET n == CHOOSE m \in free : TRUE IN
          /\ free # {} /\ free' = free \ {n}
          /\ node' = Set(node, t, n)
          /\ keyOf' = [keyOf EXCEPT ![n] = k]
     ELSE UNCHANGED <<free, keyOf, node>>
  /\ stable' = Set(stable, t, IF op \in {"count", "find"}
                             THEN {n \in InList : keyOf[n] = k} ELSE {})
  /\ UNCHANGED <<sort, reload, link, locals, casLock, crashed>>

\* curr = head->next; an insert that starts over clears its node's links first.
LoadHead(t) ==
  /\ pc[t] = "head"
  /\ curr' = Set(curr, t, link["next"][ListHead])
  /\ link' = IF node[t] = Null THEN link
             ELSE [link EXCEPT !["next"][node[t]] = Null, !["prev"][node[t]] = Null]
  /\ Goto(t, "walk")
  /\ UNCHANGED <<sort, reload, keyOf, free, req, prev, next, call, casLock, crashed, ops, stable>>

\* One round of the loop that ends at the tail or where stop holds of curr.
Walk(t, stop) ==
  /\ pc[t] = "walk"
  /\ IF curr[t] = Null THEN Again(t)
     ELSE IF curr[t] = ListTail \/ stop
     THEN Goto(t, "found") /\ UNCHANGED <<req, locals>>
     ELSE /\ curr' = Set(curr, t, link["next"][curr[t]])
          /\ UNCHANGED <<pc, req, prev, next, call>>
  /\ UNCHANGED <<sort, reload, heap, casLock, crashed, ops, stable>>

\* insert_before, lines 28-29: the place must still be in the list.  A build
\* that does not reload next->prev uses this value at line 33 as well.
CheckPrev(t) ==
  /\ pc[t] = "checkPrev"
  /\ IF link["prev"][curr[t]] = Null
     THEN Again(t)
     ELSE /\ prev' = Set(prev, t, link["prev"][curr[t]])
          /\ Goto(t, "checkNext")
          /\ UNCHANGED <<req, curr, next, call>>
  /\ UNCHANGED <<sort, reload, heap, casLock, crashed, ops, stable>>

Word(f, n, old, new) == [f |-> f, n |-> n, old |-> old, new |-> new]

\* Lines 35-40: the node's own links are set, and compared with themselves.
LinkNode(t, p) ==
  /\ link' = [link EXCEPT !["next"][node[t]] = curr[t], !["prev"][node[t]] = p]
  /\ call' = Set(call, t, <<Word("next", p, curr[t], node[t]),
                            Word("prev", curr[t], p, node[t])>>)
  /\ Goto(t, "qcas")

CheckNext(t) ==
  /\ pc[t] = "checkNext"
  /\ IF link["next"][curr[t]] = Null /\ curr[t] # ListTail
     THEN Again(t) /\ UNCHANGED link
     ELSE IF reload THEN Goto(t, "reload") /\ UNCHANGED <<link, req, locals>>
     ELSE LinkNode(t, prev[t]) /\ UNCHANGED <<req, curr, prev, next>>
  /\ UNCHANGED <<sort, reload, keyOf, free, casLock, crashed, ops, stable>>

\* Line 33.  The node may have been removed since the test: p can be null.
ReloadPrev(t) ==
  /\ pc[t] = "reload"
  /\ prev' = Set(prev, t, link["prev"][curr[t]])
  /\ LinkNode(t, prev'[t])
  /\ UNCHANGED <<sort, reload, keyOf, free, req, curr, next, casLock, crashed, ops, stable>>

\* delete_node, lines 79-88.
LoadPrev(t) ==
  /\ pc[t] = "delete"
  /\ prev' = Set(prev, t, link["prev"][curr[t]])
  /\ Goto(t, "delete2")
  /\ UNCHANGED <<sort, reload, heap, req, curr, next, call, casLock, crashed, ops, stable>>

\* Faulty LoadNext: a tcas that leaves next->prev as it is.
LoadNextTcas(t) ==
  LET p == prev[t]  c == curr[t]  n == link["next"][c] IN
  /\ pc[t] = "delete2"
  /\ IF p = Null /\ n = Null
     THEN Again(t)
     ELSE /\ next' = Set(next, t, n)
          /\ call' = Set(call, t, <<Word("next", p, c, n), Word("next", c, n, Null),
                                    Word("prev", c, p, Null)>>)
          /\ Goto(t, "qcas")
          /\ UNCHANGED <<req, curr, prev>>
  /\ UNCHANGED <<sort, reload, heap, casLock, crashed, ops, stable>>

\* Faulty LoadNext: a node already removed is not recognised.
LoadNextUnchecked(t) ==
  LET p == prev[t]  c == curr[t]  n == link["next"][c] IN
  /\ pc[t] = "delete2"
  /\ next' = Set(next, t, n)
  /\ call' = Set(call, t, <<Word("next", p, c, n), Word("prev", n, c, p),
                            Word("next", c, n, Null), Word("prev", c, p, Null)>>)
  /\ Goto(t, "qcas")
  /\ UNCHANGED <<sort, reload, heap, req, curr, prev, casLock, crashed, ops, stable>>

LoadNext(t) ==
  LET p == prev[t]  c == curr[t]  n == link["next"][c] IN
  /\ pc[t] = "delete2"
  /\ IF p = Null /\ n = Null
     THEN Again(t)
     ELSE /\ next' = Set(next, t, n)
          /\ call' = Set(call, t, <<Word("next", p, c, n), Word("prev", n, c, p),
                                    Word("next", c, n, Null), Word("prev", c, p, Null)>>)
          /\ Goto(t, "qcas")
          /\ UNCHANGED <<req, curr, prev>>
  /\ UNCHANGED <<sort, reload, heap, casLock, crashed, ops, stable>>

\* qcas takes the lock and compares; && stops at the first difference.  The
\* address of a word in a null node is not valid.
Differs(w) == link[w.f][w.n] # w.old

\* Faulty QcasCompare: only the first word is compared.
QcasCompareFirst(t) ==
  /\ pc[t] = "qcas" /\ owner = NoThread
  /\ IF call[t][1].n = Null THEN Crash(t) /\ UNCHANGED owner
     ELSE IF Differs(call[t][1]) THEN Again(t) /\ UNCHANGED <<owner, crashed>>
     ELSE owner' = t /\ Goto(t, "store") /\ UNCHANGED <<req, locals, crashed>>
  /\ UNCHANGED <<sort, reload, heap, stored, ops, stable>>

\* Faulty QcasCompare: the same qcas is tried again and again.
QcasCompareStale(t) ==
  /\ pc[t] = "qcas" /\ owner = NoThread
  /\ IF \A w \in {call[t][i] : i \in DOMAIN call[t]} : w.n # Null /\ ~Differs(w)
     THEN owner' = t /\ Goto(t, "store")
     ELSE UNCHANGED <<owner, pc>>
  /\ UNCHANGED <<sort, reload, heap, req, locals, crashed, stored, ops, stable>>

QcasCompare(t) ==
  LET ws == call[t]
      reached == {i \in DOMAIN ws : ShortCircuit =>
                    \A j \in 1 .. i - 1 : ws[j].n # Null /\ ~Differs(ws[j])}
  IN
  /\ pc[t] = "qcas" /\ owner = NoThread
  /\ IF \E i \in reached : ws[i].n = Null THEN Crash(t) /\ UNCHANGED owner
     ELSE IF \E i \in reached : Differs(ws[i]) THEN Again(t) /\ UNCHANGED <<owner, crashed>>
     ELSE owner' = t /\ Goto(t, "store") /\ UNCHANGED <<req, locals, crashed>>
  /\ UNCHANGED <<sort, reload, heap, stored, ops, stable>>

\* One store; the last one gives the lock back and the operation returns.
QcasStore(t) ==
  LET w == call[t][stored + 1] IN
  /\ pc[t] = "store"
  /\ link' = [link EXCEPT ![w.f][w.n] = w.new]
  /\ IF stored + 1 = Len(call[t])
     THEN owner' = NoThread /\ stored' = 0 /\ Return(t)
     ELSE stored' = stored + 1 /\ UNCHANGED <<owner, pc, req, locals>>
  /\ LET now == InList' IN stable' = [u \in Thread |-> stable[u] \cap now]
  /\ UNCHANGED <<sort, reload, keyOf, free, crashed, ops>>

ListStep(t) ==
  \/ LoadHead(t) \/ CheckPrev(t) \/ CheckNext(t) \/ ReloadPrev(t)
  \/ LoadPrev(t) \/ LoadNext(t) \/ QcasCompare(t) \/ QcasStore(t)

Finished == ops = MaxOps /\ \A t \in Thread : pc[t] = "idle"

-----------------------------------------------------------------------------
(* Properties that both users have.                                        *)

\* The list leads from ListHead to ListTail, its two directions agree, and a node
\* that has been taken out points nowhere: qcas keeps all four words of a
\* change together.
LinksAgree ==
  LET m == Settled IN
  /\ ListTail \in On
  /\ \A n \in On \ {ListTail} : m["next"][n] \in On /\ m["prev"][m["next"][n]] = n
  /\ \A n \in Node \ (On \cup free) :
       \/ m["next"][n] = Null /\ m["prev"][n] = Null
       \/ \E t \in Thread : node[t] = n /\ pc[t] # "idle"

\* An insert adds its own node and a remove takes out one node with its key,
\* each with one store, and no other store changes what is in the list.
ContentsChange ==
  LET before == InList  after == InList' IN
  \/ after = before
  \/ \E t \in Thread :
       /\ pc[t] = "store"
       /\ \/ kind[t] = "insert" /\ node[t] \notin before /\ after = before \cup {node[t]}
          \/ /\ kind[t] = "remove"
             /\ \E n \in before : keyOf[n] = arg[t] /\ after = before \ {n}
ContentsStep == [][ContentsChange]_link

\* A null pointer is dereferenced only where an insert into the list has loaded
\* next->prev again after its test (SortedList.h:33): a build that loads it once
\* dereferences none, nor does the map, which inserts before its tail only.
NullOnlyAtReload ==
  crashed => /\ reload /\ sort = "list"
             /\ \E t \in Thread : pc[t] = "crash" /\ kind[t] = "insert" /\ prev[t] = Null

\* No null pointer is dereferenced: insert and insert_before leave a place whose
\* "node was deleted" (SortedList.h:120).  No run checks it: TLC refutes it with the
\* constants of McasLists.cfg, in a build that reloads next->prev.
NoNullDereference == ~crashed
=============================================================================
