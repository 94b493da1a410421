----------------------------- MODULE McasDeque ------------------------------
(***************************************************************************)
(* lockfree-mcas/Deque.h: the Snark deque on dcas and tcas.                *)
(*                                                                         *)
(* The left and the right half of the code mirror each other, so an        *)
(* operation is parameterised by its side: "L" is push_front, pop_front,   *)
(* LeftHat and Node::L, "R" their counterparts.  A node stands for the     *)
(* datum it carries: each push allocates a node of its own, and no node is *)
(* freed or reused while the deque lives.                                  *)
(*                                                                         *)
(* The pointers are read by plain loads, one per step.  dcas and tcas are  *)
(* those of mcas-lock.h: the words are compared and then stored one after  *)
(* another under global_cas_lock, which the plain loads do not take, so    *)
(* they see a call half made.  The HTM variants add that a call may fail   *)
(* without reason (MayConflict) and otherwise make fewer states visible.   *)
(***************************************************************************)
EXTENDS Naturals, Sequences, FiniteSets

CONSTANTS
  Thread,
  Node,          \* the nodes that can be allocated: bounds the pushes
  Dummy,         \* the node both hats point at in the beginning
  Empty, Pending, Void,
  NoThread,
  MayConflict,   \* TRUE for mcas-htm*.h, FALSE for mcas-lock*.h
  Reread         \* does the build load the hat again at Deque.h:95, 115?

ASSUME BooleanAssumption == MayConflict \in BOOLEAN /\ Reread \in BOOLEAN

ASSUME DistinctAssumption ==
  /\ Dummy \notin Node /\ NoThread \notin Thread
  /\ Pending \notin Node \cup {Void, Empty}

Side == {"L", "R"}
Opp(s) == IF s = "L" THEN "R" ELSE "L"
AnyNode == Node \cup {Dummy}

\* The shared words: the two hats, and the two links of every node.
Hat(s)     == <<"hat", s>>
Link(s, n) == <<"link", s, n>>
Cell == {Hat(s) : s \in Side} \cup {Link(s, n) : s \in Side, n \in AnyNode}

VARIABLES
  mem,     \* the shared words
  free,    \* the nodes not allocated yet
  pc,
  req,     \* the operation each thread is in
  ret,     \* Pending, or what that operation returned
  h, out, inn,   \* locals: the hat, and its links away from and into the deque
  call,    \* the dcas or tcas a thread is about to make or is making
  owner,   \* who holds global_cas_lock
  stored,  \* how many words of its call the owner has stored
  deque    \* history: the nodes in the deque, front first

vars == <<mem, free, pc, req, ret, h, out, inn, call, owner, stored, deque>>

PC == {"idle", "hat", "links", "links2", "other", "mcas", "store", "reread"}

TypeOK ==
  /\ mem \in [Cell -> AnyNode]
  /\ free \subseteq Node
  /\ pc \in [Thread -> PC] /\ DOMAIN req = Thread /\ DOMAIN call = Thread
  /\ ret \in [Thread -> Node \cup {Pending, Void, Empty}]
  /\ h \in [Thread -> AnyNode] /\ out \in [Thread -> AnyNode] /\ inn \in [Thread -> AnyNode]
  /\ owner \in Thread \cup {NoThread}
  /\ stored \in 0 .. 3
  /\ deque \in Seq(Node)

Init ==
  /\ mem = [c \in Cell |-> Dummy]
  /\ free = Node
  /\ pc = [t \in Thread |-> "idle"]
  /\ req = [t \in Thread |-> <<>>]
  /\ ret = [t \in Thread |-> Void]
  /\ h = [t \in Thread |-> Dummy]
  /\ out = [t \in Thread |-> Dummy]
  /\ inn = [t \in Thread |-> Dummy]
  /\ call = [t \in Thread |-> <<>>]
  /\ owner = NoThread
  /\ stored = 0
  /\ deque = <<>>

IsPush(t) == req[t][1] = "push"
SideOf(t) == req[t][2]
NodeOf(t) == req[t][3]

-----------------------------------------------------------------------------
(* The contents of the deque, for the properties.                          *)

\* The memory m with the k-th components of the words of the call c in it: the
\* second are the values expected, the third those to store.
With(m, c, k) == [a \in Cell |->
  LET w == {i \in DOMAIN c : c[i][1] = a} IN
  IF w = {} THEN m[a] ELSE c[CHOOSE i \in w : TRUE][k]]

\* A push takes effect with its last store, a pop with its first: the words
\* as they would be with the push undone or the pop finished.
Settled ==
  IF owner = NoThread \/ stored = 0 THEN mem
  ELSE With(mem, call[owner], IF IsPush(owner) THEN 2 ELSE 3)

\* How the deque changes when a push, or a pop, on side s takes effect, and its
\* i-th node counted from that side.
Pushed(q, s, n) == IF s = "L" THEN <<n>> \o q ELSE Append(q, n)
Popped(q, s)    == IF s = "L" THEN SubSeq(q, 2, Len(q)) ELSE SubSeq(q, 1, Len(q) - 1)
At(q, s, i)     == IF s = "L" THEN q[i] ELSE q[Len(q) + 1 - i]

-----------------------------------------------------------------------------
(* The operations.                                                         *)

Goto(t, l) == pc' = [pc EXCEPT ![t] = l]

\* The end of a round of the loop; its locals die.
EndRound(t, l) ==
  /\ Goto(t, l)
  /\ h' = [h EXCEPT ![t] = Dummy]
  /\ out' = [out EXCEPT ![t] = Dummy]
  /\ inn' = [inn EXCEPT ![t] = Dummy]
  /\ call' = [call EXCEPT ![t] = <<>>]

Return(t, v) ==
  /\ EndRound(t, "idle")
  /\ ret' = [ret EXCEPT ![t] = v]
  /\ req' = [req EXCEPT ![t] = <<>>]

Again(t) == EndRound(t, "hat") /\ UNCHANGED <<req, ret>>

\* An operation starts, or starts over, with the loop of Deque.h:49-50.  Which
\* of the free nodes an allocation returns makes no difference.
PushStart(t, s) ==
  LET n == CHOOSE m \in free : TRUE IN
  /\ pc[t] = "idle" /\ free # {}
  /\ free' = free \ {n}
  /\ mem' = [mem EXCEPT ![Link(s, n)] = Dummy]
  /\ req' = [req EXCEPT ![t] = <<"push", s, n>>]
  /\ ret' = [ret EXCEPT ![t] = Pending]
  /\ Goto(t, "hat")
  /\ UNCHANGED <<h, out, inn, call, owner, stored, deque>>

PopStart(t, s) ==
  /\ pc[t] = "idle"
  /\ req' = [req EXCEPT ![t] = <<"pop", s>>]
  /\ ret' = [ret EXCEPT ![t] = Pending]
  /\ Goto(t, "hat")
  /\ UNCHANGED <<mem, free, h, out, inn, call, owner, stored, deque>>

LoadHat(t) ==
  /\ pc[t] = "hat"
  /\ h' = [h EXCEPT ![t] = mem[Hat(SideOf(t))]]
  /\ Goto(t, "links")
  /\ UNCHANGED <<mem, free, req, ret, out, inn, call, owner, stored, deque>>

\* Faulty PushLoadLink: the new node's link into the deque is not set.
PushLoadLinkUnset(t) ==
  LET s == SideOf(t)  n == NodeOf(t)  o == mem[Link(s, h[t])] IN
  /\ pc[t] = "links" /\ IsPush(t)
  /\ IF o = h[t]
     THEN Goto(t, "other") /\ UNCHANGED call
     ELSE /\ call' = [call EXCEPT ![t] = << <<Hat(s), h[t], n>>, <<Link(s, h[t]), o, n>> >>]
          /\ Goto(t, "mcas")
  /\ UNCHANGED <<mem, free, req, ret, h, out, inn, owner, stored, deque>>

\* push_front: load the outer link; the node is self-linked iff it was popped.
PushLoadLink(t) ==
  LET s == SideOf(t)  n == NodeOf(t)  o == mem[Link(s, h[t])] IN
  /\ pc[t] = "links" /\ IsPush(t)
  /\ IF o = h[t]
     THEN /\ mem' = [mem EXCEPT ![Link(Opp(s), n)] = Dummy]
          /\ Goto(t, "other")
          /\ UNCHANGED call
     ELSE /\ mem' = [mem EXCEPT ![Link(Opp(s), n)] = h[t]]
          /\ call' = [call EXCEPT ![t] = << <<Hat(s), h[t], n>>, <<Link(s, h[t]), o, n>> >>]
          /\ Goto(t, "mcas")
  /\ UNCHANGED <<free, req, ret, h, out, inn, owner, stored, deque>>

PushLoadOther(t) ==
  LET s == SideOf(t)  n == NodeOf(t) IN
  /\ pc[t] = "other"
  /\ call' = [call EXCEPT ![t] =
       << <<Hat(s), h[t], n>>, <<Hat(Opp(s)), mem[Hat(Opp(s))], n>> >>]
  /\ Goto(t, "mcas")
  /\ UNCHANGED <<mem, free, req, ret, h, out, inn, owner, stored, deque>>

\* pop_front and pop_back both load L first and then R.
PopLoadL(t) ==
  /\ pc[t] = "links" /\ ~IsPush(t)
  /\ IF SideOf(t) = "L"
     THEN out' = [out EXCEPT ![t] = mem[Link("L", h[t])]] /\ UNCHANGED inn
     ELSE inn' = [inn EXCEPT ![t] = mem[Link("L", h[t])]] /\ UNCHANGED out
  /\ Goto(t, "links2")
  /\ UNCHANGED <<mem, free, req, ret, h, call, owner, stored, deque>>

PopLoadR(t) ==
  LET s == SideOf(t)
      r == mem[Link("R", h[t])]
      o == IF s = "L" THEN out[t] ELSE r
      i == IF s = "L" THEN r ELSE inn[t]
  IN
  /\ pc[t] = "links2"
  /\ IF o = h[t]
     THEN IF Reread THEN Goto(t, "reread") /\ UNCHANGED <<req, ret, h, out, inn, call>>
                    ELSE Return(t, Empty)
     ELSE /\ call' = [call EXCEPT ![t] =
               << <<Hat(s), h[t], i>>, <<Link(Opp(s), h[t]), i, h[t]>>,
                  <<Link(s, h[t]), o, h[t]>> >>]
          /\ Goto(t, "mcas")
          /\ UNCHANGED <<req, ret, h, out, inn>>
  /\ UNCHANGED <<mem, free, owner, stored, deque>>

\* Faulty PopReread: -1 without looking at the hat again.
PopRereadSkipped(t) ==
  /\ pc[t] = "reread"
  /\ Return(t, Empty)
  /\ UNCHANGED <<mem, free, owner, stored, deque>>

PopReread(t) ==
  /\ pc[t] = "reread"
  /\ IF mem[Hat(SideOf(t))] = h[t]
     THEN Return(t, Empty)
     ELSE Again(t)
  /\ UNCHANGED <<mem, free, owner, stored, deque>>

\* Faulty McasCompare: the hat is loaded before the loop, once.
McasCompareStale(t) ==
  /\ pc[t] = "mcas" /\ owner = NoThread
  /\ IF \A i \in DOMAIN call[t] : mem[call[t][i][1]] = call[t][i][2]
     THEN owner' = t /\ Goto(t, "store")
     ELSE Goto(t, "links") /\ UNCHANGED owner
  /\ UNCHANGED <<mem, free, req, ret, h, out, inn, call, stored, deque>>

\* The call takes global_cas_lock and compares; words change only under it.
McasCompare(t) ==
  /\ pc[t] = "mcas" /\ owner = NoThread
  /\ IF \A i \in DOMAIN call[t] : mem[call[t][i][1]] = call[t][i][2]
     THEN owner' = t /\ Goto(t, "store") /\ UNCHANGED <<req, ret, h, out, inn, call>>
     ELSE Again(t) /\ UNCHANGED owner
  /\ UNCHANGED <<mem, free, stored, deque>>

McasConflict(t) ==
  /\ MayConflict /\ pc[t] = "mcas"
  /\ Again(t)
  /\ UNCHANGED <<mem, free, owner, stored, deque>>

\* One store; the last one gives the lock back and the operation returns.
McasStore(t) ==
  /\ pc[t] = "store"
  /\ mem' = [mem EXCEPT ![call[t][stored + 1][1]] = call[t][stored + 1][3]]
  /\ IF stored + 1 = Len(call[t])
     THEN /\ owner' = NoThread /\ stored' = 0
          /\ Return(t, IF IsPush(t) THEN Void ELSE h[t])
     ELSE /\ stored' = stored + 1
          /\ UNCHANGED <<owner, pc, req, ret, h, out, inn, call>>
  /\ deque' = IF IsPush(t) /\ stored + 1 = Len(call[t]) THEN Pushed(deque, SideOf(t), NodeOf(t))
              ELSE IF ~IsPush(t) /\ stored = 0 THEN Popped(deque, SideOf(t))
              ELSE deque
  /\ UNCHANGED free

Step(t) ==
  \/ LoadHat(t) \/ PushLoadLink(t) \/ PushLoadOther(t)
  \/ PopLoadL(t) \/ PopLoadR(t) \/ PopReread(t)
  \/ McasCompare(t) \/ McasStore(t)

Next == \E t \in Thread :
  \/ \E s \in Side : PushStart(t, s) \/ PopStart(t, s)
  \/ Step(t) \/ McasConflict(t)

Spec == Init /\ [][Next]_vars

\* Threads are scheduled, and no thread meets a conflict in every dcas and tcas.
FairSpec ==
  Spec /\ \A t \in Thread : WF_vars(Step(t)) /\ SF_vars(McasCompare(t))

-----------------------------------------------------------------------------
(* Properties.                                                             *)

\* A pop that is storing has taken effect; what it returns is certain.
Decided(t) == owner = t /\ stored > 0 /\ ~IsPush(t)

Abstract == INSTANCE DequeSpec WITH
  Item <- Node,
  q    <- deque,
  req  <- [t \in Thread |-> IF Decided(t) THEN <<>> ELSE req[t]],
  ret  <- [t \in Thread |-> IF Decided(t) THEN h[t] ELSE ret[t]]

\* The deque is linearizable: every operation takes effect at one point, on
\* the sequence of nodes between the hats, although plain loads see dcas and
\* tcas half made and read the hats and links at different times.
DequeLinearizable == Abstract!Spec

\* The hats and the links agree with the deque, in both directions: seen from
\* side s, the hat of s is at the outermost node, whose outer link does not
\* point at itself, and the inner links visit the others in their order.  The
\* deque is empty iff the hats are at nodes that were popped, linked to
\* themselves.
LinksAgree ==
  LET m == Settled IN
  \A s \in Side :
    /\ (deque = <<>>) = (m[Link(s, m[Hat(s)])] = m[Hat(s)])
    /\ deque # <<>> => m[Hat(s)] = At(deque, s, 1)
    /\ \A i \in 1 .. Len(deque) - 1 : m[Link(Opp(s), At(deque, s, i))] = At(deque, s, i + 1)
    /\ \A i, j \in 1 .. Len(deque) : deque[i] = deque[j] => i = j

\* Types, and the two directions agree whatever dcas is under way.
LinksOK == TypeOK /\ LinksAgree

\* Every operation returns: a dcas or tcas fails only because another one
\* succeeded, and every owner of the lock gives it back.
OperationsReturn == \A t \in Thread : ret[t] = Pending ~> ret[t] # Pending
=============================================================================
