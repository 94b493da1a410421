----------------------------- MODULE MCStructures -----------------------------
(***************************************************************************)
(* The structures of lockbased, htm-lock, htm-mcas, lockfree-mcas (tree),  *)
(* lockfree, lockfree-flock and flock-mcas under every order of calls,     *)
(* steps and results.  A behaviour has one of them, and a mode: which      *)
(* calls are made, and which may overlap.                                  *)
(***************************************************************************)
EXTENDS HtmLockStructures, FlockMcasStructures,
        LockfreeQueues, LockfreeList, LockfreeHashMap, LockfreeTree

CONSTANTS Structures   \* the triples <<sync, kind, mode>> to look at

(* Modes.  "any": every call may overlap every other.  "grow": nothing is  *)
(* removed.  "remover": removals do not overlap, nor in "torn", where the  *)
(* build copies a DPointer by two loads, nor in "apart", such a build where *)
(* inserts do not overlap either.  "writer": one update at a time, among   *)
(* readers.  "turns": one call at a time.  "ends": one thread pushes and   *)
(* one pops, as SPSCQueue.h is made for.  "front" and "fifo": a deque as   *)
(* Stack.h and Queue.h use it.                                             *)

Blocking == {"lockbased", "htm-lock", "htm-mcas"}
AllStructures ==
  (Blocking \X {"tree", "list", "map", "deque"} \X {"any"} \ {<<"htm-mcas", "map", "any">>})
  \cup {<<"htm-mcas", "map", "remover">>, <<"lockbased", "rows", "any">>,
        <<"mcas-lock", "tree", "writer">>, <<"mcas-lock", "tree", "grow">>,
        <<"mcas-htm", "tree", "writer">>,
        <<"lockfree", "queue", "any">>, <<"lockfree", "stack", "any">>,
        <<"lockfree", "spsc", "ends">>, <<"lockfree", "list", "remover">>,
        <<"lockfree", "list", "grow">>, <<"lockfree", "list", "apart">>, <<"lockfree", "map", "grow">>, <<"lockfree", "map", "turns">>,
        <<"lockfree", "tree", "grow">>, <<"lockfree", "tree", "writer">>,
        <<"lockfree", "tree", "any">>}
  \cup {"flock"} \X {"list", "map", "tree", "deque", "leaf", "rows"} \X {"any"}
  \cup {<<"flock", "leaf", "grow">>, <<"flock-mcas", "deque", "front">>,
        <<"flock-mcas", "deque", "fifo">>, <<"flock-mcas", "tree", "writer">>, <<"flock-mcas", "tree", "grow">>}

\* Those whose overlapping updates lose entries, or whose results the code gets wrong:
\* of these only the shape is looked at.
ShapeOnly == {<<"mcas-lock", "tree", "grow">>, <<"mcas-htm", "tree", "writer">>,
              <<"lockfree", "list", "remover">>, <<"lockfree", "list", "apart">>,
              <<"lockfree", "tree", "any">>, <<"flock-mcas", "tree", "grow">>}

Keys == 0 .. 2
Symmetry == Permutations(Thread)
\* What is in at the start: for lists the keys, for the deque of flock-mcas its values.
FilledWith(s) ==
  CASE s[2] = "list" /\ s[1] \in {"lockfree", "flock"}        -> <<1>>
    [] s = <<"flock-mcas", "deque", "any">>                   -> <<12>>
    [] s[1] = "flock-mcas" /\ s[2] = "deque"                  -> <<11, 12, 13>>
    [] OTHER                                                  -> <<>>
Calls(s) ==
  CASE s[2] \in {"stack", "spsc"} \/ (s[2] = "deque" /\ s[1] \in Blocking) -> 5
    [] (s[2] = "list" /\ FilledWith(s) # <<>>) \/ s \in {<<"lockfree", "tree", "any">>, <<"flock-mcas", "tree", "grow">>} -> 3
    [] OTHER -> 4

Sequence == {"deque", "queue", "stack", "spsc"}

Outcomes(o, c) ==
  {<<[o EXCEPT !.val = e[1]], e[2]>> : e \in
     CASE o.kind \in Sequence -> SequenceCall(o.val, c)
       [] o.kind = "rows" -> RowsCall(o.val, c)
       [] o.kind = "leaf" -> SetCall(o.val, c)
       [] o.sync = "lockfree" /\ o.kind = "tree" -> SetCall(o.val, c)
       [] o.kind = "tree" -> TreeCall(o.val, c)
       [] o.kind = "list" \/ o.sync = "lockfree" -> BagCall(o.val, c)
       [] OTHER -> MapCall(o.val, c)}

Empty(s) == [sync |-> s[1], kind |-> s[2],
             val |-> IF s[2] \in Sequence THEN FilledWith(s)
                     ELSE [k \in Key |-> IF s[2] = "rows" THEN k
                                          ELSE Cardinality({i \in DOMAIN FilledWith(s) : FilledWith(s)[i] = k})]]

LockfreeListNodes(keys) ==
  LET n == Len(keys) IN
  <<[ListInitNodes[1] EXCEPT !.after = To(3)], [ListInitNodes[2] EXCEPT !.before = n + 2]>> \o
  [i \in 1 .. n |-> ListNode(keys[i], IF i = 1 THEN headdummy ELSE i + 1, To(IF i = n THEN 2 ELSE i + 3))]
LockfreeNodes(s) == [queue |-> QueueNodes, stack |-> <<>>, spsc |-> QueueNodes,
                  list |-> LockfreeListNodes(FilledWith(s)),
                  map |-> MapNodes, tree |-> HeadNodes]
LockfreeRoot  == [queue |-> QueueRoot, stack |-> [head |-> Null], spsc |-> QueueRoot] @@
                 [k \in {"list", "map", "tree"} |-> <<>>]

FlockNodes(kind) ==
  CASE kind = "list" -> <<[FlockSentinels[1] EXCEPT !.next = 3], [FlockSentinels[2] EXCEPT !.prev = 3],
                          [FlockSentinels[1] EXCEPT !.key = 1, !.prev = HeadNode, !.next = TailNode]>>
    [] kind = "map"  -> <<>>
    [] kind = "leaf" -> LeafTreeNodes
    [] OTHER         -> Sentinels
FlockRoot(kind) == IF kind = "map" THEN [head |-> Null, version |-> 0] ELSE <<>>

\* The deque of flock-mcas in mode any: node 3 was popped at the front, so that its
\* neighbour, node 2, still names it, and has been destructed since, as it is after two
\* more pops, at the back, by the same thread.
StaleNodes == Append([SnarkFilled(<<12>>) EXCEPT ![2].L = 3], SnarkNode(11, 3, 3))
StaleRoot  == [SnarkRoot(<<12>>) EXCEPT !.pool = {3}]

SInit ==
  \E s \in Structures :
    LET init(nodes, fields) == CallsInit([sync |-> s[1], kind |-> s[2], mode |-> s[3]], nodes,
                                         fields, Empty(s), Calls(s))
    IN CASE s[1] = "lockfree" -> init(LockfreeNodes(s)[s[2]], LockfreeRoot[s[2]])
         [] s[2] = "tree"     -> init(<<>>, [root |-> Null])
         [] s = <<"flock-mcas", "deque", "any">> ->
              init(StaleNodes, StaleRoot)
         [] s[1] = "flock-mcas" -> init(SnarkFilled(FilledWith(s)), SnarkRoot(FilledWith(s)))
         [] s[2] = "deque" /\ s[1] = "htm-mcas" ->
              init(SnarkFilled(<<>>), [LeftHat |-> Dummy, RightHat |-> Dummy])
         [] s[2] = "rows"     -> init(Rows, <<>>)
         [] s[1] = "flock"    -> init(FlockNodes(s[2]), FlockRoot(s[2]))
         [] OTHER             -> init(Sentinels, <<>>)

Is(sync, kind) == structure.sync = sync /\ structure.kind = kind
Judged == <<structure.sync, structure.kind, structure.mode>> \notin ShapeOnly

-----------------------------------------------------------------------------
(* The calls a thread may make.                                            *)

Removals == {"remove", "erase"}
Updates  == {"insert", "insert_or_assign"} \cup Removals
Ops(t) ==
  CASE structure.kind \in {"queue", "spsc"} -> {"push_back", "pop_front"}
    [] structure.kind = "stack" -> {"push_front", "pop_front"}
    [] Is("lockfree", "map")    -> {"insert", "remove", "contains"}
    [] structure.kind = "map" /\ structure.sync \in {"htm-mcas", "flock"} ->
         Operations.map \ {"find"}                    \* commented out, or private
    [] Is("lockfree", "list")   -> {"insert", "remove"}
    [] structure.mode = "front" -> {"push_front", "pop_front"}
    [] structure.mode = "fifo"  -> {"push_back", "pop_front"}
    [] structure.kind = "leaf"  -> {"insert", IF structure.mode = "grow" THEN "get_min" ELSE "remove"}
    [] structure.kind = "rows"  -> {"swap"}
    [] OTHER -> Operations[structure.kind]

\* The calls of other threads under way.
Others(t) == {loc[u].op : u \in {u \in Thread \ {t} : pc[u] # "idle"}}

Overlaps(t, op) ==
  CASE structure.mode = "grow"    -> op \notin Removals
    [] structure.mode \in {"remover", "torn"} -> op \in Removals => Others(t) \cap Removals = {}
    [] structure.mode = "writer"  -> op \in Updates => Others(t) \cap Updates = {}
    [] structure.mode = "turns"   -> Idle
    [] structure.mode \in {"ends", "apart"} -> op \notin Others(t)
    [] OTHER -> TRUE

\* The list of lockfree takes out the first node not below the key, be it the last
\* one: here it is asked only for keys that are in.
Listed(k) == \E n \in Reached \ {headdummy, 2} : heap[n].key = k /\ ~Marked(After(n))

\* LeafTree.h is a set: it is not asked to insert a key twice; and the least key of
\* an empty tree is that of the sentinel, which nobody sets.
LeafCall(t, op, k) ==
  /\ op = "insert" => /\ \A n \in LeavesIn : heap[n].key # k
                      /\ \A u \in {u \in Thread : pc[u] # "idle"} : My(u).op # op \/ My(u).key # k
  /\ op = "get_min" => LeavesIn # {}

SInvoke(t) ==
  \E op \in Ops(t), k \in Key \cup {todo}, v \in Key \cup {todo} :
    /\ Overlaps(t, op)
    /\ Is("lockfree", "list") /\ op = "remove" => Listed(k)
    /\ structure.kind = "map" => k # IF structure.sync = "lockfree" THEN 1 ELSE 2
    /\ structure.sync = "lockfree" /\ structure.kind \in {"tree", "list"} => k # 2 \/ Torn
    /\ op = "get_min" => k = 0
    /\ structure.kind = "leaf" => LeafCall(t, op, k)
    /\ IF structure.kind \in Sequence THEN k = todo ELSE k \in Key   \* each push its own value
    /\ IF op = "swap" THEN v \in Key ELSE v = IF op = "insert_or_assign" THEN todo ELSE 0
    /\ Invoke(t, op, k, v)

Step(t) ==
  \/ LockbasedStep(t) \/ HtmLockStep(t) \/ HtmMcasStep(t) \/ McasTreeStep(t)
  \/ FlockStep(t) \/ FlockMcasStep(t)
  \/ Is("lockfree", "queue") /\ QueueStep(t)
  \/ Is("lockfree", "stack") /\ StackStep(t)
  \/ Is("lockfree", "spsc") /\ SpscStep(t)
  \/ Is("lockfree", "list") /\ ListStep(t)
  \/ Is("lockfree", "map") /\ MapStep(t)
  \/ Is("lockfree", "tree") /\ TreeStep(t)

SNext ==
  \/ ~Dead /\ \E t \in Thread : SInvoke(t) \/ (Step(t) /\ UNCHANGED <<structure, todo>>)
  \/ Finished

SSpec == SInit /\ [][SNext]_vars

-----------------------------------------------------------------------------
(* Properties.                                                             *)

KeysOf(s) == [i \in DOMAIN s |-> heap[s[i]].key]
Counted(S) == [k \in Key |-> Cardinality({n \in S : heap[n].key = k})]

Contents ==
  [sync |-> structure.sync, kind |-> structure.kind, val |->
   CASE structure.kind = "stack" -> Chain(root.head)
     [] structure.kind = "queue" -> Chain(heap[root.head].next)
     [] structure.kind = "spsc"  -> LET c == Chain(root.head) IN SubSeq(c, 1, Len(c) - 1)
     [] Is("lockfree", "map")    -> [k \in Key |-> Cardinality(Holding(k))]
     [] Is("lockfree", "tree")   -> [k \in Key |-> IF Found(k) THEN 1 ELSE 0]
     [] structure.kind = "leaf"  -> Counted(LeavesIn)
     [] structure.kind = "rows"  -> [k \in Key |-> heap[k + 1].key]
     [] Is("flock", "map")       -> [k \in Key |->
          IF \E i \in DOMAIN SlotNodes : heap[SlotNodes[i]].key = k
          THEN heap[SlotNodes[CHOOSE i \in DOMAIN SlotNodes : heap[SlotNodes[i]].key = k]].val ELSE 0]
     [] structure.kind = "tree"  -> Counted(TreeNodes)
     [] Is("lockfree", "list")   -> Counted({n \in Reached \ {headdummy, 2} : ~Marked(After(n))})
     [] structure.kind = "list"  -> Counted({ListNodes[i] : i \in DOMAIN ListNodes})
     [] structure.kind = "map"   -> [k \in Key |->
          IF Occurrences(k) = {} THEN 0 ELSE heap[CHOOSE n \in Occurrences(k) : TRUE].val]
     [] structure.kind = "deque" /\ structure.sync \in {"htm-mcas", "flock-mcas"} -> KeysOf(SnarkNodes)
     [] OTHER                    -> KeysOf(ListNodes)]

\* Every result is one the sequential object gives, with the calls in an order that
\* agrees with when they were made: an operation is atomic, in however many
\* sections or compare-and-swaps the code does it.
Linearizable == Judged => lin # {}

\* When no call is under way, the structure holds what the sequential object holds
\* after the same calls: no operation loses or doubles another's entry, as the sanity
\* checks of benchmarks.cpp expect after theirs.
ContentsKept  == Idle => \E x \in lin : x.obj = Contents
ContentsAgree == Judged => ContentsKept

LinkingBack == \E t \in Thread : pc[t] \in {"link back", "unlink back"}   \* by FlockStep

\* The links are those of a list, a tree or a deque: both directions agree, lists
\* are sorted, trees ordered, maps have one node per key; a walk of the lock-free
\* list leads to its tail, whatever is unlinked; and a walk of the lock-free tree
\* leads to every leaf that is below its root, even while removals overlap.
WellFormed ==
  CASE Is("lockfree", "tree") ->
         \A n \in TreeReach \ {parentHead} : IsLeaf(n) /\ heap[n].key # LeafKey => Found(heap[n].key)
    [] Is("lockfree", "list") -> 2 \in Reached
    [] structure.sync = "lockfree" \/ structure.kind = "rows" -> TRUE   \* Contents says it all
    [] structure.kind = "tree" -> Ordered
    [] structure.kind = "leaf" -> LeavesOrdered
    [] Is("flock", "map") ->
         \A k \in Key : Cardinality({i \in DOMAIN SlotNodes : heap[SlotNodes[i]].key = k}) <= 1
    [] structure.kind = "deque" /\ structure.sync \in {"htm-mcas", "flock-mcas"} ->
         structure.sync = "htm-mcas" \/ Idle =>
           \A i \in 1 .. Len(SnarkNodes) - 1 : heap[SnarkNodes[i + 1]].L = SnarkNodes[i]
    [] OTHER ->
         LET s == <<HeadNode>> \o ListNodes \o <<TailNode>> IN
         /\ \A i \in 1 .. Len(s) - 1 : heap[s[i]].next = s[i + 1] /\ (LinkingBack \/ heap[s[i + 1]].prev = s[i])
         /\ structure.kind = "list" => \A i \in 2 .. Len(s) - 2 : heap[s[i]].key <= heap[s[i + 1]].key
         /\ structure.kind = "map" => \A k \in Key : Cardinality(Occurrences(k)) <= 1

\* Threads that wait for a row's lock do not wait for each other in a circle.
Waits(t, u) ==
  pc[t] \in {"low", "high", "lock low", "lock high"} /\ "locks" \in DOMAIN loc[u]
    /\ ({LowRow(t), HighRow(t)} \ My(t).locks) \cap loc[u].locks # {}
NoCircle == structure.kind = "rows" => \A t, u \in Thread : t # u => ~(Waits(t, u) /\ Waits(u, t))

\* What the code does to null and to deleted nodes (README.md, section 6).
KnownFaults ==
  {<<"mcas-lock", "tree", "get_min">>, <<"mcas-htm", "tree", "get_min">>,
   <<"htm-mcas", "tree", "get_min">>, <<"flock-mcas", "tree", "get_min">>,
   <<"htm-mcas", "tree", "insert">>, <<"htm-lock", "map", "find">>}

\* No operation but these uses a null or deleted node: of the lock-free queues, list
\* and map, of the trees' inserts whose root or child may go, of flock-mcas' deque
\* whose hats may be left at a popped node.  (The other structures have no load of
\* which that could be true.)  No operation on a structure of lockfree-flock holds a
\* node that was retired before it began, whose memory epoch.h may give away.  And no
\* node that is still linked is deleted or retired.
Holds(t) == UNION {My2(t, f) : f \in {"curr", "prev", "next", "gp"}}
Linked ==
  CASE structure.kind = "leaf" -> Subtree(heap[1].left)
    [] Is("flock", "map")      -> {SlotNodes[i] : i \in DOMAIN SlotNodes}
    [] structure.kind = "tree" -> TreeNodes
    [] Is("flock-mcas", "deque") -> {SnarkNodes[i] : i \in DOMAIN SnarkNodes}
    [] structure.kind \in {"list", "map", "deque"} -> {ListNodes[i] : i \in DOMAIN ListNodes}
    [] OTHER -> {}
NodesLive ==
  /\ \A t \in Thread : At(t, "fault") => <<structure.sync, structure.kind, My(t).op>> \in KnownFaults
  /\ structure.sync = "flock" =>
       \A t \in Thread : "gone" \in DOMAIN loc[t] => Holds(t) \cap loc[t].gone = {}
  /\ structure.sync # "lockfree" /\ ~Is("htm-mcas", "deque") => Linked \cap freed = {}

\* A node of the lock-free list leaves it only after its removal has marked it, in
\* whatever state the unlinking walks of other inserts are.
ListKeeps ==
  [][Is("lockfree", "list") =>
       \A n \in Reached : Marked(After(n)) \/ n \in Reached']_vars

-----------------------------------------------------------------------------
(* Single structures, on which TLC refutes ContentsKept, or ListKeeps for   *)
(* the last: values for Structures in Structures.cfg (README.md, section 6). *)

FlockDequeOnly == {<<"flock-mcas", "deque", "any">>}
HtmTreeOnly    == {<<"mcas-htm", "tree", "writer">>}
StampTreeOnly  == {<<"lockfree", "tree", "any">>}
TornListOnly   == {<<"lockfree", "list", "torn">>}
=============================================================================
