-------------------------- MODULE LockfreeDequeProofs --------------------------
(***************************************************************************)
(* The Chase-Lev deque is right for any number of stealers, objects and    *)
(* sizes: each object is won once and in order, and no object is read from *)
(* a buffer that reclaim_buffers has deleted.  The owner and a stealer     *)
(* agree on the last object because top moves whenever the owner takes the *)
(* object at top: a stealer whose CAS may still succeed has the deque's    *)
(* first object in view.                                                   *)
(***************************************************************************)
EXTENDS LockfreeDeque, TLAPS

Item == Object \cup {Nothing}
Reclaiming == {"idle?", "lastUsed", "free"}
OwnerPoints == {"idle", "grow", "put", "publish", "popTop", "popCas", "restore", "shrink"} \cup Reclaiming
StealerPoints == {"idle", "top", "bottom", "buffer", "cas", "get", "end", "buffer2", "id"}

\* In push_bottom, or in pop_bottom with an object that it took without a CAS.
Pushing == opc \in {"grow", "put", "publish"} \/ (opc \in Reclaiming /\ popped = Nothing)
Taking  == opc = "shrink" \/ (opc \in Reclaiming /\ popped # Nothing)

Types ==
  /\ top \in 0 .. MaxPush /\ bottom \in -1 .. MaxPush /\ sent \in 0 .. MaxPush
  /\ opc \in OwnerPoints /\ b \in 0 .. MaxPush /\ t \in Nat /\ popped \in Item
  /\ segs \in Seq(Seq(Item) \ {<<>>}) /\ segs # <<>>
  /\ pc \in [Stealer -> StealerPoints] /\ st \in [Stealer -> Nat] /\ sa \in [Stealer -> 0 .. buffer]
  /\ was_idle \in [Stealer -> BOOLEAN] /\ id_last_used \in [Stealer -> 0 .. buffer]
  /\ stolen \in [Stealer -> Item] /\ got \in [Stealer -> Item]

\* Where the two ends are in each operation of the owner.
Ends ==
  /\ IF opc = "restore" THEN top = b ELSE top <= bottomBar
  /\ opc = "idle" => bottom <= sent
  /\ Pushing => b = bottom /\ t <= top /\ bottom < sent
  /\ opc \in {"popTop", "popCas", "restore"} \/ Taking => bottom = b - 1 /\ b <= sent
  /\ opc = "popCas" => b = t + 1 /\ t <= top
  /\ Taking => t <= top
  /\ opc = "shrink" => popped # Nothing
  /\ opc \notin {"shrink", "restore"} \cup Reclaiming => popped = Nothing

\* The buffer is never full, so no two objects of the deque have one slot.
Room ==
  /\ bottomBar - top <= size(buffer) - 1
  /\ Pushing => b - t <= size(buffer) - (IF opc = "grow" THEN 1 ELSE 2)
  /\ Taking => b - t <= size(buffer) - 1

\* The objects are in the current buffer.
Held ==
  /\ \A i \in top .. bottomBar - 1 : get(buffer, i) \in Object
  /\ opc = "publish" => get(buffer, b) = sent

\* A stealer whose CAS may succeed has the first object in view.
InView ==
  \A s \in Stealer :
    /\ st[s] <= top
    /\ pc[s] \in {"buffer", "cas"} => st[s] < MaxPush /\ (top = st[s] => top < bottomBar)

DequeInv == Types /\ Ends /\ Room /\ Held /\ InView

\* The stealers that hold a buffer from which they may read an object.
Holds(s) == pc[s] \in {"cas", "get"}

\* The buffers that are deleted are the oldest.
Oldest ==
  IF unlinked = NoBuffer THEN buffer = 0 /\ freed = {}
  ELSE unlinked \in 0 .. buffer /\ freed = 0 .. unlinked - 1

\* reclaim_buffers has in min_id a bound on the buffers of the stealers it has asked:
\* who was idle then has since loaded the current one.
Spared ==
  /\ \A s \in Stealer :
       /\ was_idle[s] <=> pc[s] \in {"idle", "buffer2", "id"}
       /\ Holds(s) => sa[s] >= unlinked
       /\ Holds(s) \/ pc[s] = "id" => sa[s] >= id_last_used[s]
  /\ opc \in Reclaiming =>
       /\ unlinked # NoBuffer /\ min_id \in 0 .. buffer
       /\ head \in 1 .. Len(StealerList) + (IF opc = "lastUsed" THEN 0 ELSE 1)
       /\ opc = "free" => head = Len(StealerList) + 1
       /\ \A i \in 1 .. head - 1 : Holds(StealerList[i]) => sa[StealerList[i]] >= min_id

BufferInv == Oldest /\ Spared

IInv == DequeInv /\ BufferInv

-----------------------------------------------------------------------------
(* Slots.                                                                  *)

\* Indices that are less than the size apart have different slots.
LEMMA Slots ==
  ASSUME NEW n \in Nat \ {0}, NEW i \in Int, NEW j \in Int, i < j, j - i < n
  PROVE  i % n # j % n
  <1> SUFFICES ASSUME i % n = j % n PROVE FALSE
    OBVIOUS
  <1> DEFINE d == (j \div n) - (i \div n)
  <1>1. n > 0
    OBVIOUS
  <1>2. i = n * (i \div n) + (i % n) /\ j = n * (j \div n) + (j % n)
    BY <1>1
  <1>3. i \div n \in Int /\ j \div n \in Int /\ i % n \in Int /\ j % n \in Int
    BY <1>1
  <1>4. \A p, q, r, m \in Int : m > 0 /\ i = m * p + r /\ j = m * q + r => j - i = m * (q - p)
    OBVIOUS
  <1>5. \A m, e \in Int : m > 0 /\ m * e > 0 /\ m * e < m => FALSE
    <2> SUFFICES ASSUME NEW m \in Int, NEW e \in Int, m > 0, m * e > 0, m * e < m PROVE FALSE
      OBVIOUS
    <2>1. CASE e <= 0
      BY <2>1
    <2>2. CASE e >= 1
      BY <2>2
    <2> QED
      BY <2>1, <2>2
  <1>6. j - i = n * d /\ d \in Int
    BY <1>1, <1>2, <1>3, <1>4
  <1>7. n * d > 0 /\ n * d < n
    BY <1>6
  <1> HIDE DEF d
  <1> QED
    BY <1>1, <1>5, <1>6, <1>7

\* The same, whichever of the two is the larger.
LEMMA SlotsApart ==
  ASSUME NEW n \in Nat \ {0}, NEW i \in Int, NEW j \in Int, i # j, i - j < n, j - i < n
  PROVE  i % n # j % n
  <1>1. CASE i < j
    BY <1>1, Slots
  <1>2. CASE j < i
    BY <1>2, Slots
  <1> QED
    BY <1>1, <1>2

\* Buffers and their slots.
LEMMA Basics ==
  ASSUME Types
  PROVE  /\ Len(segs) \in Nat \ {0} /\ buffer \in Nat /\ buffer + 1 = Len(segs)
         /\ \A id \in 0 .. buffer :
              /\ id + 1 \in 1 .. Len(segs) /\ segs[id + 1] \in Seq(Item) /\ size(id) \in Nat \ {0}
              /\ \A i \in Int : (i % size(id)) + 1 \in 1 .. size(id) /\ get(id, i) \in Item
         /\ buffer \in 0 .. buffer
         /\ top \in Int /\ bottom \in Int /\ b \in Int /\ t \in Int /\ sent \in Int /\ bottomBar \in Int
  <1>1. segs \in Seq(Seq(Item) \ {<<>>}) /\ segs # <<>>
    BY DEF Types
  <1>2. Len(segs) \in Nat \ {0}
    BY <1>1
  <1>3. buffer \in Nat /\ buffer + 1 = Len(segs) /\ buffer \in 0 .. buffer
    BY <1>2 DEF buffer
  <1>4. ASSUME NEW id \in 0 .. buffer
        PROVE  /\ id + 1 \in 1 .. Len(segs) /\ segs[id + 1] \in Seq(Item) /\ size(id) \in Nat \ {0}
               /\ \A i \in Int : (i % size(id)) + 1 \in 1 .. size(id) /\ get(id, i) \in Item
    <2>1. id + 1 \in 1 .. Len(segs)
      BY <1>3
    <2>2. segs[id + 1] \in Seq(Item) \ {<<>>}
      BY <1>1, <2>1
    <2>3. size(id) \in Nat \ {0}
      BY <2>2 DEF size
    <2>4. \A n \in Nat \ {0} : \A i \in Int : (i % n) + 1 \in 1 .. n
      OBVIOUS
    <2>5. \A i \in Int : (i % size(id)) + 1 \in 1 .. size(id)
      BY <2>3, <2>4
    <2>6. \A i \in Int : get(id, i) \in Item
      BY <2>2, <2>5 DEF get, size
    <2> QED
      BY <2>1, <2>2, <2>3, <2>5, <2>6
  <1>5. top \in Int /\ bottom \in Int /\ b \in Int /\ t \in Int /\ sent \in Int
    BY SizeAssumption DEF Types
  <1>6. bottomBar \in Int
    BY <1>5 DEF bottomBar
  <1> QED
    BY <1>2, <1>3, <1>4, <1>5, <1>6

\* The new buffer of a resize holds what the old one held from t to b.
LEMMA ResizeKeeps ==
  ASSUME Types, NEW n \in Nat \ {0}, b - t <= n, Resize(n)
  PROVE  /\ segs' \in Seq(Seq(Item) \ {<<>>}) /\ segs' # <<>> /\ buffer' = buffer + 1
         /\ size(buffer)' = n /\ \A i \in t .. b - 1 : get(buffer, i)' = get(buffer, i)
  <1> DEFINE new == Segment(n, t, b)
  <1>1. segs' = Append(segs, new)
    BY DEF Resize
  <1>2. /\ segs \in Seq(Seq(Item) \ {<<>>}) /\ t \in Int /\ b \in Int /\ buffer \in Nat
        /\ buffer + 1 = Len(segs) /\ \A i \in Int : get(buffer, i) \in Item
    BY Basics DEF Types
  <1>3. new = [k \in 1 .. n |->
                 LET at == {i \in t .. b - 1 : i % n = k - 1}
                 IN IF at = {} THEN Nothing ELSE get(buffer, CHOOSE i \in at : TRUE)]
    BY DEF Segment
  <1>4. \A k \in 1 .. n : new[k] \in Item
    <2> SUFFICES ASSUME NEW k \in 1 .. n PROVE new[k] \in Item
      OBVIOUS
    <2> DEFINE at == {i \in t .. b - 1 : i % n = k - 1}
    <2>1. new[k] = IF at = {} THEN Nothing ELSE get(buffer, CHOOSE i \in at : TRUE)
      BY <1>3
    <2>2. \A i \in at : i \in Int
      BY <1>2
    <2> HIDE DEF at, new
    <2>3. at # {} => (CHOOSE i \in at : TRUE) \in at
      OBVIOUS
    <2> QED
      BY <1>2, <2>1, <2>2, <2>3 DEF Item
  <1>5. ASSUME NEW i \in t .. b - 1 PROVE new[(i % n) + 1] = get(buffer, i)
    <2> DEFINE k == (i % n) + 1
               at == {j \in t .. b - 1 : j % n = k - 1}
    <2>1. i \in Int /\ i % n \in 0 .. n - 1
      BY <1>2
    <2>2. k \in 1 .. n /\ k - 1 = i % n
      BY <2>1
    <2>3. new[k] = IF at = {} THEN Nothing ELSE get(buffer, CHOOSE j \in at : TRUE)
      BY <1>3, <2>2
    <2>4. \A j \in t .. b - 1 : j # i => j % n # i % n
      <3> SUFFICES ASSUME NEW j \in t .. b - 1, j # i PROVE j % n # i % n
        OBVIOUS
      <3>1. j \in Int /\ i - j < n /\ j - i < n
        BY <1>2
      <3> QED
        BY <2>1, <3>1, SlotsApart
    <2>5. at = {i}
      BY <2>2, <2>4
    <2>6. (CHOOSE j \in {i} : TRUE) = i
      OBVIOUS
    <2> HIDE DEF at, k, new
    <2>7. new[k] = get(buffer, i)
      BY <2>3, <2>5, <2>6
    <2> QED
      BY <2>7 DEF k
  <1>6. new \in Seq(Item) \ {<<>>} /\ Len(new) = n
    <2>1. new \in [1 .. n -> Item]
      BY <1>3, <1>4
    <2> HIDE DEF new
    <2>2. new \in Seq(Item) /\ Len(new) = n
      BY <2>1
    <2> QED
      BY <2>2
  <1> HIDE DEF new
  <1>7. /\ segs' \in Seq(Seq(Item) \ {<<>>}) /\ Len(segs') = Len(segs) + 1 /\ segs'[Len(segs) + 1] = new
    BY <1>1, <1>2, <1>6
  <1>8. buffer' = buffer + 1 /\ segs' # <<>>
    BY <1>2, <1>7 DEF buffer
  <1>9. segs'[buffer' + 1] = new
    BY <1>2, <1>7, <1>8
  <1>10. size(buffer)' = n
    BY <1>6, <1>9 DEF size
  <1>11. ASSUME NEW i \in t .. b - 1 PROVE get(buffer, i)' = get(buffer, i)
    <2>1. get(buffer, i)' = segs'[buffer' + 1][(i % size(buffer)') + 1]
      BY DEF get
    <2> QED
      BY <1>5, <1>9, <1>10, <2>1
  <1> QED
    BY <1>7, <1>8, <1>10, <1>11

\* What is put at b is not put over an object of the deque.
LEMMA PutKeeps ==
  ASSUME Types, segs' = [segs EXCEPT ![buffer + 1][(b % size(buffer)) + 1] = sent], sent \in Object, b' = b
  PROVE  /\ segs' \in Seq(Seq(Item) \ {<<>>}) /\ segs' # <<>> /\ buffer' = buffer
         /\ size(buffer)' = size(buffer) /\ get(buffer, b)' = sent
         /\ \A i \in Int : i < b /\ b - i < size(buffer) => get(buffer, i)' = get(buffer, i)
  <1> DEFINE old == segs[buffer + 1]
             k   == (b % size(buffer)) + 1
             new == [old EXCEPT ![k] = sent]
  <1>1. /\ segs \in Seq(Seq(Item) \ {<<>>}) /\ b \in Int /\ buffer + 1 \in 1 .. Len(segs)
        /\ old \in Seq(Item) /\ Len(old) \in Nat \ {0} /\ k \in 1 .. Len(old) /\ size(buffer) = Len(old)
        /\ Len(segs) \in Nat \ {0}
    BY Basics DEF Types, size
  <1>2. segs' = [segs EXCEPT ![buffer + 1] = new]
    OBVIOUS
  <1>3. sent \in Item
    BY DEF Item
  <1>4. /\ new \in Seq(Item) /\ Len(new) = Len(old) /\ new[k] = sent
        /\ \A i \in 1 .. Len(old) : i # k => new[i] = old[i]
    <2> HIDE DEF old, k
    <2> QED
      BY <1>1, <1>3
  <1> HIDE DEF k, old, new
  <1>5. new # <<>>
    BY <1>1, <1>4
  <1>6. segs' \in Seq(Seq(Item) \ {<<>>}) /\ Len(segs') = Len(segs) /\ segs'[buffer + 1] = new
    BY <1>1, <1>2, <1>4, <1>5
  <1>7. buffer' = buffer /\ segs' # <<>>
    BY <1>1, <1>6 DEF buffer
  <1>8. size(buffer)' = size(buffer)
    BY <1>1, <1>4, <1>6, <1>7 DEF size
  <1>9. \A i \in Int : get(buffer, i)' = new[(i % size(buffer)) + 1]
    BY <1>6, <1>7, <1>8 DEF get
  <1>10. get(buffer, b)' = sent
    <2>1. get(buffer, b)' = segs'[buffer' + 1][k]
      BY <1>8 DEF get, k
    <2> QED
      BY <1>4, <1>6, <1>7, <2>1
  <1>11. ASSUME NEW i \in Int, i < b, b - i < size(buffer) PROVE get(buffer, i)' = get(buffer, i)
    <2>1. i % size(buffer) # b % size(buffer)
      BY <1>1, <1>11, Slots
    <2>2. (i % size(buffer)) + 1 \in 1 .. Len(old) /\ i % size(buffer) \in Int /\ b % size(buffer) \in Int
      BY <1>1
    <2>3. (i % size(buffer)) + 1 # k
      BY <2>1, <2>2 DEF k
    <2>4. new[(i % size(buffer)) + 1] = old[(i % size(buffer)) + 1]
      BY <1>4, <2>2, <2>3
    <2> QED
      BY <1>9, <2>4 DEF get, old
  <1> QED
    BY <1>6, <1>7, <1>8, <1>10, <1>11

-----------------------------------------------------------------------------
(* The owner and the ends of the deque.                                    *)

\* What the lemmas below have in common.
LEMMA Facts ==
  ASSUME DequeInv
  PROVE  /\ Types /\ Ends /\ Room /\ Held /\ InView
         /\ buffer \in Nat /\ size(buffer) \in Nat \ {0} /\ MaxPush \in Nat
         /\ \A i \in Int : get(buffer, i) \in Item
         /\ top \in 0 .. MaxPush /\ bottom \in -1 .. MaxPush /\ b \in 0 .. MaxPush /\ t \in Nat
         /\ sent \in 0 .. MaxPush /\ bottomBar \in Int /\ popped \in Item
         /\ segs \in Seq(Seq(Item) \ {<<>>}) /\ segs # <<>> /\ Nothing \in Item
  <1>1. Types /\ Ends /\ Room /\ Held /\ InView /\ MaxPush \in Nat
    BY SizeAssumption DEF DequeInv
  <1>2. /\ top \in 0 .. MaxPush /\ bottom \in -1 .. MaxPush /\ b \in 0 .. MaxPush /\ t \in Nat
        /\ sent \in 0 .. MaxPush /\ popped \in Item /\ segs \in Seq(Seq(Item) \ {<<>>}) /\ segs # <<>>
    BY <1>1 DEF Types
  <1> QED
    BY <1>1, <1>2, Basics DEF Item

\* The numbers.
LEMMA Nums ==
  ASSUME DequeInv
  PROVE  /\ top \in Int /\ bottom \in Int /\ b \in Int /\ t \in Int /\ sent \in Int /\ bottomBar \in Int
         /\ buffer \in Int /\ size(buffer) \in Int /\ size(buffer) >= 1
  BY Facts

\* The buffers stay as they are.
LEMMA SameSegs ==
  ASSUME segs' = segs
  PROVE  buffer' = buffer /\ size(buffer)' = size(buffer) /\ \A i : get(buffer, i)' = get(buffer, i)
  BY DEF buffer, size, get

\* What a step of the owner has to respect: a stealer that has the first object in view
\* keeps it, or top moves.
LEMMA OwnerStep ==
  ASSUME DequeInv, UNCHANGED <<tls, pc, st, sa, stolen, got>>,
         segs' \in Seq(Seq(Item) \ {<<>>}), segs' # <<>>, buffer' \in Nat, buffer' >= buffer,
         top' \in 0 .. MaxPush, bottom' \in -1 .. MaxPush, sent' \in 0 .. MaxPush,
         opc' \in OwnerPoints, b' \in 0 .. MaxPush, t' \in Nat, popped' \in Item,
         Ends', Room',
         \/ top' = top /\ (bottomBar' >= bottomBar \/ top < bottomBar' \/ top = bottomBar)
         \/ top' = top + 1,
         \A i \in Int : top <= i /\ i < bottomBar' => get(buffer, i)' \in Object,
         opc' = "publish" => get(buffer, b)' = sent'
  PROVE  DequeInv'
  <1>1. /\ Types /\ InView /\ top \in Int /\ bottomBar \in Int /\ buffer \in Nat
        /\ st \in [Stealer -> Nat] /\ sa \in [Stealer -> 0 .. buffer] /\ id_last_used \in [Stealer -> 0 .. buffer]
    <2>1. Types /\ InView /\ top \in Int /\ bottomBar \in Int /\ buffer \in Nat
      BY Facts
    <2> QED
      BY <2>1 DEF Types
  <1>2. bottomBar' \in Int /\ top' \in Int /\ top' >= top
    <2>1. top' \in Int /\ bottom' \in Int /\ b' \in Int
      BY SizeAssumption
    <2>2. bottomBar' \in Int
      BY <2>1 DEF bottomBar
    <2> QED
      BY <1>1, <2>1, <2>2
  <1>3. Types'
    <2>1. sa' \in [Stealer -> 0 .. buffer'] /\ id_last_used' \in [Stealer -> 0 .. buffer']
      <3>1. \A k \in 0 .. buffer : k \in 0 .. buffer'
        BY <1>1
      <3>2. UNCHANGED <<sa, id_last_used>>
        BY DEF tls
      <3> QED
        BY <1>1, <3>1, <3>2
    <2> QED
      BY <1>1, <2>1 DEF Types, tls
  <1>4. Held'
    <2>1. \A i \in top' .. bottomBar' - 1 : i \in Int /\ top <= i /\ i < bottomBar'
      <3>1. \A w, x, y \in Int : w >= x => \A i \in w .. y - 1 : i \in Int /\ x <= i /\ i < y
        OBVIOUS
      <3> QED
        BY <1>1, <1>2, <3>1
    <2> QED
      BY <2>1 DEF Held
  <1>5. InView'
    <2> SUFFICES ASSUME NEW s \in Stealer
                 PROVE  /\ st[s] <= top'
                        /\ pc[s] \in {"buffer", "cas"} => st[s] < MaxPush /\ (top' = st[s] => top' < bottomBar')
      BY DEF InView
    <2>1. st[s] \in Nat /\ st[s] <= top
      BY <1>1 DEF InView
    <2>2. pc[s] \in {"buffer", "cas"} => st[s] < MaxPush /\ (top = st[s] => top < bottomBar)
      BY <1>1 DEF InView
    <2> QED
      BY <1>1, <1>2, <2>1, <2>2
  <1> QED
    BY <1>3, <1>4, <1>5 DEF DequeInv

\* push_bottom reads both ends.
LEMMA PushStartStep ==
  ASSUME DequeInv, PushStart PROVE DequeInv'
  <1>1. /\ opc = "idle" /\ sent < MaxPush /\ sent' = sent + 1 /\ b' = bottom /\ t' = top /\ opc' = "grow"
        /\ UNCHANGED <<top, bottom, segs, popped>> /\ UNCHANGED <<tls, pc, st, sa, stolen, got>>
    BY DEF PushStart, bufferVars, stealerVars
  <1>2. buffer' = buffer /\ size(buffer)' = size(buffer) /\ \A i : get(buffer, i)' = get(buffer, i)
    BY <1>1, SameSegs
  <1>3. bottomBar = bottom /\ bottomBar' = bottom
    BY <1>1 DEF bottomBar
  <1>4. top <= bottom /\ bottom <= sent /\ popped = Nothing
    BY <1>1, <1>3, Facts DEF Ends, Reclaiming
  <1>5. Ends'
    BY <1>1, <1>3, <1>4, Facts DEF Ends, Pushing, Taking, Reclaiming
  <1>6. Room'
    BY <1>1, <1>2, <1>3, Facts DEF Room, Pushing, Taking, Reclaiming
  <1>7. /\ sent' \in 0 .. MaxPush /\ b' \in 0 .. MaxPush /\ opc' \in OwnerPoints
    BY <1>1, <1>4, Facts DEF OwnerPoints
  <1>8. \A i \in Int : top <= i /\ i < bottomBar' => get(buffer, i)' \in Object
    BY <1>2, <1>3, Facts DEF Held
  <1> QED
    BY <1>1, <1>2, <1>3, <1>5, <1>6, <1>7, <1>8, Facts, OwnerStep

\* push_bottom makes room: after it there are two free slots, one for the object.
LEMMA GrowKeeps ==
  ASSUME DequeInv, Grow
  PROVE  /\ b = bottom /\ t <= top /\ bottom < sent /\ popped = Nothing /\ bottomBar = b /\ top <= b
         /\ b - t <= size(buffer) - 1 /\ b - top <= size(buffer) - 1 /\ bottomBar' = b
         /\ segs' \in Seq(Seq(Item) \ {<<>>}) /\ segs' # <<>> /\ buffer' \in Nat /\ buffer' >= buffer
         /\ size(buffer)' \in Nat /\ b - t <= size(buffer)' - 2
         /\ \A i \in t .. b - 1 : get(buffer, i)' = get(buffer, i)
  <1>1. /\ opc = "grow" /\ UNCHANGED <<top, bottom, b, t, sent, popped>> /\ UNCHANGED <<tls, pc, st, sa, stolen, got>>
        /\ opc' \in {"idle?", "put"}
    BY DEF Grow, ToReclaim, stealerVars
  <1>2. /\ b = bottom /\ t <= top /\ bottom < sent /\ popped = Nothing /\ bottomBar = b /\ top <= b
        /\ b - t <= size(buffer) - 1 /\ b - top <= size(buffer) - 1
    <2>1. bottomBar = bottom
      BY <1>1 DEF bottomBar
    <2>2. Pushing
      BY <1>1 DEF Pushing
    <2> QED
      BY <1>1, <2>1, <2>2, Facts DEF Ends, Room, Reclaiming
  <1>3. bottomBar' = b
    BY <1>1, <1>2 DEF bottomBar
  <1>4. /\ segs' \in Seq(Seq(Item) \ {<<>>}) /\ segs' # <<>> /\ buffer' \in Nat /\ buffer' >= buffer
        /\ size(buffer)' \in Nat /\ b - t <= size(buffer)' - 2
        /\ \A i \in t .. b - 1 : get(buffer, i)' = get(buffer, i)
    <2>1. CASE b - t >= size(buffer) - 1
      <3> DEFINE n == 2 * size(buffer)
      <3>1. Resize(n)
        BY <1>1, <2>1 DEF Grow
      <3>2. n \in Nat \ {0} /\ b - t <= n /\ b - t <= n - 2
        BY <1>2, Facts
      <3> HIDE DEF n
      <3>3. /\ segs' \in Seq(Seq(Item) \ {<<>>}) /\ segs' # <<>> /\ buffer' = buffer + 1
            /\ size(buffer)' = n /\ \A i \in t .. b - 1 : get(buffer, i)' = get(buffer, i)
        BY <3>1, <3>2, Facts, ResizeKeeps
      <3>4. buffer' \in Nat /\ buffer' >= buffer
        BY <3>3, Facts
      <3> QED
        BY <3>2, <3>3, <3>4
    <2>2. CASE ~(b - t >= size(buffer) - 1)
      <3>1. segs' = segs
        BY <2>2 DEF Grow
      <3>2. buffer' = buffer /\ size(buffer)' = size(buffer) /\ \A i : get(buffer, i)' = get(buffer, i)
        BY <3>1, SameSegs
      <3>3. b - t <= size(buffer) - 2 /\ buffer >= buffer
        BY <2>2, Facts
      <3> QED
        BY <3>1, <3>2, <3>3, Facts
    <2> QED
      BY <2>1, <2>2
  <1> QED
    BY <1>2, <1>3, <1>4

\* The first step of push_bottom after its loads.
LEMMA GrowStep ==
  ASSUME DequeInv, Grow PROVE DequeInv'
  <1>1. /\ opc = "grow" /\ UNCHANGED <<top, bottom, b, t, sent, popped>> /\ UNCHANGED <<tls, pc, st, sa, stolen, got>>
        /\ opc' \in {"idle?", "put"}
    BY DEF Grow, ToReclaim, stealerVars
  <1>2. /\ b = bottom /\ t <= top /\ bottom < sent /\ popped = Nothing /\ bottomBar = b /\ top <= b
        /\ b - t <= size(buffer) - 1 /\ b - top <= size(buffer) - 1
    BY GrowKeeps
  <1>3. bottomBar' = b
    BY GrowKeeps
  <1>4. /\ segs' \in Seq(Seq(Item) \ {<<>>}) /\ segs' # <<>> /\ buffer' \in Nat /\ buffer' >= buffer
        /\ size(buffer)' \in Nat /\ b - t <= size(buffer)' - 2
        /\ \A i \in t .. b - 1 : get(buffer, i)' = get(buffer, i)
    BY GrowKeeps
  <1>5. Ends'
    BY <1>1, <1>2, <1>3, Facts DEF Ends, Pushing, Taking, Reclaiming
  <1>6. Room'
    <2>1. b - top <= size(buffer)' - 1
      BY <1>2, <1>4, Nums
    <2>2. ~Taking'
      BY <1>1, <1>2 DEF Taking
    <2>3. opc' # "grow"
      BY <1>1
    <2> QED
      BY <1>1, <1>3, <1>4, <2>1, <2>2, <2>3 DEF Room
  <1>7. \A i \in Int : top <= i /\ i < bottomBar' => get(buffer, i)' \in Object
    <2>1. \A i \in Int : top <= i /\ i < b => i \in t .. b - 1 /\ i \in top .. bottomBar - 1
      BY <1>2, Facts
    <2> QED
      BY <1>3, <1>4, <2>1, Facts DEF Held
  <1>8. opc' \in OwnerPoints /\ opc' # "publish" /\ bottomBar' >= bottomBar
    BY <1>1, <1>2, <1>3, Facts DEF OwnerPoints, Reclaiming
  <1> QED
    BY <1>1, <1>4, <1>5, <1>6, <1>7, <1>8, Facts, OwnerStep

\* reclaim_buffers reads and deletes; the deque is not touched.
LEMMA ReclaimSteps ==
  ASSUME DequeInv, ReadIdle \/ ReadLastUsed \/ Free PROVE DequeInv'
  <1>1. /\ opc \in Reclaiming /\ UNCHANGED <<segs, top, bottom, sent>> /\ UNCHANGED <<tls, pc, st, sa, stolen, got>>
        /\ \/ opc' \in Reclaiming /\ UNCHANGED <<b, t, popped>>
           \/ opc' = "put" /\ popped = Nothing /\ UNCHANGED <<b, t, popped>>
           \/ opc' = "idle" /\ popped # Nothing /\ b' = 0 /\ t' = 0 /\ popped' = Nothing
    BY DEF ReadIdle, ReadLastUsed, Free, OwnerReturns, stealerVars, bufferVars, Reclaiming
  <1>2. buffer' = buffer /\ size(buffer)' = size(buffer) /\ \A i : get(buffer, i)' = get(buffer, i)
    BY <1>1, SameSegs
  <1>3. bottomBar = bottom /\ bottomBar' = bottom
    BY <1>1 DEF bottomBar, Reclaiming
  <1>4. /\ opc # "restore" /\ opc # "grow" /\ opc' # "restore" /\ opc' # "grow"
        /\ (popped = Nothing => Pushing) /\ (popped # Nothing => Taking)
        /\ (Pushing' => popped = Nothing) /\ (Taking' => popped # Nothing)
        /\ (Pushing' \/ Taking' => UNCHANGED <<b, t, popped>>)
    BY <1>1 DEF Pushing, Taking, Reclaiming
  <1>5. Ends'
    <2>1. /\ top <= bottom /\ (popped = Nothing => b = bottom /\ t <= top /\ bottom < sent)
          /\ (popped # Nothing => bottom = b - 1 /\ b <= sent /\ t <= top)
      BY <1>3, <1>4, Facts DEF Ends
    <2>2. opc' = "idle" => bottom <= sent
      BY <1>1, <2>1, Facts DEF Reclaiming
    <2>3. opc' \notin {"popTop", "popCas", "restore", "shrink"}
      BY <1>1 DEF Reclaiming
    <2>4. opc' \notin {"shrink", "restore"} \cup Reclaiming => popped' = Nothing
      BY <1>1
    <2> QED
      BY <1>1, <1>3, <1>4, <2>1, <2>2, <2>3, <2>4 DEF Ends
  <1>6. Room'
    <2>1. /\ bottom - top <= size(buffer) - 1 /\ (popped = Nothing => b - t <= size(buffer) - 2)
          /\ (popped # Nothing => b - t <= size(buffer) - 1)
      BY <1>3, <1>4, Facts DEF Room
    <2> QED
      BY <1>1, <1>2, <1>3, <1>4, <2>1 DEF Room
  <1>7. \A i \in Int : top <= i /\ i < bottomBar' => get(buffer, i)' \in Object
    BY <1>2, <1>3, Facts DEF Held
  <1>8. /\ opc' \in OwnerPoints /\ opc' # "publish" /\ bottomBar' >= bottomBar /\ buffer' >= buffer
        /\ b' \in 0 .. MaxPush /\ t' \in Nat /\ popped' \in Item
    BY <1>1, <1>2, <1>3, Facts DEF OwnerPoints, Reclaiming
  <1> QED
    BY <1>1, <1>2, <1>5, <1>6, <1>7, <1>8, Facts, OwnerStep

\* push_bottom puts the object into its slot.
LEMMA PutStep ==
  ASSUME DequeInv, Put PROVE DequeInv'
  <1>1. /\ opc = "put" /\ segs' = [segs EXCEPT ![buffer + 1][(b % size(buffer)) + 1] = sent] /\ opc' = "publish"
        /\ UNCHANGED <<top, bottom, b, t, sent, popped>> /\ UNCHANGED <<tls, pc, st, sa, stolen, got>>
    BY DEF Put, stealerVars
  <1>2. /\ b = bottom /\ t <= top /\ bottom < sent /\ popped = Nothing /\ bottomBar = b /\ top <= b
        /\ b - t <= size(buffer) - 2 /\ b - top <= size(buffer) - 1
    <2>1. bottomBar = bottom /\ Pushing
      BY <1>1 DEF bottomBar, Pushing
    <2> QED
      BY <1>1, <2>1, Facts DEF Ends, Room, Reclaiming
  <1>3. sent \in Object
    BY <1>2, Facts DEF Object
  <1>4. /\ segs' \in Seq(Seq(Item) \ {<<>>}) /\ segs' # <<>> /\ buffer' = buffer
        /\ size(buffer)' = size(buffer) /\ get(buffer, b)' = sent
        /\ \A i \in Int : i < b /\ b - i < size(buffer) => get(buffer, i)' = get(buffer, i)
    BY <1>1, <1>3, Facts, PutKeeps
  <1>5. bottomBar' = b
    BY <1>1, <1>2 DEF bottomBar
  <1>6. Ends'
    BY <1>1, <1>2, <1>5, Facts DEF Ends, Pushing, Taking, Reclaiming
  <1>7. Room'
    BY <1>1, <1>2, <1>4, <1>5 DEF Room, Pushing, Taking, Reclaiming
  <1>8. \A i \in Int : top <= i /\ i < bottomBar' => get(buffer, i)' \in Object
    <2>1. \A i \in Int : top <= i /\ i < b => i \in top .. bottomBar - 1 /\ b - i < size(buffer)
      BY <1>2, Nums
    <2> QED
      BY <1>4, <1>5, <2>1, Facts DEF Held
  <1>9. opc' \in OwnerPoints /\ bottomBar' >= bottomBar /\ buffer' >= buffer
    <2>1. opc' \in OwnerPoints
      BY <1>1 DEF OwnerPoints
    <2>2. b >= b /\ buffer >= buffer
      BY Nums
    <2> QED
      BY <1>2, <1>4, <1>5, <2>1, <2>2
  <1> QED
    BY <1>1, <1>4, <1>6, <1>7, <1>8, <1>9, Facts, OwnerStep

\* push_bottom lets the stealers see the object.
LEMMA PublishStep ==
  ASSUME DequeInv, Publish PROVE DequeInv'
  <1>1. /\ opc = "publish" /\ bottom' = b + 1 /\ opc' = "idle" /\ b' = 0 /\ t' = 0 /\ popped' = Nothing
        /\ UNCHANGED <<segs, top, sent>> /\ UNCHANGED <<tls, pc, st, sa, stolen, got>>
    BY DEF Publish, OwnerReturns, stealerVars, bufferVars
  <1>2. buffer' = buffer /\ size(buffer)' = size(buffer) /\ \A i : get(buffer, i)' = get(buffer, i)
    BY <1>1, SameSegs
  <1>3. /\ b = bottom /\ t <= top /\ bottom < sent /\ bottomBar = b /\ top <= b
        /\ b - t <= size(buffer) - 2 /\ bottomBar' = b + 1
    <2>1. bottomBar = bottom /\ Pushing /\ bottomBar' = bottom'
      BY <1>1 DEF bottomBar, Pushing
    <2> QED
      BY <1>1, <2>1, Facts DEF Ends, Room
  <1>4. Ends'
    BY <1>1, <1>3, Facts DEF Ends, Pushing, Taking, Reclaiming
  <1>5. Room'
    <2>1. b + 1 - top <= size(buffer) - 1
      BY <1>3, Nums
    <2>2. ~Pushing' /\ ~Taking'
      BY <1>1 DEF Pushing, Taking, Reclaiming
    <2>3. bottomBar' - top' <= size(buffer)' - 1
      BY <1>1, <1>2, <1>3, <2>1, Nums
    <2> QED
      BY <2>2, <2>3 DEF Room
  <1>6. \A i \in Int : top <= i /\ i < bottomBar' => get(buffer, i)' \in Object
    <2>1. get(buffer, b) \in Object
      <3>1. get(buffer, b) = sent
        BY <1>1, Facts DEF Held
      <3> QED
        BY <1>3, <3>1, Facts DEF Object
    <2>2. \A i \in Int : top <= i /\ i < b + 1 => i \in top .. bottomBar - 1 \/ i = b
      BY <1>3, Facts
    <2> QED
      BY <1>2, <1>3, <2>1, <2>2, Facts DEF Held
  <1>7. /\ opc' \in OwnerPoints /\ bottomBar' >= bottomBar /\ buffer' >= buffer /\ opc' # "publish"
        /\ bottom' \in -1 .. MaxPush /\ b' \in 0 .. MaxPush /\ t' \in Nat
    BY <1>1, <1>2, <1>3, Facts DEF OwnerPoints
  <1> QED
    BY <1>1, <1>2, <1>4, <1>5, <1>6, <1>7, Facts, OwnerStep

\* pop_bottom lowers bottom.
LEMMA PopStartStep ==
  ASSUME DequeInv, PopStart PROVE DequeInv'
  <1>1. /\ opc = "idle" /\ b' = bottom /\ bottom' = bottom - 1 /\ opc' = "popTop"
        /\ UNCHANGED <<segs, top, t, sent, popped>> /\ UNCHANGED <<tls, pc, st, sa, stolen, got>>
    BY DEF PopStart, stealerVars, bufferVars
  <1>2. buffer' = buffer /\ size(buffer)' = size(buffer) /\ \A i : get(buffer, i)' = get(buffer, i)
    BY <1>1, SameSegs
  <1>3. bottomBar = bottom /\ bottomBar' = bottom
    BY <1>1 DEF bottomBar
  <1>4. top <= bottom /\ bottom <= sent /\ popped = Nothing
    BY <1>1, <1>3, Facts DEF Ends, Reclaiming
  <1>5. ~Pushing' /\ ~Taking'
    BY <1>1 DEF Pushing, Taking, Reclaiming
  <1>6. Ends'
    <2>1. bottom' = b' - 1
      BY <1>1
    <2> QED
      BY <1>1, <1>3, <1>4, <1>5, <2>1 DEF Ends
  <1>7. Room'
    <2>1. bottomBar - top <= size(buffer) - 1
      BY Facts DEF Room
    <2> QED
      BY <1>1, <1>2, <1>3, <1>5, <2>1 DEF Room
  <1>8. \A i \in Int : top <= i /\ i < bottomBar' => get(buffer, i)' \in Object
    BY <1>2, <1>3, Facts DEF Held
  <1>9. opc' \in OwnerPoints /\ opc' # "publish"
    BY <1>1 DEF OwnerPoints
  <1>10. bottomBar' >= bottomBar /\ buffer' >= buffer /\ bottom' \in -1 .. MaxPush /\ b' \in 0 .. MaxPush
    <2>1. \A k \in -1 .. MaxPush : 0 <= k => k - 1 \in -1 .. MaxPush /\ k \in 0 .. MaxPush
      BY SizeAssumption
    <2>2. 0 <= bottom
      BY <1>4, Facts
    <2>3. bottom >= bottom /\ buffer >= buffer
      BY Nums
    <2> QED
      BY <1>1, <1>2, <1>3, <2>1, <2>2, <2>3, Facts
  <1> QED
    BY <1>1, <1>2, <1>6, <1>7, <1>8, <1>9, <1>10, Facts, OwnerStep

\* In pop_bottom, before it knows what it gets.
LEMMA InPop ==
  ASSUME DequeInv, opc \in {"popTop", "popCas"}
  PROVE  /\ bottomBar = b /\ bottom = b - 1 /\ b <= sent /\ top <= b /\ popped = Nothing
         /\ b - top <= size(buffer) - 1
         /\ \A i \in Int : top <= i /\ i < b => get(buffer, i) \in Object /\ get(buffer, i) # Nothing
  <1>1. bottomBar = b
    BY DEF bottomBar
  <1>2. Ends /\ Room /\ Held
    BY Facts
  <1>3. bottom = b - 1 /\ b <= sent /\ top <= b /\ popped = Nothing
    BY <1>1, <1>2 DEF Ends, Reclaiming
  <1>4. b - top <= size(buffer) - 1
    BY <1>1, <1>2 DEF Room
  <1>5. \A i \in Int : top <= i /\ i < b => get(buffer, i) \in Object
    <2>1. \A i \in Int : top <= i /\ i < b => i \in top .. b - 1
      BY Nums
    <2> QED
      BY <1>1, <1>2, <2>1 DEF Held
  <1> QED
    BY <1>1, <1>3, <1>4, <1>5, NothingAssumption

\* pop_bottom reads top: the deque is empty, or has one object, or has more.
LEMMA PopTopStep ==
  ASSUME DequeInv, PopTop PROVE DequeInv'
  <1>1. /\ opc = "popTop" /\ t' = top
        /\ UNCHANGED <<segs, top, bottom, b, sent>> /\ UNCHANGED <<tls, pc, st, sa, stolen, got>>
    BY DEF PopTop, stealerVars, bufferVars
  <1>2. buffer' = buffer /\ size(buffer)' = size(buffer) /\ \A i : get(buffer, i)' = get(buffer, i)
    BY <1>1, SameSegs
  <1>3. /\ bottomBar = b /\ bottom = b - 1 /\ b <= sent /\ top <= b /\ popped = Nothing
        /\ b - top <= size(buffer) - 1
        /\ \A i \in Int : top <= i /\ i < b => get(buffer, i) \in Object /\ get(buffer, i) # Nothing
    BY <1>1, InPop
  <1>4. t' \in Nat /\ buffer' >= buffer /\ top <= top
    BY <1>1, <1>2, Facts
  <1>5. CASE b - top <= 0
    <2>1. opc' = "restore" /\ popped' = Nothing /\ top = b
      BY <1>1, <1>3, <1>5, Nums DEF PopTop
    <2>2. bottomBar' = b - 1 /\ ~Pushing' /\ ~Taking'
      BY <1>1, <1>3, <2>1 DEF bottomBar, Pushing, Taking, Reclaiming
    <2>3. Ends'
      BY <1>1, <1>3, <2>1, <2>2 DEF Ends
    <2>4. Room'
      <3>1. b - 1 - top <= size(buffer) - 1
        BY <2>1, Nums
      <3> QED
        BY <1>1, <1>2, <2>2, <3>1 DEF Room
    <2>5. \A i \in Int : ~(top <= i /\ i < b - 1)
      BY <2>1, Nums
    <2>6. opc' \in OwnerPoints /\ opc' # "publish" /\ popped' \in Item
      BY <2>1, Facts DEF OwnerPoints
    <2> QED
      BY <1>1, <1>2, <1>3, <1>4, <2>1, <2>2, <2>3, <2>4, <2>5, <2>6, Facts, OwnerStep
  <1>6. CASE b - top = 1
    <2>1. opc' = "popCas" /\ popped' = Nothing /\ b = top + 1
      BY <1>1, <1>3, <1>6, Nums DEF PopTop
    <2>2. bottomBar' = b /\ ~Pushing' /\ ~Taking'
      BY <1>1, <2>1 DEF bottomBar, Pushing, Taking, Reclaiming
    <2>3. Ends'
      BY <1>1, <1>3, <1>4, <2>1, <2>2 DEF Ends
    <2>4. Room'
      BY <1>1, <1>2, <1>3, <2>2 DEF Room
    <2>5. opc' \in OwnerPoints /\ opc' # "publish" /\ popped' \in Item /\ b >= b
      BY <2>1, Facts DEF OwnerPoints
    <2> QED
      BY <1>1, <1>2, <1>3, <1>4, <2>2, <2>3, <2>4, <2>5, Facts, OwnerStep
  <1>7. CASE ~(b - top <= 0) /\ b - top # 1
    <2>1. opc' = "shrink" /\ popped' = get(buffer, b - 1) /\ top < b - 1 /\ b - 1 \in Int /\ top <= b - 1 /\ b - 1 < b
      BY <1>1, <1>7, Nums DEF PopTop
    <2>2. popped' # Nothing /\ popped' \in Item
      BY <1>3, <2>1 DEF Item
    <2>3. bottomBar' = b - 1 /\ ~Pushing' /\ Taking'
      BY <1>1, <1>3, <2>1 DEF bottomBar, Pushing, Taking, Reclaiming
    <2>4. Ends'
      BY <1>1, <1>3, <1>4, <2>1, <2>2, <2>3 DEF Ends
    <2>5. Room'
      <3>1. b - 1 - top <= size(buffer) - 1
        BY <1>3, Nums
      <3> QED
        BY <1>1, <1>2, <1>3, <2>3, <3>1 DEF Room
    <2>6. \A i \in Int : i < b - 1 => i < b
      BY Nums
    <2>7. opc' \in OwnerPoints /\ opc' # "publish"
      BY <2>1 DEF OwnerPoints
    <2> QED
      BY <1>1, <1>2, <1>3, <1>4, <2>1, <2>2, <2>3, <2>4, <2>5, <2>6, <2>7, Facts, OwnerStep
  <1> QED
    BY <1>5, <1>6, <1>7

\* The race for the last object: the owner wins it or a stealer has won it.
LEMMA PopCasStep ==
  ASSUME DequeInv, PopCas PROVE DequeInv'
  <1>1. /\ opc = "popCas" /\ opc' = "restore"
        /\ UNCHANGED <<segs, bottom, b, t, sent>> /\ UNCHANGED <<tls, pc, st, sa, stolen, got>>
        /\ \/ top = t /\ top' = t + 1 /\ popped' = get(buffer, t)
           \/ top # t /\ top' = top /\ popped' = popped
    BY DEF PopCas, stealerVars, bufferVars
  <1>2. buffer' = buffer /\ size(buffer)' = size(buffer) /\ \A i : get(buffer, i)' = get(buffer, i)
    BY <1>1, SameSegs
  <1>3. /\ bottomBar = b /\ bottom = b - 1 /\ b <= sent /\ top <= b /\ popped = Nothing /\ b = t + 1 /\ t <= top
        /\ \A i \in Int : top <= i /\ i < b => get(buffer, i) \in Object /\ get(buffer, i) # Nothing
    BY <1>1, InPop, Facts DEF Ends
  <1>4. top' = b /\ (top' = top + 1 \/ (top' = top /\ top = bottomBar))
    BY <1>1, <1>3, Nums
  <1>5. popped' \in Item
    BY <1>1, Facts
  <1>6. bottomBar' = b - 1 /\ ~Pushing' /\ ~Taking'
    BY <1>1, <1>3 DEF bottomBar, Pushing, Taking, Reclaiming
  <1>7. Ends'
    BY <1>1, <1>3, <1>4, <1>6 DEF Ends
  <1>8. Room'
    <2>1. b - 1 - b <= size(buffer) - 1
      BY Nums
    <2> QED
      BY <1>1, <1>2, <1>4, <1>6, <2>1 DEF Room
  <1>9. \A i \in Int : ~(top <= i /\ i < b - 1)
    BY <1>3, Nums
  <1>10. opc' \in OwnerPoints /\ opc' # "publish" /\ buffer' >= buffer
    BY <1>1, <1>2, Nums DEF OwnerPoints
  <1> QED
    BY <1>1, <1>2, <1>4, <1>5, <1>6, <1>7, <1>8, <1>9, <1>10, Facts, OwnerStep

\* The deque is empty, and bottom is put back.
LEMMA RestoreStep ==
  ASSUME DequeInv, Restore PROVE DequeInv'
  <1>1. /\ opc = "restore" /\ bottom' = b /\ opc' = "idle" /\ b' = 0 /\ t' = 0 /\ popped' = Nothing
        /\ UNCHANGED <<segs, top, sent>> /\ UNCHANGED <<tls, pc, st, sa, stolen, got>>
    BY DEF Restore, OwnerReturns, stealerVars, bufferVars
  <1>2. buffer' = buffer /\ size(buffer)' = size(buffer) /\ \A i : get(buffer, i)' = get(buffer, i)
    BY <1>1, SameSegs
  <1>3. /\ bottomBar = bottom /\ bottom = b - 1 /\ b <= sent /\ top = b /\ bottomBar' = b
    BY <1>1, Facts DEF Ends, bottomBar
  <1>4. ~Pushing' /\ ~Taking'
    BY <1>1 DEF Pushing, Taking, Reclaiming
  <1>5. Ends'
    <2>1. b <= b
      BY Nums
    <2> QED
      BY <1>1, <1>3, <1>4, <2>1 DEF Ends
  <1>6. Room'
    <2>1. b - top <= size(buffer) - 1
      BY <1>3, Nums
    <2> QED
      BY <1>1, <1>2, <1>3, <1>4, <2>1 DEF Room
  <1>7. \A i \in Int : ~(top <= i /\ i < b)
    BY <1>3, Nums
  <1>8. opc' \in OwnerPoints /\ opc' # "publish"
    BY <1>1 DEF OwnerPoints
  <1>9. /\ bottomBar' >= bottomBar /\ buffer' >= buffer
        /\ bottom' \in -1 .. MaxPush /\ b' \in 0 .. MaxPush /\ t' \in Nat
    <2>1. b >= b - 1 /\ buffer >= buffer /\ b \in -1 .. MaxPush /\ 0 \in 0 .. MaxPush /\ 0 \in Nat
      BY Facts
    <2> QED
      BY <1>1, <1>2, <1>3, <2>1
  <1> QED
    BY <1>1, <1>2, <1>3, <1>5, <1>6, <1>7, <1>8, <1>9, Facts, OwnerStep

\* pop_bottom has its object; a buffer that is mostly free is replaced by half of it.
LEMMA ShrinkKeeps ==
  ASSUME DequeInv, Shrink
  PROVE  /\ bottomBar = bottom /\ bottomBar' = bottom /\ bottom = b - 1 /\ b <= sent /\ t <= top /\ top <= bottom
         /\ popped # Nothing /\ b - t <= size(buffer) - 1
         /\ segs' \in Seq(Seq(Item) \ {<<>>}) /\ segs' # <<>> /\ buffer' \in Nat /\ buffer' >= buffer
         /\ size(buffer)' \in Nat /\ b - t <= size(buffer)' - 1
         /\ \A i \in t .. b - 1 : get(buffer, i)' = get(buffer, i)
  <1>1. /\ opc = "shrink" /\ UNCHANGED <<top, bottom, sent>> /\ UNCHANGED <<tls, pc, st, sa, stolen, got>>
        /\ \/ opc' = "idle?" /\ UNCHANGED <<b, t, popped>>
           \/ opc' = "idle" /\ b' = 0 /\ t' = 0 /\ popped' = Nothing
    BY DEF Shrink, ToReclaim, OwnerReturns, stealerVars
  <1>2. /\ bottomBar = bottom /\ bottomBar' = bottom /\ bottom = b - 1 /\ b <= sent /\ t <= top /\ top <= bottom
        /\ popped # Nothing /\ b - t <= size(buffer) - 1
    <2>1. bottomBar = bottom /\ bottomBar' = bottom /\ Taking
      BY <1>1 DEF bottomBar, Taking
    <2> QED
      BY <1>1, <2>1, Facts DEF Ends, Room
  <1>3. /\ segs' \in Seq(Seq(Item) \ {<<>>}) /\ segs' # <<>> /\ buffer' \in Nat /\ buffer' >= buffer
        /\ size(buffer)' \in Nat /\ b - t <= size(buffer)' - 1
        /\ \A i \in t .. b - 1 : get(buffer, i)' = get(buffer, i)
    <2> DEFINE m == 2 ^ log_initial_size
    <2>1. CASE b - t <= size(buffer) \div 3 /\ b - t > m
      <3> DEFINE n == size(buffer) \div 2
      <3>1. Resize(n)
        BY <1>1, <2>1 DEF Shrink
      <3>2. n \in Nat \ {0} /\ b - t <= n /\ b - t <= n - 1
        <4>1. m \in Nat \ {0}
          BY SizeAssumption
        <4> HIDE DEF m
        <4>2. b - t >= 2
          BY <2>1, <4>1, Nums
        <4>3. \A s \in Nat \ {0}, k \in Int :
                k <= s \div 3 /\ k >= 2 => s \div 2 \in Nat \ {0} /\ k <= s \div 2 /\ k <= (s \div 2) - 1
          OBVIOUS
        <4>4. b - t \in Int /\ size(buffer) \in Nat \ {0}
          BY Facts
        <4> QED
          BY <2>1, <4>2, <4>3, <4>4
      <3> HIDE DEF n
      <3>3. /\ segs' \in Seq(Seq(Item) \ {<<>>}) /\ segs' # <<>> /\ buffer' = buffer + 1
            /\ size(buffer)' = n /\ \A i \in t .. b - 1 : get(buffer, i)' = get(buffer, i)
        BY <3>1, <3>2, Facts, ResizeKeeps
      <3>4. buffer' \in Nat /\ buffer' >= buffer
        BY <3>3, Facts
      <3> QED
        BY <3>2, <3>3, <3>4
    <2>2. CASE ~(b - t <= size(buffer) \div 3 /\ b - t > m)
      <3>1. segs' = segs
        BY <2>2 DEF Shrink
      <3>2. buffer' = buffer /\ size(buffer)' = size(buffer) /\ \A i : get(buffer, i)' = get(buffer, i)
        BY <3>1, SameSegs
      <3>3. buffer >= buffer
        BY Nums
      <3> QED
        BY <1>2, <3>1, <3>2, <3>3, Facts
    <2> QED
      BY <2>1, <2>2
  <1> QED
    BY <1>2, <1>3

\* The last step of pop_bottom when it has its object without a CAS.
LEMMA ShrinkStep ==
  ASSUME DequeInv, Shrink PROVE DequeInv'
  <1>1. /\ opc = "shrink" /\ UNCHANGED <<top, bottom, sent>> /\ UNCHANGED <<tls, pc, st, sa, stolen, got>>
        /\ \/ opc' = "idle?" /\ UNCHANGED <<b, t, popped>>
           \/ opc' = "idle" /\ b' = 0 /\ t' = 0 /\ popped' = Nothing
    BY DEF Shrink, ToReclaim, OwnerReturns, stealerVars
  <1>2. /\ bottomBar = bottom /\ bottomBar' = bottom /\ bottom = b - 1 /\ b <= sent /\ t <= top /\ top <= bottom
        /\ popped # Nothing /\ b - t <= size(buffer) - 1
    BY ShrinkKeeps
  <1>3. /\ segs' \in Seq(Seq(Item) \ {<<>>}) /\ segs' # <<>> /\ buffer' \in Nat /\ buffer' >= buffer
        /\ size(buffer)' \in Nat /\ b - t <= size(buffer)' - 1
        /\ \A i \in t .. b - 1 : get(buffer, i)' = get(buffer, i)
    BY ShrinkKeeps
  <1>4. ~Pushing' /\ (Taking' => UNCHANGED <<b, t, popped>>)
    BY <1>1, <1>2 DEF Pushing, Taking, Reclaiming
  <1>5. Ends'
    <2>1. bottom <= sent
      BY <1>2, Nums
    <2> QED
      BY <1>1, <1>2, <1>4, <2>1 DEF Ends, Reclaiming
  <1>6. Room'
    <2>1. bottom - top <= size(buffer)' - 1
      BY <1>2, <1>3, Nums
    <2> QED
      BY <1>1, <1>2, <1>3, <1>4, <2>1 DEF Room
  <1>7. \A i \in Int : top <= i /\ i < bottomBar' => get(buffer, i)' \in Object
    <2>1. \A i \in Int : top <= i /\ i < bottom => i \in t .. b - 1 /\ i \in top .. bottomBar - 1
      BY <1>2, Nums
    <2> QED
      BY <1>2, <1>3, <2>1, Facts DEF Held
  <1>8. opc' \in OwnerPoints /\ opc' # "publish" /\ bottomBar' >= bottomBar
    BY <1>1, <1>2, Nums DEF OwnerPoints, Reclaiming
  <1>9. b' \in 0 .. MaxPush /\ t' \in Nat /\ popped' \in Item
    BY <1>1, Facts
  <1> QED
    BY <1>1, <1>3, <1>5, <1>6, <1>7, <1>8, <1>9, Facts, OwnerStep

-----------------------------------------------------------------------------
(* The stealers and the ends of the deque.                                 *)

\* What a step of a stealer that leaves top alone has to respect.
LEMMA StealerStep ==
  ASSUME DequeInv, NEW s \in Stealer, UNCHANGED <<top, bottom, segs, ownerVars>>,
         NEW l \in StealerPoints, pc' = [pc EXCEPT ![s] = l],
         st' \in [Stealer -> Nat], \A u \in Stealer \ {s} : st'[u] = st[u],
         sa' \in [Stealer -> 0 .. buffer], id_last_used' \in [Stealer -> 0 .. buffer],
         was_idle' \in [Stealer -> BOOLEAN], stolen' \in [Stealer -> Item], got' \in [Stealer -> Item],
         st'[s] <= top, l \in {"buffer", "cas"} => st'[s] < MaxPush /\ (top = st'[s] => top < bottomBar)
  PROVE  DequeInv'
  <1>1. Types /\ Ends /\ Room /\ Held /\ InView /\ pc \in [Stealer -> StealerPoints]
    <2>1. Types /\ Ends /\ Room /\ Held /\ InView
      BY Facts
    <2> QED
      BY <2>1 DEF Types
  <1>2. /\ UNCHANGED <<top, bottom, segs, opc, b, t, sent, popped>>
        /\ buffer' = buffer /\ size(buffer)' = size(buffer) /\ \A i : get(buffer, i)' = get(buffer, i)
    BY SameSegs DEF ownerVars
  <1>3. bottomBar' = bottomBar /\ (Pushing' <=> Pushing) /\ (Taking' <=> Taking)
    BY <1>2 DEF bottomBar, Pushing, Taking
  <1>4. Types'
    BY <1>1, <1>2 DEF Types
  <1>5. Ends'
    BY <1>1, <1>2, <1>3 DEF Ends
  <1>6. Room'
    BY <1>1, <1>2, <1>3 DEF Room
  <1>7. Held'
    BY <1>1, <1>2, <1>3 DEF Held
  <1>8. InView'
    <2> SUFFICES ASSUME NEW u \in Stealer
                 PROVE  /\ st'[u] <= top'
                        /\ pc'[u] \in {"buffer", "cas"} =>
                             st'[u] < MaxPush /\ (top' = st'[u] => top' < bottomBar')
      BY DEF InView
    <2>1. CASE u = s
      BY <1>1, <1>2, <1>3, <2>1
    <2>2. CASE u # s
      <3>1. pc'[u] = pc[u] /\ st'[u] = st[u]
        BY <1>1, <2>2
      <3> QED
        BY <1>1, <1>2, <1>3, <3>1 DEF InView
    <2> QED
      BY <2>1, <2>2
  <1> QED
    BY <1>4, <1>5, <1>6, <1>7, <1>8 DEF DequeInv

\* The types of what a stealer keeps.
LEMMA StealerFacts ==
  ASSUME DequeInv, NEW s \in Stealer
  PROVE  /\ pc \in [Stealer -> StealerPoints] /\ st \in [Stealer -> Nat] /\ sa \in [Stealer -> 0 .. buffer]
         /\ was_idle \in [Stealer -> BOOLEAN] /\ id_last_used \in [Stealer -> 0 .. buffer]
         /\ stolen \in [Stealer -> Item] /\ got \in [Stealer -> Item]
         /\ st[s] <= top /\ st[s] \in Nat /\ sa[s] \in 0 .. buffer
         /\ pc[s] \in {"buffer", "cas"} => st[s] < MaxPush /\ (top = st[s] => top < bottomBar)
  <1>1. Types /\ InView
    BY Facts
  <1> QED
    BY <1>1 DEF Types, InView

\* The steps of steal but the CAS.
LEMMA StealSteps ==
  ASSUME DequeInv, NEW s \in Stealer,
         \/ StealStart(s) \/ LoadTop(s) \/ LoadBottom(s) \/ LoadBuffer(s) \/ Get(s)
         \/ StealEnd(s) \/ LoadBuffer2(s) \/ StoreId(s)
  PROVE  DequeInv'
  <1> USE DEF Goto, shared, tls, bufferVars, StealerPoints
  <1>1. CASE StealStart(s)
    <2>1. /\ pc' = [pc EXCEPT ![s] = "top"] /\ was_idle' = [was_idle EXCEPT ![s] = FALSE]
          /\ UNCHANGED <<top, bottom, segs, ownerVars, st, sa, id_last_used, stolen, got>>
      BY <1>1 DEF StealStart
    <2> QED
      BY <2>1, StealerFacts, StealerStep
  <1>2. CASE LoadTop(s)
    <2>1. /\ pc' = [pc EXCEPT ![s] = "bottom"] /\ st' = [st EXCEPT ![s] = top]
          /\ UNCHANGED <<top, bottom, segs, ownerVars, sa, id_last_used, was_idle, stolen, got>>
      BY <1>2 DEF LoadTop
    <2>2. top \in Nat /\ top <= top
      BY Facts
    <2>3. st' \in [Stealer -> Nat] /\ st'[s] = top /\ \A u \in Stealer \ {s} : st'[u] = st[u]
      BY <2>1, <2>2, StealerFacts
    <2> QED
      BY <2>1, <2>2, <2>3, StealerFacts, StealerStep
  <1>3. CASE LoadBottom(s)
    <2>1. /\ pc' = [pc EXCEPT ![s] = IF bottom - st[s] > 0 THEN "buffer" ELSE "end"]
          /\ UNCHANGED <<top, bottom, segs, ownerVars, st, sa, id_last_used, was_idle, stolen, got>>
      BY <1>3 DEF LoadBottom
    <2>2. CASE bottom - st[s] > 0
      <3>1. bottom <= bottomBar
        <4>1. CASE opc \in {"popTop", "popCas"}
          <5>1. bottomBar = b /\ bottom = b - 1
            BY <4>1, InPop
          <5> QED
            BY <5>1, Nums
        <4>2. CASE opc \notin {"popTop", "popCas"}
          <5>1. bottomBar = bottom
            BY <4>2 DEF bottomBar
          <5> QED
            BY <5>1, Nums
        <4> QED
          BY <4>1, <4>2
      <3>2. st[s] < MaxPush /\ (top = st[s] => top < bottomBar)
        BY <2>2, <3>1, StealerFacts, Facts
      <3>3. pc' = [pc EXCEPT ![s] = "buffer"]
        BY <2>1, <2>2
      <3> QED
        BY <2>1, <3>2, <3>3, StealerFacts, StealerStep
    <2>3. CASE ~(bottom - st[s] > 0)
      <3>1. pc' = [pc EXCEPT ![s] = "end"]
        BY <2>1, <2>3
      <3> QED
        BY <2>1, <3>1, StealerFacts, StealerStep
    <2> QED
      BY <2>2, <2>3
  <1>4. CASE LoadBuffer(s)
    <2>1. /\ pc[s] = "buffer" /\ pc' = [pc EXCEPT ![s] = "cas"] /\ sa' = [sa EXCEPT ![s] = buffer]
          /\ UNCHANGED <<top, bottom, segs, ownerVars, st, id_last_used, was_idle, stolen, got>>
      BY <1>4 DEF LoadBuffer
    <2>2. sa' \in [Stealer -> 0 .. buffer]
      BY <2>1, StealerFacts, Facts
    <2> QED
      BY <2>1, <2>2, StealerFacts, StealerStep
  <1>5. CASE Get(s)
    <2>1. UNCHANGED <<top, bottom, segs, ownerVars, st, sa, id_last_used, was_idle, got>>
      BY <1>5 DEF Get
    <2>2. CASE sa[s] \in freed
      <3>1. UNCHANGED <<pc, stolen>>
        BY <1>5, <2>2 DEF Get
      <3>2. pc' = [pc EXCEPT ![s] = "get"]
        BY <1>5, <3>1, StealerFacts DEF Get
      <3> QED
        BY <2>1, <3>1, <3>2, StealerFacts, StealerStep
    <2>3. CASE sa[s] \notin freed
      <3>1. pc' = [pc EXCEPT ![s] = "end"] /\ stolen' = [stolen EXCEPT ![s] = get(sa[s], st[s])]
        BY <1>5, <2>3 DEF Get
      <3>2. get(sa[s], st[s]) \in Item
        <4>1. st[s] \in Int /\ sa[s] \in 0 .. buffer
          BY StealerFacts
        <4> QED
          BY <4>1, Facts, Basics
      <3>3. stolen' \in [Stealer -> Item]
        BY <3>1, <3>2, StealerFacts
      <3> QED
        BY <2>1, <3>1, <3>3, StealerFacts, StealerStep
    <2> QED
      BY <2>2, <2>3
  <1>6. CASE StealEnd(s)
    <2>1. /\ pc' = [pc EXCEPT ![s] = "buffer2"] /\ was_idle' = [was_idle EXCEPT ![s] = TRUE]
          /\ UNCHANGED <<top, bottom, segs, ownerVars, st, sa, id_last_used, stolen, got>>
      BY <1>6 DEF StealEnd
    <2> QED
      BY <2>1, StealerFacts, StealerStep
  <1>7. CASE LoadBuffer2(s)
    <2>1. /\ pc' = [pc EXCEPT ![s] = "id"] /\ sa' = [sa EXCEPT ![s] = buffer]
          /\ UNCHANGED <<top, bottom, segs, ownerVars, st, id_last_used, was_idle, stolen, got>>
      BY <1>7 DEF LoadBuffer2
    <2>2. sa' \in [Stealer -> 0 .. buffer]
      BY <2>1, StealerFacts, Facts
    <2> QED
      BY <2>1, <2>2, StealerFacts, StealerStep
  <1>8. CASE StoreId(s)
    <2>1. pc[s] = "id" /\ UNCHANGED <<top, bottom, segs, ownerVars, was_idle>>
      BY <1>8 DEF StoreId
    <2>2. CASE sa[s] \in freed
      <3>1. UNCHANGED <<pc, id_last_used, st, sa, stolen, got>>
        BY <1>8, <2>2 DEF StoreId
      <3>2. pc' = [pc EXCEPT ![s] = "id"]
        BY <2>1, <3>1, StealerFacts
      <3> QED
        BY <2>1, <3>1, <3>2, StealerFacts, StealerStep
    <2>3. CASE sa[s] \notin freed
      <3>1. /\ pc' = [pc EXCEPT ![s] = "idle"] /\ id_last_used' = [id_last_used EXCEPT ![s] = sa[s]]
            /\ st' = [st EXCEPT ![s] = 0] /\ sa' = [sa EXCEPT ![s] = 0]
            /\ stolen' = [stolen EXCEPT ![s] = Nothing] /\ got' = [got EXCEPT ![s] = Nothing]
        BY <1>8, <2>3 DEF StoreId
      <3>2. 0 \in 0 .. buffer /\ 0 <= top /\ Nothing \in Item
        BY Facts
      <3>3. st' \in [Stealer -> Nat] /\ st'[s] = 0 /\ \A u \in Stealer \ {s} : st'[u] = st[u]
        BY <3>1, StealerFacts
      <3>4. sa' \in [Stealer -> 0 .. buffer] /\ id_last_used' \in [Stealer -> 0 .. buffer]
        BY <3>1, <3>2, StealerFacts
      <3>5. stolen' \in [Stealer -> Item] /\ got' \in [Stealer -> Item]
        BY <3>1, <3>2, StealerFacts
      <3> QED
        BY <2>1, <3>1, <3>2, <3>3, <3>4, <3>5, StealerFacts, StealerStep
    <2> QED
      BY <2>2, <2>3
  <1> QED
    BY <1>1, <1>2, <1>3, <1>4, <1>5, <1>6, <1>7, <1>8

\* The CAS of a stealer that has the first object in view takes it.
LEMMA CasStep ==
  ASSUME DequeInv, NEW s \in Stealer, Cas(s) PROVE DequeInv'
  <1>1. pc[s] = "cas" /\ UNCHANGED <<bottom, segs, ownerVars, st, sa, was_idle, id_last_used, stolen>>
    BY DEF Cas, tls, bufferVars
  <1>2. CASE top # st[s]
    <2>1. pc' = [pc EXCEPT ![s] = "end"] /\ UNCHANGED <<top, got>> /\ "end" \in StealerPoints
      BY <1>2 DEF Cas, Goto, StealerPoints
    <2> QED
      BY <1>1, <2>1, StealerFacts, StealerStep
  <1>3. CASE top = st[s]
    <2>1. top' = top + 1 /\ got' = [got EXCEPT ![s] = get(buffer, top)] /\ pc' = [pc EXCEPT ![s] = "get"]
      BY <1>3 DEF Cas, Goto
    <2>2. top < bottomBar /\ top < MaxPush
      BY <1>1, <1>3, StealerFacts
    <2>3. /\ UNCHANGED <<bottom, segs, opc, b, t, sent, popped>>
          /\ buffer' = buffer /\ size(buffer)' = size(buffer) /\ \A i : get(buffer, i)' = get(buffer, i)
      BY <1>1, SameSegs DEF ownerVars
    <2>4. bottomBar' = bottomBar /\ (Pushing' <=> Pushing) /\ (Taking' <=> Taking)
      BY <2>3 DEF bottomBar, Pushing, Taking
    <2>5. /\ Types /\ Ends /\ Room /\ Held /\ InView /\ pc \in [Stealer -> StealerPoints]
          /\ got \in [Stealer -> Item] /\ st \in [Stealer -> Nat]
      BY Facts, StealerFacts
    <2>6. top' \in 0 .. MaxPush
      BY <2>1, <2>2, Facts
    <2>7. Types'
      <3>1. get(buffer, top) \in Item
        BY Facts
      <3>2. got' \in [Stealer -> Item] /\ pc' \in [Stealer -> StealerPoints]
        BY <2>1, <2>5, <3>1 DEF StealerPoints
      <3> QED
        BY <1>1, <2>3, <2>5, <2>6, <3>2 DEF Types
    <2>8. Ends'
      <3>1. opc # "restore"
        <4>1. opc = "restore" => bottomBar = bottom /\ bottom = b - 1 /\ top = b
          BY <2>5 DEF Ends, bottomBar
        <4> QED
          BY <2>2, <4>1, Nums
      <3>2. top' <= bottomBar
        BY <2>1, <2>2, Nums
      <3>3. (Pushing => t <= top') /\ (opc = "popCas" => t <= top') /\ (Taking => t <= top')
        <4>1. t <= top => t <= top'
          BY <2>1, Nums
        <4> QED
          BY <2>5, <4>1 DEF Ends
      <3>4. /\ opc = "idle" => bottom <= sent
            /\ Pushing => b = bottom /\ bottom < sent
            /\ opc \in {"popTop", "popCas", "restore"} \/ Taking => bottom = b - 1 /\ b <= sent
            /\ opc = "popCas" => b = t + 1
            /\ opc = "shrink" => popped # Nothing
            /\ opc \notin {"shrink", "restore"} \cup Reclaiming => popped = Nothing
        BY <2>5 DEF Ends
      <3> QED
        BY <2>3, <2>4, <3>1, <3>2, <3>3, <3>4 DEF Ends
    <2>9. Room'
      <3>1. bottomBar - top' <= size(buffer) - 1
        <4>1. bottomBar - top <= size(buffer) - 1
          BY <2>5 DEF Room
        <4> QED
          BY <2>1, <4>1, Nums
      <3> QED
        BY <2>3, <2>4, <2>5, <3>1 DEF Room
    <2>10. Held'
      <3>1. \A i \in top' .. bottomBar - 1 : i \in top .. bottomBar - 1
        BY <2>1, Nums
      <3> QED
        BY <2>3, <2>4, <2>5, <3>1 DEF Held
    <2>11. InView'
      <3> SUFFICES ASSUME NEW u \in Stealer
                   PROVE  /\ st[u] <= top' /\ top' # st[u]
                          /\ pc'[u] \in {"buffer", "cas"} => pc[u] \in {"buffer", "cas"} /\ st[u] < MaxPush
        BY <1>1, <2>5 DEF InView
      <3>1. st[u] \in Nat /\ st[u] <= top
        BY <2>5 DEF InView
      <3>2. st[u] <= top' /\ top' # st[u]
        BY <2>1, <3>1, Nums
      <3>3. pc'[u] \in {"buffer", "cas"} => pc[u] \in {"buffer", "cas"} /\ st[u] < MaxPush
        BY <2>1, <2>5 DEF InView
      <3> QED
        BY <3>2, <3>3
    <2> QED
      BY <2>7, <2>8, <2>9, <2>10, <2>11 DEF DequeInv
  <1> QED
    BY <1>2, <1>3

\* At the start the deque is empty, in a buffer of the initial size.
LEMMA DequeBegins == Init => DequeInv
  <1> SUFFICES ASSUME Init PROVE DequeInv
    OBVIOUS
  <1> DEFINE n == 2 ^ log_initial_size
             seg == [k \in 1 .. n |-> Nothing]
  <1>1. n \in Nat \ {0} /\ MaxPush \in Nat
    BY SizeAssumption
  <1>2. segs = <<seg>>
    BY DEF Init
  <1> HIDE DEF n
  <1>3. seg \in Seq(Item) \ {<<>>} /\ Len(seg) = n
    <2>1. seg \in [1 .. n -> Item]
      BY DEF Item
    <2> HIDE DEF seg
    <2>2. seg \in Seq(Item) /\ Len(seg) = n
      BY <1>1, <2>1
    <2> QED
      BY <1>1, <2>2
  <1> HIDE DEF seg
  <1>4. segs \in Seq(Seq(Item) \ {<<>>}) /\ segs # <<>> /\ Len(segs) = 1 /\ segs[1] = seg
    BY <1>2, <1>3
  <1>5. buffer = 0 /\ size(buffer) = n
    BY <1>3, <1>4 DEF buffer, size
  <1>6. /\ top = 0 /\ bottom = 0 /\ opc = "idle" /\ b = 0 /\ t = 0 /\ sent = 0 /\ popped = Nothing
        /\ pc = [s \in Stealer |-> "idle"] /\ st = [s \in Stealer |-> 0] /\ sa = [s \in Stealer |-> 0]
        /\ was_idle = [s \in Stealer |-> TRUE] /\ id_last_used = [s \in Stealer |-> 0]
        /\ stolen = [s \in Stealer |-> Nothing] /\ got = [s \in Stealer |-> Nothing]
    BY DEF Init
  <1>7. Types
    BY <1>1, <1>4, <1>5, <1>6 DEF Types, OwnerPoints, StealerPoints, Item
  <1>8. bottomBar = 0 /\ ~Pushing /\ ~Taking
    BY <1>6 DEF bottomBar, Pushing, Taking, Reclaiming
  <1>9. Ends
    BY <1>6, <1>8 DEF Ends
  <1>10. Room
    <2>1. 0 - 0 <= n - 1
      BY <1>1
    <2> QED
      BY <1>5, <1>6, <1>8, <2>1 DEF Room
  <1>11. Held
    <2>1. 0 .. 0 - 1 = {}
      OBVIOUS
    <2> QED
      BY <1>6, <1>8, <2>1 DEF Held
  <1>12. InView
    <2>1. \A s \in Stealer : st[s] = 0 /\ pc[s] = "idle"
      BY <1>6
    <2>2. 0 <= 0
      OBVIOUS
    <2> QED
      BY <1>6, <2>1, <2>2 DEF InView
  <1> QED
    BY <1>7, <1>9, <1>10, <1>11, <1>12 DEF DequeInv

\* Every step keeps it.
LEMMA DequeStep == DequeInv /\ [Next]_vars => DequeInv'
  <1> SUFFICES ASSUME DequeInv, [Next]_vars PROVE DequeInv'
    OBVIOUS
  <1>1. CASE OwnerNext
    BY <1>1, PushStartStep, GrowStep, ReclaimSteps, PutStep, PublishStep, PopStartStep, PopTopStep,
       PopCasStep, RestoreStep, ShrinkStep DEF OwnerNext
  <1>2. ASSUME NEW s \in Stealer, StealerNext(s) PROVE DequeInv'
    BY <1>2, StealSteps, CasStep DEF StealerNext
  <1>3. CASE UNCHANGED vars
    <2>1. UNCHANGED <<top, bottom, segs, tls, opc, b, t, sent, popped, pc, st, sa, stolen, got>>
      BY <1>3 DEF vars, bufferVars, ownerVars, stealerVars
    <2>2. /\ buffer' = buffer /\ size(buffer)' = size(buffer) /\ (\A i : get(buffer, i)' = get(buffer, i))
          /\ bottomBar' = bottomBar /\ (Pushing' <=> Pushing) /\ (Taking' <=> Taking)
      BY <2>1, SameSegs DEF bottomBar, Pushing, Taking
    <2>3. Types /\ Ends /\ Room /\ Held /\ InView
      BY Facts
    <2>4. Types' /\ Ends'
      BY <2>1, <2>2, <2>3 DEF Types, Ends, tls
    <2>5. Room' /\ Held' /\ InView'
      BY <2>1, <2>2, <2>3 DEF Room, Held, InView
    <2> QED
      BY <2>4, <2>5 DEF DequeInv
  <1> QED
    BY <1>1, <1>2, <1>3 DEF Next

-----------------------------------------------------------------------------
(* The buffers.                                                            *)

\* What the lemmas below have in common.
LEMMA BufferFacts ==
  ASSUME DequeInv, BufferInv
  PROVE  /\ Oldest /\ Spared /\ buffer \in Nat /\ NoBuffer = -1 /\ NoBuffer \notin Nat
         /\ (unlinked = NoBuffer \/ unlinked \in 0 .. buffer) /\ unlinked \in Int /\ unlinked <= buffer
         /\ StealerList \in Seq(Stealer) /\ Len(StealerList) \in Nat
         /\ \A s \in Stealer : /\ sa[s] \in 0 .. buffer /\ id_last_used[s] \in 0 .. buffer
                               /\ Holds(s) => sa[s] >= unlinked
  <1>1. Oldest /\ Spared /\ buffer \in Nat /\ NoBuffer = -1 /\ NoBuffer \notin Nat
    BY Facts DEF BufferInv, NoBuffer
  <1>2. unlinked = NoBuffer \/ unlinked \in 0 .. buffer
    BY <1>1 DEF Oldest
  <1>3. unlinked \in Int /\ unlinked <= buffer
    BY <1>1, <1>2
  <1>4. \A s \in Stealer : /\ sa[s] \in 0 .. buffer /\ id_last_used[s] \in 0 .. buffer
                           /\ Holds(s) => sa[s] >= unlinked
    <2>1. \A s \in Stealer : sa[s] \in 0 .. buffer /\ id_last_used[s] \in 0 .. buffer
      BY StealerFacts
    <2> QED
      BY <1>1, <2>1 DEF Spared
  <1> QED
    BY <1>1, <1>2, <1>3, <1>4, ListAssumption

\* The steps of the owner that have nothing to do with the list of buffers.
LEMMA OtherSteps ==
  ASSUME DequeInv, BufferInv,
         PushStart \/ Put \/ Publish \/ PopStart \/ PopTop \/ PopCas \/ Restore
  PROVE  BufferInv'
  <1>1. opc' \notin Reclaiming /\ UNCHANGED <<unlinked, freed, tls, pc, sa>>
    BY DEF PushStart, Put, Publish, PopStart, PopTop, PopCas, Restore, OwnerReturns, bufferVars, stealerVars,
           Reclaiming
  <1>2. buffer' = buffer
    <2>1. CASE Put
      <3>1. segs' = [segs EXCEPT ![buffer + 1][(b % size(buffer)) + 1] = sent]
        BY <2>1 DEF Put
      <3>2. segs \in Seq(Seq(Item) \ {<<>>})
        BY Facts
      <3> QED
        BY <3>1, <3>2 DEF buffer
    <2>2. CASE ~Put
      <3>1. segs' = segs
        BY <2>2 DEF PushStart, Publish, PopStart, PopTop, PopCas, Restore, bufferVars
      <3> QED
        BY <3>1 DEF buffer
    <2> QED
      BY <2>1, <2>2
  <1>3. Oldest'
    BY <1>1, <1>2, BufferFacts DEF Oldest
  <1>4. Spared'
    BY <1>1, BufferFacts DEF Spared, Holds, tls
  <1> QED
    BY <1>3, <1>4 DEF BufferInv

\* A resize: the buffer that is replaced is newer than those that are unlinked already.
LEMMA ResizeSteps ==
  ASSUME DequeInv, BufferInv, Grow \/ Shrink PROVE BufferInv'
  <1>1. /\ opc \notin Reclaiming /\ UNCHANGED <<freed, tls, pc, sa>>
        /\ \/ opc' \notin Reclaiming
           \/ opc' = "idle?" /\ head' = 1 /\ min_id' = Len(segs') - 1 /\ unlinked' # NoBuffer
    BY DEF Grow, Shrink, ToReclaim, OwnerReturns, stealerVars, Reclaiming
  <1>2. \/ /\ segs' = segs /\ unlinked' = unlinked
        \/ /\ Len(segs') = Len(segs) + 1
           /\ unlinked' = IF unlinked = NoBuffer THEN buffer ELSE unlinked
    <2>1. ASSUME NEW n, Resize(n)
          PROVE  /\ Len(segs') = Len(segs) + 1
                 /\ unlinked' = IF unlinked = NoBuffer THEN buffer ELSE unlinked
      <3>1. Len(Append(segs, Segment(n, t, b))) = Len(segs) + 1
        <4> DEFINE x == Segment(n, t, b)
        <4>1. segs \in Seq(Seq(Item) \ {<<>>}) /\ segs \in Seq(Seq(Item) \cup {x})
          <5>1. segs \in Seq(Seq(Item) \ {<<>>})
            BY Facts
          <5> HIDE DEF x
          <5> QED
            BY <5>1
        <4> HIDE DEF x
        <4>2. x \in Seq(Item) \cup {x}
          OBVIOUS
        <4>3. Len(Append(segs, x)) = Len(segs) + 1
          BY <4>1, <4>2
        <4> QED
          BY <4>3 DEF x
      <3> QED
        BY <2>1, <3>1 DEF Resize
    <2> QED
      BY <2>1 DEF Grow, Shrink
  <1>3. opc' \in Reclaiming => min_id' = buffer'
    BY <1>1 DEF buffer
  <1>4. \/ buffer' = buffer /\ unlinked' = unlinked
        \/ buffer' = buffer + 1 /\ unlinked' = IF unlinked = NoBuffer THEN buffer ELSE unlinked
    <2>1. Len(segs) \in Int
      BY Facts
    <2> QED
      BY <1>2, <2>1 DEF buffer
  <1>5. Oldest'
    <2>1. CASE buffer' = buffer /\ unlinked' = unlinked
      BY <1>1, <2>1, BufferFacts DEF Oldest
    <2>2. CASE buffer' = buffer + 1 /\ unlinked' = IF unlinked = NoBuffer THEN buffer ELSE unlinked
      <3>1. CASE unlinked = NoBuffer
        <4>1. buffer = 0 /\ freed = {} /\ unlinked' = 0
          BY <2>2, <3>1, BufferFacts DEF Oldest
        <4>2. 0 # NoBuffer /\ 0 \in 0 .. 0 + 1 /\ 0 .. 0 - 1 = {}
          BY DEF NoBuffer
        <4> QED
          BY <1>1, <2>2, <4>1, <4>2 DEF Oldest
      <3>2. CASE unlinked # NoBuffer
        <4>1. unlinked \in 0 .. buffer /\ freed = 0 .. unlinked - 1 /\ unlinked' = unlinked
          BY <2>2, <3>2, BufferFacts DEF Oldest
        <4>2. unlinked \in 0 .. buffer'
          BY <2>2, <4>1, BufferFacts
        <4> QED
          BY <1>1, <3>2, <4>1, <4>2 DEF Oldest
      <3> QED
        BY <3>1, <3>2
    <2> QED
      BY <1>4, <2>1, <2>2
  <1>6. \A s \in Stealer : Holds(s) => sa[s] >= unlinked'
    <2>1. unlinked' = unlinked \/ (unlinked = NoBuffer /\ unlinked' = 0)
      BY <1>4, BufferFacts DEF Oldest
    <2>2. \A s \in Stealer : sa[s] >= 0
      <3>1. \A k \in 0 .. buffer : k >= 0
        OBVIOUS
      <3>2. \A s \in Stealer : sa[s] \in 0 .. buffer
        BY BufferFacts
      <3> QED
        BY <3>1, <3>2
    <2> QED
      BY <2>1, <2>2, BufferFacts
  <1>7. Spared'
    <2>1. opc' \in Reclaiming => /\ opc' = "idle?" /\ head' = 1 /\ unlinked' # NoBuffer /\ min_id' \in 0 .. buffer'
      <3>1. buffer' \in 0 .. buffer'
        BY <1>4, BufferFacts
      <3> QED
        BY <1>1, <1>3, <3>1
    <2>2. 1 \in 1 .. Len(StealerList) + 1 /\ 1 .. 1 - 1 = {}
      BY BufferFacts
    <2> QED
      BY <1>1, <1>6, <2>1, <2>2, BufferFacts DEF Spared, Holds, tls
  <1> QED
    BY <1>5, <1>7 DEF BufferInv

\* While reclaim_buffers is under way.
LEMMA InReclaim ==
  ASSUME DequeInv, BufferInv, opc \in Reclaiming
  PROVE  /\ unlinked \in 0 .. buffer /\ freed = 0 .. unlinked - 1 /\ min_id \in 0 .. buffer
         /\ head \in 1 .. Len(StealerList) + (IF opc = "lastUsed" THEN 0 ELSE 1)
         /\ opc = "free" => head = Len(StealerList) + 1
         /\ \A i \in 1 .. head - 1 : /\ StealerList[i] \in Stealer
                                     /\ Holds(StealerList[i]) => sa[StealerList[i]] >= min_id
  <1>1. /\ unlinked # NoBuffer /\ min_id \in 0 .. buffer
        /\ head \in 1 .. Len(StealerList) + (IF opc = "lastUsed" THEN 0 ELSE 1)
        /\ opc = "free" => head = Len(StealerList) + 1
        /\ \A i \in 1 .. head - 1 : Holds(StealerList[i]) => sa[StealerList[i]] >= min_id
    BY BufferFacts DEF Spared
  <1>2. unlinked \in 0 .. buffer /\ freed = 0 .. unlinked - 1
    BY <1>1, BufferFacts DEF Oldest
  <1>3. \A i \in 1 .. head - 1 : StealerList[i] \in Stealer
    <2>1. head - 1 <= Len(StealerList)
      BY <1>1, BufferFacts
    <2>2. \A i \in 1 .. head - 1 : i \in 1 .. Len(StealerList)
      BY <1>1, <2>1, BufferFacts
    <2> QED
      BY <2>2, BufferFacts
  <1> QED
    BY <1>1, <1>2, <1>3

\* reclaim_buffers asks the stealers one after the other.
LEMMA AskSteps ==
  ASSUME DequeInv, BufferInv, ReadIdle \/ ReadLastUsed PROVE BufferInv'
  <1>1. /\ opc \in {"idle?", "lastUsed"} /\ opc \in Reclaiming
        /\ UNCHANGED <<segs, freed, unlinked, tls, pc, sa>> /\ buffer' = buffer
    BY DEF ReadIdle, ReadLastUsed, bufferVars, stealerVars, Reclaiming, buffer
  <1>2. /\ unlinked \in 0 .. buffer /\ freed = 0 .. unlinked - 1 /\ min_id \in 0 .. buffer
        /\ head \in 1 .. Len(StealerList) + (IF opc = "lastUsed" THEN 0 ELSE 1)
        /\ \A i \in 1 .. head - 1 : /\ StealerList[i] \in Stealer
                                    /\ Holds(StealerList[i]) => sa[StealerList[i]] >= min_id
    BY <1>1, InReclaim
  <1>3. Len(StealerList) \in Nat /\ head \in Nat /\ head >= 1
    BY <1>2, BufferFacts
  <1>4. Oldest'
    BY <1>1, BufferFacts DEF Oldest
  <1> DEFINE s == StealerList[head]
             m == Len(StealerList)
  <1>5. head <= m => s \in Stealer
    BY <1>3, BufferFacts
  <1> HIDE DEF s, m
  <1>6. /\ min_id' \in 0 .. buffer /\ head' \in 1 .. m + (IF opc' = "lastUsed" THEN 0 ELSE 1)
        /\ (opc' = "free" => head' = m + 1) /\ opc' \in Reclaiming
        /\ \A i \in 1 .. head' - 1 : Holds(StealerList[i]) => sa[StealerList[i]] >= min_id'
    <2>1. CASE ReadIdle
      <3>1. opc = "idle?" /\ min_id' = min_id /\ head \in 1 .. m + 1
        BY <1>2, <2>1 DEF ReadIdle, m
      <3>2. CASE head > m
        <4>1. opc' = "free" /\ head' = head
          BY <2>1, <3>2 DEF ReadIdle, m
        <4>2. head = m + 1
          BY <1>3, <3>1, <3>2 DEF m
        <4> QED
          BY <1>2, <3>1, <4>1, <4>2 DEF Reclaiming
      <3>3. CASE ~(head > m) /\ was_idle[s]
        <4>1. opc' = "idle?" /\ head' = head + 1
          BY <2>1, <3>1, <3>3 DEF ReadIdle, s, m
        <4>2. head \in 1 .. m /\ head + 1 \in 1 .. m + 1 /\ s \in Stealer
          BY <1>3, <1>5, <3>3 DEF m
        <4>3. ~Holds(s)
          BY <3>3, <4>2, BufferFacts DEF Spared, Holds
        <4>4. \A i \in 1 .. head + 1 - 1 : i \in 1 .. head - 1 \/ i = head
          BY <1>3
        <4> QED
          BY <1>2, <3>1, <4>1, <4>2, <4>3, <4>4 DEF Reclaiming, s
      <3>4. CASE ~(head > m) /\ ~was_idle[s]
        <4>1. opc' = "lastUsed" /\ head' = head
          BY <2>1, <3>4 DEF ReadIdle, s, m
        <4>2. head \in 1 .. m + 0
          BY <1>3, <3>4 DEF m
        <4> QED
          BY <1>2, <3>1, <4>1, <4>2 DEF Reclaiming
      <3> QED
        BY <3>2, <3>3, <3>4
    <2>2. CASE ReadLastUsed
      <3>1. /\ opc = "lastUsed" /\ opc' = "idle?" /\ head' = head + 1
            /\ min_id' = IF id_last_used[s] < min_id THEN id_last_used[s] ELSE min_id
        BY <2>2 DEF ReadLastUsed, s
      <3>2. head \in 1 .. m /\ s \in Stealer /\ head + 1 \in 1 .. m + 1
        <4>1. head <= m
          BY <1>2, <1>3, <3>1 DEF m
        <4> QED
          BY <1>3, <1>5, <4>1 DEF m
      <3>3. min_id' \in 0 .. buffer /\ min_id' <= min_id /\ min_id' <= id_last_used[s]
        <4>1. id_last_used[s] \in 0 .. buffer /\ buffer \in Nat
          BY <3>2, BufferFacts
        <4> QED
          BY <1>2, <3>1, <4>1
      <3>4. ASSUME NEW i \in 1 .. head' - 1, Holds(StealerList[i])
            PROVE  sa[StealerList[i]] >= min_id'
        <4>1. i \in 1 .. head - 1 \/ i = head
          BY <1>3, <3>1
        <4>2. CASE i \in 1 .. head - 1
          <5>1. sa[StealerList[i]] >= min_id /\ sa[StealerList[i]] \in 0 .. buffer
            BY <1>2, <3>4, <4>2, BufferFacts
          <5> QED
            BY <1>2, <3>3, <5>1, BufferFacts
        <4>3. CASE i = head
          <5>1. sa[s] >= id_last_used[s]
            BY <3>2, <3>4, <4>3, BufferFacts DEF Spared, s
          <5>2. sa[s] \in 0 .. buffer /\ id_last_used[s] \in 0 .. buffer /\ buffer \in Nat
            BY <3>2, BufferFacts
          <5>3. sa[s] >= min_id'
            BY <3>3, <5>1, <5>2
          <5> QED
            BY <4>3, <5>3 DEF s
        <4> QED
          BY <4>1, <4>2, <4>3
      <3> QED
        BY <3>1, <3>2, <3>3, <3>4 DEF Reclaiming
    <2> QED
      BY <2>1, <2>2
  <1>7. Spared'
    <2>1. unlinked # NoBuffer
      BY <1>2, BufferFacts
    <2> QED
      BY <1>1, <1>6, <2>1, BufferFacts DEF Spared, Holds, tls, m
  <1> QED
    BY <1>4, <1>7 DEF BufferInv

\* reclaim_buffers has asked every stealer, and deletes the buffers before min_id.
LEMMA FreeStep ==
  ASSUME DequeInv, BufferInv, Free PROVE BufferInv'
  <1>1. /\ opc = "free" /\ opc \in Reclaiming /\ opc' \notin Reclaiming /\ UNCHANGED <<segs, tls, pc, sa>>
        /\ buffer' = buffer /\ freed' = freed \cup unlinked .. min_id - 1
        /\ unlinked' = IF unlinked < min_id THEN min_id ELSE unlinked
    BY DEF Free, OwnerReturns, stealerVars, Reclaiming, buffer
  <1>2. /\ unlinked \in 0 .. buffer /\ freed = 0 .. unlinked - 1 /\ min_id \in 0 .. buffer
        /\ head = Len(StealerList) + 1
        /\ \A i \in 1 .. head - 1 : Holds(StealerList[i]) => sa[StealerList[i]] >= min_id
    BY <1>1, InReclaim
  <1>3. ASSUME NEW s \in Stealer, Holds(s) PROVE sa[s] >= unlinked'
    <2>1. PICK i \in DOMAIN StealerList : StealerList[i] = s
      BY ListAssumption
    <2>2. i \in 1 .. head - 1
      BY <1>2, <2>1, BufferFacts
    <2>3. sa[s] >= min_id /\ sa[s] >= unlinked
      BY <1>2, <1>3, <2>1, <2>2, BufferFacts
    <2> QED
      BY <1>1, <2>3
  <1>4. Oldest'
    <2>1. \A p, q \in Nat : 0 .. p - 1 \cup p .. q - 1 = 0 .. (IF p < q THEN q ELSE p) - 1
      OBVIOUS
    <2>2. unlinked \in Nat /\ min_id \in Nat
      BY <1>2, BufferFacts
    <2>3. freed' = 0 .. unlinked' - 1
      BY <1>1, <1>2, <2>1, <2>2
    <2>4. unlinked' \in 0 .. buffer /\ unlinked' # NoBuffer
      BY <1>1, <1>2, BufferFacts
    <2> QED
      BY <1>1, <2>3, <2>4 DEF Oldest
  <1>5. Spared'
    BY <1>1, <1>3, BufferFacts DEF Spared, Holds, tls
  <1> QED
    BY <1>4, <1>5 DEF BufferInv

\* What a step of a stealer has to respect: it reads objects only from a buffer that it
\* held already or that is the current one.
LEMMA StealerBuffers ==
  ASSUME DequeInv, BufferInv, NEW s \in Stealer, UNCHANGED <<segs, freed, unlinked, ownerVars>>,
         \A u \in Stealer \ {s} : /\ pc'[u] = pc[u] /\ sa'[u] = sa[u] /\ was_idle'[u] = was_idle[u]
                                  /\ id_last_used'[u] = id_last_used[u],
         was_idle'[s] <=> pc'[s] \in {"idle", "buffer2", "id"},
         Holds(s)' => (Holds(s) /\ sa'[s] = sa[s]) \/ sa'[s] = buffer,
         Holds(s)' \/ pc'[s] = "id" => sa'[s] >= id_last_used'[s]
  PROVE  BufferInv'
  <1>1. UNCHANGED <<opc, min_id, head, unlinked, freed>> /\ buffer' = buffer
    BY SameSegs DEF ownerVars
  <1>2. Oldest'
    BY <1>1, BufferFacts DEF Oldest
  <1>3. Holds(s)' => sa'[s] >= unlinked
    <2>1. buffer >= unlinked
      BY BufferFacts
    <2> QED
      BY <2>1, BufferFacts
  <1>4. \A u \in Stealer :
          /\ was_idle'[u] <=> pc'[u] \in {"idle", "buffer2", "id"}
          /\ Holds(u)' => sa'[u] >= unlinked
          /\ Holds(u)' \/ pc'[u] = "id" => sa'[u] >= id_last_used'[u]
    <2> SUFFICES ASSUME NEW u \in Stealer
                 PROVE  /\ was_idle'[u] <=> pc'[u] \in {"idle", "buffer2", "id"}
                        /\ Holds(u)' => sa'[u] >= unlinked
                        /\ Holds(u)' \/ pc'[u] = "id" => sa'[u] >= id_last_used'[u]
      OBVIOUS
    <2>1. CASE u = s
      BY <1>3, <2>1
    <2>2. CASE u # s
      BY <2>2, BufferFacts DEF Spared, Holds
    <2> QED
      BY <2>1, <2>2
  <1>5. ASSUME opc \in Reclaiming, NEW i \in 1 .. head - 1, Holds(StealerList[i])'
        PROVE  sa'[StealerList[i]] >= min_id
    <2>1. /\ StealerList[i] \in Stealer /\ min_id \in 0 .. buffer
          /\ Holds(StealerList[i]) => sa[StealerList[i]] >= min_id
      BY <1>5, InReclaim
    <2>2. CASE StealerList[i] = s /\ sa'[s] = buffer
      <3>1. buffer >= min_id
        BY <2>1, BufferFacts
      <3> QED
        BY <2>2, <3>1
    <2>3. CASE StealerList[i] = s /\ ~(sa'[s] = buffer)
      BY <1>5, <2>1, <2>3
    <2>4. CASE StealerList[i] # s
      BY <1>5, <2>1, <2>4 DEF Holds
    <2> QED
      BY <2>2, <2>3, <2>4
  <1>6. Spared'
    BY <1>1, <1>4, <1>5, BufferFacts DEF Spared
  <1> QED
    BY <1>2, <1>6 DEF BufferInv

\* The steps of steal.
LEMMA StealerKeepsBuffers ==
  ASSUME DequeInv, BufferInv, NEW s \in Stealer, StealerNext(s) PROVE BufferInv'
  <1> USE DEF Goto, shared, tls, bufferVars, Holds
  <1>1. /\ pc \in [Stealer -> StealerPoints] /\ sa \in [Stealer -> 0 .. buffer]
        /\ was_idle \in [Stealer -> BOOLEAN] /\ id_last_used \in [Stealer -> 0 .. buffer]
        /\ id_last_used[s] \in 0 .. buffer /\ buffer >= id_last_used[s]
    <2>1. /\ pc \in [Stealer -> StealerPoints] /\ sa \in [Stealer -> 0 .. buffer]
          /\ was_idle \in [Stealer -> BOOLEAN] /\ id_last_used \in [Stealer -> 0 .. buffer] /\ buffer \in Nat
      BY StealerFacts, BufferFacts
    <2> QED
      BY <2>1
  <1>2. /\ was_idle[s] <=> pc[s] \in {"idle", "buffer2", "id"}
        /\ Holds(s) \/ pc[s] = "id" => sa[s] >= id_last_used[s]
    BY BufferFacts DEF Spared
  <1>3. CASE StealStart(s)
    <2>1. /\ pc' = [pc EXCEPT ![s] = "top"] /\ was_idle' = [was_idle EXCEPT ![s] = FALSE]
          /\ UNCHANGED <<segs, freed, unlinked, ownerVars, sa, id_last_used>>
      BY <1>3 DEF StealStart
    <2> QED
      BY <1>1, <2>1, StealerBuffers
  <1>4. CASE LoadTop(s)
    <2>1. /\ pc' = [pc EXCEPT ![s] = "bottom"] /\ pc[s] = "top"
          /\ UNCHANGED <<segs, freed, unlinked, ownerVars, sa, id_last_used, was_idle>>
      BY <1>4 DEF LoadTop
    <2> QED
      BY <1>1, <1>2, <2>1, StealerBuffers
  <1>5. CASE LoadBottom(s)
    <2>1. /\ pc[s] = "bottom"
          /\ pc' = [pc EXCEPT ![s] = "buffer"] \/ pc' = [pc EXCEPT ![s] = "end"]
          /\ UNCHANGED <<segs, freed, unlinked, ownerVars, sa, id_last_used, was_idle>>
      BY <1>5 DEF LoadBottom
    <2> QED
      BY <1>1, <1>2, <2>1, StealerBuffers
  <1>6. CASE LoadBuffer(s)
    <2>1. /\ pc[s] = "buffer" /\ pc' = [pc EXCEPT ![s] = "cas"] /\ sa' = [sa EXCEPT ![s] = buffer]
          /\ UNCHANGED <<segs, freed, unlinked, ownerVars, id_last_used, was_idle>>
      BY <1>6 DEF LoadBuffer
    <2>2. sa'[s] = buffer
      BY <1>1, <2>1
    <2> QED
      BY <1>1, <1>2, <2>1, <2>2, StealerBuffers
  <1>7. CASE Cas(s)
    <2>1. /\ pc[s] = "cas"
          /\ pc' = [pc EXCEPT ![s] = "get"] \/ pc' = [pc EXCEPT ![s] = "end"]
          /\ UNCHANGED <<segs, freed, unlinked, ownerVars, sa, id_last_used, was_idle>>
      BY <1>7 DEF Cas
    <2> QED
      BY <1>1, <1>2, <2>1, StealerBuffers
  <1>8. CASE Get(s)
    <2>1. /\ pc[s] = "get"
          /\ pc' = pc \/ pc' = [pc EXCEPT ![s] = "end"]
          /\ UNCHANGED <<segs, freed, unlinked, ownerVars, sa, id_last_used, was_idle>>
      BY <1>8 DEF Get
    <2> QED
      BY <1>1, <1>2, <2>1, StealerBuffers
  <1>9. CASE StealEnd(s)
    <2>1. /\ pc' = [pc EXCEPT ![s] = "buffer2"] /\ was_idle' = [was_idle EXCEPT ![s] = TRUE]
          /\ UNCHANGED <<segs, freed, unlinked, ownerVars, sa, id_last_used>>
      BY <1>9 DEF StealEnd
    <2> QED
      BY <1>1, <2>1, StealerBuffers
  <1>10. CASE LoadBuffer2(s)
    <2>1. /\ pc[s] = "buffer2" /\ pc' = [pc EXCEPT ![s] = "id"] /\ sa' = [sa EXCEPT ![s] = buffer]
          /\ UNCHANGED <<segs, freed, unlinked, ownerVars, id_last_used, was_idle>>
      BY <1>10 DEF LoadBuffer2
    <2>2. sa'[s] = buffer
      BY <1>1, <2>1
    <2> QED
      BY <1>1, <1>2, <2>1, <2>2, StealerBuffers
  <1>11. CASE StoreId(s)
    <2>1. pc[s] = "id" /\ UNCHANGED <<segs, freed, unlinked, ownerVars, was_idle>>
      BY <1>11 DEF StoreId
    <2>2. CASE sa[s] \in freed
      <3>1. UNCHANGED <<pc, sa, id_last_used>>
        BY <1>11, <2>2 DEF StoreId
      <3> QED
        BY <1>1, <1>2, <2>1, <3>1, StealerBuffers
    <2>3. CASE sa[s] \notin freed
      <3>1. /\ pc' = [pc EXCEPT ![s] = "idle"] /\ id_last_used' = [id_last_used EXCEPT ![s] = sa[s]]
            /\ sa' = [sa EXCEPT ![s] = 0]
        BY <1>11, <2>3 DEF StoreId
      <3> QED
        BY <1>1, <1>2, <2>1, <3>1, StealerBuffers
    <2> QED
      BY <2>2, <2>3
  <1> QED
    BY <1>3, <1>4, <1>5, <1>6, <1>7, <1>8, <1>9, <1>10, <1>11 DEF StealerNext

\* At the start there is one buffer, and nobody holds it.
LEMMA BufferBegins == Init => BufferInv
  <1> SUFFICES ASSUME Init PROVE BufferInv
    OBVIOUS
  <1>1. Len(segs) = 1
    <2> DEFINE seg == [k \in 1 .. 2 ^ log_initial_size |-> Nothing]
    <2>1. segs = <<seg>>
      BY DEF Init
    <2> HIDE DEF seg
    <2> QED
      BY <2>1
  <1>2. /\ unlinked = NoBuffer /\ freed = {} /\ opc = "idle"
        /\ \A s \in Stealer : pc[s] = "idle" /\ was_idle[s]
    BY DEF Init
  <1>3. Oldest
    BY <1>1, <1>2 DEF Oldest, buffer
  <1>4. Spared
    BY <1>2 DEF Spared, Holds, Reclaiming
  <1> QED
    BY <1>3, <1>4 DEF BufferInv

\* Every step keeps it.
LEMMA BufferStep == DequeInv /\ BufferInv /\ [Next]_vars => BufferInv'
  <1> SUFFICES ASSUME DequeInv, BufferInv, [Next]_vars PROVE BufferInv'
    OBVIOUS
  <1>1. CASE OwnerNext
    BY <1>1, OtherSteps, ResizeSteps, AskSteps, FreeStep DEF OwnerNext
  <1>2. ASSUME NEW s \in Stealer, StealerNext(s) PROVE BufferInv'
    BY <1>2, StealerKeepsBuffers
  <1>3. CASE UNCHANGED vars
    <2>1. UNCHANGED <<segs, freed, unlinked, tls, opc, min_id, head, pc, sa>> /\ buffer' = buffer
      BY <1>3, SameSegs DEF vars, bufferVars, ownerVars, stealerVars
    <2>2. Oldest' /\ Spared'
      BY <2>1, BufferFacts DEF Oldest, Spared, Holds, tls
    <2> QED
      BY <2>2 DEF BufferInv
  <1> QED
    BY <1>1, <1>2, <1>3 DEF Next

-----------------------------------------------------------------------------
(* What follows.                                                           *)

\* The ends of the deque, its objects and its buffers are in order in every state.
THEOREM Invariance == Spec => []IInv
  <1>1. Init => IInv
    BY DequeBegins, BufferBegins DEF IInv
  <1>2. IInv /\ [Next]_vars => IInv'
    BY DequeStep, BufferStep DEF IInv
  <1> QED
    BY <1>1, <1>2, PTL DEF Spec

\* The current buffer is never deleted, unlinked is the oldest buffer that is left
\* (Deque.h:223), and every local has its type.
THEOREM BuffersStay == Spec => []BuffersOK
  <1>1. IInv => BuffersOK
    <2> SUFFICES ASSUME IInv PROVE BuffersOK
      OBVIOUS
    <2>1. DequeInv /\ BufferInv
      BY DEF IInv
    <2>2. Types /\ buffer \in Nat /\ Oldest /\ unlinked \in Int /\ unlinked <= buffer /\ buffer + 1 = Len(segs)
      BY <2>1, Facts, BufferFacts, Basics
    <2>3. CurrentBufferLives
      BY <2>2 DEF CurrentBufferLives, Oldest, NoBuffer
    <2>4. unlinked \in NoBuffer .. Len(segs) /\ freed \subseteq 0 .. buffer
      BY <2>2 DEF Oldest, NoBuffer
    <2>5. TypeOK
      BY <2>2, <2>4 DEF TypeOK, Types, Item
    <2> QED
      BY <2>3, <2>5 DEF BuffersOK
  <1> QED
    BY <1>1, Invariance, PTL

\* A stealer reads its object from a buffer that is not deleted (Deque.h:196).
THEOREM StealsFromLive == Spec => []StolenFromLiveBuffer
  <1>1. IInv => StolenFromLiveBuffer
    <2> SUFFICES ASSUME IInv, NEW s \in Stealer, pc[s] \in {"cas", "get"} PROVE sa[s] \notin freed
      BY DEF StolenFromLiveBuffer
    <2>1. DequeInv /\ BufferInv
      BY DEF IInv
    <2>2. sa[s] >= unlinked /\ sa[s] \in 0 .. buffer /\ Oldest /\ buffer \in Nat /\ unlinked \in Int
      BY <2>1, BufferFacts DEF Holds
    <2> QED
      BY <2>2 DEF Oldest
  <1> QED
    BY <1>1, Invariance, PTL

-----------------------------------------------------------------------------
(* Each object is won once: the deque implements StealSpec.                *)

\* What the pop has got, and what each pop and steal has got.
Mine == IF popped = Nothing /\ opc = "restore" THEN Empty ELSE popped
Won  == [p \in Stealer \cup {Owner} |-> IF p # Owner THEN got[p] ELSE Mine]
AbsStep == Abstract!Next \/ (Contents' = Contents /\ Won' = Won)

\* The objects of the deque, top first.
LEMMA ContentsAre ==
  ASSUME DequeInv
  PROVE  /\ Contents \in Seq(Item)
         /\ top >= bottomBar => Contents = <<>>
         /\ top < bottomBar => Len(Contents) = bottomBar - top
         /\ \A i \in 1 .. bottomBar - top : Contents[i] = get(buffer, top + i - 1)
  <1> DEFINE n == bottomBar - top
             f == [i \in 1 .. n |-> get(buffer, top + i - 1)]
  <1>1. CASE top >= bottomBar
    <2>1. Contents = <<>>
      BY <1>1 DEF Contents
    <2>2. n <= 0 /\ n \in Int
      BY <1>1, Nums
    <2>3. \A m \in Int : m <= 0 => 1 .. m = {}
      OBVIOUS
    <2>4. 1 .. n = {}
      BY <2>2, <2>3
    <2> QED
      BY <1>1, <2>1, <2>4, Nums
  <1>2. CASE top < bottomBar
    <2>1. Contents = f
      BY <1>2, Nums DEF Contents
    <2>2. n \in Nat
      BY <1>2, Nums
    <2>3. \A i \in 1 .. n : top + i - 1 \in Int
      BY Nums
    <2>4. f \in [1 .. n -> Item]
      BY <2>3, Facts
    <2>5. \A i \in 1 .. n : f[i] = get(buffer, top + i - 1)
      OBVIOUS
    <2> HIDE DEF f, n
    <2>6. f \in Seq(Item) /\ Len(f) = n
      BY <2>2, <2>4
    <2> QED
      BY <1>2, <2>1, <2>5, <2>6, Nums DEF n
  <1> QED
    BY <1>1, <1>2, Nums

\* The same, as a formula about the segments.
Matches ==
  /\ Contents \in Seq(Item)
  /\ top >= bottomBar => Contents = <<>>
  /\ top < bottomBar => Len(Contents) = bottomBar - top
  /\ \A i \in 1 .. bottomBar - top : Contents[i] = segs[buffer + 1][((top + i - 1) % size(buffer)) + 1]

\* It holds in every state of the invariant.
LEMMA ContentsMatch == DequeInv => Matches
  BY ContentsAre DEF Matches, get

\* And in the next one.
LEMMA ContentsMatchNext == DequeInv' => Matches'
  BY ContentsMatch, PTL

\* After a step that leaves the buffers.
LEMMA ContentsAfter ==
  ASSUME DequeInv', segs' = segs
  PROVE  /\ Contents' \in Seq(Item)
         /\ top' >= bottomBar' => Contents' = <<>>
         /\ top' < bottomBar' => Len(Contents') = bottomBar' - top'
         /\ \A i \in 1 .. bottomBar' - top' : Contents'[i] = get(buffer, top' + i - 1)
  BY ContentsMatchNext, SameSegs DEF Matches, get

\* Equal sequences.
LEMMA SameSeq ==
  ASSUME NEW p \in Seq(Item), NEW r \in Seq(Item), Len(p) = Len(r), \A i \in 1 .. Len(p) : p[i] = r[i]
  PROVE  p = r
  OBVIOUS

\* A step that moves neither end and none of the objects leaves the contents.
LEMMA SameContents ==
  ASSUME DequeInv, DequeInv', top' = top, bottomBar' = bottomBar,
         \A i \in Int : top <= i /\ i < bottomBar => get(buffer, i)' = get(buffer, i)
  PROVE  Contents' = Contents
  <1>1. CASE top >= bottomBar
    BY <1>1 DEF Contents
  <1>2. CASE ~(top >= bottomBar)
    <2>1. \A i \in 1 .. bottomBar - top : get(buffer, top + i - 1)' = get(buffer, top + i - 1)
      <3>1. \A i \in 1 .. bottomBar - top :
              top + i - 1 \in Int /\ top <= top + i - 1 /\ top + i - 1 < bottomBar
        BY Nums
      <3> QED
        BY <3>1
    <2> QED
      BY <1>2, <2>1 DEF Contents
  <1> QED
    BY <1>1, <1>2

\* The steps of StealSpec, on the deque.
LEMMA AsPush ==
  ASSUME NEW x \in Object, Contents' = Append(Contents, x), Won' = Won PROVE Abstract!Next
  BY DEF Abstract!Next, Abstract!Push, Won, Mine

\* A pop from the bottom.
LEMMA AsPop ==
  ASSUME Contents # <<>>, Contents' = SubSeq(Contents, 1, Len(Contents) - 1),
         Won' = [Won EXCEPT ![Owner] = Contents[Len(Contents)]]
  PROVE  Abstract!Next
  BY DEF Abstract!Next, Abstract!Pop, Abstract!Get, Won, Mine

\* A pop that finds nothing.
LEMMA AsPopEmpty ==
  ASSUME Contents = <<>>, Contents' = <<>>, Won' = [Won EXCEPT ![Owner] = Empty] PROVE Abstract!Next
  BY DEF Abstract!Next, Abstract!PopEmpty, Abstract!Get, Won, Mine

\* A steal from the top.
LEMMA AsSteal ==
  ASSUME NEW s \in Stealer, Contents # <<>>, Contents' = Tail(Contents),
         Won' = [Won EXCEPT ![s] = Head(Contents)]
  PROVE  Abstract!Next
  BY DEF Abstract!Next, Abstract!Steal, Abstract!Get, Won, Mine

\* A return.
LEMMA AsReturn ==
  ASSUME NEW p \in Stealer \cup {Owner}, Contents' = Contents, Won' = [Won EXCEPT ![p] = Nothing]
  PROVE  Abstract!Next
  BY DEF Abstract!Next, Abstract!Return, Abstract!Get, Won, Mine

\* What a step does to Won.
LEMMA WonSame ==
  ASSUME got' = got, Mine' = Mine PROVE Won' = Won
  BY DEF Won

\* A step of the owner.
LEMMA WonOwner ==
  ASSUME got' = got PROVE Won' = [Won EXCEPT ![Owner] = Mine']
  BY OwnerAssumption DEF Won

\* A step of a stealer.
LEMMA WonStealer ==
  ASSUME DequeInv, NEW s \in Stealer, NEW x, got' = [got EXCEPT ![s] = x], Mine' = Mine
  PROVE  Won' = [Won EXCEPT ![s] = x]
  BY StealerFacts, OwnerAssumption DEF Won

\* A step of the owner that moves nothing: it returns, or what it has got is the same.
LEMMA OwnerQuiet ==
  ASSUME DequeInv, DequeInv', top' = top, bottomBar' = bottomBar, got' = got,
         \A i \in Int : top <= i /\ i < bottomBar => get(buffer, i)' = get(buffer, i),
         Mine' = Mine \/ Mine' = Nothing
  PROVE  AbsStep
  <1>1. Contents' = Contents
    BY SameContents
  <1>2. CASE Mine' = Mine
    BY <1>1, <1>2, WonSame DEF AbsStep
  <1>3. CASE Mine' = Nothing
    BY <1>1, <1>3, WonOwner, AsReturn DEF AbsStep
  <1> QED
    BY <1>2, <1>3

\* The quiet steps of the owner.
LEMMA QuietSteps ==
  ASSUME DequeInv, DequeInv',
         PushStart \/ Grow \/ ReadIdle \/ ReadLastUsed \/ Free \/ Put \/ PopStart \/ Shrink
  PROVE  AbsStep
  <1>1. /\ top' = top /\ got' = got /\ opc # "restore" /\ opc' # "restore"
        /\ popped' = popped \/ popped' = Nothing
    BY DEF PushStart, Grow, ReadIdle, ReadLastUsed, Free, Put, PopStart, Shrink, ToReclaim, OwnerReturns
  <1>2. Mine' = Mine \/ Mine' = Nothing
    BY <1>1 DEF Mine
  <1>3. /\ bottomBar' = bottomBar
        /\ \A i \in Int : top <= i /\ i < bottomBar => get(buffer, i)' = get(buffer, i)
    <2>1. CASE PushStart \/ ReadIdle \/ ReadLastUsed \/ Free \/ PopStart
      <3>1. segs' = segs
        BY <2>1 DEF PushStart, ReadIdle, ReadLastUsed, Free, PopStart, bufferVars
      <3>2. bottomBar' = bottomBar
        BY <2>1 DEF PushStart, ReadIdle, ReadLastUsed, Free, PopStart, OwnerReturns, bottomBar
      <3> QED
        BY <3>1, <3>2, SameSegs
    <2>2. CASE Grow
      <3>1. /\ t <= top /\ bottomBar = b /\ bottomBar' = b
            /\ \A i \in t .. b - 1 : get(buffer, i)' = get(buffer, i)
        BY <2>2, GrowKeeps
      <3>2. \A i \in Int : top <= i /\ i < b => i \in t .. b - 1
        BY <3>1, Nums
      <3> QED
        BY <3>1, <3>2
    <2>3. CASE Shrink
      <3>1. /\ t <= top /\ bottomBar = bottom /\ bottomBar' = bottom /\ bottom = b - 1
            /\ \A i \in t .. b - 1 : get(buffer, i)' = get(buffer, i)
        BY <2>3, ShrinkKeeps
      <3>2. \A i \in Int : top <= i /\ i < bottom => i \in t .. b - 1
        BY <3>1, Nums
      <3> QED
        BY <3>1, <3>2
    <2>4. CASE Put
      <3>1. opc = "put" /\ opc' = "publish" /\ bottom' = bottom
        BY <2>4 DEF Put
      <3>2. bottomBar = bottom /\ bottomBar' = bottom
        BY <3>1 DEF bottomBar
      <3>3. b = bottom /\ b - top <= size(buffer) - 1 /\ sent \in Object
        <4>1. Pushing /\ Ends /\ Room
          BY <3>1, Facts DEF Pushing
        <4>2. b = bottom /\ bottom < sent /\ b - top <= size(buffer) - 1
          BY <3>2, <4>1 DEF Ends, Room
        <4> QED
          BY <4>2, Facts, Ends DEF Ends, Object
      <3>4. \A i \in Int : i < b /\ b - i < size(buffer) => get(buffer, i)' = get(buffer, i)
        <4>1. segs' = [segs EXCEPT ![buffer + 1][(b % size(buffer)) + 1] = sent] /\ b' = b /\ Types
          BY <2>4, Facts DEF Put
        <4> QED
          BY <3>3, <4>1, PutKeeps
      <3>5. \A i \in Int : top <= i /\ i < b => b - i < size(buffer)
        BY <3>3, Nums
      <3> QED
        BY <3>2, <3>3, <3>4, <3>5
    <2> QED
      BY <2>1, <2>2, <2>3, <2>4
  <1> QED
    BY <1>1, <1>2, <1>3, OwnerQuiet

\* push_bottom pushes when it moves bottom.
LEMMA PublishPushes ==
  ASSUME DequeInv, DequeInv', Publish PROVE AbsStep
  <1>1. /\ opc = "publish" /\ opc' = "idle" /\ bottom' = b + 1 /\ popped' = Nothing
        /\ top' = top /\ segs' = segs /\ got' = got
    BY DEF Publish, OwnerReturns, bufferVars
  <1>2. /\ b = bottom /\ bottomBar = b /\ bottomBar' = b + 1 /\ top <= b /\ popped = Nothing
        /\ get(buffer, b) = sent /\ bottom < sent
    <2>1. bottomBar = bottom /\ Pushing /\ bottomBar' = bottom' /\ Ends /\ Held
      BY <1>1, Facts DEF bottomBar, Pushing
    <2> QED
      BY <1>1, <2>1 DEF Ends, Held, Reclaiming
  <1>3. sent \in Object /\ sent \in Item
    BY <1>2, Facts DEF Object, Item
  <1>4. \A i : get(buffer, i)' = get(buffer, i)
    BY <1>1, SameSegs
  <1>5. /\ Contents \in Seq(Item) /\ Len(Contents) = b - top
        /\ \A i \in 1 .. b - top : Contents[i] = get(buffer, top + i - 1)
    <2>1. CASE top >= b
      <3>1. top = b /\ Contents = <<>> /\ Len(<<>>) = 0
        BY <1>2, <2>1, ContentsAre, Nums
      <3> QED
        BY <1>2, <3>1, ContentsAre, Nums
    <2>2. CASE top < b
      BY <1>2, <2>2, ContentsAre
    <2> QED
      BY <2>1, <2>2, Nums
  <1>6. /\ Contents' \in Seq(Item) /\ Len(Contents') = b + 1 - top
        /\ \A i \in 1 .. b + 1 - top : Contents'[i] = get(buffer, top + i - 1)
    <2>1. top' < bottomBar' /\ bottomBar' - top' = b + 1 - top
      BY <1>1, <1>2, Nums
    <2> QED
      BY <1>1, <2>1, ContentsAfter
  <1>7. Contents' = Append(Contents, sent)
    <2> DEFINE x == Append(Contents, sent)
    <2>1. x \in Seq(Item) /\ Len(x) = Len(Contents) + 1
      BY <1>3, <1>5
    <2>2. \A i \in 1 .. Len(Contents) : x[i] = Contents[i]
      BY <1>3, <1>5
    <2>3. x[Len(Contents) + 1] = sent
      BY <1>3, <1>5
    <2> HIDE DEF x
    <2>4. Len(Contents') = Len(x)
      BY <1>5, <1>6, <2>1, Nums
    <2>5. \A i \in 1 .. Len(Contents') : Contents'[i] = x[i]
      <3> SUFFICES ASSUME NEW i \in 1 .. Len(Contents') PROVE Contents'[i] = x[i]
        OBVIOUS
      <3>1. i \in 1 .. b + 1 - top
        BY <1>6
      <3>2. CASE i = b + 1 - top
        <4>1. top + i - 1 = b /\ i = Len(Contents) + 1
          BY <1>5, <3>2, Nums
        <4> QED
          BY <1>2, <1>6, <2>3, <3>1, <4>1
      <3>3. CASE i # b + 1 - top
        <4>1. i \in 1 .. b - top
          BY <3>1, <3>3, Nums
        <4> QED
          BY <1>5, <1>6, <2>2, <3>1, <4>1
      <3> QED
        BY <3>2, <3>3
    <2>6. x = Contents'
      BY <1>6, <2>1, <2>4, <2>5, SameSeq
    <2> QED
      BY <2>6 DEF x
  <1>8. Won' = Won
    <2>1. Mine' = Mine
      BY <1>1, <1>2 DEF Mine
    <2> QED
      BY <1>1, <2>1, WonSame
  <1> QED
    BY <1>3, <1>7, <1>8, AsPush DEF AbsStep

\* The last object leaves at the bottom.
LEMMA PopsLast ==
  ASSUME DequeInv, DequeInv', segs' = segs, top' = top, bottomBar' = bottomBar - 1, top < bottomBar
  PROVE  /\ Contents # <<>> /\ Contents' = SubSeq(Contents, 1, Len(Contents) - 1)
         /\ Contents[Len(Contents)] = get(buffer, bottomBar - 1)
  <1>1. /\ Contents \in Seq(Item) /\ Len(Contents) = bottomBar - top
        /\ \A i \in 1 .. bottomBar - top : Contents[i] = get(buffer, top + i - 1)
    BY ContentsAre
  <1>2. /\ Contents' \in Seq(Item) /\ Len(Contents') = bottomBar - 1 - top
        /\ \A i \in 1 .. bottomBar - 1 - top : Contents'[i] = get(buffer, top + i - 1)
    <2>1. CASE top < bottomBar - 1
      BY <2>1, ContentsAfter
    <2>2. CASE ~(top < bottomBar - 1)
      <3>1. top >= bottomBar - 1 /\ bottomBar - 1 - top = 0 /\ 1 .. 0 = {} /\ Len(<<>>) = 0
        BY <2>2, Nums
      <3> QED
        BY <3>1, ContentsAfter
    <2> QED
      BY <2>1, <2>2
  <1> DEFINE n == bottomBar - top
             x == SubSeq(Contents, 1, n - 1)
  <1>3. n \in Nat \ {0}
    BY Nums
  <1>4. n \in 1 .. n /\ top + n - 1 = bottomBar - 1 /\ bottomBar - 1 - top = n - 1
    BY <1>3, Nums
  <1> HIDE DEF n
  <1>5. x \in Seq(Item) /\ Len(x) = n - 1 /\ \A i \in 1 .. n - 1 : x[i] = Contents[i]
    BY <1>1, <1>3 DEF n
  <1> HIDE DEF x
  <1>6. \A i \in 1 .. n - 1 : i \in 1 .. n
    BY <1>3
  <1>7. \A i \in 1 .. Len(x) : x[i] = Contents'[i]
    BY <1>1, <1>2, <1>4, <1>5, <1>6 DEF n
  <1>8. x = Contents'
    BY <1>2, <1>4, <1>5, <1>7, SameSeq
  <1>9. Contents # <<>>
    BY <1>1, <1>3 DEF n
  <1>10. Contents[Len(Contents)] = get(buffer, bottomBar - 1)
    BY <1>1, <1>4 DEF n
  <1> QED
    BY <1>1, <1>8, <1>9, <1>10 DEF n, x

\* The first object leaves at the top.
LEMMA TakesFirst ==
  ASSUME DequeInv, DequeInv', segs' = segs, top' = top + 1, bottomBar' = bottomBar, top < bottomBar
  PROVE  Contents # <<>> /\ Contents' = Tail(Contents) /\ Head(Contents) = get(buffer, top)
  <1> DEFINE n == bottomBar - top
             x == Tail(Contents)
  <1>1. n \in Nat \ {0}
    BY Nums
  <1>2. /\ Contents \in Seq(Item) /\ Len(Contents) = n
        /\ \A i \in 1 .. n : Contents[i] = get(buffer, top + i - 1)
    BY ContentsAre
  <1>3. bottomBar' - top' = n - 1
    BY Nums
  <1>4. /\ Contents' \in Seq(Item) /\ Len(Contents') = n - 1
        /\ \A i \in 1 .. n - 1 : Contents'[i] = get(buffer, top + 1 + i - 1)
    <2>1. CASE top + 1 < bottomBar
      BY <1>3, <2>1, ContentsAfter
    <2>2. CASE ~(top + 1 < bottomBar)
      <3>1. top + 1 >= bottomBar /\ n - 1 = 0 /\ 1 .. 0 = {} /\ Len(<<>>) = 0
        BY <2>2, Nums
      <3> QED
        BY <3>1, ContentsAfter
    <2> QED
      BY <2>1, <2>2
  <1> HIDE DEF n
  <1>5. Contents # <<>>
    BY <1>1, <1>2
  <1>6. x \in Seq(Item) /\ Len(x) = n - 1 /\ (\A i \in 1 .. n - 1 : x[i] = Contents[i + 1])
    <2>1. \A c \in Seq(Item) : c # <<>> => /\ Tail(c) \in Seq(Item) /\ Len(Tail(c)) = Len(c) - 1
                                           /\ \A i \in 1 .. Len(c) - 1 : Tail(c)[i] = c[i + 1]
      OBVIOUS
    <2> QED
      BY <1>2, <1>5, <2>1
  <1>7. Head(Contents) = get(buffer, top)
    <2>1. Head(Contents) = Contents[1] /\ 1 \in 1 .. n
      BY <1>1, <1>2
    <2>2. top + 1 - 1 = top
      BY Nums
    <2> QED
      BY <1>2, <2>1, <2>2
  <1> HIDE DEF x
  <1>8. \A i \in 1 .. Len(x) : x[i] = Contents'[i]
    <2>1. \A i \in 1 .. n - 1 : i + 1 \in 1 .. n /\ top + (i + 1) - 1 = top + 1 + i - 1
      BY <1>1, Nums
    <2> QED
      BY <1>2, <1>4, <1>6, <2>1
  <1>9. x = Contents'
    BY <1>4, <1>6, <1>8, SameSeq
  <1> QED
    BY <1>5, <1>7, <1>9 DEF x

\* pop_bottom reads top: it finds nothing, or takes the last object, or has to race for it.
LEMMA PopTopPops ==
  ASSUME DequeInv, DequeInv', PopTop PROVE AbsStep
  <1>1. opc = "popTop" /\ segs' = segs /\ UNCHANGED <<top, bottom, b, got>>
    BY DEF PopTop, bufferVars
  <1>2. /\ bottomBar = b /\ bottom = b - 1 /\ top <= b /\ popped = Nothing
        /\ \A i \in Int : top <= i /\ i < b => get(buffer, i) # Nothing
    BY <1>1, InPop
  <1>3. CASE b - top <= 0
    <2>1. opc' = "restore" /\ popped' = Nothing /\ top >= b /\ top >= b - 1
      BY <1>2, <1>3, Nums DEF PopTop
    <2>2. bottomBar' = b - 1 /\ Mine' = Empty
      BY <1>1, <1>2, <2>1 DEF bottomBar, Mine
    <2>3. Contents = <<>> /\ Contents' = <<>>
      BY <1>1, <1>2, <2>1, <2>2, ContentsAre, ContentsAfter
    <2> QED
      BY <1>1, <2>2, <2>3, WonOwner, AsPopEmpty DEF AbsStep
  <1>4. CASE b - top = 1
    <2>1. opc' = "popCas" /\ popped' = popped
      BY <1>2, <1>4, Nums DEF PopTop
    <2>2. bottomBar' = b /\ Mine' = Mine
      BY <1>1, <2>1 DEF bottomBar, Mine
    <2> QED
      BY <1>1, <1>2, <2>2, SameSegs, OwnerQuiet
  <1>5. CASE ~(b - top <= 0) /\ b - top # 1
    <2>1. opc' = "shrink" /\ popped' = get(buffer, b - 1) /\ top < b /\ top <= b - 1 /\ b - 1 < b /\ b - 1 \in Int
      BY <1>1, <1>5, Nums DEF PopTop
    <2>2. bottomBar' = b - 1 /\ Mine' = get(buffer, b - 1)
      BY <1>1, <1>2, <2>1 DEF bottomBar, Mine
    <2>3. /\ Contents # <<>> /\ Contents' = SubSeq(Contents, 1, Len(Contents) - 1)
          /\ Contents[Len(Contents)] = get(buffer, b - 1)
      BY <1>1, <1>2, <2>1, <2>2, PopsLast
    <2> QED
      BY <1>1, <2>2, <2>3, WonOwner, AsPop DEF AbsStep
  <1> QED
    BY <1>3, <1>4, <1>5

\* The race for the last object.
LEMMA PopCasPops ==
  ASSUME DequeInv, DequeInv', PopCas PROVE AbsStep
  <1>1. /\ opc = "popCas" /\ opc' = "restore" /\ segs' = segs /\ UNCHANGED <<bottom, b, got>>
        /\ \/ top = t /\ top' = t + 1 /\ popped' = get(buffer, t)
           \/ top # t /\ top' = top /\ popped' = popped
    BY DEF PopCas, bufferVars
  <1>2. /\ bottomBar = b /\ bottom = b - 1 /\ top <= b /\ popped = Nothing /\ b = t + 1 /\ t <= top
        /\ \A i \in Int : top <= i /\ i < b => get(buffer, i) # Nothing
    BY <1>1, InPop, Facts DEF Ends
  <1>3. bottomBar' = b - 1
    BY <1>1, <1>2 DEF bottomBar
  <1>4. top' >= b - 1
    BY <1>1, <1>2, Nums
  <1>5. Contents' = <<>>
    BY <1>1, <1>3, <1>4, ContentsAfter
  <1>6. CASE top = t
    <2>1. top < b /\ b - top = 1 /\ top \in Int /\ top <= top /\ top + 1 - 1 = top /\ 1 \in 1 .. 1
      BY <1>2, <1>6, Nums
    <2>2. popped' = get(buffer, top) /\ get(buffer, top) # Nothing
      BY <1>1, <1>2, <1>6, <2>1
    <2>3. Mine' = get(buffer, top)
      BY <2>2 DEF Mine
    <2>4. Contents \in Seq(Item) /\ Len(Contents) = 1 /\ Contents[1] = get(buffer, top)
      BY <1>2, <2>1, ContentsAre
    <2>5. Contents # <<>> /\ SubSeq(Contents, 1, Len(Contents) - 1) = <<>>
      <3> DEFINE c == Contents
      <3>1. c \in Seq(Item) /\ Len(c) = 1 /\ Len(c) \in Nat \ {0}
        BY <2>4
      <3> HIDE DEF c
      <3>2. <<>> \in Seq(Item) /\ Len(<<>>) = 0
        OBVIOUS
      <3>3. c # <<>>
        BY <3>1, <3>2
      <3>4. SubSeq(c, 1, 0) \in Seq(Item) /\ Len(SubSeq(c, 1, 0)) = 0
        BY <3>1
      <3>5. SubSeq(c, 1, 0) = <<>>
        BY <3>2, <3>4
      <3> QED
        BY <3>1, <3>3, <3>5 DEF c
    <2> QED
      BY <1>1, <1>5, <2>3, <2>4, <2>5, WonOwner, AsPop DEF AbsStep
  <1>7. CASE top # t
    <2>1. top >= b
      BY <1>2, <1>7, Nums
    <2>2. Contents = <<>>
      BY <1>2, <2>1, ContentsAre
    <2>3. Mine' = Empty
      BY <1>1, <1>2, <1>7 DEF Mine
    <2> QED
      BY <1>1, <1>5, <2>2, <2>3, WonOwner, AsPopEmpty DEF AbsStep
  <1> QED
    BY <1>6, <1>7

\* pop_bottom puts bottom back and returns.
LEMMA RestoreReturns ==
  ASSUME DequeInv, DequeInv', Restore PROVE AbsStep
  <1>1. /\ opc = "restore" /\ bottom' = b /\ opc' = "idle" /\ popped' = Nothing
        /\ top' = top /\ segs' = segs /\ got' = got
    BY DEF Restore, OwnerReturns, bufferVars
  <1>2. bottomBar = b - 1 /\ top = b /\ bottomBar' = b
    BY <1>1, Facts DEF Ends, bottomBar
  <1>3. top >= b /\ top >= b - 1
    BY <1>2, Nums
  <1>4. Contents = <<>> /\ Contents' = <<>>
    BY <1>1, <1>2, <1>3, ContentsAre, ContentsAfter
  <1>5. Mine' = Nothing
    BY <1>1 DEF Mine
  <1> QED
    BY <1>1, <1>4, <1>5, WonOwner, AsReturn DEF AbsStep

\* The steps of a stealer.
LEMMA StealerSteals ==
  ASSUME DequeInv, DequeInv', NEW s \in Stealer, StealerNext(s) PROVE AbsStep
  <1>1. UNCHANGED <<bottom, segs, opc, b, popped>>
    BY DEF StealerNext, StealStart, LoadTop, LoadBottom, LoadBuffer, Cas, Get, StealEnd, LoadBuffer2, StoreId,
           shared, ownerVars, bufferVars
  <1>2. bottomBar' = bottomBar /\ Mine' = Mine /\ \A i : get(buffer, i)' = get(buffer, i)
    BY <1>1, SameSegs DEF bottomBar, Mine
  <1>3. CASE Cas(s) /\ top = st[s]
    <2>1. pc[s] = "cas" /\ top' = top + 1 /\ got' = [got EXCEPT ![s] = get(buffer, top)]
      BY <1>3 DEF Cas
    <2>2. top < bottomBar
      BY <1>3, <2>1, StealerFacts
    <2>3. Contents # <<>> /\ Contents' = Tail(Contents) /\ Head(Contents) = get(buffer, top)
      BY <1>1, <1>2, <2>1, <2>2, TakesFirst
    <2> QED
      BY <1>2, <2>1, <2>3, WonStealer, AsSteal DEF AbsStep
  <1>4. CASE ~(Cas(s) /\ top = st[s])
    <2>1. top' = top /\ (got' = got \/ got' = [got EXCEPT ![s] = Nothing])
      BY <1>4 DEF StealerNext, StealStart, LoadTop, LoadBottom, LoadBuffer, Cas, Get, StealEnd, LoadBuffer2, StoreId,
                  shared
    <2>2. Contents' = Contents
      BY <1>2, <2>1, SameContents
    <2>3. CASE got' = got
      BY <1>2, <2>2, <2>3, WonSame DEF AbsStep
    <2>4. CASE got' = [got EXCEPT ![s] = Nothing]
      BY <1>2, <2>2, <2>4, WonStealer, AsReturn DEF AbsStep
    <2> QED
      BY <2>1, <2>3, <2>4
  <1> QED
    BY <1>3, <1>4

\* Each object is won by one pop or one steal, in the order of the deque: the deque
\* implements StealSpec.
THEOREM DequeWonOnce == Spec => WonOnce
  <1>1. Init => Abstract!Init
    <2> SUFFICES ASSUME Init PROVE Abstract!Init
      OBVIOUS
    <2>1. DequeInv
      BY DequeBegins
    <2>2. top = 0 /\ bottom = 0 /\ opc = "idle" /\ popped = Nothing /\ got = [s \in Stealer |-> Nothing] /\ 0 >= 0
      BY DEF Init
    <2>3. bottomBar = 0 /\ Mine = Nothing
      BY <2>2 DEF bottomBar, Mine
    <2>4. Contents = <<>>
      BY <2>1, <2>2, <2>3, ContentsAre
    <2>5. Won = [p \in Stealer \cup {Owner} |-> Nothing]
      BY <2>2, <2>3 DEF Won
    <2> QED
      BY <2>4, <2>5 DEF Abstract!Init, Won, Mine
  <1>2. DequeInv /\ DequeInv' /\ [Next]_vars => AbsStep
    <2> SUFFICES ASSUME DequeInv, DequeInv', [Next]_vars PROVE AbsStep
      OBVIOUS
    <2>1. CASE OwnerNext
      BY <2>1, QuietSteps, PublishPushes, PopTopPops, PopCasPops, RestoreReturns DEF OwnerNext
    <2>2. ASSUME NEW s \in Stealer, StealerNext(s) PROVE AbsStep
      BY <2>2, StealerSteals
    <2>3. CASE UNCHANGED vars
      <3>1. UNCHANGED <<top, bottom, segs, opc, b, popped, got>>
        BY <2>3 DEF vars, bufferVars, ownerVars
      <3>2. Contents' = Contents /\ Won' = Won
        BY <3>1, SameSegs DEF Contents, bottomBar, Won, Mine
      <3> QED
        BY <3>2 DEF AbsStep
    <2> QED
      BY <2>1, <2>2, <2>3 DEF Next
  <1>3. AbsStep => [Abstract!Next]_<<Contents, Won>>
    BY DEF AbsStep
  <1>4. Spec => []DequeInv
    BY Invariance, PTL DEF IInv
  <1> QED
    BY <1>1, <1>2, <1>3, <1>4, PTL DEF Spec, WonOnce, Abstract!Spec, Won, Mine
=============================================================================
