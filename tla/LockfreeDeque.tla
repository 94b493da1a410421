---------------------------- MODULE LockfreeDeque ----------------------------
(***************************************************************************)
(* lockfree/Deque.h: the Chase-Lev work-stealing deque.  One owner calls   *)
(* push_bottom and pop_bottom; stealers call Stealer::steal.  The objects  *)
(* are in a circular buffer that the owner replaces by a larger or smaller *)
(* one; reclaim_buffers deletes the replaced ones.                         *)
(*                                                                         *)
(* Every access to a word that both sides use is a step, in program order  *)
(* (sequential consistency).  A buffer is known by its id_: each resize    *)
(* makes the next one, and next_buffer is the next id.  Only the owner     *)
(* writes bottom, buffer, unlinked and the segments, so its own loads of   *)
(* them are no steps.                                                      *)
(***************************************************************************)
EXTENDS Integers, Sequences

CONSTANTS
  Stealer,
  StealerList,       \* the stealers in the order of the reclaimer's id_list
  Owner,
  Nothing,           \* an empty optional, and a slot that was never written
  Empty,             \* marks a pop that has found the deque empty
  log_initial_size,  \* 4 in the code
  MaxPush,           \* bound: calls of push_bottom
  MaxSteal           \* bound: calls of steal

ASSUME SizeAssumption ==
  /\ log_initial_size \in Nat /\ MaxPush \in Nat /\ MaxSteal \in Nat
  /\ 2 ^ log_initial_size \in Nat \ {0}   \* arithmetic, which the provers do not do
ASSUME ListAssumption ==
  StealerList \in Seq(Stealer) /\ {StealerList[i] : i \in DOMAIN StealerList} = Stealer
ASSUME OwnerAssumption == Owner \notin Stealer

Object == 1 .. MaxPush    \* the i-th push pushes object i

ASSUME NothingAssumption == Nothing \notin Object
NoBuffer == -1

VARIABLES
  top, bottom,
  segs,       \* segs[id + 1]: the segment of the buffer with that id_
  freed,      \* the ids of the deleted buffers
  unlinked,   \* the oldest buffer not deleted, or NoBuffer
  was_idle, id_last_used,   \* the buffer_tls of each stealer
  opc, b, t,  \* the owner and its locals
  sent,       \* calls of push_bottom so far
  popped,     \* what pop_bottom is about to return
  min_id, head,             \* the locals of reclaim_buffers
  pc, st, sa, stolen,       \* each stealer and the locals of steal: t, a
  steals,     \* calls of steal so far
  crashed,    \* has a deleted buffer been read?
  got         \* history: the object that the steal each stealer is in has won

ownerVars   == <<opc, b, t, sent, popped, min_id, head>>
stealerVars == <<pc, st, sa, stolen, steals>>
tls         == <<was_idle, id_last_used>>
bufferVars  == <<segs, freed, unlinked>>
vars == <<top, bottom, bufferVars, tls, ownerVars, stealerVars, crashed, got>>

-----------------------------------------------------------------------------
(* Buffers.                                                                *)

buffer      == Len(segs) - 1     \* the id of the current buffer
size(id)    == Len(segs[id + 1])
get(id, i)  == segs[id + 1][(i % size(id)) + 1]

\* A segment of n slots that holds the objects lo .. hi-1 of the current buffer.
Segment(n, lo, hi) ==
  [k \in 1 .. n |->
     LET at == {i \in lo .. hi - 1 : i % n = k - 1}
     IN IF at = {} THEN Nothing ELSE get(buffer, CHOOSE i \in at : TRUE)]

\* resize, and the store of the new buffer.
Resize(n) ==
  /\ segs' = Append(segs, Segment(n, t, b))
  /\ unlinked' = IF unlinked = NoBuffer THEN buffer ELSE unlinked

TypeOK ==
  /\ top \in 0 .. MaxPush /\ bottom \in -1 .. MaxPush
  /\ unlinked \in NoBuffer .. Len(segs) /\ freed \subseteq 0 .. buffer
  /\ was_idle \in [Stealer -> BOOLEAN] /\ id_last_used \in [Stealer -> 0 .. buffer]
  /\ sa \in [Stealer -> 0 .. buffer]
  /\ popped \in Object \cup {Nothing}
  /\ stolen \in [Stealer -> Object \cup {Nothing}]

Init ==
  /\ top = 0 /\ bottom = 0
  /\ segs = << [k \in 1 .. 2 ^ log_initial_size |-> Nothing] >>
  /\ freed = {} /\ unlinked = NoBuffer
  /\ was_idle = [s \in Stealer |-> TRUE]
  /\ id_last_used = [s \in Stealer |-> 0]
  /\ opc = "idle" /\ b = 0 /\ t = 0 /\ sent = 0 /\ popped = Nothing
  /\ min_id = 0 /\ head = 0
  /\ pc = [s \in Stealer |-> "idle"]
  /\ st = [s \in Stealer |-> 0] /\ sa = [s \in Stealer |-> 0]
  /\ stolen = [s \in Stealer |-> Nothing] /\ steals = 0
  /\ crashed = FALSE
  /\ got = [s \in Stealer |-> Nothing]

-----------------------------------------------------------------------------
(* The owner.                                                              *)

\* pop_bottom and push_bottom return; their locals die.
OwnerReturns ==
  /\ opc' = "idle"
  /\ b' = 0 /\ t' = 0 /\ popped' = Nothing /\ min_id' = 0 /\ head' = 0

PushStart ==
  /\ opc = "idle" /\ sent < MaxPush
  /\ sent' = sent + 1
  /\ b' = bottom /\ t' = top
  /\ opc' = "grow"
  /\ UNCHANGED <<top, bottom, bufferVars, tls, popped, min_id, head, stealerVars, crashed, got>>

\* After a resize or none: reclaim_buffers, if there is an unlinked buffer.
ToReclaim(next) ==
  IF unlinked' # NoBuffer
  THEN opc' = "idle?" /\ head' = 1 /\ min_id' = Len(segs') - 1
  ELSE opc' = next /\ UNCHANGED <<head, min_id>>

Grow ==
  /\ opc = "grow"
  /\ IF b - t >= size(buffer) - 1 THEN Resize(2 * size(buffer)) ELSE UNCHANGED <<segs, unlinked>>
  /\ ToReclaim("put")
  /\ UNCHANGED <<top, bottom, freed, tls, b, t, sent, popped, stealerVars, crashed, got>>

\* Lines 214-221: each stealer's was_idle, and its id_last_used if it is busy.
ReadIdle ==
  /\ opc = "idle?"
  /\ IF head > Len(StealerList) THEN opc' = "free" /\ UNCHANGED head
     ELSE IF was_idle[StealerList[head]] THEN head' = head + 1 /\ UNCHANGED opc
     ELSE opc' = "lastUsed" /\ UNCHANGED head
  /\ UNCHANGED <<top, bottom, bufferVars, tls, b, t, sent, popped, min_id,
                 stealerVars, crashed, got>>

\* Faulty ReadLastUsed: the maximum.
ReadLastUsedMax ==
  /\ opc = "lastUsed"
  /\ LET id == id_last_used[StealerList[head]]
     IN min_id' = IF id > min_id THEN id ELSE min_id
  /\ head' = head + 1
  /\ opc' = "idle?"
  /\ UNCHANGED <<top, bottom, bufferVars, tls, b, t, sent, popped, stealerVars, crashed, got>>

ReadLastUsed ==
  /\ opc = "lastUsed"
  /\ LET id == id_last_used[StealerList[head]]
     IN min_id' = IF id < min_id THEN id ELSE min_id
  /\ head' = head + 1
  /\ opc' = "idle?"
  /\ UNCHANGED <<top, bottom, bufferVars, tls, b, t, sent, popped, stealerVars, crashed, got>>

\* Faulty Free: <= instead of <.
FreeThrough ==
  /\ opc = "free"
  /\ freed' = freed \cup unlinked .. min_id
  /\ unlinked' = IF unlinked <= min_id THEN min_id + 1 ELSE unlinked
  /\ IF popped = Nothing THEN opc' = "put" /\ UNCHANGED <<b, t, popped, min_id, head>>
                         ELSE OwnerReturns
  /\ UNCHANGED <<top, bottom, segs, tls, sent, stealerVars, crashed, got>>

\* Lines 223-227; a pop then returns.
Free ==
  /\ opc = "free"
  /\ freed' = freed \cup unlinked .. min_id - 1
  /\ unlinked' = IF unlinked < min_id THEN min_id ELSE unlinked
  /\ IF popped = Nothing THEN opc' = "put" /\ UNCHANGED <<b, t, popped, min_id, head>>
                         ELSE OwnerReturns
  /\ UNCHANGED <<top, bottom, segs, tls, sent, stealerVars, crashed, got>>

Put ==
  /\ opc = "put"
  /\ segs' = [segs EXCEPT ![buffer + 1][(b % size(buffer)) + 1] = sent]
  /\ opc' = "publish"
  /\ UNCHANGED <<top, bottom, freed, unlinked, tls, b, t, sent, popped, min_id, head,
                 stealerVars, crashed, got>>

Publish ==
  /\ opc = "publish"
  /\ bottom' = b + 1
  /\ OwnerReturns
  /\ UNCHANGED <<top, bufferVars, tls, sent, stealerVars, crashed, got>>

PopStart ==
  /\ opc = "idle"
  /\ b' = bottom /\ bottom' = bottom - 1
  /\ opc' = "popTop"
  /\ UNCHANGED <<top, bufferVars, tls, t, sent, popped, min_id, head, stealerVars, crashed, got>>

\* Faulty PopTop: the last object but one is taken for one that no steal can reach.
PopTopNoRace ==
  /\ opc = "popTop"
  /\ t' = top
  /\ IF b - top <= 0
     THEN opc' = "restore" /\ UNCHANGED popped
     ELSE popped' = get(buffer, b - 1) /\ opc' = "shrink"
  /\ UNCHANGED <<top, bottom, bufferVars, tls, b, sent, min_id, head, stealerVars, crashed, got>>

\* The load of top decides: empty, a race for the last object, or b-1 is ours.
PopTop ==
  /\ opc = "popTop"
  /\ t' = top
  /\ IF b - top <= 0
     THEN opc' = "restore" /\ UNCHANGED popped
     ELSE IF b - top = 1 THEN opc' = "popCas" /\ UNCHANGED popped
     ELSE popped' = get(buffer, b - 1) /\ opc' = "shrink"
  /\ UNCHANGED <<top, bottom, bufferVars, tls, b, sent, min_id, head, stealerVars, crashed, got>>

PopCas ==
  /\ opc = "popCas"
  /\ IF top = t
     THEN top' = t + 1 /\ popped' = get(buffer, t)
     ELSE UNCHANGED <<top, popped>>
  /\ opc' = "restore"
  /\ UNCHANGED <<bottom, bufferVars, tls, b, t, sent, min_id, head, stealerVars, crashed, got>>

Restore ==
  /\ opc = "restore"
  /\ bottom' = b
  /\ OwnerReturns
  /\ UNCHANGED <<top, bufferVars, tls, sent, stealerVars, crashed, got>>

Shrink ==
  LET n == b - t IN
  /\ opc = "shrink"
  /\ IF n <= size(buffer) \div 3 /\ n > 2 ^ log_initial_size
     THEN Resize(size(buffer) \div 2)
     ELSE UNCHANGED <<segs, unlinked>>
  /\ IF unlinked' # NoBuffer
     THEN ToReclaim("idle") /\ UNCHANGED <<b, t, popped>>
     ELSE OwnerReturns
  /\ UNCHANGED <<top, bottom, freed, tls, sent, stealerVars, crashed, got>>

OwnerNext ==
  \/ PushStart \/ Grow \/ ReadIdle \/ ReadLastUsed \/ Free \/ Put \/ Publish
  \/ PopStart \/ PopTop \/ PopCas \/ Restore \/ Shrink

-----------------------------------------------------------------------------
(* The stealers.                                                           *)

Goto(s, l) == pc' = [pc EXCEPT ![s] = l]
shared == <<top, bottom, bufferVars>>

StealStart(s) ==
  /\ pc[s] = "idle" /\ steals < MaxSteal
  /\ steals' = steals + 1
  /\ was_idle' = [was_idle EXCEPT ![s] = FALSE]
  /\ Goto(s, "top")
  /\ UNCHANGED <<shared, id_last_used, ownerVars, st, sa, stolen, crashed, got>>

LoadTop(s) ==
  /\ pc[s] = "top"
  /\ st' = [st EXCEPT ![s] = top]
  /\ Goto(s, "bottom")
  /\ UNCHANGED <<shared, tls, ownerVars, sa, stolen, steals, crashed, got>>

LoadBottom(s) ==
  /\ pc[s] = "bottom"
  /\ Goto(s, IF bottom - st[s] > 0 THEN "buffer" ELSE "end")
  /\ UNCHANGED <<shared, tls, ownerVars, st, sa, stolen, steals, crashed, got>>

LoadBuffer(s) ==
  /\ pc[s] = "buffer"
  /\ sa' = [sa EXCEPT ![s] = buffer]
  /\ Goto(s, "cas")
  /\ UNCHANGED <<shared, tls, ownerVars, st, stolen, steals, crashed, got>>

\* The object won is the one the deque has at st[s] now.
Cas(s) ==
  /\ pc[s] = "cas"
  /\ IF top = st[s]
     THEN top' = top + 1 /\ got' = [got EXCEPT ![s] = get(buffer, top)] /\ Goto(s, "get")
     ELSE Goto(s, "end") /\ UNCHANGED <<top, got>>
  /\ UNCHANGED <<bottom, bufferVars, tls, ownerVars, st, sa, stolen, steals, crashed>>

\* Line 196: the object is read after it has been won.
Get(s) ==
  /\ pc[s] = "get"
  /\ IF sa[s] \in freed
     THEN crashed' = TRUE /\ UNCHANGED <<pc, stolen>>
     ELSE /\ stolen' = [stolen EXCEPT ![s] = get(sa[s], st[s])]
          /\ Goto(s, "end") /\ UNCHANGED crashed
  /\ UNCHANGED <<shared, tls, ownerVars, st, sa, steals, got>>

StealEnd(s) ==
  /\ pc[s] = "end"
  /\ was_idle' = [was_idle EXCEPT ![s] = TRUE]
  /\ Goto(s, "buffer2")
  /\ UNCHANGED <<shared, id_last_used, ownerVars, st, sa, stolen, steals, crashed, got>>

LoadBuffer2(s) ==
  /\ pc[s] = "buffer2"
  /\ sa' = [sa EXCEPT ![s] = buffer]
  /\ Goto(s, "id")
  /\ UNCHANGED <<shared, tls, ownerVars, st, stolen, steals, crashed, got>>

\* Line 288; steal returns.
StoreId(s) ==
  /\ pc[s] = "id"
  /\ IF sa[s] \in freed
     THEN crashed' = TRUE /\ UNCHANGED <<pc, id_last_used, st, sa, stolen, got>>
     ELSE /\ id_last_used' = [id_last_used EXCEPT ![s] = sa[s]]
          /\ Goto(s, "idle")
          /\ st' = [st EXCEPT ![s] = 0] /\ sa' = [sa EXCEPT ![s] = 0]
          /\ stolen' = [stolen EXCEPT ![s] = Nothing]
          /\ got' = [got EXCEPT ![s] = Nothing]
          /\ UNCHANGED crashed
  /\ UNCHANGED <<shared, was_idle, ownerVars, steals>>

StealerNext(s) ==
  \/ StealStart(s) \/ LoadTop(s) \/ LoadBottom(s) \/ LoadBuffer(s) \/ Cas(s)
  \/ Get(s) \/ StealEnd(s) \/ LoadBuffer2(s) \/ StoreId(s)

\* What a program does after it has read a deleted buffer is not modelled.
Next ==
  \/ ~crashed /\ (OwnerNext \/ \E s \in Stealer : StealerNext(s))
  \/ crashed /\ UNCHANGED vars

Spec == Init /\ [][Next]_vars

-----------------------------------------------------------------------------
(* Properties.                                                             *)

\* The end of the deque while a pop is undecided.
bottomBar == IF opc \in {"popTop", "popCas"} THEN b ELSE bottom

Contents ==
  IF top >= bottomBar THEN <<>>
  ELSE [i \in 1 .. bottomBar - top |-> get(buffer, top + i - 1)]

Abstract == INSTANCE StealSpec WITH
  q   <- Contents,
  got <- [p \in Stealer \cup {Owner} |->
            IF p # Owner THEN got[p]
            ELSE IF popped = Nothing /\ opc = "restore" THEN Empty ELSE popped]

\* Each object is won by one pop or one steal, in the order of the deque: the
\* owner takes b-1 without a CAS only when no steal can reach it, an empty
\* deque is the only reason for an empty pop, and no resize loses an object.
WonOnce == Abstract!Spec

\* reclaim_buffers spares every buffer a stealer may read an object from: a
\* busy stealer holds a buffer no older than the one it last used.
StolenFromLiveBuffer ==
  \A s \in Stealer : pc[s] \in {"cas", "get"} => sa[s] \notin freed

\* The current buffer is never deleted, and unlinked is the oldest one that is
\* left (it is dereferenced without a test at line 223).
CurrentBufferLives ==
  /\ buffer \notin freed
  /\ unlinked # NoBuffer => freed = 0 .. unlinked - 1

\* Types, and reclaim_buffers leaves the buffers that are in use.
BuffersOK == TypeOK /\ CurrentBufferLives

\* An object is not stolen before push_bottom has updated bottom (Deque.h:142,
\* "This fence ensures that an object isn't stolen before we update `bottom`").
NotStolenEarly ==
  \A s \in Stealer : opc \in {"grow", "put", "publish"} => stolen[s] # sent

\* No deleted buffer is read (Deque.h:204, "We reclaim all buffers with id
\* strictly less than the minimum of the ids seen by the stealers").  No run checks it:
\* TLC refutes it with LockfreeDeque.cfg.
NoUseAfterFree == ~crashed
=============================================================================
