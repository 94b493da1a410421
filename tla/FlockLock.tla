------------------------------ MODULE FlockLock ------------------------------
(***************************************************************************)
(* flock's lock-free lock (lf_lock.h): a thread takes the lock by putting  *)
(* in a descriptor of its critical section, and who finds the lock taken   *)
(* runs that section too.  What makes it take effect once: the loads and   *)
(* stores of a section go through the descriptor's log (lf_log.h,          *)
(* lf_types.h), a store is a compare-and-swap on a tagged word (tagged.h), *)
(* and a descriptor that is helped is not reused (acquired_pool.h).        *)
(* The section here is  x = c.load(); c.store(x + 1); return x.            *)
(***************************************************************************)
EXTENDS Integers, FiniteSets

CONSTANTS
  Thread,
  Slot,        \* the memory of the descriptor pool
  Values,      \* the section counts modulo this
  CountBits,   \* bits of a tag's counter, 15 in the code
  FirstTag,    \* the tag of c at the start: 2, or what earlier stores have left
  Ops,         \* what each thread calls: sets of "try_lock", "with_lock"
  Survivor,    \* a thread that goes on whatever the others do
  MaxCalls     \* bound on the calls

ASSUME FlockAssumption ==
  /\ Slot \subseteq Nat \ {0} /\ Values \in Nat \ {0} /\ CountBits \in Nat \ {0}
  /\ FirstTag \in Nat \ {0}
  /\ Survivor \in Thread /\ MaxCalls \in Nat /\ MaxCalls <= Cardinality(Slot)

ASSUME OpsAssumption == \A t \in Thread : Ops[t] \subseteq {"try_lock", "with_lock"}

VARIABLES
  lck,         \* [d |-> slot, count |-> 0] if taken, else [d |-> 0, count |-> n]
  desc,        \* the descriptors
  free,        \* the slots that the pool may hand out
  retired,     \* <<slot, threads that were inside with_epoch then>>
  c,           \* the tagged word: val, tag
  ann,         \* announce_write: the tag each thread is about to compare, 0 if none
  pc, loc,
  todo,        \* bound: calls left
  effect,      \* history: for each call, the value its section loaded, None before its store
  result       \* history: what the last call of each thread returned

vars == <<lck, desc, free, retired, c, ann, pc, loc, todo, effect, result>>

None == -1
Null == [val |-> 0, tag |-> 0]     \* the word 0: an empty log entry
Mark == [val |-> 1, tag |-> 0]     \* skip_if_done_no_log stores 1
My(t) == loc[t]
Go(t, l, locals) ==
  /\ pc' = [pc EXCEPT ![t] = l]
  /\ loc' = [loc EXCEPT ![t] = [x \in DOMAIN @ \cup DOMAIN locals |->
                                  IF x \in DOMAIN locals THEN locals[x] ELSE @[x]]]
Jump(t, l) == pc' = [pc EXCEPT ![t] = l] /\ UNCHANGED loc
At(t, l) == pc[t] = l

Taken(d)   == [d |-> d, count |-> 0]
Count(n)   == [d |-> 0, count |-> n]
Locked(le) == le.d # 0
D(t)       == desc[My(t).d]              \* the descriptor whose section t runs

Init ==
  /\ lck = Count(0)
  /\ desc = [d \in Slot |-> [counter |-> 0, done |-> FALSE, acquired |-> FALSE,
                             log |-> <<Null, Null, Null>>, call |-> 0]]
  /\ free = Slot /\ retired = {}
  /\ c = [val |-> 0, tag |-> FirstTag] /\ ann = [t \in Thread |-> 0]
  /\ pc = [t \in Thread |-> "idle"] /\ loc = [t \in Thread |-> <<>>]
  /\ todo = MaxCalls /\ effect = [i \in 1 .. MaxCalls |-> None]
  /\ result = [t \in Thread |-> None]

-----------------------------------------------------------------------------
(* tagged.h.  A tag is 2 * counter + panic bit; its top half starts at     *)
(* TopBit.                                                                 *)

TagMod == 2 ^ (CountBits + 1)
ASSUME TagAssumption == TagMod \in Nat      \* so it is; the provers do not know ^
TopHalf(tag)  == tag >= TagMod \div 2
Panic(tag)    == tag % 2 = 1
NoPanic(tag)  == tag - (tag % 2)
IncTag(tag)   == IF (tag + 2) % TagMod = 0 THEN 2 ELSE (tag + 2) % TagMod
Announced     == {ann[t] : t \in Thread} \ {0}

\* Half of the tags have been used up, or one panicked: does a thread announce a tag
\* of the half that comes next, not below the new one?
Panics(old) ==
  LET new == IncTag(old) IN
  /\ TopHalf(old) # TopHalf(new) \/ Panic(old)
  /\ \E a \in Announced : TopHalf(a) = TopHalf(new) /\ a >= NoPanic(new)

\* The first count from new on that is not announced.
Unannounced(new, tags) ==
  LET seek[i \in 0 .. TagMod] ==
        IF i = 0 THEN new
        ELSE LET tag == seek[i - 1] IN IF tag \in tags THEN IncTag(tag) ELSE tag
  IN seek[TagMod]

-----------------------------------------------------------------------------
(* The section, run by its owner or a helper; My(t).after follows it.      *)
(* commit_value: the first to reach a log entry sets it, all use it.       *)

Commit(t, i, v) ==
  desc' = IF D(t).log[i] = Null THEN [desc EXCEPT ![My(t).d].log[i] = v] ELSE desc
Committed(t, i, v) == IF D(t).log[i] = Null THEN v ELSE D(t).log[i]

RunLoad(t) ==
  /\ At(t, "run") /\ Go(t, "commit load", [seen |-> c])
  /\ UNCHANGED <<lck, desc, free, retired, c, ann, effect, result>>

RunCommitLoad(t) ==
  /\ At(t, "commit load") /\ Commit(t, 1, My(t).seen)
  /\ Go(t, "load again", [x |-> Committed(t, 1, My(t).seen).val])
  /\ UNCHANGED <<lck, free, retired, c, ann, effect, result>>

RunLoadAgain(t) ==
  /\ At(t, "load again") /\ Go(t, "commit again", [seen |-> c])
  /\ UNCHANGED <<lck, desc, free, retired, c, ann, effect, result>>

\* Faulty RunCommitAgain: the store uses what this thread has seen.
RunCommitNothing(t) ==
  /\ At(t, "commit again") /\ Go(t, "next", [old |-> My(t).seen])
  /\ UNCHANGED <<lck, desc, free, retired, c, ann, effect, result>>

RunCommitAgain(t) ==
  /\ At(t, "commit again") /\ Commit(t, 2, My(t).seen)
  /\ Go(t, "next", [old |-> Committed(t, 2, My(t).seen)])
  /\ UNCHANGED <<lck, free, retired, c, ann, effect, result>>

\* next: the new tag.
RunNext(t) ==
  /\ At(t, "next")
  /\ IF Panics(My(t).old.tag) THEN Jump(t, "panic")
     ELSE Go(t, "announce", [tag |-> NoPanic(IncTag(My(t).old.tag))])
  /\ UNCHANGED <<lck, desc, free, retired, c, ann, effect, result>>

RunPanic(t) ==
  LET tag == Unannounced(IncTag(My(t).old.tag), Announced) IN
  /\ At(t, "panic") /\ Go(t, "announce", [tag |-> NoPanic(tag) + 1])
  /\ UNCHANGED <<lck, desc, free, retired, c, ann, effect, result>>

RunAnnounce(t) ==
  /\ At(t, "announce") /\ ann' = [ann EXCEPT ![t] = My(t).old.tag] /\ Jump(t, "skip?")
  /\ UNCHANGED <<lck, desc, free, retired, c, effect, result>>

\* skip_if_done_no_log.
RunSkip(t) ==
  /\ At(t, "skip?") /\ Jump(t, IF D(t).log[3] = Null THEN "store" ELSE "unannounce")
  /\ UNCHANGED <<lck, desc, free, retired, c, ann, effect, result>>

RunStore(t) ==
  /\ At(t, "store") /\ Jump(t, "mark")
  /\ IF c = My(t).old
     THEN /\ c' = [val |-> (My(t).x + 1) % Values, tag |-> My(t).tag]
          /\ effect' = [effect EXCEPT ![D(t).call] = My(t).x]
     ELSE UNCHANGED <<c, effect>>
  /\ UNCHANGED <<lck, desc, free, retired, ann, result>>

RunMark(t) ==
  /\ At(t, "mark") /\ desc' = [desc EXCEPT ![My(t).d].log[3] = Mark] /\ Jump(t, "unannounce")
  /\ UNCHANGED <<lck, free, retired, c, ann, effect, result>>

RunUnannounce(t) ==
  /\ At(t, "unannounce") /\ ann' = [ann EXCEPT ![t] = 0] /\ Jump(t, "done")
  /\ UNCHANGED <<lck, desc, free, retired, c, effect, result>>

RunDone(t) ==
  /\ At(t, "done") /\ desc' = [desc EXCEPT ![My(t).d].done = TRUE] /\ Jump(t, "clear")
  /\ UNCHANGED <<lck, free, retired, c, ann, effect, result>>

RunClear(t) ==
  /\ At(t, "clear") /\ Jump(t, My(t).after)
  /\ lck' = IF lck = Taken(My(t).d) THEN Count(D(t).counter + 1) ELSE lck
  /\ UNCHANGED <<desc, free, retired, c, ann, effect, result>>

Running == {"run", "commit load", "load again", "commit again", "next", "panic", "announce",
            "skip?", "store", "mark", "unannounce", "done", "clear"}

-----------------------------------------------------------------------------
(* A call: inside with_epoch from beginning to end.                        *)

Other == <<free, retired, c, ann, effect, result>>

Call(t) ==
  /\ At(t, "idle") /\ todo > 0 /\ todo' = todo - 1
  /\ \E op \in Ops[t] :
       Go(t, "allocate", [op |-> op, call |-> todo, current |-> lck])
  /\ result' = [result EXCEPT ![t] = None]
  /\ UNCHANGED <<lck, desc, free, retired, c, ann, effect>>

\* new_obj: the constructor leaves acquired as it is in memory.
Allocate(t) ==
  LET le == My(t).current IN
  \E d \in free :
     /\ At(t, "allocate")
     /\ desc[d].call = 0 => \A e \in free : desc[e].call = 0 => d <= e
     /\ free' = free \ {d}
     /\ desc' = [desc EXCEPT ![d] = [counter |-> le.count, done |-> FALSE, acquired |-> @.acquired,
                                     log |-> <<Null, Null, Null>>, call |-> My(t).call]]
     /\ Go(t, IF ~Locked(le) THEN "cas" ELSE "still?", [mine |-> d, d |-> le.d])
     /\ UNCHANGED <<lck, retired, c, ann, effect, result>>

\* cas(current, my_descriptor), after with_lock has raised the descriptor's counter.
Cas(t) ==
  /\ At(t, "cas")
  /\ desc' = [desc EXCEPT ![My(t).mine].counter = My(t).current.count]
  /\ lck' = IF lck = My(t).current THEN Taken(My(t).mine) ELSE lck
  /\ IF My(t).op = "try_lock" THEN Jump(t, "reread")
     ELSE IF lck = My(t).current THEN Go(t, "run", [d |-> My(t).mine, after |-> "retire", won |-> TRUE])
     ELSE Jump(t, "reload")
  /\ UNCHANGED Other

\* try_lock: read the lock again, then done.
Reread(t) ==
  /\ At(t, "reread") /\ Go(t, "done?", [current |-> lck]) /\ UNCHANGED <<lck, desc, Other>>

\* Was the lock taken, or a helper even done?  Else give up.
TryTaken(t) ==
  /\ At(t, "done?")
  /\ IF desc[My(t).mine].done \/ My(t).current = Taken(My(t).mine)
     THEN Go(t, "run", [d |-> My(t).mine, after |-> "retire", won |-> TRUE])
     ELSE Jump(t, "retire")
  /\ UNCHANGED <<lck, desc, Other>>

\* with_lock: once more around the loop.
Reload(t) ==
  /\ At(t, "reload")
  /\ Go(t, IF Locked(lck) THEN "still?" ELSE "cas", [current |-> lck, d |-> lck.d])
  /\ UNCHANGED <<lck, desc, Other>>

-----------------------------------------------------------------------------
(* help_descriptor.                                                        *)

AfterHelp(t) == IF My(t).op = "try_lock" THEN "retire" ELSE "reload"

HelpStill(t) ==
  /\ At(t, "still?") /\ Jump(t, IF lck = My(t).current THEN "acquire?" ELSE AfterHelp(t))
  /\ UNCHANGED <<lck, desc, Other>>

HelpAcquireTest(t) ==
  /\ At(t, "acquire?") /\ Jump(t, IF D(t).acquired THEN "still now?" ELSE "acquire")
  /\ UNCHANGED <<lck, desc, Other>>

\* Faulty HelpAcquire: the descriptor is not marked.
HelpAcquireNot(t) == At(t, "acquire") /\ Jump(t, "still now?") /\ UNCHANGED <<lck, desc, Other>>

HelpAcquire(t) ==
  /\ At(t, "acquire") /\ desc' = [desc EXCEPT ![My(t).d].acquired = TRUE] /\ Jump(t, "still now?")
  /\ UNCHANGED <<lck, Other>>

\* Faulty HelpStillNow: helping was not reset, so nobody helps (lf_lock.h:148).
HelpNever(t) ==
  At(t, "still now?") /\ Jump(t, AfterHelp(t)) /\ UNCHANGED <<lck, desc, Other>>

HelpStillNow(t) ==
  /\ At(t, "still now?")
  /\ IF lck = My(t).current THEN Go(t, "run", [after |-> AfterHelp(t)]) ELSE Jump(t, AfterHelp(t))
  /\ UNCHANGED <<lck, desc, Other>>

-----------------------------------------------------------------------------
(* acquired_pool::retire, and the end of the call.                         *)

RetireTest(t) ==
  /\ At(t, "retire")
  /\ IF desc[My(t).mine].acquired
     THEN Jump(t, "retire later") /\ UNCHANGED free
     ELSE Jump(t, "return") /\ free' = free \cup {My(t).mine}
  /\ UNCHANGED <<lck, desc, retired, c, ann, effect, result>>

RetireLater(t) ==
  /\ At(t, "retire later") /\ Jump(t, "return")
  /\ desc' = [desc EXCEPT ![My(t).mine].acquired = FALSE]
  /\ retired' = retired \cup {<<My(t).mine, {u \in Thread : pc[u] # "idle"}>>}
  /\ UNCHANGED <<lck, free, c, ann, effect, result>>

\* Leaving with_epoch lets go of what was retired while t was inside.
Return(t) ==
  LET left == {<<r[1], r[2] \ {t}>> : r \in retired} IN
  /\ At(t, "return")
  /\ pc' = [pc EXCEPT ![t] = "idle"] /\ loc' = [loc EXCEPT ![t] = <<>>]
  /\ result' = [result EXCEPT ![t] = IF "won" \in DOMAIN My(t) THEN My(t).x ELSE None]
  /\ retired' = {r \in left : r[2] # {}}
  /\ free' = free \cup {r[1] : r \in {q \in left : q[2] = {}}}
  /\ effect' = [effect EXCEPT ![My(t).call] = None]
  /\ UNCHANGED <<lck, desc, c, ann>>

RunStep(t) ==
  \/ RunLoad(t) \/ RunCommitLoad(t) \/ RunLoadAgain(t) \/ RunCommitAgain(t) \/ RunNext(t)
  \/ RunPanic(t) \/ RunAnnounce(t) \/ RunSkip(t) \/ RunStore(t) \/ RunMark(t)
  \/ RunUnannounce(t) \/ RunDone(t) \/ RunClear(t)

CallStep(t) ==
  \/ Allocate(t) \/ Cas(t) \/ Reread(t) \/ TryTaken(t) \/ Reload(t)
  \/ HelpStill(t) \/ HelpAcquireTest(t) \/ HelpAcquire(t) \/ HelpStillNow(t)
  \/ RetireTest(t) \/ RetireLater(t) \/ Return(t)

Step(t) == (RunStep(t) \/ CallStep(t)) /\ UNCHANGED todo

Next == \E t \in Thread : Call(t) \/ Step(t)

Spec == Init /\ [][Next]_vars /\ WF_vars(Step(Survivor))

-----------------------------------------------------------------------------
(* Properties.                                                             *)

\* A section takes effect once and at one moment, whoever runs it and however many do:
\* a call that took the lock returns what its section loaded then, and a try_lock that
\* gave up has left no effect.
Sections == INSTANCE SectionSpec WITH
  val <- c.val,
  call <- [t \in Thread |->
             IF At(t, "idle") THEN [state |-> "idle"]
             ELSE IF effect[My(t).call] = None THEN [state |-> "called", op |-> My(t).op]
             ELSE [state |-> "done", x |-> effect[My(t).call]]]
SectionsAtomic == Sections!Spec

\* Who runs a section has a descriptor that is not back in the pool (lf_lock.h:42-46,
\* acquired_pool.h): its log stays what it was.
RunsLiveDescriptor == \A t \in Thread : pc[t] \in Running => My(t).d \notin free

\* The word that a lock's log has to hold is never 0, which stands for an empty entry
\* (lf_log.h:97-98; tagged.h:105 "avoid using 0").  No run checks it: TLC refutes it
\* with MCFlockLock for four calls, four slots and FirstTag = 6, the last tag before
\* the counter of the tags wraps.
WordNotNull == c # Null

\* Lock-freedom: a thread returns from its call even if every other one has stopped
\* inside its section.
SurvivorReturns == []<>At(Survivor, "idle")
=============================================================================
