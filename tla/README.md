# A TLA+ model of data-structure-benchmarks

The repository compares implementations of the same concurrent data structures:
lock-based, lock-free, on hardware transactions (HTM), on multi-word
compare-and-swap (MCAS), and on the flock library of lock-free locks. Everything
is a header under `src/`; `benchmarks.cpp` instantiates each structure, fills it
and lets threads run a random mix of its operations. This directory models the
synchronisation primitives, the structures on them and the driver that runs
them, checks the models with TLC and proves what matters most with TLAPS.

## 1. Inventory

| part | state | operations | what is hard | what makes it correct | modules |
|---|---|---|---|---|---|
| `include/htm/tm.h` | `fallback_lock`, `times_fallback`, the locals of a section, the transaction | `TM_BEGIN`, `TM_BEGIN_NO_CONFLICT`, `TM_END`, the spin lock | aborts at any instruction; threads under the lock next to threads in transactions; bounded retries | the lock excludes and isolates; `TM_END` undoes what `TM_BEGIN` did; the counter is exact; every section ends | `Tm`, `HtmArraySwap`, `TmProofs` |
| `include/mcas/mcas-htm*.h` | the words of a call | `cas`, `dcas`, `tcas`, `qcas` | failure by conflict; stores one by one under the lock | a call is atomic | `McasHtm`, `Mcas` |
| `include/mcas/mcas-lock*.h` | `global_cas_lock` | the same | plain loads do not take the lock and see a call half made | its users stay correct all the same | inside `McasDeque`, `McasList`, `McasArraySwap`, `McasTree` |
| `lockfree-mcas/Deque.h` (`Queue.h`, `Stack.h` call it) | two hats, doubly linked nodes | push and pop at both ends | Snark: empty is recognised by a self-linked node; the last node is wanted by two pops | linearizable; operations return | `McasDeque`, `DequeSpec`, `McasDequeProofs` |
| `lockfree-mcas/SortedList.h`, `HashMap.h` | doubly linked list with sentinels, also one per bucket | insert, remove, count; insert_or_assign, remove, find, contains | plain walks over a list that changes; four-word updates | links agree; one node per update; walks miss nothing; null is dereferenced at one known load only | `McasList`, `McasSortedList`, `McasHashMap`, `McasListProofs` |
| `lockfree-mcas/BinarySearchTree.h` | tree, plain links | insert, remove, get_min | updates of a child that another thread has replaced | ordered; linearizable with one writer | `McasTree` |
| `*/array_swap.h` | rows of element pointers | swap | two rows at once | permutation; atomic; no deadlock | `SwapSpec`, `McasArraySwap`, `HtmArraySwap`, and the structures' modules |
| `lockfree/Queue.h`, `Stack.h`, `SPSCQueue.h` | linked lists | push, pop | tail lag, ABA, a node published before it is filled | linearizable | `LockfreeQueues` |
| `lockfree/Deque.h` | Chase-Lev ring buffers, `top`, `bottom`, stealers | push_bottom, pop_bottom, steal, reclaim_buffers | owner against thieves at the last element; a buffer freed while read | every element goes to one taker | `LockfreeDeque`, `StealSpec` |
| `lockfree/DoublyLinkedList.h`, `SortedList.h`, `HashMap.h`, `BinarySearchTree.h` | marked links | insert, delete, lookup | helping; marks read apart from pointers | linearizable; a node leaves only when marked | `LockfreeList`, `LockfreeHashMap`, `LockfreeTree` |
| `lockbased/*` | one mutex per structure | the structures' operations | the delete that follows the unlock | sequential correctness | `LockbasedStructures` on `Sections` |
| `htm-lock/*` | one section per operation | the same | work outside the section | atomic operations | `HtmLockStructures` |
| `htm-mcas/*` | sections in the place of MCAS calls | the same | sections that trust what an earlier one saw | as lockfree-mcas | `HtmMcasStructures` |
| `include/flock-lib/flock`: locks | lock words, descriptors with logs, tagged words | `with_lock`, `try_lock_result`, loads and stores with a log | helpers run a critical section again, and the descriptor is reused | a section takes effect once; somebody gets on | `FlockLock`, `SectionSpec` |
| `include/flock-lib/flock`: epochs | announcements, lists of retired nodes | `with_epoch`, `retire` | reclamation against readers | nothing in use is freed | `Epoch`, `EpochProofs` |
| `lockfree-flock/*`, `flock-mcas/*` | structures on flock locks | the structures' operations | nested try locks; retired nodes still reachable | linearizable; no retired node linked or used | `FlockStructures`, `FlockMcasStructures` |
| `benchmark.h`, `benchmarks.cpp`, `main.cpp`, parlay's thread ids | threads, a barrier, the MWObject, a pool of ids | fill, run a workload stage by stage | the barrier is made and destroyed around every stage; ids are reused | all operations are measured; ids fit; the program ends | `Driver` |

Interactions: a structure calls the primitives (`TM_BEGIN`/`TM_END`, `dcas`,
`with_lock`) and otherwise shares memory by plain loads and stores. `mcas.h`
binds the four MCAS functions to one of four headers before any thread starts.
`PROJECT.json` lists every part with its status, and every hazard at its line.

The composition of the parts is layered, each layer relying on what the one
below has been shown to give: `Tm` shows that a section of `tm.h` is isolated
(`FallbackIsolated`, `Undisturbed`), so the structures of htm-lock and htm-mcas take
a section for a step, and `McasHtm` runs on `Tm` itself; `FlockLock` shows that a
section under a flock lock takes effect once, so `FlockStructures` runs a section
once, step by step; `Epoch` shows that a node retired during an operation stays until
the operation ends, so `FlockStructures` only forbids the use of nodes that were
retired before; `McasHtm` shows that an MCAS call is atomic or fails, perhaps
without a reason, and every structure on MCAS meets both.

All models assume that plain loads and stores of the aligned words take effect
one at a time and in program order. On the x86 processors the code is written
for (it includes `immintrin.h`), the atomic instructions the code uses fence the
stores that matter here. Where a build may drop or repeat a plain load, or split one of 16
bytes, the models have either build: `Reread` of `McasDeque`, `reload` of `McasList`, and
`Torn` of `LockfreeList`.

## 2. Modules of the primitives and of the structures on MCAS

### `Tm` — include/htm/tm.h over Intel RTM

A thread is at a program point `pc[t]`. `Enter` is the head of both macros
(lines 50-53, 113-118), `Xbegin`/`Subscribe` the transaction's start and its test
of the lock word, `Retry` the classification of an abort and the choice between
another try and the lock, `GiveUp` the early return of `TM_BEGIN_NO_CONFLICT`,
`Spin`/`Exchange` the lock, `CountLoad`/`CountStore` the two halves of
`times_fallback++`, `EndTest`/`Unlock`/`Xend` the three steps of `TM_END`. The
hardware is external: `tx`, `rset` and `buf` are the transaction, its read set and
its buffered stores; `Publish` makes stores visible and aborts every transaction
that has read or written one of the words; `HardwareAbort` aborts for any other
reason with any status the hardware may report. The critical section is any
sequence of loads and stores, so what is proved about `Tm` holds for every user.

`HTM_BACKOFF` is left out: it delays a retry by a random time and keeps the
plain counter `jcong`, on which nothing else depends.

### `HtmArraySwap` — htm-lock/array_swap.h on `Tm`

The section is fixed to the two loads and two stores of `swap`. `SwapAtomic` is the
refinement of `SwapSpec`: the array with a half-made exchange under the lock undone (`arrayBar`)
changes only by whole exchanges of called swaps, each once between its call and its return,
and no swap returns without one.

### `McasHtm` refines `Mcas` — include/mcas/mcas-htm.h and mcas-htm-no-if.h

`cas`, `dcas`, `tcas` and `qcas` differ only in the number of words, so a call is a
sequence of `[addr, old, new]`. `ShortCircuit` is the difference of the two headers:
`&&` stops at the first mismatch, `&` loads every word. `Mcas` is the promise:
in one step between call and return, all words match and change, or the call
fails, by a mismatch or by a conflict. With `ShortCircuit = {TRUE, FALSE}` every
call chooses for each word, which includes the behaviours of either header.

### `McasDeque` refines `DequeSpec` — lockfree-mcas/Deque.h on mcas-lock.h

The two halves of the code mirror each other, so an operation has a side.
Every plain load is a step. `McasCompare` is the comparison under
`global_cas_lock`, `McasStore` one store; loads of other threads run between the
stores. `McasConflict` (`MayConflict`) is the failure without a reason that the
HTM headers add. A node stands for its datum. `Reread` says whether the build
loads the hat again at lines 95 and 115.

`DequeSpec` is a sequence with atomic operations; a push takes effect with its
last store, a pop with its first, an empty pop when it sees the hat
unchanged. The sequence is the history variable `deque`, which only `McasStore` changes, at those
stores. `Settled` is the memory with the push that is storing undone, or the pop
finished; `LinksOK` says that it holds that sequence, seen from either side.

### `McasList`, `McasSortedList`, `McasHashMap` — lockfree-mcas/SortedList.h, HashMap.h

Both structures have the same doubly linked list, `insert_before` and
`delete_node`; `McasList` is that list, and the two users add their walks and
their tests; `MCMcasLists` runs either (`sort`). Every test of a link that the code
makes with a load of its own is a step, except two: lines 120 and 139 of
SortedList.h test two links of one node with two loads; links of a removed node
stay null, so one step has the same outcomes. `insert_after` is never called with
a successor other than the one `insert_before` passes on, and the test `next == head`
cannot hold, since the walk starts behind the head. `contains` is `find` without
the value.

Line 33 loads `next->prev` a second time after the test of line 28. A build may keep the first
load or make the second; `reload` is that choice, free for the list and for the bucket. In
the list the second load may be null, and the node written through it: the program dies,
and `crashed` stops every thread. In the bucket it cannot, as
`insert_before` is called with the tail only (HashMap.h:140), whose `prev` is never null.
`NullOnlyAtReload` says that there is no other place where null is dereferenced.

What is in the list (`InList`) is what a walk along `next` from the head can meet:
`Reach` is the least set of nodes with the start in it that `next` does not leave. So
written it can be reasoned about for links of any shape, and a walk's
remaining way is the same operator at another node. `LinksAgree` looks at the links as they will be when
the `qcas` under way has made all its stores (`Settled`).

`stable` is a history variable: the nodes with the key a walk looks for that have
been in the list since the walk was called. `CountMissesNothing` and
`FindMissesNothing` compare a walk's result with it at the moment it returns.

### `McasTree` — lockfree-mcas/BinarySearchTree.h

One step per load or cas; `structure.sync` says which MCAS is under it. On the
mutex a cas fails only where a word differs; on HTM (`Clash`) also when another
thread is active. Its `dcas` names a local variable as its first word, which
always matches, so it is a cas on the link. `get_min` tests the left child and moves to it by two
loads (`PeekLeft`, `PeekDown`), of which a removal may make the second null. Also the base of flock-mcas'
`BinarySearchTree.h`, which has the same walks with sections for the cas.

### `McasArraySwap` — lockfree-mcas/array_swap.h

`SwapSpec` is the promise, `McasArraySwap` implements it by a refinement mapping. The
swaps of lockbased and lockfree-flock are in `LockbasedStructures` and
`FlockStructures`, where a mutex or a nested `with_lock` covers each row.

### `LockfreeDeque` refines `StealSpec` — lockfree/Deque.h

The Chase-Lev deque: one owner and any number of stealers. Each load or store of
`top`, `bottom`, `buffer`, a stealer's `was_idle` and `id_last_used`, and of a slot
that both sides use, is a step; the owner's loads of words only it writes are
not. A buffer is known by its `id_`; `segs` keeps what each held, the deleted ones
(`freed`) included, so that a read of a deleted buffer is seen (`crashed`) and not
undefined. `Grow` and `Shrink` end in `reclaim_buffers` (`ReadIdle`, `ReadLastUsed`,
`Free`), as in the code.

`StealSpec` is a queue with one owner and many thieves. `got` is a history
variable: the object at index `top` when a stealer's CAS succeeds. `WonOnce` says
that these wins and the pops are those of a queue. What `steal` then returns is
another matter, because line 196 reads the slot after the CAS: that is the run
LockfreeDequeSteal.

A stealer sets `was_idle` before it reads the id of the buffer (lines 284-288), so
that last read may meet a deleted buffer; the model then stops, and
`NoUseAfterFree`, which no run checks, does not hold. `StolenFromLiveBuffer` is the
part of the scheme that does hold: while it may read an object a stealer is busy,
and its buffer is no older than the one it used last.

### `FlockLock` refines `SectionSpec` — flock's lf_lock.h, lf_log.h, lf_types.h, tagged.h, acquired_pool.h

One lock, one word `c` that it protects, and calls of `try_lock` and `with_lock` whose
section is `x = c.load(); c.store(x + 1); return x`. A thread allocates a descriptor
(`Allocate`), puts it into the lock by `Cas`, and runs the section from `RunLoad` to
`RunClear`; who finds the lock taken helps (`HelpStill` to `HelpStillNow`) and runs the
same steps on the other's descriptor. Each logged value is committed by the first
to reach its entry (`Commit`). The store is a compare-and-swap on value and tag;
`RunNext`, `RunPanic` and `RunAnnounce` are the search for a tag nobody has announced
when half of the tags are used up (tagged.h:68-102). `Allocate` leaves `acquired` as it
was in memory, as the constructor does. The pool gives a descriptor back at once
when no helper has acquired it and otherwise by epochs, of which the model keeps
what `Epoch` promises: not before those leave that were inside then. Memory that
has never been used is interchangeable and is taken in order.

`SectionSpec` is the promise: the section happens at one moment between call and
return, or not at all if a `try_lock` gives up. `effect` is a history variable for the
refinement mapping.

### `Epoch`, `EpochProofs` — include/flock-lib/flock/epoch.h

`with_epoch` announces the current epoch (`AnnounceLoad`, `AnnounceExchange`,
`AnnounceCheck`), `retire` is `Retire` to `Add`, with `advance_epoch` (`Test`, `ClearList`,
`Move`, `Tick`) and `update_epoch` (`UpdateLoad`, `Scan`, `Compare`, `UpdateCas`) inside. A
condition like that of line 131, which loads an announcement twice, is two
steps. When `update_epoch` is called depends on a count and a clock, so the model
may call it at any retire.

What structures do is reduced to their side of the contract: `New` links a node,
`Unlink` removes it from the structure, and `Retire` takes it once. `reach[t]` is the
largest set of nodes a thread may hold: all that were linked at some moment
since it announced itself. It is more than any structure hands out, so the
theorem holds for each that keeps the contract. flock-mcas/Deque.h does not: a
pop retires a node that its neighbour, or the other hat, still points at (lines 153, 186). So its
module has the retired lists and the pool of `epoch.h` itself, and gives nodes out
again (`SnarkRetire`, `SnarkNew`); section 6 says what comes of it.


## 3. The structures against sequential objects

### `Calls`, `Objects`

`Calls` is what the structures of this section share. Threads make calls (`Invoke`), take
steps on a heap of numbered nodes (`heap`, `root`, `freed`), and `Return`. A step that
uses null or a deleted node leaves the thread at "fault", and the program stops
there (`Dead`). `todo` bounds the calls of all threads together.

`lin` is a history variable: the set of ways to explain what has been observed. Each is
a state of the sequential object and, per thread, a call not yet in effect or the
result it must return. A return keeps the explanations that agree with it, after
letting calls under way take effect in any order. The structure is linearizable
exactly if `lin` never gets empty; no linearization point has to be chosen, which matters
here, where a queue's push may take effect in the step of another thread.

`Objects` are the sequential objects: sequences, maps, bags (lists), sets, rows, and
trees, which keep duplicates and whose removal goes on after the first copy
(lockbased/BinarySearchTree.h:68-110), so that it may take further ones.

### `Sections` and the modules on it

`Sections` has the sequential code of lists and trees, as one step each:
`LinkedBetween`, `Unlinked`, `TreeInsert`, `TreeRemove` (with the two ways in which the copies
of the code go on or stop after a removal), and `RowOrder`.

* `LockbasedStructures`: each operation is a step under the mutex; the `delete` that
  follows the unlock is another. `swap` locks its rows one by one.
* `HtmLockStructures`: the same in sections; `find` of the map returns in two steps.
* `HtmMcasStructures`: an operation is a step per section, and each load outside a
  section is a step: `get_min` walks without one and loads each child twice, `insert` of the tree tests the root in a
  section of its own, the map's walks begin at a node read before `TM_BEGIN`.
* `FlockStructures`: a walk is a step per load, a section is a step per lock, test and
  store. A `try_lock` on a lock that is taken fails (`Over`: start again). `Enter` notes the
  nodes retired so far (`gone`), the ones this operation must not see.
* `FlockMcasStructures`: the Snark deque with try locks on the hat and the node, and
  the tree of `McasTree` with sections for its cas. The deque's memory is that of `epoch.h`, reduced to
  what `Epoch` shows: `root.lists` has each thread's current and old list, `SnarkRetire` may move
  them once nobody is left who was inside `with_epoch` when the last one was retired, `root.pool` is
  what has been destructed, and `SnarkNew` takes a node from there or a fresh one.

### `LockfreeQueues`, `LockfreeList`, `LockfreeHashMap`, `LockfreeTree`

Each load, store and compare-and-swap of shared memory is a step. In the list a
compare-and-swap on a `DPointer` compares and sets pointer and mark together
(cmpxchg16b). Copying one is a load of 16 bytes or two of 8, as the build has it. Where the copy is
used only if the mark is clear, or only one half of it is used, the two are the same
(`LockfreeList` says why). Two copies are left: line 83, two loads in the model, and line 147 of
`fixforward`, one load (`Fix`) or, in the modes torn and apart, two (`FixPointer`, `FixMark`). In the map `getnext` reads and writes them apart; in the tree `cleanUp`
reads them apart and `seek` together. The keys of the map are in split order by `Reverse`
on `WordSize` bits (24 in the code).

### `MCStructures`

A behaviour has one structure, chosen at the start with a *mode*, which says what calls
may overlap:

| mode | calls | structures |
|---|---|---|
| any | all | lockbased and htm-lock (all), htm-mcas but the map, flock (all), lockfree queue and stack |
| any, shape only | all | lockfree tree |
| front, fifo | pushes and pops at the front; pushes at the back and pops at the front | flock-mcas deque, as `Stack.h` and `Queue.h` use it |
| ends | one thread pushes, one pops | SPSCQueue, as its name says |
| writer | one update at a time, among readers | mcas-lock, flock-mcas and lockfree tree; mcas-htm tree (shape only) |
| remover | one removal at a time, among other calls | htm-mcas map; lockfree list (shape only) |
| apart | torn copies; one removal and one insert at a time | lockfree list (shape only) |
| grow | no removals | lockfree map and tree, the lockfree list's inserts, LeafTree with get_min; mcas-lock and flock-mcas tree (shape only) |
| turns | one call at a time | lockfree map |
| any, in no run (section 6) | all | flock-mcas deque |
| torn, in no run (section 6) | torn copies; one removal at a time, among inserts | lockfree list |

A mode other than "any" is there because the code is not linearizable without
it: TLC refutes the wider mode, and section 6 says how. *Shape only* (`ShapeOnly`) means that
even in this mode `Linearizable` and `ContentsAgree` do not hold and only the other
properties are stated. Why: two inserts into the tree of lockfree-mcas or flock-mcas lose
one of them; in the HTM build of that tree a removal gives up at a conflict; in the lock-free list an insert whose predecessor is being removed is dropped, and a
removal may give up at a marked node though an equal key follows; in the lock-free tree with
overlapping removals a stale `cleanUp` takes out a key inserted since.

What a property can say of which structure: `WellFormed` is `TRUE` for the lock-free queues, stack and map, and for
rows, whose whole shape is in `Contents`. For the deque of flock-mcas it compares the two directions when no
call is under way. `NodesLive` speaks of the null or deleted nodes that `Fault` stands for, which only some steps
can meet (all loads of a link that may be null or of a node that may be gone), of the retired nodes a
flock operation holds, and of linked nodes being freed. It admits the known uses, `KnownFaults`, which
section 6 lists; there the program stops.

Three inputs are withheld as the code's users withhold them, or because the
code does something else than its name: LeafTree is a set, so it is not asked to
insert a key that is in; `get_min` is not asked of an empty LeafTree, where it
returns a key that nobody has set; the lock-free list is asked to remove keys that are
in, since `deleten` takes out the first node that is *not below* the key.

## 4. `Driver` — benchmark.h, benchmarks.cpp, main.cpp, thread_id_pool.h

`config` is any of the ten synchronizations with any of the eight algorithms, with 1
to 3 threads. `Stages` is what benchmarks.cpp runs for it: nothing where it prints that the
pair is not implemented, otherwise fills by main and calls of `benchmark()`. `BarrierInit`,
`Spawn`, `Start`, `Stop`, `Join`, `Destroy` and `Report` are the lines of `benchmark()`, `ArriveFirst`
to `LeaveSecond` the two waits of `worker()`, `Begin` an operation chosen by `Choice` from a random
number. The operation itself is `Operate`, one step, for the structures that have models
of their own, and step by step for the MWObject, which only exists here: four
counters incremented by `qcas`, under a mutex, in a section, or under a flock lock. A `qcas` on HTM
may fail though nothing has changed (`ObjectConflict`), and the loop of benchmarks.cpp:108
tries again. Nothing makes `Operate` happen: an operation may never return, as `contains` of the
hash map shows (section 6). `Terminates` says that the program ends *if* operations do
return: no other thing, the barrier, the join, the ids or the MWObject, keeps it from ending.

On flock's structures a thread gets an id with its first operation (`Acquire`,
`AcquirePop`, `AcquireFresh`) and gives it back when it ends (`Relinquish`). `IdsInRange` is what
`epoch.h` and `acquired_pool.h` need: they index arrays of `num_workers()` by it, and main.cpp
sets `PARLAY_NUM_THREADS` to the number of threads.

## 5. Runs

| run | instance | shows |
|---|---|---|
| HtmArraySwap | 2 threads, 3 rows, 2 overlapping pairs, 2 tries, 1 call each | the properties of `Tm` with a real client on both paths; swaps implement `SwapSpec` and return |
| McasHtm | 2 threads, 2 words, `dcas` in both argument orders and a `cas`, 2 calls each, 1 try | MCAS on HTM implements `Mcas` |
| McasDeque | 2 threads, 3 pushes, pops without bound | linearizable, links agree, operations return |
| McasArraySwap | 2 threads, 3 rows, 2 calls each | permutation, atomic, returns |
| McasLists | 2 threads, 2 keys, 3 operations on a list or bucket of one node, 2 values | links, the one place of null, contents, what walks see, return of all but `find` |
| LockfreeDeque | 2 stealers, 4 pushes, pops without bound, 2 steals, first buffer of one slot | every object is won once and in order; no buffer is deleted under a stealer about to read an object |
| Epoch | 2 workers, 3 nodes (reused), epochs to 4 | nobody's node is destructed; the epoch is held back |
| FlockLock | 2 threads, 3 calls, 3 descriptors, 2 values, tags of 2 bits that wrap | a section takes effect once; descriptors in use are not reused; the survivor returns |
| Structures | 29 structures, 38 pairs of a structure and a mode, 2 threads, 3 keys, 3 to 5 calls | results, contents, shape, no use of dead nodes but the known ones, no circle of waiting, no unmarked node lost from the list |
| Driver | 80 configurations, 1 to 3 threads, 2 or 5 operations | measured window, barrier, ids, MWObject; the end, if operations return |
| McasSortedListOrder | violation, with the constants of McasLists | an unsorted list |
| LockfreeDequeSteal | violation: 1 stealer, 3 pushes, 1 steal | an object stolen before its push has updated `bottom` |

Deadlock is checked in every run but FlockLock, where the calls run out.

**Bounds.** Two threads reach every race of the deque and the lists, since each
update touches at most three neighbouring nodes and an obstacle is one other
update at a time. Three nodes make a deque of length three, the shortest in
which a pop meets neighbours on both sides, and let both hats leave every node.
Three operations on a list of one node give an update two others to race with.
LockfreeDeque starts with `log_initial_size = 0` instead of 4: with a first buffer of
one slot, four pushes make the deque grow twice and shrink, which takes 16 times
as many objects with the value of the code; the constant is only an offset of
the sizes. Two steals make the two stealers race each other, or one meet the
buffer it has used before. In Epoch the third node is needed to reach a list that
is cleared (the first waits in `current`, then in `old`), and an epoch of 4 to clear it;
a node then comes back by `New`. One or two tries are enough to reach both paths,
the take-back of an explicit abort, and the boundary of `MAX_RETRIES`.

FlockLock has as many descriptors as calls (`FlockAssumption`), so that the pool never runs dry,
and its pool hands a used one out again as early as the code may. Two values make
an old value come back after two sections, so only the tag tells a late helper that it is late, and
a counter of two bits makes the tags wrap within these sections, where the
code's 15 bits take 2^15 stores.

Structures has 4 calls per behaviour: 5 for the stack, SPSCQueue and the deques under one
lock, which have few steps, 3 for those with the longest operations and for the two lists that begin with a
key in. Four calls of two threads are two updates in a row against two others, enough for a
walk to go stale twice, for a removed node to come back under a flock lock, and for
a tree to get an inner node with two children that is then removed. Three keys are the
least that make a tree with two children below the root; where no update replaces such a
node, two do. In the map, key 2 is left out (key 1 in the lock-free map, which then has
one bucket's two keys 0 and 2), since an operation on a bucket compares with equality only.
`WordSize` is 3, enough for the keys with their high bit.

The deque of flock-mcas starts with three values, so that four calls pop, retire and free a node and push it
again. In mode any, which no run includes, it starts where two further pops have already freed one.

In Driver, 5 operations do not divide by 2 or 3, 2 give each of 3 threads none; a range
of one value leaves each kind of operation its random number.

**Fairness.** A thread is scheduled (weak fairness of its steps): the operating
system does so. Where a call may fail without a reason, `McasCompare` and
`DcasCompare` are strongly fair: no thread meets a conflict in every one of its
tries. Without it a thread could lose for ever, which the code does not
exclude, as it has no backoff in `dcas`. `Tm` needs no such assumption: it
falls back to the lock after a bounded number of tries. The calls are bounded,
so another thread cannot overtake a waiting one for ever; the spin lock itself
is not fair. In Driver, main and each worker are weakly fair, and the compare and store of a `qcas` on HTM
(`ObjectSection`) strongly, as for the other structures on MCAS. That `Operate` is weakly fair is not
assumed of the system; it is the hypothesis of `Terminates`. In FlockLock only one
thread, `Survivor`, is: the others may stop at any step, also inside a section
with the lock taken, and the survivor must get done all the same. That is the
lock-freedom flock is made for, and nothing a mutex gives.


## 6. Findings

What the models show the code to do. Two runs expect a violation; the other items can each be
reproduced with a property that is stated in the modules and checked by no run (named in brackets; those of
`McasList` and its users with the constants of McasLists.cfg), by giving `Structures` in
Structures.cfg the value named, with `ContentsKept` or `ListKeeps`, by taking a triple out
of `ShapeOnly`, a call out of `KnownFaults`, or by a wider mode. None is about the primitives: `tm.h`, the MCAS headers, flock's
lock and its epochs hold what they promise (but for the tag, below).

*lockfree-mcas and flock-mcas*

* `SortedList.h`:28 — the run McasSortedListOrder: two inserts leave the list unsorted.
* `SortedList.h`:33 — `next->prev` is tested at line 28 and loaded again; a removal in between leaves
  null, and the insert writes through it (`NoNullDereference`). A build that keeps the first
  load does not, nor does either build of the map, which inserts before the tail only: that is
  `NullOnlyAtReload`, checked and proved.
* `HashMap.h`:139 — two `insert_or_assign` of one key leave two entries (`UniqueKeys`).
* `HashMap.h`:163, :198 — `find` and `contains` at a node that is removed under them meet null, which is
  neither the tail nor a node, and loop for ever, however they are scheduled (`FindsReturn`). The
  driver calls `contains` (benchmarks.cpp:631, 656), so a benchmark of the map may not end.
* `HashMap.h`:24 — the key is hashed as int in one place and as long in another; beyond 2^31 an
  insert gets the sentinels of another bucket. The driver draws smaller keys.
* `BinarySearchTree.h`:66 — `insert` loads the child again and replaces what another insert has put
  there, which is lost (`mcas-lock`, `tree`, `grow`). With overlapping removals the tree also uses null
  (mode any).
* `BinarySearchTree.h`:134, :154, :163 — on the HTM headers a cas that meets a conflict, of the root or in
  some branches of a node with one child, is not tried again: the removal is lost, though
  there is only one writer (`HtmTreeOnly`, `ContentsKept`).
* `BinarySearchTree.h`:250 — `get_min` tests `curr->left` and loads it again; a removal in between leaves
  null, which is then dereferenced (`KnownFaults`). The same in `htm-mcas/BinarySearchTree.h`:149, where
  `get_min` is in no section.
* `flock-mcas/Deque.h`:153, :186 — a pop retires a node that its neighbour, or the other hat, still names. Once
  the pool has given it to a push, a pop at the other end sets its hat to it; the push then
  finds itself at the hat, links the node to itself, and its value is lost (`FlockDequeOnly`,
  `ContentsKept`). It takes both ends. `Stack.h` and `Queue.h` use two operations that do not meet the old link, and
  are linearizable (modes front and fifo); the driver's workload of the deque is that of
  a queue (see *driver* below).
* `flock-mcas/BinarySearchTree.h`:229 — `get_min` reads nodes outside `with_epoch`.
* `lockfree-mcas/Deque.h` with `Reread = FALSE` (a build that drops the second load of the hat)
  refutes `DequeLinearizable`: a pop returns -1 from a deque that was never empty.

*lockfree*

* `Deque.h`:196 — the run LockfreeDequeSteal. `Deque.h`:287 — a stealer reads the id of a buffer that
  may be freed (`NoUseAfterFree`).
* `DoublyLinkedList.h` — `add` returns false at a predecessor that is being deleted, which
  `SortedList::insert` drops: the key is not in (mode remover). It goes on behind the predecessor of
  its walk whatever has come in between, so overlapping inserts may leave the list unsorted
  and `count` misses keys. `deleten` takes out the first node not below the key, the last sentinel
  included, and gives up at a node that is marked though an equal key follows it; `count` counts
  marked nodes.
* `DoublyLinkedList.h`:147 — `nextref` is a copy of a 16-byte `DPointer`. A build that makes it by two loads may
  pair the old successor of `laterNode` with a mark set since; an insert behind `laterNode` in between is
  then unlinked by line 153, though nothing has marked its node (`TornListOnly`, `ListKeeps`). A build
  that loads the pair at once keeps it.
* `HashMap.h`:30-45 — `getnext` copies pointer and mark one by one: as soon as a removal
  overlaps another call, it follows null.
* `BinarySearchTree.h`:280 — `cleanUp` reads the ancestor's edge again and swings whatever is there
  now: when another thread's help has already finished the removal, that is a key inserted since,
  which is gone (`StampTreeOnly`, `ContentsKept`). The driver passes
  one tree as both the read and the mixed tree (benchmarks.cpp:856), so "mixed" runs on what "update" has left.

*htm-lock and htm-mcas*

* `htm-lock/HashMap.h`:145 — `find` reads the value after `TM_END`, from a node that `remove` may have
  deleted: a thread reaches "fault".
* `htm-mcas/BinarySearchTree.h`:65 — `insert` tests the root in one section and walks from it in the
  next; if the root has gone, `prev` is null and is written through. In
  `htm-mcas/HashMap.h` a removal that begins at a node already removed takes out what another
  thread has inserted (mode any).

*flock*

* `tagged.h`:105 avoids a tag of zero, but when half of the tags have panicked the word may get tag
  and value zero, the empty entry of lf_log.h:97-98 (`WordNotNull`: 4 calls, 4 slots, `FirstTag = 6`).
* `tagged.h`:49 — `announce_write` is a global object sized by `num_workers()` before main.cpp:42 sets
  `PARLAY_NUM_THREADS`, so more threads than processors index past it.
* `LeafTree.h`:141, :189 — inserting a key twice adds a second leaf, of which `remove` takes one; `get_min`
  of an empty tree returns the sentinel's key, which nobody sets.

*driver*

* benchmarks.cpp:313-316 — both choices of the deque's workload come from one number, so
  `push_front` and `pop_back` are never called: `DequeChoice` has two outcomes.
* benchmarks.cpp:371 — each steal clones the stealer, which registers a further `buffer_tls` that
  is never removed; `reclaim_buffers` walks a list as long as the number of steals.
* benchmark.h:56 — the operations that do not divide by the threads are not done, but reported.
* benchmarks.cpp:301 — the fill draws keys up to 256 inclusive, of which the workloads, modulo 256,
  never name the last.

## 7. Proofs

`TmProofs`: for every set of threads, words and values and every number of tries.
The invariants the run checks are not inductive alone. `IInv` adds that a
transaction past its test has the lock word in its read set while that word is
clear (`Subscribed`), that a thread outside a transaction has no read set and no
buffer (`TxInv`), that an abort has been counted (`TriesInv`), and that a thread
between the load and the store of `times_fallback++` still has the current value
(`CountInv`). `Subscribed` is the heart: `Publish` to the lock word aborts every
transaction that has read it, and a transaction that reads it later sees it set.
Theorems: `TypeCorrect`, `LockExcludes`, `LockIsolates`, `RightPath`, `ExactCount`,
`BoundedTries` (the second part of `SectionsOK`), and `Undisturbed`: while a thread
keeps the lock, no other step changes a data word.

`TmProofs`, second and third part: the two clients of `Tm`, for every number of
threads, words, values and tries. `CallsAreSections` and `SwapsAreSections` show that the client's
steps are steps of `Tm`, so that the theorems above are theorems about `dcas` and `swap` as
well. On top of `Tm`'s invariant comes what a section knows. In a transaction
(`TxCall`, `TxSwap`): each word it has compared or loaded is in its read set and still
holds what was seen, or the transaction would have been aborted; the buffer has its own
stores and no others. Under the lock (`OwnCall`, `OwnSwap`): the words are as it
found them but for what it has stored itself, which is `Undisturbed` again. `CallsAtomic` and
`SwapsAtomic` are the refinements of `Mcas` and `SwapSpec`: the step that takes effect is
the commit of a transaction or the last store under the lock. A swap is pending in `SwapSpec` from its
call to that step, so it cannot return without its exchange, and cannot make two. A call that fails on a
mismatch has met it in a word that is still different. A call is a non-empty sequence of
different words (`OpsAssumption`), which is what a caller of `dcas` passes.

`McasArraySwapProofs`: for every number of threads, rows and calls. The
invariant ties the owner of `global_cas_lock` to the contents of its rows from
comparison to last store. `Refinement` shows each step to be a step of
`SwapSpec` or a stutter; `AlwaysPermutation` follows from each step being an
exchange.

`McasDequeProofs`: for every number of threads and nodes, with or without failures that
have no reason, two statements about the Snark deque. `LinksOK` is far from inductive: it says nothing of the threads. The
invariant `IInv` has four parts. *The memory* (`Shape`): the settled words are those of the
deque. Every node is fresh (free, or of a push that has not put it in), or in the deque, or dead, and
a dead node is linked to itself on both sides for good; the outer link of an end node is at a
dead node, and so is a hat when the deque is empty. *The words of a call*
(`CallOK`, `Stored`): a call is one of three, a push next to a node, a push into the empty deque, a pop, and
while it stores, the words stored have their new values and the others still those it compared.
*What has been read* (`HatRead`): a hat a thread holds is no longer private, and one it found
linked to itself is dead. *The nodes* (`NodesApart`, `Private`): the node of a push that has stored nothing is met by
nobody else, so no store of another thread touches its links.
The heart is that a pointer to a popped node may be arbitrarily old and
still do no harm: the call compares the hat, and a node that the hat has left never comes back
to it. `PushNextShape`, `PushFirstShape` and `PopShape` are the three steps on
a memory and its sequence, `Mirror` is what lets one proof serve both sides. `SeeHat` and `SeeLoop` say what a
plain load may conclude in the middle of somebody's call; `DequeImplements` uses the first: a
hat still at a dead node means that the deque is empty *now*. That is where `Reread` is needed, and
it is the hypothesis of that theorem; `DequeLinksOK` holds without it. Assumptions
(`DistinctAssumption`): the dummy, the non-thread and "no result yet" are values of their own.

`McasListProofs`: for every number of threads, nodes, keys, values and operations, every list at the
start, builds that load `next->prev` once or twice, and with `&&` or `&` in `qcas`. `IInv` is about who can see
which node. A node is *private* while it is free or its insert has not made its first store. Nothing public leads to it
(`PublicLinks`), so the plain stores to its links (`LoadHead`, `LinkNode`) disturb nobody;
steps of this kind are `Modest`, and `ModestReach` and `ModestOthers` do for all of them. In the list `prev` leads back
where `next` came from, but for the one store a `qcas` has yet to make (`Behind`, `Chain`). A node
outside has no links or is just losing them (`Gone`), so a word that a `qcas` has found as expected
is a word of the list, though the thread may have read it long ago: `QcasCompareStep` is where a stale place is told from a good
one. The six stores are then six lemmas (`InsertNext` ... `RemoveCutPrev`), on three facts about `Reach` (`ReachInsert`,
`ReachRemove`, `ReachFrame`) that hold for links of any shape.
For walks, `WalkOK` says that what `stable` has and the walk has not counted lies ahead of it (`From`), as long as the node it is
at is in the list or still leads somewhere (`Alive`): a store keeps that of every node, and one that makes a node lead
nowhere makes the walk start over (`WalksKept`).
`ListLinksOK`, `ListContents` and `ListWalks` state the run's properties for all these lists;
`ListNullOnlyAtReload` says the same of null: it is dereferenced at the second load of `next->prev` in an insert into the list
or nowhere. It has the hypothesis `ShortCircuit`, since `&` evaluates the words behind a difference too. The invariant
needs that `prev` is loaded before `next` in `delete_node`: a null `prev` then means a null
`next`, for good (`LoadPrevStep`). At the start, that the list is the whole path takes an induction over its
length; `AlongPath` does it by way of a least number (`LeastNumber`), which exists because inclusion of finite sets is well-founded.
Assumptions (`ListAssumption`, `ValueAssumption`): the sentinels and null are apart from the nodes, of which there
are finitely many and enough for the list at the start; "not found" is not a value. `Sorted` is false (section 6), and that every operation
returns is left to the run. When the program has died of a null, nothing moves any more, and
what the invariant said stays true.

`EpochProofs`: for every number of workers and nodes and every bound on the epoch.
`PinnedEpoch` is not inductive: a CAS may follow its scan much later. `ScanInv` adds
that whoever a scan has passed and is now inside `with_epoch` announces the
scanned epoch or a later one, because a thread that announces an older one finds
in `AnnounceCheck` that the epoch has moved. `PoolInv` adds that a node of an old
list is used only by threads that announced an epoch no later than its pool's,
and that a list being cleared is two epochs old. Together: `SafeReclamation`. The
assumptions are sequential consistency (announcements are made by an exchange)
and the structures' side of the contract.

`DriverProofs`: for every number of threads, of operations and of stages. `BarrierLive` says
only that whoever waits is counted; the invariant `BarrierInv` says in which of three rounds
the call of `benchmark()` is: `Gathering` (nobody has passed the first wait), `Running`, and
`Leaving` (all have come to the second). The barrier opens when as many wait as it was made
for, and the argument is that these are then *all* threads that live (`AllCame`: main has
spawned at most `n_threads` - 1, `Living`), so nobody is left behind in the round before.
`RoundsFollow` is that invariant; `Measured` and `BarrierLives` follow from it. `IdsApart` adds `IdsInv`: as many
ids have been made as are held or available, each once. A thread makes one only when none is
available; then all are held, by other threads of the round (`Room`), so the new one is
below `n_threads`. That none is given back between the look at the pool and the making of the
id is again a fact about rounds: ids are given back in `Leaving`, where nobody operates.
`CountersExact` is about the MWObject: `ObjectInv` says that while threads work counter i is the number
of pairs <thread, n> whose n-th operation has stored its word i (`Did`), and that the owner
of the mutex, the MCAS lock or the flock lock still sees in the words that it has not
stored what it loaded before. Every store adds one pair. When main reports, all pairs are there, and
that is `MWObjectExact`. A conflict (`ObjectConflict`) only throws away what was loaded.

`LockfreeDequeProofs`: for every number of stealers, pushes and steals and every size of the first
buffer. The properties are far from inductive. `DequeInv` is what makes the deque right:
where `top` and `bottom` are at each point of the owner (`Ends`), that the current buffer is never
full, so that no two objects share a slot (`Room`, with `Slots` for the arithmetic of `%`), that
its slots from `top` to the end hold the objects (`Held`), and that a stealer between its load of `bottom` and its
CAS has the deque's first object in view as long as `top` has not moved (`InView`). The end of
the deque is `bottomBar`: a pop has lowered `bottom`, but until it has read `top` the object
it wants is still there, and a stealer may win it. `BufferInv` is about `reclaim_buffers`: the deleted buffers are the
oldest (`Oldest`); a busy stealer holds a buffer no older than the one it used last, and
whoever the loop has asked holds one no older than `min_id` (`Spared`), also one that was idle
when it was asked, since it has loaded the current buffer after that. `Invariance` is both. `BuffersStay`
and `StealsFromLive` follow. `DequeWonOnce` is the refinement of `StealSpec`: a push takes effect
at the store of `bottom`, a pop at its load of `top` or, for the last object, at its CAS, a steal at its
CAS; growing, shrinking, reclaiming and all other steps leave the abstract deque as it is.
Assumptions: `StealerList` is the list of all stealers; `Nothing` is not an object; and
2 ^ `log_initial_size` is a positive number, which holds for every natural number and is
assumed only because the provers do not know `^`.

`FlockLockProofs`: for every number of threads, descriptors and calls, every width of the tags and every
first tag. `IInv` says first whose each descriptor is: in the pool, retired once, or some
thread's own (`Apart`), and that a descriptor in the lock belongs to a thread that has
put it there and has not yet let go (`LockOwned`, `LockOf`): a `try_lock` gives up only when what it reads is not its
descriptor, and then it is not in the lock either. A helper marks the descriptor *before* its last test of the lock.
So when that test finds the descriptor, the owner has yet to come to `retire` and will find the mark; then the
descriptor is retired, and waits for everyone who is inside `with_epoch` at that moment, the
helper among them (`SparedOf`, `Waits`). A helper that comes too late may mark a
descriptor that is in the pool or in use again; `new_obj` keeps that mark, which costs a detour through
the epochs and no more. `HelpersRunLive` follows.

The refinement of `SectionSpec`, `SectionsTakeEffectOnce`, needs more: what the log of a descriptor
says of the word `c`. `JInv` has it. `LogOf`: the entries are filled in order, and the mark is set only
after the store. `SectionOf`: as long as the section's store has not happened, what its log
has of `c` is what `c` still is, because a section that is not in the lock either has not been run
(`Blank`) or is done, so the one in the lock is the only one that can store. When it
does, its log has a tag below that of `c` (`Past`), and the store of every other thread that runs the
same section fails. `PhaseOf`: who leaves its call with "won" has the value that its section
loaded, and a `try_lock` that leaves without it left no effect. `RunOf` says how far
each runner, the owner or a helper, has followed the log. The step of the abstract section is the store that
succeeds, whoever makes it; it is the step of the owner's call.
The hypothesis is `[]TagsLast`: no tag reaches the last one before the counter
wraps. The argument compares tags, so it does not reach beyond; there the code relies on
the announced tags (`Panics`, `Unannounced`), and only TLC's instance, whose tags do wrap, covers that part.
Before a wrap a tag panics only for a thread whose section has been stored already (`PanicBehind`),
so the announcements do not matter. Assumptions: the first tag is not
0, the calls are `try_lock` and `with_lock` (`OpsAssumption`), and `TagMod` is a natural number, assumed because
the provers do not know `^`.

Only model-checked: liveness; `SectionsAtomic` of flock's lock across a wrap of the tags; and everything of MCStructures (its linearizability rests on a history of
sets of explanations, which is made for enumeration).

## 8. What is not modelled

* Vendored code: `cxxopts.hpp` and `include/flock-lib/parlay`, but for its thread ids;
  the structures use it for hashing, containers and allocation.
* flock: a section inside a section (the models of the structures take nested try locks as
  they come, each once), a helper's announcement of the epoch of the thread it helps
  (`set_my_epoch`, lf_lock.h:133-136; in `FlockLock` a helper keeps its own), locks taken again by their holder, logs beyond their first array, `clear`
  and `undo_retire` of the epochs; `spin_lock.h` and `no_tagged.h` are not compiled in.
* `lockfree/HashMap.h`: `initializeBucket` and `getsentinel`; every bucket exists from the start. The
  number of buckets never grows, because `setSize` is never stored.
* Stores that pass later loads (x86 store buffers), as of the new buffer in `lockfree/Deque.h`:136.
* Destructors, printing, the sanity checks, the parsing of options, timing, the scripts,
  the gem5 instructions of `mcas.h`, and the random delay of `HTM_BACKOFF`.

The components listed as partly modelled lack only what is named here.

By lines, the vendored parlay and cxxopts are two thirds of `src/`. Of the rest (the structures,
the primitives, flock, the driver) the `map` of `PROJECT.json` names about two lines in three; of the
rest of those most are constructors and destructors, declarations, printing, and the parts of
flock listed above. parlay's block allocator, from which flock's pools take their memory, is the
one vendored part that runs concurrently here; the models take an allocation for one that
returns memory nobody else has.
