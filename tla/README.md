# TLA+ verification of accelerator

accelerator is a C++11 base library, much of it derived from folly: locks and
concurrent containers, thread pools, an event loop, task schedulers, reference
counted buffers, strings, generators, JSON, number conversion, compression,
logging. This directory holds TLA+ models of these parts, TLC configurations
that check them on small instances, and TLAPS proofs of the properties that
matter most. `PROJECT.json` lists every component, run, mutant, mapped source
line, finding, hazard and theorem. Paths below are relative to
`src/accelerator/`.

## 1. The system's parts

| Part | Module | What makes it hard |
|---|---|---|
| `thread/RWSpinLock` | `RWSpinLock` | calls of two atomic steps; a failed `try_lock_upgrade` leaves its bit set |
| `thread/SharedMutex` | `SharedMutex` | readers registered outside the word and moved into it by a writer; who is woken by whom |
| `thread/MPMCQueue` | `TurnSequencer`, `MPMCQueue`, `Storage` (the stride) | a waiter count that saturates, turns that wrap; a ticket is taken before its slot is ready |
| `thread/BlockingQueue`, `Semaphore` | `BlockingQueue` | element and token are posted one after the other; the semaphore can overflow |
| `thread/Baton`, `Futex` | `Baton` | a timeout racing a post; a wakeup delivered into the next lifetime |
| `thread/ProducerConsumerQueue` | `PCQueue` | indices that wrap; size estimates from two loads |
| `thread/AtomicLinkedList` | `AtomicLinkedList` | sweeps beside inserts; who is told the list was empty |
| `thread/AtomicUnorderedMap` | `AtomicUnorderedMap` | two threads insert one key; chains and storage in the same words |
| `thread/ConcurrentSkipList` | `SkipList` | readers without locks beside marking, unlinking, growth and recycling |
| `thread/Synchronized`, `LockTraits` | `Synchronized` | `LockedPtr`s that are moved, converted, unlocked for a scope; two locks at once |
| `Singleton` | `Singleton` | instance and weak pointer published in steps; registration that comes late |
| `concurrency/ThreadPoolExecutor`, `CPUThreadPoolExecutor` | `CPUThreadPool` | shutdown racing work; a queue too full for the poison tasks; reuse after stop |
| `concurrency/IOThreadPoolExecutor` | `IOThreadPool` | a task handed to a thread that is being removed; captured locals |
| `concurrency/ThreadedExecutor`, `thread/Waiter` | `ThreadedExecutor` | a new thread refers to a function in a local container |
| `event/EventLoop`, `io/Waker` | `EventLoop`, `EventDispatch` | items added while the list is swapped, a late stop; descriptors closed and reused between report and handling |
| `event/EPoll`, `EventBase` | `EventDispatch` | `epoll_ctl` that fails and is only logged |
| `event/EventLoopManager` | `Singleton` | one global, thread-local loops, a set that must not keep dead ones |
| `TimedHeap`, `Timeout` | `TimedHeap` | stale entries must be skipped, live ones not |
| `scheduler/DAG`, `ParallelScheduler` | `Schedulers` | counts decremented by threads that race; tasks that throw |
| `scheduler/PeriodicScheduler` | `Schedulers` | a pass works with a time that is already past |
| `LogBase`, `Logging` | `Logger` | two ways into one file that is renamed meanwhile |
| `io/RecordIO`, part of `FileUtil` | `RecordIO` | short writes, crashes, data that looks like a record |
| `io/IOBuf`, `IOBufQueue` | `IOBuf`, `IOBufQueue` | sharing decided from flags that may lag; four ways to free; memory shared by a split |
| `io/Cursor` | `Storage` | places at the borders of buffers; a cached "maybe shared" |
| `EvictingCacheMap` | `EvictingCacheMap` | hooks that call the map or throw in the middle of an eviction |
| `FBString` | `FBString`, `FBStringRefs` | three representations, arguments that alias the string, counts between threads |
| `Arena`, `SArray` | `Storage` | rounding; views that share memory of different capacity |
| `dynamic`, `json` | `Json` | assignments that throw between destroy and construct; text that must read back |
| `gen/` | `Gen`, `Strings` | any operator may stop or throw; chunks that cut a line or a delimiter |
| `compression/` | `Encodings` | room that runs out, input cut anywhere |
| `Range`, `String` | `Strings` | the uninitialised byte set; words of characters; escapes |
| `Base64`, `Unicode`, `Uri`, `Bits`, `io/Path` | `Encodings` | edges of ranges of bytes and words |
| `Conv` | `Conv`, `DoubleText` | overflow at the width's edge |
| `double-conversion/` | `DoubleText` | words that round, errors that add up, ties |

### Interactions

The pools put tasks into a `BlockingQueue` over an `MPMCQueue`, whose slots sleep
on `TurnSequencer`s; their thread list is under a `RWSpinLock`, their threads
announce themselves through `Baton`s. The IO pool's threads run `EventLoop`s,
which the `EventLoopManager` makes, which keep deadlines in a `TimedHeap` and
are woken by a `Waker`. `ParallelScheduler` and `PeriodicScheduler` feed an
executor. The logger's queue is an `AtomicLinkedList`. `IOBufQueue` and `Cursor`
are users of `IOBuf`, and compression and `RecordIO` are users of both. `json`
reads and writes `dynamic`s with the help of `Conv` and `double-conversion`.

Some modules are composed: `Logger` runs over an instance of
`AtomicLinkedList`; `Json` extends `Conv` and uses `DoubleText` and `Encodings`;
`EventDispatch` runs over the map that `TimedHeap` is shown to implement.
Elsewhere a component uses another one through what that one was shown to do: a
`waitForTurn` is a guard in `MPMCQueue` because `TurnSequencer` shows that nobody
sleeps through their turn; the inner queue of `BlockingQueue` is atomic because
`MPMCQueue` implements `FifoQueue`; `take` is a guard on a nonempty queue in
`CPUThreadPool` because `BlockingQueue` strands no element; the loop of a thread
of the IO pool never misses a callback because `EventLoop` shows so; blocks know
their users in `IOBufQueue` and in cursors because `IOBuf` shows that the counts are
right.

## 2. How the modules are built

**State machines.** Each module has the component's state as variables, one
action for each atomic step of an operation, and `Next`. Code that only reads,
spins or logs is left out. A compare-and-swap loop is the one step in which it
succeeds, because what it decides depends only on the value it swaps; a failed
attempt stutters. A component that is used by one thread at a time has one
action for each call. Atomic operations are sequentially consistent:
reorderings that `memory_order_acquire` and `memory_order_release` would allow
are not modelled.

**Functions.** Code without state of its own (text, numbers, encodings,
pipelines, cursors, arrays) is operators, in the shape of the code's loops and
early returns. A property compares them with a reference definition that is
not written that way: a search with the least place where the text matches, a
conversion with the number the text denotes, a pipeline with what its
operators promise one after the other. An exception is a result of its own.
In `MCAlgorithms` a behaviour begins one call with one input and returns from it;
the properties of functions are about the returning step.

**Undefined behaviour** is a choice over what may happen. Where a function is
called through a dangling reference, the model lets it work or sets a flag
(`wild`, `astray`) after which the behaviour is not followed; the properties
speak of the behaviours in which the reference still works, and a run of its
own shows that it can be dangling. A byte set that is read before it is
written has any content (`Strings`).

**Suites.** Components that do not interact share a TLC run. `MCThreads`,
`MCWakeups`, `MCQueueMutex`, `MCExecutors`, `MCStructures` and `MCAlgorithms`
choose in `Init` which part a behaviour runs, in a variable `part` that never
changes, so the states add up and do not multiply. Each property is then that
of its part, and fairness is stated for the part's own actions. Definitions
marked `\* mutant` are changed forms of the definition after them; with each of
them in its place TLC finds the property that `PROJECT.json` names violated.
The map of `PROJECT.json` names the definitions that between them cover the modelled
lines; a helper whose lines lie within another definition's may be missing in it.

**Scaled formats.** Widths are constants or smaller than in the code, in the
proportions on which its arguments rest: a double has 4 significant bits and 4
of exponent (53 and 11 in the code), a single 2 and 3, a `DiyFp` 14 (64), a
bigit 4 bits in a chunk of 8 (28 in 32), `int64_t` in `Json` 8
bits, which is longer than a double's significand as in the code. In these formats every
number, every boundary between two numbers and every digit count is tried. The
table of cached powers is recomputed for the width, since the code's own is
for 64 bits; a wrong digit in that table would not be noticed here.

## 3. Modules

### Locks, queues and wakeups

**`RWSpinLock`** (`thread/RWSpinLock.h`). `bits` is `bits_`, `pc` what each thread
does with the lock. `TryLockShared`/`BackOff`, `UnlockAndLockShared`/`Finish...`
and `UnlockAndLockUpgrade`/`Finish...` are the calls of two atomic operations. The
RAII holders only make these calls.

**`TurnSequencer`** (`thread/MPMCQueue.h`). One thread for each turn, as in
`MPMCQueue`. `state` is `state_`, taken apart into the turn, `TurnMod` wide, and
the waiter delta, which saturates at `MaxDelta`; `seen` is the thread's copy of
it, `at` its place. `Register` is the compare-exchange that records a waiter,
`FutexWait` compares again inside the kernel, `CompleteTurn` is the
compare-exchange that moves the turn on, `FutexWake` wakes a channel, and
`Interrupt` is a signal.

**`MPMCQueue`** (same file) with **`FifoQueue`**. Each load and compare-exchange of
a ticket dispenser is a step; both sides run the same code on their own dispenser.
`FifoQueue` is what the class comment promises: one order of writes, each read
assigned the earliest unassigned element, perhaps before it is there.
`ImplementsFifo` maps `taken` to the pop ticket. `computeStride`, a pure function
of the capacity, is in `Storage`.

**`BlockingQueue`** (`thread/BlockingQueue.h`, `thread/Semaphore.h`). `queue` and
`sem` change one after the other. A post at `SemMax` is lost, as `sem_post` fails
and the code ignores it.

**`Baton`** (`thread/Baton.h`). Three lifetimes of one word, with posts whose
`futexWake` is still to come when the waiter has returned.

**`SharedMutex`** (`thread/SharedMutex.h`). `word` is `state_` by fields, `slots` the
deferred readers of this mutex, `th` each thread's call. Both priorities, tokens and
tokenless readers, timed waits, interrupted waits, and writers that give up while
they drain. A tokenless unlock looks through the slots in any order: the code
starts from a hint that may be anything. The reader count is modulo `Readers`, since it may
pass below zero while a slot makes up for it. `MCQueueMutex` extends the module for
`SharedMutexWritePriority` and instantiates it again, with `ReaderPriority` true, for
`SharedMutexReadPriority`.

**`PCQueue`** (`thread/ProducerConsumerQueue.h`). The load and the store of each
index are steps of their own, with the construction or destruction of a record
between them; `sizeGuess()` reads both indices in one of the two threads.

**`AtomicLinkedList`** (`thread/AtomicLinkedList.h`): `insertHead` as load and
compare-exchange, both sweeps as an exchange and a walk over the strand that was
taken. **`Logger`** (`LogBase.cpp`) uses it: `Log` writes at once or queues, the
log thread sweeps and writes, and a full file is renamed by whichever thread
finds it full. `bak` is `file.1`, `lost` what it held before.

**`Synchronized`** (`thread/Synchronized.h`, `LockTraits.h`). A call is a list of
mutex operations, loads and stores; `grants` is who holds which mutex how, `owner`
each thread's `LockedPtr`s and the rest of its call. Copies and swaps of two
objects lock both in the order of addresses, `acquireLocked` likewise.

**`Singleton`** (`Singleton.h`, `event/EventLoopManager.{h,cpp}`): objects of which a
process has one. `CreateInstance`, `Create`, `Publish`, `Check` and `Read` are the
steps of `get`, `get_weak` and `try_get`, with the fast path that takes no lock; a
creator may throw and a registration come late (`late`). For the manager,
`globalManager` is the atomic pointer, `user` each thread with its thread-local
loop, `loops` the tracked set; threads may end with and without `clearEventLoop()`.

### Executors, event loop and schedulers

**`CPUThreadPool`** (`concurrency/ThreadPoolExecutor.cpp`,
`CPUThreadPoolExecutor.cpp`). One owner resizes, joins, stops and destroys the pool
while clients add tasks and observers come and go. `owner` is the call under way
with its locals, `where` the place of each worker in `threadRun`. `fatal` is the
`ACCCHECK` that failed, `goesOn` a history flag: the owner used the pool after a
`stop()` or a call that threw.

**`IOThreadPool`** (`concurrency/IOThreadPoolExecutor.cpp`). Threads with event
loops of their own; tasks may add tasks. `frames` are the calls of `add` whose locals
still exist.

**`ThreadedExecutor`** (`concurrency/ThreadedExecutor.cpp`, `thread/Waiter.h`). The
control thread, its three lists, and the jobs' threads. `functions` are the jobs
whose function object still exists.

**`EventLoop`** (`event/EventLoop.cpp`, `io/Waker.cpp`): how the loop is entered,
woken, stopped, and sleeps. `pending` is `events_` and `callbacks_`, `batch` what the
loop has swapped out, `pipe` the bytes in the waker. `stop()` sets a flag and does
not wake the loop.

**`EventDispatch`** (`event/EventLoop.cpp`, `EPoll.cpp`, `EventBase.cpp`): what the
loop does with its events. `fdEvents` is the table of descriptors, `interest` the
epoll set, `deadline` the heap by its promise, `ready` what `wait` returned and is
still to be handled. Descriptors are closed and the lowest free one reused. The
handler is the application's and makes the calls that the loop's states imply.

**`Schedulers`** (`scheduler/`). A graph: every one with up to `MaxEdges`
dependencies, cyclic ones included, each possibly stated twice, and any set of
tasks that throw. The periodic scheduler has a clock and a pass that reads it once.

**`TimedHeap`** (`TimedHeap.h`) with **`DeadlineMap`**, the map of deadlines it
promises to be. Deadlines are compared as the code compares them; the `repeat` flag
is only carried along for the event loop, and is left out.

### Buffers, files and containers

**`IOBuf`** (`io/IOBuf.h`, `IOBuf.cpp`). `buf` are the objects with their links and
flags, `block` the buffers with their `SharedInfo`, `storage` what is in use of each
object's own allocation (`kIOBufInUse`, `kDataInUse`). The user keeps the head of
each chain, writes only where `isSharedOne()` is false, and remembers in `val` what
every IOBuf should contain. `createChain`, `cloneCoalesced`, `makeManaged` and copy
assignment are sequences of the modelled calls. `moveToString` copies a buffer's
content, forgets the buffer and frees nothing: such buffers are in `lost`.

**`IOBufQueue`** (`io/IOBufQueue.cpp`). A chain is a sequence of windows on blocks;
`want` is what the calls should have put there. With `Careful` the user packs and
prepends only where the IOBuf is not shared.

**`RecordIO`** (`io/RecordIO.cpp`, the vector loop of `io/FileUtil.cpp`). A cell of the file is
a magic number, a header or data. Threads reserve a place, write it by `pwritev`s that
may be short or fail, and die; another process opens the file after them; a reader
looks for magic numbers and checks hashes, which are ideal.

**`AtomicUnorderedMap`** (`thread/AtomicUnorderedMap.h`). `slots` are the words with
head, next and state; allocation tries near slots first and gives up after
`MaxTries`. **`SkipList`** (`thread/ConcurrentSkipList.h`, `-inl.h`): nodes with their
layers, marks and locks, the recycler, and one action for each access another
thread can observe; `seen` collects what was in the set while a call ran.

**`EvictingCacheMap`** (`EvictingCacheMap.h`). `lru` and `index` are the list and the
hash index; `frames` the calls under way, nested through hooks.

**`FBString`** (`FBString.h`) has the three categories with scaled limits, growth and
copy-on-write, and operations as functions from memory to memory; **`FBStringRefs`**
is the reference count of a block that threads share, one atomic access at a time.

**`Storage`**: cursors and appenders (`io/Cursor.h`), `Arena`, `SArray`, and the
stride of an `MPMCQueue`, as functions.

### Text, values and numbers

**`Strings`**: searches and cuts (`Range.h`, `Range.cpp`); splitting, joining,
hexadecimal, URI escapes, trimming, lower case by words (`String.h`, `String.cpp`);
the splitting and file parts of `gen/`, with chunks, short reads and short writes.
**`Gen`**: every source, operator and sink of `gen/`, as handlers that answer
"more", "stop" or "throw".

**`Encodings`**: `Bits.h`, UTF-8, Base64, zlib streams and codecs over an abstract
zlib that holds bytes back and runs out of room, `io/Path`, `Uri`.

**`Conv`**: integers to and from text, casts between widths, booleans.
**`DoubleText`**: `double-conversion`'s number formats, big integers and three digit
algorithms, digits to the nearest number, text in all modes, and the use of both in
`Conv.h`. **`Json`**: `dynamic` and the JSON printer and parser.

## 4. Runs

| Run | Instance | What it shows |
|---|---|---|
| `threads` | 3 threads with a spin lock; 4 turns, `TurnMod` 8, `MaxDelta` 2, 2 channels; a pool of 2 workers, 2 tasks, 3 calls, a queue of 2 | the lock excludes, an UPGRADED bit has an owner, a promotion is not starved; turns come in order, no sleeper is forgotten, every turn comes; the pool's books, join runs everything, calls return |
| `wakeups` | 2 producers, 2 consumers; 3 lifetimes of a baton; 2 adders to a loop, a pipe of 2 bytes; 2 loggers, files of 2 messages; 2 sweepers; pairs of skip list calls | no element is stranded; a baton's wait answers rightly and ends; the loop works everything off, in order, and stops; every message is written once and in order; skip list calls end |
| `queue_mutex` | 3 threads, 2 slots, 3 tickets a side; 3 threads, 2 deferred slots, both priorities | a slot is used in turn and by one thread, a promised ticket is served, "full", "empty" and `size()` are true at some moment of the call, the queue implements `FifoQueue`; exclusion of the mutex, each shared lock recorded once, the code's assertions, no lost wakeup |
| `executors` | 2 IO threads, 3 tasks; 2 jobs; all graphs of 3 tasks with 3 dependencies; a clock of 3 | tasks run once and in order, joins and destructors leave nothing behind and return |
| `structures` | 2 keys, 3 deadlines; 5 calls on 3 IOBufs; 4 calls on 2 queues; a ring of 3; a hash map of 3 slots, 3 threads; skip lists of 1 and 2 layers, 3 threads; 4 calls on a cache, 2 nested; 2 calls on 2 strings, 3 with a block by 3 threads; 3 writes by 2 threads, 1 crash | the heap is a map of deadlines; counts, rings, windows and contents of buffers; the ring hands over in order and its guesses err as documented; inserters of a key agree; skip list answers were true during the call and no destroyed node is reached; what is evicted, and once; a string keeps its characters; a reader finds every finished record and no other |
| `algorithms` | one call on every input of small sets; 2 threads with 2 `Synchronized`; 3 events, 2 descriptors, a clock of 2; 2 askers, 2 registrations; 3 threads with loops | every function agrees with its reference definition; locks are held as the `LockedPtr`s say and nobody waits in a circle; table, epoll set and deadlines agree; one instance, one manager |
| `cpu_pool_restart`, `cpu_pool_stop_tasks`, `io_pool_stop`, `threaded_function`, `queue_shared`, `string_alias` | small | the findings of section 6 |

**Why the bounds are enough.** Three threads at a lock are an owner, a thread that
backs off and one that observes both; turns 6 to 9 of modulus 8 wrap, a delta of 2
saturates with three turns to wait, and with two channels two sleepers share one.
Three tickets on two slots reuse a slot, and the threads block for a full and
for an empty queue. Three lifetimes let a late wakeup reach the next lifetime and
the one after it begin. A pipe of two bytes can be full while the loop is busy. A
task queue of two cannot take two poison tasks and a task. Five calls make,
clone, link, unshare, grow and write IOBufs in every order; a chain of three takes
all five of them, so what happens to such a chain later is in the six calls
that were run once. In a behaviour IOBufs are made in one way only (`makes`), and
clones of the same buffer are what makes them meet. Call counts (`MaxCalls`,
`MaxQueueCalls`) bound the depth, not the state: without one, an `IOBuf` instance of
two objects and two blocks of size two was checked to the end as well (1.08
million states).

A ring of three records is full with two and wraps within five writes. Three slots
of the hash map take three keys of which two collide and one wraps around to them,
so an insertion can find the map full. The skip list's calls are chosen so that each
pair which can meet at a node does: a removal next to an addition, to another
removal, to a search and to a scan, on one layer and with a tall node; `pop_back`; a
head that grows; and the end of the last `Accessor` while nodes wait in the
recycler. Two nested calls let a hook evict from inside an eviction. The strings
start and are resized to sizes of every category, on a limit and just above it. Two
writers and a crash
leave a hole, a cut header and cut data in the file; one payload looks like a
record of another file. Only one of the records of a behaviour is long.

Functions are called on all inputs up to a length over an alphabet that has one
character of each class the code tells apart, plus inputs on, under and over every
limit in the code: powers of two and ten, edges of UTF-8 ranges, the largest
integer of each width, the middle between every two neighbouring floating-point
numbers. A pipeline of two operators meets every pair of operators with every
source and sink. Three buffers have an inner one, and each may be empty. Three
events on two descriptors let a descriptor be closed and reused between the
report and its handling while another one waits. Two askers and two registrations
are what a second instance needs.

In `queue_mutex` the threads of the queue use blocking calls and one more kind of
calls (`KindSets`). A thread of the mutex keeps to the calls of one role, chosen in
`Init` freely up to three pairings that write- and read-priority need not repeat
(`PartsInit`). The unrestricted instance, 7.1 million states, was run once without
error and takes longer than the run should.

**Symmetry** is used in `queue_mutex` for threads and values, which its invariants
and step properties treat alike; that run has no liveness property.

**Deadlock** is checked in `threads` and `queue_mutex`. The other runs end when
their bounds are used up, when their one call is over, or where the program may
stop: a consumer waiting for an empty queue, a loop that was stopped. That threads
with `Synchronized` objects never all wait is an invariant of its own.

## 5. Fairness

Weak fairness only, and only for what the scheduler of a preemptive system gives: a
thread inside a call that is not blocked takes its next step. In detail:

- `threads`: a thread that backs off or promotes goes on and an owner releases.
  Acquisition has no fairness, since the header says that writers can starve. A
  thread need not come for its turn. Workers and the owner's call go on, tasks end.
- `wakeups`: waiter and poster go on; the loop runs and is entered again, adders
  finish their wake; the log thread and a thread inside `log` go on; so does a call
  on the skip list. Whether anything is added or logged is open.
- `executors`: tasks end, workers, control thread and the owner's call go on. No
  fairness for clients or for calls not begun.

Interrupted waits, timeouts, failed compare-exchanges and new calls have none.
That a stopped loop returns needs the poll timeout, which the loop has by default:
`stop()` does not write to the waker. `queue_mutex`, `structures` and `algorithms`
check safety only.

## 6. Findings

Each has a run that shows it and an entry in `PROJECT.json` with the line it
contradicts.

- A CPU pool that is resized after `stop()` can take a poison task that nobody
  counts and abort in `ACCCHECK(threadsToStop_-- > 0)`: a thread that leaves after
  its task counts down and leaves its poison in the queue.
- `CPUThreadPoolExecutor::stop()` leaves tasks in the queue; its header says that it
  finishes them.
- `IOThreadPoolExecutor::stop()` drops the callbacks of its loops; its header says
  that it behaves like `join()`.
- `ThreadedExecutor` starts a thread that refers to a function in a local container
  of the control thread, which may be gone when the thread runs it.
- `IOBufQueue::prepend`, and `append` with `pack`, write into memory that a `split`
  has made shared. `append(buf, len)` and `preallocate` ask first.
- `fbstring::assign` from a part of the string itself lets go of a shared block
  before it reads it; another thread's last copy may free it in between.

### Seen while modelling

Behaviour of the code that the models follow, which no text in the repository
contradicts clearly enough to make a run of it, or which lies outside the inputs
that the properties are about.

*Threads and executors.* `ParallelScheduler::run(false)` never returns, since only
the callback it leaves out would notify it; a second `run()` of a scheduler states
every dependency again and meets the source and sink of the first; a task that
throws leaves its successors waiting. A restarted `PeriodicScheduler` keeps the
stamps of the run before, so tasks wait for the old time to come round; an
executor that throws ends its thread. The callbacks of the IO pool capture locals of
`add` by reference. `setNumThreads` checks the sizes after it has let go of the
lock; observers are called under the lock, and after `stop()` they are not told of
threads that left after their task. A second waiter on a `Waiter` can miss a
`notify`. `scopedUnlock()` of a `LockedPtr` that came from a conversion locks again
with the policy's conversion, without holding the lock; `acquireLocked(a, a)` waits
for itself. A registration after a singleton's first use leads to a second instance
and destroys the first while raw pointers to it live; a creator that calls `get()`
waits for itself.

*Event loop.* Events handed over in the states `kToRead` and `kNext` are never put
into the poll set; adding a descriptor that is in it already fails with `EEXIST`,
which is only logged. `listenFds_` is never pruned, so `stop()` may remove a
descriptor that was reused, and is iterated without a lock. With
`event_lp_timeout` 0 the loop over due deadlines does not end; deadlines count
from `starttime()`. Of two heap entries with equal deadlines, `pop` may return the
repeat flag of the older one. A thread that ends without `clearEventLoop()` leaves
a dangling pointer in the manager's set.

*Concurrent containers.* In the skip list, `last()` may return the value of an old
head or read past a head's layers, when the head grows meanwhile
(`ConcurrentSkipList.h:400`), `Accessor::operator=` lets go of the old list before
it releases its reference in it, and `contains` may be followed by a `remove` that
fails while the node is still being linked. A loop over an `AtomicUnorderedMap`
may miss a key that another caller's `findOrConstruct` has returned.

*Buffers and files.* `IOBuf::moveToString` frees nothing. `IOBufQueue::split` and
`trimStart` that ask for too much throw after they have consumed everything.
`RWCursor::insert`, `reset` and the cursor's own `clone` leave `maybeShared_`
stale; an insert at the very start appends at the chain's end, one at the very end
moves the cursor to the head. `pushAtMost(Cursor, len)` throws rather than push
less; a `QueueAppender` with growth 0 does not end; `readTerminatedString` finds no
terminator of 128 and above; `operator-` may throw for equal places at the border
of two buffers. `SArray::append(self)` copies too much, and appending an array that
lies behind the size in the same memory zeroes it first. `Arena::roundUp` wraps
near `SIZE_MAX`. `ZlibStreamCompressor` flushes with
the last buffer's offset applied to the first one; its decompressor takes an empty buffer in the middle for an error. A
record embedded in another one is told apart only by `fileId`. `MemoryMapping`
accepts an offset that is not aligned (`MemoryMapping.h:49`).

*Logging.* `split()` takes the number of a rotated file from `Path::ext()`, which
keeps its dot, so that `atoi` gives 0: `file.1` is always overwritten, also by a
second thread that splits at the same time. A failed rename throws out of
`~LogMessage`. `~BaseLogger` joins a thread whose loop never ends.

*Containers and strings.* A cache with clear size 0, or larger than its limit, evicts
the key just set; hooks that set keys during `setMaxSize` leave it over its limit.
Inserting an `fbstring` into itself, and `s + std::move(s)`, read memory that was
moved or freed; `at()` of a constant string allows `n == size()`. `rfind` with the
cached skip misses matches. `uriUnescape` throws after it has appended part of its
result.

*Values and numbers.* `dynamic`'s arithmetic puts the integer first, so a double
minus an integer is the integer minus the double (`dynamic-inl.h:108`). Comparing an
integer with a double rounds; equal keys of the two types hash differently, and `<`
orders what `==` calls equal. Assigning from an own element destroys it first. JSON
accepts zero bytes that a comment calls banned (`json.cpp:639`); a recursion limit
of n allows n + 1 levels; `double_fallback` makes doubles of negative integers as
long as the largest; whole doubles from 2^63 on are written as integers that are
then refused. `utf8ToCodePoint` never decodes four bytes (`Unicode.cpp:101`, also in
`json.cpp`). Casts from negative to unsigned integers are unchecked (`Conv.h:97`).
The overload of `estimateSpaceNeeded` for a pointer to a string is never chosen
(`Conv.h:323`). Of a text in a power of two radix that needs an exponent the sign is
dropped (`double-conversion.cc:629`).
`nextPowTwo` above half the range shifts by the width. In `gen`, `apply` may return
false though no handler did (`take(0)`, `zip` with a short container); `seq(a, max)`
does not end.

## 7. Proofs

The theorems hold for every value of the constants that the named assumptions
allow. Where a module has one or two theorems they stand at its end.

**`ThreadProofs`, `RWSpinLock`**, for every finite set of threads (`ThreadsFinite`).
`RWInvariance` proves `TypeOK /\ Exclusion /\ BitsCount /\ NoOrphanUpgraded`
inductive; the theorems `ExclusionHolds` and `NoOrphanUpgradedHolds` follow, and
`NoNewReaderBesideUpgradeHolds`, a step property, uses the same invariant. None
of the parts is inductive alone: a compare-exchange that sees 0 proves nobody is in
only because the bits mean what `BitsCount` says, and clearing both low bits is
right only for a sole owner. The word is split into reader count and low bits
(`Fields`), so arithmetic is settled in four lemmas and the steps argue about
fields and owners.

**`ThreadProofs`, `TurnSequencer`**, for every turn width, delta width and number of channels
with `MaxDelta >= Channels` (`DeltaCoversChannels`, what the comment on
`kTurnShift` asks for), and fewer than `TurnMod` turns outstanding (the guard of
`Arrive`; 2^26 in the code). The invariant adds to `InTurn` and
`SleeperIsCovered`:
`Recorded` (a thread about to sleep holds a copy of the word in which it is counted
and which is not its turn) and `Window` (the turns waited for are distinct modulo
`TurnMod`). The heart is `CompleteTurnInv`: a delta counted down by one per turn
still covers a sleeper, and a saturated one stays large enough until the sleeper's
channel is next woken. `ModLemmas` has the facts about `%` it needs.

**`ThreadProofs`, `PCQueue`**: `RingCorrect`, for a ring of every size, any values and however
long it runs. `RingRight` speaks of wrapped indices; the inductive invariant counts
what was written and given back without wrapping, says that an index is such a
count modulo the size, that the records between the counts are those not yet taken
and that all others are dead. `ModLemmas` tells equal indices apart from equal
counts.

**`QueueProofs`, `MPMCQueue`**, for any threads and elements, every capacity and any number of
tickets (`QueueAssumption`), and every stride that sends `capacity` consecutive tickets
to different slots (`StrideAssumption`, which `Storage` checks of `computeStride`).
The inductive invariant `QueueInv` says of a call what it knows from its loads
(`Knows`): a ready ticket that is still the dispenser's next one may be used at once,
because turns of a slot only move on and the ticket's own turn cannot pass before it
is taken (`NotBefore`). It says of tickets that no two calls have the same one, that
the turn of each one taken has passed or a call has it (`Accounted`), and of slots that
the element there is the one written with the ticket (`Stored`). `SlotsServedHolds`
follows: the turn that the slot of a promised call is at is the turn of an earlier
ticket (`EarlierTicket`), which was taken, so by `Accounted` a call has it. For `AnswersTrueHolds`, `Measures` says which sizes a `size()` under way may still
report. `FifoHolds` is the refinement: a compare-exchange on a ticket is the step of
`FifoQueue`, a read uses the element the log has for its ticket, all else stutters.

**`QueueProofs`, `BlockingQueue`**, for any finite sets of producers and consumers
and any capacity up to the semaphore's range (`SizesAssumption`). `QueueTypeOK /\
NoStrandedItem` is inductive (`CoverInvariance`): a post can be lost only when the
semaphore alone covers the whole queue.

**`SharedMutexInvariant`, `SharedMutexProofs`**, for every finite set of threads and of
slots, fewer threads than the reader count can hold, and both priorities
(`SizesAssumption`). `IInv` sees a thread by what matters for safety (`Core`): one that
wakes others is already where it goes next, and sleeping does not count. Its parts:
`Solo`, the writer's and upgrader's bits have one owner each; `Owned`, where deferral
is off, a record in a slot that the writer has passed belongs to a reader that will
find it and take it back; `TokensHeld`, a record with a token has a thread with the
token; and `Counts`, the reader count is the number of threads that have a shared lock
or are about to give one back, less the slots in use, modulo `Readers`. Exclusion
is not inductive without the count: a writer reads 0 and enters, and that nobody
reads follows only because every slot in use then has an owner of its own. The count
may pass below zero in between, so it is stated modulo, and that a difference of 0
modulo `Readers` is 0 needs the bound on threads. `MutexSoundHolds` follows.
`SleepersAreOwedWakeHolds` speaks of states at rest; its invariant `WakeInv` of all: who sleeps
is owed a wakeup (`Owed`), that is, either its wait bit is set and what it waits for
still holds or somebody is about to look at the bits, or somebody has cleared them
and is about to wake everyone. A writer that was woken alone stands in for those
that sleep behind it (`Stirs`) as long as it is awake: it takes the lock or sets
its bit again. `IInv` is used along the way: that the last reader to leave is the one
that wakes a draining writer is a fact about the count.

**`CPUThreadPool`**, for any finite set of threads, any tasks, calls and capacity
(`PoolAssumption`): `PoolSoundHolds` and `JoinRunsEverythingHolds`. `PoolSound` says
of the books only what can be seen between calls; the inductive invariant `PoolInv`
balances them at every step. The debt is `threadsToStop_` with the threads that have
counted it below zero and will count it up again (`Debt`); `Settled` says that debt,
threads on their way out and threads in `stoppedThreads_` are together as many as the
call under way still has to join, and that the list has as many more than it wants
to leave. Until the first `stop()` (`Joining`) a thread leaves only on poison,
and there is no more poison, in the queue, in hand or still to add, than debt: so the
check in `threadRun` holds and none is left over when a call returns. From `stop()`
on (`Ending`) every thread of the list is asked to leave, so each poison that a
thread meets is owed. For `JoinRunsEverythingHolds`, `Owing` says that a task added
before the join is done, is run, or stands in the queue before a poison; when the
call returns there is no poison left and no thread that runs. `Kept` says that no
task is lost, `Listed` which threads are in which list.

**`Singleton`**: `OneInstanceHolds`, for any threads (none of them 0, which stands for
nobody), calls and registrations, with a creator that may throw. The invariant
adds who holds the lock (`Locked`), which fields its owner has still to store
(`Fields`), how instances are bounded by registrations (`Counted`), and what a
thread that has passed the check relies on (`Past`, `Answers`). `OneManagerHolds`,
for any threads: whose each tracked loop is (`Owns`, `Tracked`) and which live.

**`TimedHeap`**: `Implements`, the refinement. For any keys and any deadlines after 0,
`TimedHeap` implements `DeadlineMap`. The mapping takes `map` for the deadlines;
dropping a stale entry is a stutter. A step of `pop` is right because of
`HeapSound`: the entry of every deadline that is set is still in the heap, so
nothing earlier is hidden behind the top.

**Only model-checked**: every liveness property (fairness and `ENABLED` are outside
the prover's reach); `Baton`, `IOThreadPool`, `ThreadedExecutor`,
`Schedulers`, `EventLoop`, `EventDispatch`, `Logger` with `AtomicLinkedList`,
`Synchronized`, and the buffers, files and containers, whose invariants speak of
sequences and chains that grow and shrink with the calls. What a recursive definition computes for every input needs induction over
data, which the installed provers cannot instantiate: the functions are
therefore checked on bounded inputs.

## 8. Hazards

`PROJECT.json` lists the forty that matter most, each at the line where it bites
and with the properties that would catch it. Three have no property: the two of
`ParallelScheduler` and the buffer that `moveToString` forgets (section 6), where
the code promises nothing that could be refuted. More of the kind are
covered by the suites and not listed: the hash map's full table, a Base64 or UTF-8
text cut short, the stride of a queue whose capacity is a multiple of
the small primes, a delimiter cut by a chunk, the room of a codec that is one byte short.

## 9. Not modelled

- *Weak memory.* Atomic operations are sequentially consistent; what
  `memory_order_acquire` and `release` would allow beyond that is out of reach of
  an interleaving model.
- *Partly modelled*: two owners that resize a CPU or IO pool at once, the
  statistics of their tasks, expiration and observers of the IO pool; a second run of
  a `ParallelScheduler` and its destruction; the header of a log line and the end of
  the logger; `fbstring`'s searches, comparison and streams, which only read;
  `ThreadArena`; `SArray`'s views of other types and `findRange`; the codec that
  copies, zlib's levels and its failures for want of memory; the arithmetic of
  `dynamic` other than + and -, and its iterators; enums in `Conv`; `printf`-style
  formatting; the hexadecimal conversions of big integers, which only tests call;
  what `Path` asks the kernel.
- *Templates and wrappers*: `ScopeGuard`, `Utility`, `Function`, `Traits`, `Macro`,
  `Portability`, `Memory`, `Malloc`, `Optional`, `AnyPtr`, `MoveWrapper`,
  `Algorithm`, `MapUtil`, `TypedIOBuf`, `EventUtil`, `ThreadFactory`, `ThreadUtil`,
  `UnionBasedStatic`, `Exception`, `Demangle`, `Backtrace`, `SysUtil`, `ProcessUtil`:
  resolved at compile time, or one call of a library or of a modelled part.
- *Single instructions*: `SpinLock`, `AtomicBitSet`, `AtomicPtr`, `LockedMap`,
  `LockedQueue` (one lock around one call), and `Monitor`, whose counters lose what is added between its
  `value()` and its `reset()`, keep 0 as a minimum after a reset, and promise nothing else.
- *The outside*: `File`, `FileUtil` (but for its loops over partial reads and writes),
  `FSUtil`, `MemoryMapping`, `MemoryProtect`, `HugePages`, `CacheLocality`, the `ssl`
  wrappers, `Random`, `Uuid`, `Time`, `Benchmark`, the test helpers.
- *Statistical worth*: `Hash`, `SpookyHash`, `Checksum`, `RendezvousHash`.
