# A TLA+ model of kibble

kibble is a C++ utility library. Its parts are largely independent of each
other; the job system carries the real concurrency, the logger and the memory
arenas are called from its threads, and the others (event bus, undo stacks,
containers, files, command line, search) keep state that is easy to get wrong.
This directory holds TLA+ modules of those parts, TLC configurations that check
them on small instances, and TLAPS proofs of the properties that matter most,
for instances of every size.

Paths below are relative to `src/source/kibble`.

## The system and its parts

| part | state | operations | interacts with | what is hard |
|---|---|---|---|---|
| job system (`thread/job`) | a private and a public queue per thread, `pending`, barriers, `wake_mutex` / `cv_wake`, the state and in-counter of each job | `Task::schedule`, `try_schedule`, `dispatch`, the worker loop (`get_job`, `steal_job`, `process`, sleep), `try_preempt_and_execute`, `wait*`, `shutdown` | kernels call back into it; the job pool; daemons and the logger are its clients | every interleaving of client, workers and thieves; lost notifications; counters of unsigned width; shutdown against sleepers |
| daemon scheduler (`thread/job/daemon.cpp`) | the map of daemons, their ttl and cooldown, the kill list | `create`, `kill`, `update`, destructor, the kernel wrapper | reschedules jobs of the job system; workers write to its daemons | four places release a job; a run in flight while `update()` acts |
| event bus (`event`) | a map from event types to queues, each with a sorted list of delegates | `subscribe`, `unsubscribe`, `fire`, `enqueue`, `dispatch`, `drop`, `has_queue` | handlers call back into the bus | re-entrancy, timeout, order of handlers |
| undo (`undo`) | a history, `head_`, `clean_index_`, `undo_limit_`; a group of named stacks with an active one | `push` (with truncation, merging, limit, obsolescence), `undo`, `redo`, `set_head`, `set_clean`, ...; `add_stack`, `remove_stack`, `set_active`, `relabel_stack` | commands act on the client's document; functors tell an observer | indices under truncation and limit; observer staying in step |
| sparse sets and pools (`util/sparse_set.h`) | `dense`, `sparse`, `guard`, `size_` | `has`, `insert`, `erase`, `reserve`, `clear`; `acquire`, `release`, `is_valid` | none | uninitialized arrays, swap on removal, width of the guard |
| worker monitor (`thread/job/impl/monitor.cpp`) | a counter record per thread, a bounded queue of reports, the statistics | `report_thread_activity`, `update_statistics` | workers report when they wake, `wait()` empties the queue | the queue is full while the mutex is held |
| memory (`memory`) | heap area and its slabs, free lists, TLSF block lists and bitmaps, the guard, the tracked allocations | `require_slab`, `allocate`, `deallocate`, `reallocate`, `reset`, buffer reads and writes | arenas put policies around allocators; a job system lives in two arenas | split and merge, alignment, sizes added up in several places, lock-free pool |
| logger (`logger`) | channels, sinks, filters, an optional job system | `submit`, `attach_*`, `detach_sink`, `set_async`, `flush`, exit on a fatal entry | submits through the job system; a sink writes to a `TCPStream` | sinks shared by threads, the end of the program, panic |
| files (`filesystem`) | a save in progress, packs and their streams, archives, two directories in sync, aliases, a checksum | `SaveFile::commit`, `export_pack`, `get_input_stream`, `write`/`read`, `sync`, `alias_*`, `process` | packs are read through the serializer; aliases lead to packs | crash or failure between two calls, a shared stream position, stale timestamps, cut streams, block boundaries |
| network (`net`) | descriptors | `start`, `accept`, `connect`, destructors | the logger's `NetSink` | who closes what, reuse of numbers |
| command line (`argparse`) | options, exclusive sets, dependencies, the error log | declarations, `parse`, `usage` | none | order of tokens, errors in the middle |
| containers (`util/unordered_dense.h`) | buckets, pairs, blocks | insert, erase, rehash, replace, copy, move, swap | the event bus and A* use the table | shifting, moving the last pair, ownership |
| A* (`algorithm`) | node pool, open and closed set | `step`, `walk_path`, destructor | the user's state type | re-opening, lazily removed nodes, leaks |
| strings, UUIDs (`string`, `random/uuid.cpp`) | none | tokens, replacing, Base64, printing and parsing | | tails, shuffles |
| time, math, other random, hash, diagnostics | mostly none | measurement, real numbers, pure functions | | |

What makes the modelled parts correct is listed with the runs. `PROJECT.json`
lists every part, modelled or not, and under `hazards` each place of the code
where something can go wrong that a test hardly reaches.

## Modules

| module | models | |
|---|---|---|
| `JobSystem` | `job_system.cpp`, `impl/worker.*`, `impl/scheduler.cpp`, `impl/job_graph.h`, `impl/barrier.h` | state machine |
| `TaskGraph` | what the job system promises to its clients | abstract specification |
| `MCJobSystem` | graphs and affinities for TLC | instances |
| `JobSystemProofs` | theorems about `JobSystem`: types, execution, dependencies, counters, waits, shutdown, `TaskGraph` | TLAPS |
| `DaemonScheduler`, `MCDaemonScheduler` | `daemon.cpp` against workers | state machine, instances |
| `EventBus` | `event_bus.h`, `event_bus.cpp` | state machine |
| `BusProofs` | theorems about `EventBus` | TLAPS |
| `UndoStack` | `UndoCommand`, `UndoStack`: operators from stacks to stacks | constant level |
| `UndoGroup`, `MCUndoGroup` | `UndoGroup` over `UndoStack` | state machine, instances |
| `UndoGroupProofs` | theorems about `UndoStack` and `UndoGroup` | TLAPS |
| `SparseSet` | `SparseSet`, `DynamicSparseSet` | state machine |
| `SparsePool` | `SparsePool`, `SecureSparsePool` | state machine |
| `Monitor` | `monitor.cpp` and its callers | state machine, instantiated by `MCDaemonScheduler` |
| `DaemonProofs` | theorems about `DaemonScheduler` and `Monitor` | TLAPS, extends `MCDaemonScheduler` |
| `Tlsf` | `tlsf_allocator.cpp`, `tlsf/impl/*`: operators from allocators to allocators | constant level |
| `Allocators` | heap area, linear, pool and atomic pool allocators, linear buffer | constant level, extends `Tlsf` |
| `Arena` | `arena.h`, the policies, the memory of a job system | state machine, extends `Allocators` |
| `ArenaProofs` | theorems about `Allocators` and `Arena`, without TLSF | TLAPS, extends `Arena` |
| `AStar` | `astar.h`, `astar_with_hashset.h` | state machine |
| `HashMap`, `SegmentedVector` | `unordered_dense.h` | state machines |
| `MCContainers` | sets, pools, table, segmented vector and search | instances, composes five modules |
| `ContainerProofs` | theorems about `SparseSet`, `SparsePool`, `AStar` and `SegmentedVector` | TLAPS, extends `MCContainers` |
| `ArgParse` | `argparse.h`, `argparse.cpp` | state machine |
| `Strings`, `Uuid` | `string.h`, `string.cpp`; `uuid.cpp` | functions with a reference |
| `MCArgParse` | command lines, texts, identifiers | instances, composes three modules |
| `ArgParseProofs` | theorems about `ArgParse` | TLAPS, extends `MCArgParse` |
| `SaveFile` | `save_file.cpp` with crashes and failing calls | state machine |
| `Archive` | `serialization/` | functions on streams |
| `PackFile` | `resource_pack.cpp`, `stream/` | state machine, extends `Archive` |
| `FileSystem` | `filesystem.cpp`: sync, aliases, application directories | state machine |
| `Md5` | `md5.cpp` | state machine |
| `Net` | `net/`, `net_sink.cpp` | state machine |
| `Logger` | `channel.cpp`, `entry_builder.h`, `uid_filter.cpp`, `file_sink.cpp` on a worker | state machine |
| `IoParts` | `Logger`, `SaveFile`, `FileSystem`, `Md5`, `Net` side by side, and what they promise | extends `Logger`, instances |
| `MCIo` | the seven above | instances, extends `IoParts` |
| `IoProofs` | theorems about `SaveFile`, `FileSystem`, `Md5`, `Net`, `Logger` | TLAPS, extends `IoParts` |

In the state machines a comment after each variable names the member it
stands for; variables marked *history* do not exist in the code. Definitions
that follow the word *Mutant* are deliberate errors used to see that a
property can fail; no specification uses them. An MC module that composes
several components gives each its own variables and a variable `subject`: a
behaviour is about one of them, and the others stay as they were built. The
components of one MC module do not call each other, except where a module
extends another (`PackFile` reads its index with `Archive`, `Arena` calls the
allocators).

### JobSystem

`pc[t]` is the next access of thread `t` to shared memory. Thread 0 is the main
thread, which runs client code and works only while it waits. One action is one
access with the local computation around it, so that a lock-free sequence such
as `try_schedule` is four actions: the exchange of the job's state, the
addition to `pending`, the push, the notification. A kernel is the time a
thread spends at `pc = "kernel"`; jobs in `Spawned` may be scheduled from
there. Jobs go back to the pool with `released`; the pool is a FIFO of
thousands of nodes, so that a released node keeps its content in the model and
`NoUseAfterRelease` says that nobody looks.

* `Schedule` is `Task::schedule`: the graph below the root is walked, the
  barrier written to it and told the number of jobs. `Marked` is what the walk
  marks (`Reach`), as the least set closed under children.
* `Dispatch` has the arithmetic of `Scheduler::dispatch` (hint, balancing,
  round robin) and the choice of the queue; it waits while the queue is full.
* `PopPrivate`, `PopPublic`, `Steal`, `StealFailed` are `get_job`; `Claim` the
  exchange that makes one thread the executor.
* `KernelDone`, `SignalChild`, `ChildReady`, `BarrierDone`, `ReleaseJob`,
  `Unpend` are `process` and `schedule_children`. The order of the children is
  left open.
* `Preempt`, `PreemptBarrierDone`, `PreemptForceState` are
  `try_preempt_and_execute`.
* `BeginWait` ... `IdleNotify` are `wait_until` for its four callers;
  `LockWakeMutex`, `CheckWake`, `FallAsleep`, `SpuriousWake` the sleep of a
  worker; `SetTerminate` ... `CancelJoin` are `shutdown`.

Counters wrap at `SizeMax`. A client is described by the graphs, `Spawned`,
`Preemptible` and `PreemptIdle`; `CarefulClient` says that no job is below two
roots, and that the main thread preempts only tasks it has scheduled itself
(the two observations about `job_system.cpp:472` and `:515` show what happens
otherwise). The passing runs have such clients (`ClientAssumption`). Left out: creation of tasks and futures, the
profiling session, the predicate of `wait(condition)` (`job_system.cpp:370`), which
may let a wait return earlier. The worker monitor is in `Monitor`, `abort` and the panic
mode, which serve the logger, in `Logger`.

`TaskGraph` is the client's view: tasks are new, accepted, running or done;
they run once, after their parents; `wait()`, `wait_on_barrier()` and
`Task::wait()` return only when what they wait for is done; nothing runs after
shutdown. `ImplementsTaskGraph` is the refinement, with the mapping in
`Promise`.

### DaemonScheduler

The main thread creates, kills and updates; `update()` visits the daemons one
at a time (`VisitMarked`, `VisitEarly`, `VisitDue`, then `Reset` and
`Schedule`) and cleans up. The clock is abstracted: a daemon that is visited may
be due or not. Workers are those of `JobSystem`, reduced to the accesses they
make to a daemon's job. `Prompt` is a condition on the client: `update()`, when
it finds a daemon due or marked (by `kill()` or by its own kernel), and the
destructor meet it with no run queued or on a worker. The code neither ensures
nor checks it (`daemon.cpp:34-38`, `:111-116`); without it `DaemonsAccounted`
fails.

### EventBus

Sequential; the difficulty is that handlers run in the middle of `dispatch()`
and `fire()`. An action is a client's or a handler's call, or the stretch
between two handlers. Handlers may subscribe, unsubscribe and drop for other
types than the one they are called for, and may enqueue anything: changing the
list under the loop is undefined behaviour, and so is `drop()` of the queue in
hand. Not modelled: `fire()` from inside a handler, and the debug tracking.
`Sort` is stable up to `StableSize` elements, as libstdc++ is up to 16, and any
order of equal priorities beyond: the new delegate goes behind those of its
priority or a higher one (`Behind`). `unsubscribe()` erases the delegate it
finds.

### UndoStack, UndoGroup

A stack is a record; `doc` (the document the commands act on), `saved` (what it
was at `set_clean()`) and `spoiled` are added to say what the indices mean. A
command is a sequence of writes, a macro has several. `merge_with` is the
client's: the model has one that fulfils the contract of its comment, and may
also refuse. `view` is what the functors told an observer.

### SparseSet, SparsePool

Both pairs of classes differ little, so that one module has both, with a
variable chosen at the start (`growable`, `secure`). The arrays of the
fixed-size classes start with any content, as `std::array` members that nobody
initializes do. `erase()` takes its argument by reference; `alias` says that it
refers into `dense` and so changes under the first assignment, and
`CarefulErase` excludes that, save for the last member. A handle of the secure
pool is the pair of its bit fields; the guard it is compared with is a whole `T`
that wraps at `TMax`, beyond the `Guards` values its bits can hold. `asserting`
builds stop at a failed assertion, which makes their pool one handle smaller.

### Monitor

What `KB_JOB_SYSTEM_PROFILING` adds to the threads. Jobs are numbers in the
queues of the workers, of which the main thread may take some while it waits
(not those of `Pinned` workers). A worker that wakes up pushes its counters with
`wake_mutex` in hand; only the end of a wait empties the queue, after it has
pushed the report of the main thread.

### Tlsf, Allocators, Arena

Sizes and addresses are bytes, with the header sizes, alignments and classes of
the code (the number of classes is a constant). A constructor or a call is an
operator from the allocator before to the allocator after. `Arena` interleaves
the calls of the threads at the guard, the allocator, the tracker and the
counter; `slab` holds the layout of a job system's own memory, computed once per
start address. An assertion does not stop the model: a release build goes on.
The queue below the atomic pool is external and hands out each node once.
Widths are kept: `head_` of a linear allocator wraps at `HeadRange` (2^32), the
second index of a TLSF size class is computed from an `int` of `IntBits` bits;
`WidthAssumption` says that arenas are below 4 GiB and TLSF pools below 2 GiB,
where neither shows. The range of a slab ends one byte late, as in the code. A
`LinearBuffer` has a log channel or none; without one it reports nothing. The
memory of a job system is that with the atomic pool: `config.h.in:15` defines
`KIBBLE_JOBSYS_ATOMIC_POOL` whatever its value and `job_system.cpp:63` asks with
`#ifdef`, so that no build has the other one.

### AStar

A problem is a graph with costs, a goal, and any admissible heuristic with
values in `Estimates`, inconsistent ones included. `step()` is cut at the loops
over successors and over the path, so that the invariants see the middle of
them. Both classes share everything but `analyze_*`, `pop_open` and
`free_unused_*`. `Analyze` waits while the pool is empty: the constructor's
`max_nodes` is a bound, large enough in the run. `Infinity` stands for the cost
of what is out of reach, above all costs of walks that visit a state once.

### HashMap, SegmentedVector

The table has its real bucket layout (distance and fingerprint, index), growth
by load factor and the vector of pairs. A walk along the buckets is given by the
place where it stops. `contents` is what the user put in. Allocators of the
segmented vector are names; `owned` says who has to free a block.

### ArgParse, Strings, Uuid

A token is what the code tells apart: a short or a full name, a group of flags,
or a word; each also has a text, which is what a cast sees when the token is an
operand (`-5` is a short option and a number, `-1,2` a group and a list,
`1,abc` a number and no list). `Legal` is the reference: what a
command line means when it is read as a whole. `Strings` and `Uuid` have no
state in the code: the variables are the input, written a character, a byte or a
draw at a time, and the properties compare with a reference (the words of a
text, RFC 4648, RFC 4122). The accumulator of Base64 has `WordBits` bits
(32 in the code; 22 in the run, as TLC's integers have 32, still more than the
14 bits the codec looks at). `regex_replace` is taken for one expression,
a run of delimiters.

### SaveFile, Archive, PackFile, FileSystem, Md5, Net, Logger

`SaveFile` has one action per system call of `commit()`; each may fail, and
`Crash` may come between two. `Archive` writes cells, not bytes; reading starts
from every prefix of what was written. `PackFile` builds a pack, reads its index
back and lets streams share the base stream, on a file or in memory; offsets and
sizes wrap at `OffsetRange`. `FileSystem` has two directories with times, and
aliases over directories and packs; each copy, removal and creation of a
directory in `sync()` may fail, a failed copy may leave a part of the file.
`Md5` keeps which blocks the compression was given (pieces are below 4 GiB).
`Net` keeps descriptors, the lowest free one given out first; `socket()` and the
calls after it may fail, and `socket()` does when none is free. `Logger` has the submission of entries by several threads, the sinks one
at a time, the worker that logs, a fatal entry and a panic; `Disciplined` is the
rule that a channel is set up and flushed by one thread, with no entry under
way, and that synchronous channels are used by one thread at a time. A fatal
entry ends the program, as the default of `s_exit_on_fatal_error_` has it
(`channel.cpp:12`).

## Runs

`tlc -config <cfg> <module>`; sizes are distinct states, with two workers.

| run | module | instance | states | checks |
|---|---|---|---|---|
| `js_graph` | `MCJobSystem` | diamond of four jobs, three threads | 1.5 M | `TypeOK`, `ExclusiveExecution`, `DependencyOrder`, `PendingSound`, `LifeCycle` |
| `js_wait` | `MCJobSystem` | two pinned jobs, one preempted, one spawned, a barrier, two threads | 270 k | `CountersSound`, `AffinityRespected`, the refinement `ImplementsTaskGraph`, and the liveness `WaitTerminates`, `ShutdownTerminates` |
| `daemon` | `MCDaemonScheduler` | two daemons, one with a ttl of two, two workers; a queue of four reports, two workers, bursts of two jobs | 79 k | `DaemonsAccounted`, `JobsCounted`, liveness `MarkedIsReleased`, `WaitsEnd` |
| `bus_dispatch` | `EventBus` | two event types, two handlers, two priorities, three events | 280 k | `ReachesEveryHandler`, `DispatchesAll`, liveness `DispatchReturns` |
| `undo_group` | `MCUndoGroup` | two stacks, two values, merging, macros, limits one and two | 210 k | `HistorySound`, `CleanReachable`, `ViewFresh` |
| `memory` | `Arena` | six kinds of allocators, two threads, two sizes and alignments | 248 k | `LiveSound`, `TlsfSound`, `AccountsExact`, `InBounds` |
| `containers` | `MCContainers` | three values or keys, any initial arrays, guards of one bit in a `T` of three, two hash functions with collisions; a graph of six vertices with 16 costs and all admissible heuristics over three values | 155 k | the sparse set (`SetSound`), the pools (`HandlesSound`), the table (`TableSound`), the segmented vector (`SegmentsSound`), A* (`Optimal`, `NodesAccounted`, liveness `Terminates`) |
| `argparse` | `MCArgParse` | two flags, a variable, a list, four tokens, operands with a dash; texts of six characters, blocks of six bytes, 668 UUIDs | 2.7 M | `ParserSound`, `TextExact` |
| `io` | `MCIo` | four saves with two faults, packs of three files on disk and in memory with two streams, archives of nested containers, two directories with three writes or calls of `sync()` and one failing copy or removal in each, blocks of 16 bytes, four descriptors, two threads and two sinks | 410 k | `SaveSafe`, `PacksExact`, `FilesFound`, `DigestOfMessage`, `FdExclusive`, `LogSound`, liveness `AllDelivered` |

Several of these are conjunctions of named parts, each stated and explained in
its module:

| property | parts |
|---|---|
| `PendingSound` | `PendingIsHeld` (a pending job is in a queue or in a thread's hand), `WaitSound` (a wait that returns has nothing left to wait for), `PendingDrains` (idle means `pending` is zero) |
| `CountersSound` | `CountersBounded` (no wrap), `BarrierSound` (a finished barrier means finished kernels), `DownQuiescent` (nothing runs or is left after `shutdown()`) |
| `DaemonsAccounted` | `ReleasedOnce`, `NoLeak`, `TtlKept`, `PendingMatches` |
| `ReachesEveryHandler` | `HandlerOrder` at all times, and no handler skipped between two steps |
| `HistorySound` | `IndicesValid`, `UndoRedoInverse` |
| `ViewFresh` | `ActiveExists`, and the observer's view is that of the active stack |
| `TlsfSound` | `Tiled` (the blocks tile the pool, lists and bitmaps agree with them), `Coalesced` (no two free neighbours), `SearchComplete` (a block of a large enough class is found) |
| `AccountsExact` | `UsedExact`, `NodesConserved`, `TrackerExact`, `GuardExclusive` |
| `InBounds` | `SlabsFit` (a job system fits in the area it asks for), `OverrunReported` (a buffer that has a log channel says when it left its slab) |
| `HandlesSound` | `HandlesUnique`, `HeldIsValid`, `ValidIsHeld`, `StaleIsInvalid` |
| `SetSound` | `HasIsMembership`, `IterationIsMembers` |
| `TableSound` | `FindExact`, `IterationExact`, `RobinHood` |
| `SegmentsSound` | `SegmentsExact`, `BlocksOwned` |
| `ParserSound` | `ParsesLegalLines`, `RefusalExplained`, `UsageComplete` |
| `TextExact` | `TokensRejoin`, `CollapsesRepeats`, `ReplacesMatchesOnly`, `Base64RoundTrip`, `UuidCanonical` |
| `SaveSafe` | `NoTornFile`, `SaveKept`, `NoLitter` |
| `PacksExact` | `PackExact`, `ReadsOwnFile`, `ArchiveRoundTrip` |
| `FilesFound` | `SyncMirrors`, `MergedView`, `AppDataFound` |
| `LogSound` | `SinkExclusive`, `LogOrder`, `EndComplete`, `SevereKept` |

Runs that show where the code does not do what a comment says:

| run | statement | what happens |
|---|---|---|
| `js_release_race` | `NoUseAfterRelease` (`job_system.h:251`) | in a diamond, the parent that decremented first still calls `is_ready()` and `try_schedule()` on a child that the other parent scheduled and a third thread ran and released |
| `undo_limit_clean` | `CleanMeansSaved` (`undo.h:258`) | the limit drops the front of the history and leaves `clean_index_`: the stack calls itself clean over another document |
| `log_sync` | `SinkExclusive` (`channel.h:138`) | in synchronous mode two threads are inside one sink: `submit()` takes no lock |

### Bounds

Every bound is a constant with the word *bound* in its comment, or the size of a
set. A diamond on three threads is the smallest instance in which two parents
race while a third thread can run and release their child; stealing needs one
attempt to succeed and to fail. In `js_wait` two threads are enough for the
pinned, preempted and spawned jobs to meet in every order, and small enough for
liveness. `SizeMax = 7` leaves room to see a wrap. Two event types let a handler
fill a queue that the loop has passed and one that it has not reached; three
events let it do so twice. Two values of a document let merged commands
leave a change and leave none; two commands reach the limit. In
`js_graph` the two middle jobs are exchangeable, in `undo_group` the names, and
no property names them: the symmetry is sound (there is no liveness in these
runs); the same goes for the threads of `memory`. Two sizes, two alignments and
a pool of 192 bytes split, trim at both ends and merge at both sides; start
addresses with and without a remainder show the paddings. Three keys fill the
smallest table past its load factor, with homes that collide and walks that pass
the end. In the graph of the search vertex 3 has three walks from the start and
lies on a cycle, so that nodes are re-opened twice. Four tokens hold an option
with its operand, a positional and one more. Blocks of 16 bytes with a length of
two, and pieces of 0 to 40, end at, before and after the place where the length
no longer fits; four saves let a failed one lie between two that succeed. With
a `T` of eight values and two guards the counter of a handle passes its bits and
then its type. `OffsetRange = 12` lies between the packs of two and of three files.
Three steps of the tree are a `sync()` whose copy fails, another one, and a write
or a third; at first one entry of each tree may be a directory. The
queue of reports has four places for bursts of two jobs and two workers; with
fewer `WaitsEnd` fails. Deadlock is not checked where the system may stop: a call
through the null entry of `has_queue()` ends the program, and so do a fatal
entry, a shutdown, a search that is over and a command line that was parsed.

### Fairness

*Job system*: every thread that can take a step of its own eventually does
(weak fairness per thread, kernels return); a thread asking again and again for
`wake_mutex` gets it (strong fairness, it is held for a few instructions); the
cancelled worker reaches its cancellation point. The client may stop calling,
and spurious wake-ups are possible and never assumed. *Daemons*: workers run and
the client calls `update()` regularly, as `daemon.h` asks. *Event bus*: handlers
return and `dispatch()` goes on. *Monitor*: the workers run, and a wait whose
condition holds ends. *Search*: whoever runs it goes on calling `step()`.
*Logger*: a loop over the sinks goes on, the worker that logs takes its jobs
until the program aborts, and the abort waits for jobs that end. The MC modules
state the same fairness, each for the behaviours of its own subject.

## Proofs

`tlapm <module>.tla`. What is proved holds for every value of the constants
under the assumptions named here: those every module states about its constants
(`ThreadAssumption`, `JobAssumption`, ...: finite sets of threads and jobs,
bounds that are numbers, names that differ), and, where a theorem starts with
`ASSUME`, a condition on the client. Each of these conditions holds in the runs,
and the observations below say what happens without it.

| theorem | states | under |
|---|---|---|
| `TypeCorrect`, `ExclusiveExecutionHolds`, `DependencyOrderHolds`, `LifeCycleHolds` (`JobSystemProofs`) | `TypeOK`, `ExclusiveExecution`, `DependencyOrder`, `LifeCycle` | any client |
| `AffinityRespectedHolds` (`JobSystemProofs`) | `AffinityRespected` | any client |
| `PendingSoundHolds`, `CountersSoundHolds`, `ImplementsTaskGraphHolds` | `PendingSound`, `CountersSound`, the refinement of `TaskGraph` | `CarefulClient` |
| `DaemonsAccountedHolds` (`DaemonProofs`) | `DaemonsAccounted` | `Prompt`: no run in flight where `update()` acts on a due, killed or self-marked daemon, or in the destructor |
| `JobsCountedHolds` | `JobsCounted` | none |
| `DispatchesAllHolds` (`BusProofs`) | `DispatchesAll` | none |
| `ReachesEveryHandlerHolds` | `ReachesEveryHandler` | `FewHandlers`: no more than `std::sort` sorts stably |
| `ViewFreshHolds` (`UndoGroupProofs`) | `ViewFresh` | `CarefulRelabel` |
| `HistorySoundHolds`, `CleanReachableHolds` | `HistorySound`, `CleanReachable` | `CarefulRelabel` (`undo.cpp:302` does not check it) |
| `TypeCorrect`, `SetSoundHolds` (`ContainerProofs`) | `TypeOK`, `SetSound` | `CarefulErase`: no reference into the set, save to its last member |
| `SegmentsSoundHolds` | `SegmentsSound` | `SegmentAssumption`: the bounds are numbers, `2 ^ num_bits` is a positive one |
| `OptimalHolds`, `NodesAccountedHolds` | `Optimal`, `NodesAccounted` | `Proper`: no state is its own successor, the start is not a goal |
| `HandlesSoundHolds` | `HandlesSound` | `PoolAssumption`: an integer has room for a handle; guards and the integer itself may overflow |
| `ParserSoundHolds` (`ArgParseProofs`) | `ParserSound` | none |
| `InBoundsHolds`, `GuardHolds` (`ArenaProofs`) | `InBounds`, `GuardExclusive` | `WidthAssumption` |
| `LiveSoundHolds`, `AccountsExactHolds` | `LiveSound`, `AccountsExact` | `WidthAssumption`; for all kinds of arenas but the two over TLSF |
| `SaveSafeHolds` (`IoProofs`) | `SaveSafe` | none |
| `FilesFoundHolds` | `FilesFound` | `AliasAssumption`: `"appdata"` and `"config"` are not aliases of anything else |
| `SyncIdempotentHolds` | `SyncIdempotent` (an action property, proved only): nothing is left to do after a `sync()` that logged no error | `AliasAssumption` |
| `DigestOfMessageHolds` | `DigestOfMessage` | `Md5Assumption`: a block is longer than the length at its end |
| `FdExclusiveHolds` | `FdExclusive` | none (`MaxFd` is a number) |
| `LogSoundHolds` | `LogSound` | `Disciplined` |

The arguments. An invariant that is proved is stated in the component's module
where it speaks of the component only, and in the proof module otherwise.

*Execution and dependencies.* The invariant `Inv` ties each thread's position to
the state of its job: a thread past its claim holds a job in `Executing`,
`Preempted` or `Processed`, and no two threads hold one. Alone,
`ExclusiveExecution` is not inductive: a second thread at `Claim` must be known
to find another state than `Pending`. The in-counter of a job is the number of
its parents whose edge has not been signalled; an edge is signalled by a parent
that is `Processed`, at most once, because the thread's `todo` holds the edges
that are left. So a counter of zero means that all parents are done. This needs
cardinalities of finite sets (`FiniteSetTheorems`). `LifeCycle` is read off each
action with the same invariant.

*Counters and waits.* `Full` adds the books: `pending` is the number of jobs
that are `Owed`, announced by a root and not yet taken off by the thread that
finished them; a barrier's counter is the number of jobs it still `Expected`s.
Each action that touches a counter adds or removes one job from such a set, so
that wrapping is excluded by the size of the set and zero means that it is
empty. `CarefulClient` is what makes a job owed once: below two roots it would
be announced twice. `MainOK` says what the position of the main thread in a wait
lets it assume, `MutexOK` that a sleeper and `shutdown()` agree on the flag,
`ShutOK` what is left of the threads after each step of it. `PendingSound` and
`CountersSound` are consequences. For the refinement, `Simulation` maps each
action to an action of `TaskGraph` or to a stutter, under `Full`.

*Daemons.* The invariant counts, for a daemon's job, the places that may release
it and the runs in flight; `Prompt` excludes that `update()` meets a run of its
daemon. In the monitor, the executed jobs of a worker are those of its counter,
of its reports in the queue and of the statistics: the sum over the queue is a
fold, and what appending and emptying do to it is proved by taking the least
counterexample (`LeastNat`), as the induction theorems of the library cannot be
used (see below).

*Event bus.* `Walk` says where the loop over the types and the handlers stands,
`OwedQueued` that an event owed to a handler is in a queue, so that the loop
cannot return true before it was popped. `Lists` says that a list of delegates
is the registrations, once each, sorted; a list of at most `StableSize` elements
stays sorted by priority and then registration when one is inserted or erased.

*Undo.* A stack is `Sound` when its commands lead from the document of one index
to that of the next (walks along the history are recursive functions, handled
with `LeastNat`), the head is at the document, the clean index at the saved one.
Merging, truncation and the limit keep it, each by a lemma. Moving the head is a
walk along the same documents, so that it takes itself back.

*Sparse sets and pools.* On the members `sparse` is the inverse of `dense`
(`Linked`), whatever else the arrays hold; that `size_` stays within the
capacity rests on a counting lemma (`Room`). For the pool the part of `dense`
behind `size_` is what is free, a permutation of the rest, and the guards of the
handles that are held are those of their places.

*Segmented vectors.* Each vector has blocks of its own, all taken from its
allocator, every block taken is in one of the two, there is room for `size`
elements, and reading them in order gives what the user put in (`Inv` at the end
of `SegmentedVector`). That the index `i` is place `i % n` of block `i \div n`
is division with remainder (`PlaceFacts`...). Growing and copying are folds: the
states they pass through are followed upwards from the first that could differ,
each of them a vector that keeps its blocks apart from those of the other one,
and holds what it held and the elements appended so far.

*Search.* For any finite graph, costs, admissible heuristic and both classes
(`Inv` at the end of `AStar`). The nodes known are those of the open and the
closed set and the one in hand, apart from each other and from the free list
(`Books`); of each state one is valid (`Scores`), which is why a better walk to
a state finds the node it has to improve. The parent of a valid node may have
been replaced and be invalid; it stays in the open set as long as the better
node that replaced it has not come to the child (`ParentOK`), so that
`reconstruct_path` follows no destroyed node although the queue destroys invalid
nodes as it meets them. What an explored node leads to has a node at least as
good (`Expanded`). From this: some valid node of the open set lies on a shortest
walk and has the score of one (take the node on a shortest walk that is nearest
to the goal), so the goal's node, when it is popped, has the least cost there
is, whether or not the heuristic is consistent; and an empty open set means that
the goal is out of reach. The least cost is defined by relaxing all edges as
often as there are vertices (`Distance`); that this reaches a fixed point is an
argument about the vertices a round changes, whose number grows with each round
(`DistanceFixed`). The links of the path follow edges of strictly increasing
score (`Path`), so that no node comes twice and `walk_path` ends at the goal
within `MaxNodes` steps (the pigeonhole principle of `FiniteSetTheorems`), and
the sum of their costs telescopes. A state that is its own successor breaks
`Books`: see the observations.

*Command lines.* `Legal` reads a line as a whole, parse() one token at a time.
While it reads, the tokens so far are `Clean`: they break no rule of `WellFormed`,
except that the last one may be a variable that waits for its operand; the
options that are set are those the tokens name, a variable that is named holds
what its operand is cast to, and `current.positional` is the number of words
that are no operands. Each exception means that the line read so far breaks
a rule, and it leaves something in the log (`Refused`); the three checks are then equivalent to the rest of `Legal` (`ChecksExact`).
Whether a token is an operand depends on whether the one before it is: that
recursive function is shown to be determined by its equation (`Marks`), and so
to keep its values when a token is appended (`ProperNext`). `UsageComplete`
needs that an option with an exclusive set is in one of the sets
(`DeclaredOption`).

*Files.* `SaveSafe`'s invariant lists, for each point between two system calls,
which of the three names hold a whole version. `FdExclusive` is inductive with
the bound on the numbers: what `socket()` returns is -1 or free.

*Files in sync, aliases, directories.* `SyncMirrors` says what holds after a
call; the invariant says what holds between calls as well (`TreeInv`). A file of
the target that is not older than the one of the source is a copy of it, a part
of it that a failed copy left, or somebody else's (`AllCopies`), and everything was written in the past
(`AllPast`), so that a file the user writes now is newer than any copy. Both
survive a `sync()` that throws half-way and copies and removals that fail. A
call that logged no error leaves nothing older (`AllUpToDate`); with `AllCopies`
that is the mirror, and alone it is why a second call copies nothing. `HomeInv` holds because the directory that
`get_app_data_directory()` tries first is only made below a `~/.local/share`
that is there, and nothing removes that.

*Checksums.* Between two pieces the blocks given to the compression, and behind
them the first `head_` bytes of the buffer, are the message so far (`Taken`).
Each block of the loop in `process()` keeps that (`BlockByBlock`: the loop is a
recursive function, whose values are followed upwards from the least that could
differ), and `finish()` writes what RFC 1321 prescribes behind them, in one block
or two (`FinishTakes`); that no other number of zeros fills the last block is
division with remainder (`ZerosAre`).

*Logger.* An entry is on its way in one place only: in the queue, with the
worker, or with the thread that walks the sinks (`WalksOK`, `ModesOK`); the
entries of one thread are in order within the queue (`QueueOrder`), against the
ones under way (`PassOrder`) and those in a sink (`OutOrder`); what is due to a
sink is written, queued, or ahead of a walk (`Kept`).

*Arenas.* Everything but TLSF, for any sizes, alignments, area and number of
threads (`Inv` at the end of `Arena`). The layout is arithmetic: what padding
adds, that the node of a pool has room for decoration and padding, that node
sizes and starts of the atomic pool are cache lines (each node then loses all of
a line but the header), that the three constructions of a job system fit in what
`get_memory_requirements()` adds up. `NodesOK` says that every node is free,
alive or on its way back with one thread, and only one of these; the node is
found again from a padded pointer because the padded allocation stays within its
node. Alone, neither `NodesConserved` nor `LiveSound` is inductive: that
allocations are apart follows from the nodes being apart, and that an
allocation can take the first free node from nobody holding an address in it.
The counts of `AccountsExact` are the sizes of the three parts. `CountsOK` has
no place for the atomic pool: its counter is off by what the load and the store
of two threads lose, and nothing depends on it; `UsedExact` claims nothing of it
either. `GuardExclusive` needs only what
a thread carries through a call (`CallsOK`).

Only model-checked, and why:

* Liveness: `WaitTerminates`, `ShutdownTerminates`, `MarkedIsReleased`,
  `WaitsEnd`, `AllDelivered`, `Terminates`, `DispatchReturns`. Fairness is
  defined with ENABLED, which the prover cannot handle.
* `PacksExact` rests on `Archive`, which is written with RECURSIVE operators;
  the prover loses its arithmetic in modules that reach one.
* `TlsfSound`, and `LiveSound` and `AccountsExact` of the arenas over TLSF: the
  blocks tile the pool along a walk that is a recursive function, through four
  splits and merges per call; not attempted yet.
* `TableSound`: not attempted.
* `TextExact` compares functions defined by recursion over their input with a
  reference; the library's induction theorems take an operator as a parameter,
  which no installed prover can instantiate, and the least counterexample leads
  only as far as the recursion is simple.

## Observations without a run of their own

Met while modelling; each follows from the actions of the modules.

* `job_system.cpp:515`: preempting a task that was never scheduled
  (`PreemptIdle = TRUE`) decrements `pending` below zero; the same happens to a
  task preempted while another thread is inside its `schedule()`.
* `job_system.cpp:472`: a job below two roots is counted by both, so that
  `pending` never returns to zero.
* `worker.cpp:59`: when `try_to_lock` fails, a worker that has just evaluated
  its predicate is not notified of the termination, and is cancelled in its
  sleep after the timeout. `ShutdownTerminates` shows that shutdown ends.
* `daemon.cpp:132`: a kernel longer than its interval is started a second time
  on top of the first (`Prompt = FALSE`). `daemon.cpp:141`: a `Daemon` is erased
  before the last run of its ttl, which may still write to it.
* `event_bus.h:606`: `has_queue()` inserts a null entry that `fire()`,
  `enqueue()`, `drop()` and `dispatch()` then call through (`Crash`).
  `event_bus.h:257`: `dispatch()` may return false with nothing left.
  `event_bus.h:308`: beyond 16 handlers equal priorities lose their order.
* `undo.cpp:73`: a merge at the clean index leaves the stack clean over a
  changed document (the second case of `spoiled`). `undo.cpp:302`: relabelling
  the active stack to a name in use destroys it and tells nobody
  (`CarefulRelabel = FALSE`).
* `sparse_set.h:159`, `:341`: `erase(*begin())`, or of any other reference into
  the set, leaves the entry of the last member where it was, so that the set no
  longer has it (`SetSound` fails with `CarefulErase = FALSE`).
* `sparse_set.h:700`: `clear()` resets the guards, so that handles released
  before it are accepted after it.
* `impl/worker.cpp:144`, `job_system.cpp:361`: the queue of reports has 128
  places, and a push to a full one spins, in a worker with `wake_mutex` in hand,
  at the end of `wait()` before it empties the queue. More wake-ups than places
  between two waits (a channel that logs asynchronously in a program that never
  waits) stop the job system: `WaitsEnd` fails with `Capacity` below
  `MaxBurst` plus the number of workers. Counters a worker has not reported when
  it is told to stop are lost.
* `job_system.cpp:312`: the push and `notify_all` happen without `wake_mutex`,
  between a worker's predicate and its sleep; the worker then sleeps on a
  non-empty queue until somebody notifies again, although the comment at
  `impl/worker.cpp:133` means to exclude it (`NoSleepOnWork` fails in
  `js_graph`). `WaitTerminates` shows that `wait()` makes up for it.
* `daemon.cpp:113` says that the job of a marked daemon is not scheduled when
  `update()` releases it; it may be queued or executing
  (`MarkedIsNotScheduled` fails with `Prompt = FALSE`).
* `sparse_set.h:738`: the guard is not reduced to `GUARD_BITS` bits, although
  the comment at lines 545-546 has it cycle: after 2^`GUARD_BITS` releases of an
  integer none of its handles is valid (a build with assertions stops at their
  release) until the whole `T` wraps. `HeldIsValid` says so.
* `memory/heap_area.cpp:94`: the range of a slab ends one byte late, and
  `linear_allocator.cpp:31` compares with it, so that a linear allocator may
  hand out one byte past its slab (`heap_area.h:31`, `:109` have it otherwise);
  `LiveSound` grants linear arenas that byte. From 4 GiB on `head_` wraps and
  allocations overlap (`linear_allocator.h:123`), and TLSF sizes of 2 to 4 GiB
  get a list that does not exist, although `control.cpp:206` speaks of sizes the
  lists have no room for only (`WidthAssumption` excludes both).
  `linear_buffer.h:39`: a buffer made without a channel leaves its slab without
  a word (`entry_builder.cpp:28`). `config.h.in:15`: switching
  `KIBBLE_JOBSYS_ATOMIC_POOL` off has no effect. `arena.h:129`: out of memory returns with the thread guard taken
  (`GuardReleased` fails). `arena.h:265`: `new_array__()` writes the length through
  a null pointer when there is no memory. `atomic_pool_allocator.h:139`:
  `node_count_` is counted by several threads without synchronization
  (`MaxDrift` bounds how far it gets off); an empty pool waits for ever.
* `astar.h:345`: when the start is the goal, `step()` destroys `start_`, which
  the path and the destructor still use, and never the goal's node, against the
  comments at lines 214 and 431 (`OnlyPathAlive` fails with `Goals = {1}`).
  A state that is its own successor is in neither set while it is explored and
  is given a second node; when that one is explored in turn, `insert()` (line
  417) refuses it and it leaks, against the assertion at the end of the
  destructor (`NodesAccounted` fails with such an edge). The closed set compares
  hashes only; an exhausted node pool is only asserted.
* `argparse.cpp:252`: flags and variables are numbered in the same exclusive
  sets from zero each, so that `compatible()` and the assertion of
  `set_dependency()` refuse unrelated options (`CompatibleExact` fails). A second
  `parse()` keeps what the first one set; the usage is computed once.
* `unordered_dense.h`: `replace()` keeps an arbitrary one of equal keys.
* `save_file.cpp`: after two failing renames the version is under its temporary
  name, and a second `commit()` removes it; `fs::remove()` of the backup may
  throw in a `noexcept` function. `SaveKept` holds for one fault per save.
* `resource_pack.h:96` promises streams "as if they were separate files": they
  share one position, so that streams used alternately read each other's
  characters unless each seeks from the beginning or the end first, and a pack
  in memory fails for good once its last byte was reached
  (`memory_stream.cpp:41`). `ReadsOwnFile` fails without its condition `claimed`.
  Offsets of packs above 4 GiB wrap (`resource_pack.cpp:88`, `:130`;
  `Addressable`). `export_pack()` called twice adds the initial offset twice.
* `exists()` does not look into packs; `filesystem.h:249` says that a missing
  file is created, the code asserts (`filesystem.cpp:460`). `MergedView` claims
  nothing of such a file.
* `filesystem.cpp:278`, `:322`: `sync()` logs a copy or a removal that fails and
  goes on; its caller is not told. A copy cut short is newer than its source,
  and no later `sync()` repairs it. A write within the same tick as a copy is
  missed; a directory in the place of a file throws half-way.
* `md5.cpp:97`: a piece of 4 GiB or more keeps the loop of `process()` from
  ending, as `processed` has 32 bits.
* `channel.cpp`: `set_async(nullptr)`, `flush()`, `attach_sink()` and
  `detach_sink()` while entries are under way race with them
  (`Disciplined = FALSE`); a fatal entry from a worker waits for itself.
* `tcp_acceptor.cpp:54`, `tcp_connector.cpp:46`, `net_sink.cpp`: a failed or
  repeated `start()`, a failed `connect()` and a second `connect()` of the sink
  leak a descriptor (`leaked`); sends are not repeated when they are partial.
  `tcp_acceptor.cpp:39`: the result of `socket()` is not checked; when it fails,
  `start()` forgets an earlier socket and `lfd_` is -1.
* `string.cpp:160`: `collapse()` removes underscores whatever its target is, and
  leading ones altogether, where
  `string.h:244` has one of each run (`CollapsesRepeats` excepts texts that begin
  with one). `base64_decode()`
  indexes its table with a signed character and needs ASCII. A UUID in upper
  case is parsed into another one.

## Not modelled

Creation of tasks, futures and promises; the construction of job graphs and the
limits on parents and children (`job_graph.h:46`); a job system with a single
thread, which its constructor warns about; the profiler's sessions. Formatters,
the terminal and printing of all parts. The bytes of sentinels. What goes over a
socket. Splines, easings, colours, noise, catenaries and the optimizers work on
real numbers. Hashes, Morton codes and random generators are bit mixing without
state. `ctti`, assertions, self-inspection and stack traces are diagnostics.

## Plan for proofs

In this order, in the proof modules that exist: the tiling of the TLSF pool
(`Tiled` without the walk, as links between neighbours) in `ArenaProofs`, then
`FindExact` of the table.
