# TLA+ development for JADREN

JADREN is a programming language with its compiler, runtimes and tools, written
in Rust as a workspace of crates under `src/crates`. Most of the compiler is
sequential transformation of texts and trees. The parts where an order of steps
nobody wrote a test for can go wrong are few: the task runtime
(`jadren-concurrency`), the installer that publishes toolchains into a shared
directory (`jadren-installer`), the pointer state machine of the UI
(`jadren-ui`), the callback table and the owning buffers of the host runtime
(`jadren-runtime`), the GPU resource table (`jadren-gpu-runtime`), and some
smaller state holders (package resolver, layout tree, language server). This
development models the first five; the others are planned or left out with the
reason.

`C` below is `src/crates/jadren-concurrency/src/lib.rs`, `I` is
`src/crates/jadren-installer/src/lib.rs`, `U` is `src/crates/jadren-ui/src/lib.rs`,
`H` is `src/crates/jadren-runtime/src/lib.rs` and `T` is
`src/crates/jadren-gpu-runtime/src/lib.rs`.

## 1. Inventory

| Component | State | Operations | What is hard |
|---|---|---|---|
| Task graph (C 59-294, 1152-1235) | tasks, edges with kinds | `add_task`, `build`, `topological_order`, `ready_tasks` | edges derived from accesses against declared ones, cycles, determinism |
| Work-stealing pool (C 624-706, 857-1072, 1104-1150) | one deque per worker, shutdown flag, wake mutex and condition variable, completion channel, coordinator's sets | `execute` | lost wake-ups, pop against steal, shutdown while jobs are queued, join |
| Fixed pool (C 619-622, 709-805, 1075-1102) | one work channel behind a mutex, completion channel, count in flight | `execute` | recv under a mutex, bound on dispatch, Shutdown messages behind jobs |
| Task scope (C 301-435) | one atomic flag | `cancel`, `run`, `run_deterministic` | cancel between check and call, and around the end |
| Deterministic scheduler (C 807-855) | position in the order | `execute` | keeps the same promise as the pools |
| `parallel_for`, `parallel_reduce` (C 491-617, 884-1011) | chunk ranges, partial values | one call | arithmetic at the edge of usize, order of reduction |
| Installer (I) | staging and version directories on disk | `install_file` | two processes, crash between any two operations, failing operations |
| UI interaction (U 222-646) | hovered, pressed, focused, bounded queue | pointer calls, poll, change of layout | several events per call against a full queue, nodes that vanish |
| UI layout tree (U 718-1165) | scope stack, node table | add and close nodes, layout | capacity failures half-way, ids |
| Package resolver | visit stack, resolved packages | `resolve`, lock file | cycles, duplicate names |
| Runtime callbacks (H 24-35, 546-718) | five atomics: four addresses and one context | `initialize`, `set_callbacks`, `log`, profiler calls | nine stores against two loads and a call, no lock |
| Owning buffers and regions (H 472-532, 798-3866, 4610-4673) | headers, blocks, descriptors inside blocks | create, reserve, move in and out, remove, resize, clear, destroy | one owner per allocation over any sequence of calls, failing and moving reallocation, payload bits that are not descriptors |
| GPU resource table (T 28-103, 735-912, 5159-5375, 5924-5979) | buffers with residency, generations and live accesses; plans; leases | create, promote, evict, acquire, release, plan, prepare, release a lease | acquisition that fails half-way, cloned tokens, plans used late |
| Effect inference | effect sets per function | `infer_effects` | fixed point over recursion |
| Language server | open documents | request loop | versions, order of messages |
| Compiler, code generators, device runtimes, driver, tools | none that lasts | passes | input space, not order |

The components meet in calls. `TaskScope::run` wraps jobs and calls
`WorkStealingPool::execute`, `parallel_for` and `parallel_reduce` build a graph
without edges and call it too; all schedulers take a `DependencyGraph` that
`TaskGraphBuilder::build` accepted. Inside a pool the calling thread and the
workers share deques, a lock and a channel. Installers of different processes
meet only in the file system. The UI model is called by a backend that owns the
layout. Threads of a host program meet in the atomics of the runtime's callback
table; compiled programs call the buffer operations with exclusive access to
their headers. A dispatch to a GPU holds a lease on the resource table from
submission to completion, beside scopes that acquire buffers one by one.

What makes them correct, in a sentence each: every job of a graph is entered
once, after what it depends on and never beside a task it conflicts with, and
`execute` returns with a true answer; a cancelled scope starts nothing it could
have left out and never says Ok about a skipped body; a published version is a
whole verified artifact for ever, whoever else installs or crashes; the events
of the UI tell the state that the model is in; a callback is never entered with
an older context than its own; every allocation has exactly one owner and a
buffer is a sequence of values; the accesses of a GPU buffer are those somebody
can still release, and a writer has it alone.

## 2. Modules

| Module | Models | Used by |
|---|---|---|
| `TaskGraph` | operators on graphs: accesses, edges, ready tasks, order, cycle diagnostic | all schedulers, builder |
| `TaskGraphBuilder`, `TaskGraphBuilder_proofs` | `add_task` and `build` as actions; theorems, also about the operators | |
| `TaskExecution` | abstract specification: what any `execute` promises | refined by the three schedulers |
| `WorkStealingPool` | `execute` of the stealing pool | `TaskScope` |
| `TaskScope`, `TaskScope_proofs` | `run` on top of `WorkStealingPool` (EXTENDS it); theorems about both | |
| `WorkerPool` | `execute` of the fixed pool | `SchedulersAgree` |
| `DeterministicScheduler` | `execute` and `run_deterministic` | `SchedulersAgree` |
| `SchedulersAgree`, `SchedulersAgree_proofs` | one graph on both of them (EXTENDS the pool, INSTANCEs the other); theorems about the pool and about both | |
| `ParallelChunks`, `ParallelChunks_proofs` | `parallel_for`, `parallel_reduce`; theorems | |
| `Installer`, `Installer_proofs` | `install_file`, theorems | |
| `InteractionModel`, `InteractionModel_proofs` | `InteractionModel`, `RetainedHeadlessBackend`; theorems | |
| `RuntimeCallbacks` | `initialize`, `set_callbacks`, dispatch | `HostRuntime_proofs` |
| `ResourceTable`, `ResourceTable_proofs` | `ResourceTable`, resource plans and leases; theorems | |
| `OwnedSequences` | abstract specification: buffers as sequences of values | refined by `OwnedBuffers` |
| `OwnedBuffers` | the owning buffer operations over one heap, regions | `HostRuntime_proofs` |
| `HostRuntime_proofs` | theorems about the two parts of the host runtime (EXTENDS both modules) | |

An `MC` module gives the constants of one of them small values. Definitions
called faults ("Fault: ...") are wrong versions of the definition after them;
they belong to no specification and exist so that each property can be seen to
fail when the code has that fault.

### Correspondence with the code

**TaskGraph, TaskGraphBuilder.** A graph is a set of task ids and a set of edges.
`GraphEdges` is the edge set that `build` makes: the explicit dependencies and,
for two tasks whose accesses conflict, an edge from the lower id to the higher.
`TopologicalLoop` is the loop of `topological_order` with its in-degrees, round by
round; it is a recursive function, not a RECURSIVE operator. Labels and resources are "blank"
or a name; the checks of `add_task` are in the order of the code, which decides
the error that is reported. The builder's state is its map of declared tasks;
`Build` consumes it.

**WorkStealingPool.** The coordinator's locals are variables with the names of
the code (`submitted`, `completed`, `running`, `nextWorker`, `completedOrder`),
`batch` is the iteration over `ready_tasks`. The workers have a `pc`; `probe` is
the loop index of `take` and of `has_pending`. A step is one critical section:
`take` locks one deque at a time and so is `Take` or `TakeEmpty` per deque;
`wait_for_work` holds the wake lock over several steps (`LockWake`,
`TestShutdown`, `TestPending`) in which other workers pop from the deques, and
`enqueue` and `request_shutdown` need that lock. `Condvar::wait` releases the
lock and parks in one step and may wake spuriously (`MaxSpurious` times).
`RunJob` ends a job well or in a panic, which `catch_unwind` turns into a
result. `SendCompletion` fails once the receiver is dropped, which ends the
worker. Jobs are identified by their task; the map of jobs is its set of keys.

**WorkerPool.** The work channel holds tasks and Shutdown messages, `recvLock` is
the mutex around the receiver, held while a worker blocks in `recv`.

**TaskScope.** A wrapped job is check, then body or nothing; `Cancel` may happen
between any two steps. All other steps are those of `WorkStealingPool`.

**DeterministicScheduler.** One thread, one step per thing a canceller could
come between.

**SchedulersAgree.** A program runs one graph on the fixed pool and then, as the
reference, on the deterministic scheduler. Whether a body panics belongs to the
task (`faulty`), so both executions meet the same panics.

**ParallelChunks.** usize has `W` bits and `OverflowChecks` says which build runs.
The pool below is its promise: every chunk once, in any order, or a failure.
Values are sequences of indices, so that a value shows what was combined and in
which order. `CombinePanics` is a panic of the caller's `reduce` on the caller's
own thread.

**Installer.** A call of `install_file` is a sequence of file-system operations,
one action each. A directory is known by the call that made it, so a file opened
for writing is still the same file after its directory was renamed. `rename`
replaces an empty directory and refuses another, as POSIX does. `FailIo` lets any
operation fail, `Crash` ends a process with all its calls, process ids are used
again. What precedes the file system (`validate`, `verify_file`) is a verdict of
the request.

**InteractionModel.** A method maps a model, an error and the history `seen` to
such a record, so that changes made before an error stay, as with `?`. Node id 0
stands for no node and is in no layout. A pointer position is the
node `hit_test` finds. `retained` says who owns the model: the backend, which
resets it with each layout, or a caller that passes snapshots itself. `seen` is a
consumer that only reads events: the node it takes to be hovered and the one it takes to be
pressed. One change of state has no event: `pointer_down` over nothing ends a held press
(U 455-458). `GivenUp` records that node in `seen.lost` until the next Pressed event, and
`EventsTellState` is exact about it: while the model holds a press the consumer knows it;
while it holds none, the consumer believes in the press that was given up silently, if any,
and in no other.

**RuntimeCallbacks.** A registration is known by its number, and so are the
addresses and the context it stores: a pair of loads shows which registrations it
mixes. `set_callbacks` is nine steps, one per store in the order of `Store`; the four
dispatch functions share `LoadAddress`, `LoadContext`, `Call`, `Return`. Refused calls
change nothing and are not steps. A store is a step at the moment it becomes
visible to other threads. Release stores become visible in program order and acquire
loads are done in program order, so for one registering thread this covers
the memory orders of the code; it says nothing about when a store becomes visible
after the call returned, and `OneLateCall` is counted from the moment it is.

**ResourceTable.** The table's fields have the code's names. `acquire` and `release` are
one step. The loops of `acquire_artifact_resources` and
`release_artifact_resources` are a step per binding, with `call` as their locals, so
that what a failure leaves behind is visible; the table is borrowed exclusively, so
nothing else starts meanwhile. `direct` are the tokens of the host's scopes, `spent` a
clone of a released one, `kept` a plan for later. `MaxId` and `MaxGeneration` stand for
the ends of `u32` and `u64`; both are reached.

**OwnedBuffers, OwnedSequences.** The heap is a set of addresses, each free, a leaf
(the allocation of a nested buffer, string or region block) or a block of slots. An
element is a tag and cells: one cell for a nested buffer, a string or a carrier, two
for a record. A cell is active when it is a plain owning field or the tag says so;
an inactive one holds arbitrary bits, the address of a foreign allocation included.
Slots beyond the length keep what is in them. `Reserve` gives all outcomes
of `alloc` and `realloc`: enough room, in place, moved, out of memory. `ActiveCells` is the
test of the tag by `record_field_is_active` and the carrier destructors; the six encodings
of a tag (H 915-1000) are one test here. `call` is a history of the last call: its
operation, arguments and status. `OwnedSequences` knows only sequences of values and this
history. Each of its steps is labelled: a call of `insert`, `remove`, `drop`, `resize` or
`destroy` that reports Ok does that operation on the arguments it was given, the program's own
steps (`compute`) touch one variable, and a call that reports an error (`Failed`) changes no
buffer and no variable. The refinement maps a block to the meaning of its elements and `call`
to itself.

## 3. Runs

| Run | Instance | States | What it shows |
|---|---|---|---|
| `stealing_graph` | 3 workers, 4 tasks, one spurious wake-up, 4 job maps | 443,191 | jobs conserved and entered at most once, dependency order, exclusion of conflicts, no lost wake-up, true answer, and the inductive invariant of the proofs |
| `stealing_drop` | 2 workers, 3 independent tasks, fair | violated | queued jobs are not dropped after a failure |
| `builder` | up to 3 declarations from 77 | 42,220 | exactly the orderable graphs are accepted; order is the least; edges are justified |
| `schedulers` | 2 workers, 4 tasks, any set of panicking tasks, cancel | 10,734 | bound in flight, work conservation, nothing dropped, both schedulers end, refine `TaskExecution` and agree in their verdict |
| `scope` | 2 workers, 3 tasks, one spurious wake-up, cancel at any moment | 570,073 | no body of a task not yet taken is entered after cancel, true answers, bounded drain after failure, `run` returns, the pool takes only steps of `TaskExecution` |
| `chunks` | W = 4, all calls, overflow checks | 64,636 | Ok means every index once, reduction in order |
| `install` | 5 calls, 2 process ids, 2 releases | 113,390 | published versions are whole and never changed, answers stay true, leftovers are explained |
| `install_threads` | the same, calls of one process overlap | violated | a half-written file is published |
| `pointer` | 4 layouts of up to 3 nodes, queue of 5 | 277,489 | events tell what is hovered and pressed, but for a press given up over nothing; a full queue changes nothing, backend consistent |
| `callbacks` | 1 registrar, 2 dispatchers, 3 registrations from 4 tables | 234,716 | loadable pairs match, no older context, at most one late call per thread |
| `gpu_resources` | 2 buffers, 2 generations each, artifacts of 2 and 3 bindings | 870,946 | failed acquisitions leave nothing, writers exclusive, leases whole, plans stay valid |
| `buffers` | 4 addresses, capacity 3, one buffer and variable of each of 4 types | 9,119 | exactly one owner per allocation, calls that report Ok refine operations on sequences, calls out of memory change nothing |

### Bounds, and why they are enough

Three workers let one thief and one owner meet at a deque while a third is about
to sleep; four tasks hold an explicit edge, a conflict edge and independent
tasks. Two workers suffice for the runs about ends: both asleep, one asleep and
one running, both running. One spurious wake-up is enough to pass the wait once
for no reason. The scope's instance has a fitting and a replaced job map, the other
two have also a missing and an extra job. The fixed
pool has three ready tasks for two workers, so the bound binds. The builder sees
every set of dependencies among three tasks, cycles of one, two and three tasks
with and without conflict edges, and each refusal. Four bits of usize make the
edge of the range reachable, and 5 stands for `u32::MAX` chunks. Five installs cover
two racing processes, a second target of the same release, a reused process id,
and a refused artifact. A queue of five is one
longer than the largest call pushes (leave, enter, released, clicked), so calls meet
an empty, a nearly full and a full queue. Three registrations let a dispatcher
sleep over one whole registration and meet the next; a fourth would repeat this. Two GPU
buffers with two accesses each exhaust identities and generations and let three
bindings alias one buffer in every pattern. Four allocations hold a block of three
slots with three elements, and a move of that block while a fourth is free for it
needs one element fewer; one type of element is in use at a time, because the types
share nothing but the heap, in which addresses come back for another type;
the theorems `OneOwner` and `BuffersAreSequences` have no such restriction.
Deadlock is checked in all runs: an execution that ended stutters explicitly.

### Fairness

Weak fairness of the coordinator, of each worker and of the sequential caller: the operating system runs
every thread that can go on, and job closures end (a closure that loops for ever
keeps `execute` from returning, as it does in the code). No fairness on locks is
assumed: a worker waiting for the wake lock competes with everyone else, and
termination holds all the same, because each holder either parks or has found work
or shutdown. Cancellation, spurious wake-ups, panics and crashes have no fairness.
The safety runs use no fairness.

### Findings

1. After a failed task the stealing pool's workers go on taking queued jobs, until
   their own send fails (C 1128, 1140); the documentation (C 862-863, also 888) says
   that queued jobs are dropped. What holds is `BoundedDrain`: after the receiver is
   gone each worker begins at most one more job.
2. Two threads of one process that install the same release share a staging
   directory (I 243-255), and one may publish the other's half-written file. Between
   processes this cannot happen, which is proved.

Remarks that are no runs:

- `start + chunk_size` (C 908, 968) overflows for ranges close to `usize::MAX`. With
  overflow checks the call unwinds before any job exists, which is the instance of
  `chunks`; with `OverflowChecks = FALSE` and the same requests `EveryIterationOnce` fails: Ok
  is returned although the last chunk was empty.
- `buffer_remove_move` at the last index returns the descriptor and leaves its bits in
  the slot (H 3858-3865), where the documentation says "Every consumed slot is reset to an
  empty descriptor" (H 3811). The slot is beyond the length by then and every
  operation that uses it writes it first, so `ExactlyOneOwner` holds.
- Two threads in `set_callbacks` at once can leave the addresses of one table beside the
  context of the other. The documentation asks for registration before workers start;
  the properties are about one registering thread.
- A `pointer_down` over nothing while a node is pressed clears `pressed` without a Released
  or Cancelled event (U 455-458), so a consumer of the events believes in that press until the
  next Pressed. It takes two downs without an up or cancel between them. No documentation or
  test speaks of it, so it is no finding; `EventsTellState` states it.
- `GraphError::Cycle`, displayed as "dependency cycle through
  tasks", names the tasks on a cycle and those that only wait for one;
  `CycleIffNoOrder` states exactly this set.

## 4. Proofs

The eight `_proofs` modules are checked by TLAPS for every value of the constants.
Every invariant and every action property that the passing runs check is a theorem, and so is
the safety part of every refinement; what depends on fairness is not (see
the end of this section). Where a property is not inductive by itself, the model has an
invariant that is, in a section of its own at the end of the module or at the head of the
proofs; TLC checked each of these invariants on the instance of the run before it was proved.

**Task graph.** Assumption: declarations have the types of `TaskSpec`. The loop of
`topological_order` is a recursive function; that it satisfies its defining equation
(`LoopRecurrence`) and what it has computed after n rounds (`LoopInv`) are proved by induction,
stated of a set of numbers (`NumbersFrom0`, from the least number outside the set), which
needs no theorem with an operator as parameter. `LoopInv`: the in-degrees
count the dependencies not popped, the ready set is what `ready_tasks` would answer, and each
task was the least ready one when it was popped (`Greedy`). From it: the order of an acyclic
graph is a linear extension, and at the first place where another one differs the
other has the greater task (`OrderIsLeastTopological`); when the loop stops early, the first
task of a linear extension that was not popped would be ready, so there is none, and the tasks with
an in-degree left are the largest set in which each waits for another
(`RefusedIffNoOrder`). `BuilderInv` carries this to every sequence of calls; also
`EdgesAreJustified`.

**Stealing pool.** Assumptions: a finite set of tasks with the dependencies among
them, an acyclic graph, at least one worker (what `build` and `new` guarantee), any
job maps, any number of spurious wake-ups. No property is inductive by itself; the
invariant `IndInv` has layers, each resting on those before it. Theorem
`InductiveInvariant`.

- Types: `TypeOK` with `HoldsJob` (a worker holds a job exactly between taking it
  and sending its end) and `Spawned`. Theorem `TypeCorrect`.
- Layer 1, `WakeInv`: who scans for pending work owns the wake lock
  (`WakeLockOwner`), and the queues it has already seen empty are still empty and
  shutdown is still off (`ScannedEmpty`), because only `enqueue` fills queues and
  needs the lock; so a worker parks only when there is nothing to do, and every
  later enqueue wakes it. Theorem `WakeCorrect`.
- Layer 2, `JobInv`: a queued job is queued once and was not entered, a held job is
  held once and was entered once, only ended jobs are reported, only what ended well
  is completed, and what is handed out has its dependencies completed. Theorems
  `ExactlyOnce`, `DependenciesFirst`, `NoConflictingOverlap` (two conflicting tasks
  have an edge between them, and the later one's dependency has ended), and with
  `JobsLeft` `JobAvailable`.
- Layer 3, `AnswerInv`: the phases of shutdown, `running` as the number of submitted
  and not completed tasks, and the report. `Success` is answered when nothing runs and
  nothing is ready; that all tasks are completed then rests on the acyclic graph: a task
  that is minimal among the rest would be ready. A job that was entered and
  has not ended is in the hands of a worker that has not exited, so none is
  running when all are joined. Theorem `AnswerFaithful`.
- Layer 4, `PlaceInv`: where each job is, and that a worker which began a job after the
  receiver was gone is on its way out. Theorems `JobsConserved` (the counting
  statement follows: each place is a set with at most one element) and `DrainIsBounded`.
- `PoolRefinesExecution`: under the refinement mapping every step is a step of
  `TaskExecution` or a stutter, which the run checks as `SafelyRefinesExecution`. This is
  the safety half (`SafeSpec`); that the call returns stays with TLC (`ScopeTermination`).

**Scope.** `ScopeRunsThePool`: a step of the scope is a step of the pool or leaves the
pool's variables alone, so `IndInv` carries over. On top of it `ScopeInv` ties the
token, the position of a worker inside a wrapped job and the ended jobs together; a job
that ended without its body was skipped and then the token is set, for ever.
Theorems `OkIsHonest`, `CancelledIsHonest`, `CancellationSkips`, `ScopeKeepsPoolPromise`.

**Fixed pool.** The same assumptions as for the stealing pool. `IndInv` has three layers: the messages (jobs precede the
goodbyes, and goodbyes queued, goodbyes still to be sent and workers that left are N
together), whose job it is, and what the coordinator may conclude. `InFlightIsBounded`
needs that a step moves a job from one of the counted places to the next; `NothingIsDropped`
needs the first layer: a worker exits only when all messages before its goodbye are
consumed, so after the join no job is left. Also `PoolIsWorkConserving` and
`PoolRefinesExecution`.

**Both schedulers.** In addition the assumption that the order is a linear extension of the
edges, which `OrderIsLinear` proves of every graph that `build` accepts. `BothInv` says that
a body that ended on the pool panicked exactly when it is faulty, that the reference
starts with the jobs the pool was given (what is left in the map and what was handed out), and
that, without cancellation, no task before its position is faulty. With the pool's `IndInv` this
gives `VerdictsAgree`: the two answers are of the same kind, and the
reference names the first faulty task of the order. `ReferenceRefinesExecution`: the
deterministic scheduler takes only steps of `TaskExecution`. Its invariant `ReferenceInv` says
that what lies before its position succeeded, nothing behind it was started and only the
task at the position can have panicked; a task is begun after its dependencies
because the order is linear, and Ok is answered at the end of an order that lists every task.

**Chunks.** Assumption `NoWrap`: the build checks overflow, or no request has
`iterations + chunk_size` beyond 2^W. For any `W` and any requests, `ChunksInv` says that
the planned ranges are the ones meant, that the calls of the body are
counted by chunk, and that the value combined so far is a prefix with every mark and
index in its place. The arithmetic is in lemmas: the chunks are as many as cover the range
(`ChunkCount`), every index is in the chunk division finds (`SomeChunk`) and in no other
(`OneChunk`). Theorems `IteratesOnce`, `ReducesInOrder`.

**Installer.** Assumption `Threads = FALSE`: calls with one process id do not overlap,
though ids may be used again. `InstallInv` says that a running call alone writes to
the directory it made (`OneLivePerPid`, `OwnStaging`, `StagedBy`), what that
directory holds at each step (`FilesOf`), and that a published directory is that of a
call which returned Ok (`PublishedBy`, `OkPublished`). From it: `PublishedWhole`,
`PublishedForever` (an action property) and `AnswersStayTrue`, for any number of calls,
processes, releases and targets, with crashes and failing operations; and with
`LeftBehind` (a call that returned left its staging directory only if removing it failed)
`StagingIsExplained`.

**UI.** Assumptions: a queue of positive capacity and layouts in which 0 is no node.
`PointerInv` is what the properties say with the types and that the retained backend
remembers placed nodes only. The work is in what a method promises of its result,
`Kept`: each method is shown to keep it on every path, the failing ones included, from
one lemma about `push_event` and one about `sync_hover`. That the reserved room is exactly what
is pushed gives `CapacityFailsWhole`; `EventsAreFaithful` needs that the events of
one call are legal one after the other, and that a press disappears from the model only with
an event or into `lost` (`PressTold`). Also `BackendIsConsistent`.

**Callbacks.** Assumption: there is one registrar; any number of dispatchers, tables and
registrations. The invariant says where a registration stands: while it
clears, what is loadable is the previous table with its context; when the context
is stored nothing is loadable; afterwards what is loadable is the new one. What a
dispatcher carries is not newer than the published context, and after the last store only what it
carries can still be replaced. From it: `PairsMatch`, `NeverOlder`, `AtMostOneLate`.

**Owning buffers and regions.** Assumptions: the addresses are finitely many and null is none of
them (`HeapAssumption`), and a name is a buffer or a variable and has one type of element
(`NamesAssumption`); any number of buffers, variables and addresses, any capacity. A place is a slot of a
buffer or a variable. `IInv` has two parts. Shapes (`HeapOK`, `BuffersOK`, `ValuesOK`, `RegionOK`,
`OwnPointers`): a header is `EMPTY` or points to a block of its capacity, no two headers to the same
block, every block has its header, elements below the length are initialised and of the
type of the buffer, and one element does not name an allocation twice; slots beyond the
length may hold anything. Ownership (`Partition`): the
allocations held by the places and those of the region divide the leaves of the heap, none in two parts
and none left out. `ExactlyOneOwner` only counts references and is not inductive: it does not say that
a block is a block or that a stale slot is not read. The operations become facts about
partitions (a part is moved to another place, emptied and freed, filled from free addresses, or all
places of a buffer are renumbered by an insertion or a removal), and each operation is shown to be
one of them; reserving moves a block and changes no part. Theorem `OneOwner`, for the
destructors too: what they release is what the places held.

`BuffersAreSequences` is the refinement of `OwnedSequences`. The meaning of an element is
that of the leaves it owns, and these are in nobody else's hands by `IInv`, so a step that
frees or writes an allocation changes the meaning of its own place and no other
(the lemmas on `MeaningIn`). Then each operation on slots is compared with its operation on
sequences: `Opened` and `Closed` with insertion and removal, the zeroed tail with appended zero
elements, a moved block with no change at all. A call that ran out of memory is shown to be
`Failed`: the source of an insertion keeps its value and the buffer its content. `RefinesSequences` has no fairness, so this is the whole
property.

**GPU resources.** Assumption: the limits are positive and artifacts declare access
kinds. None of the properties is inductive alone. The invariant adds that generations of live
accesses and of tokens are below the next one and that no two tokens, whoever holds them, are the same
access (`Generations`, `Holders`), and what the locals of the loop in progress are at each
binding (`CallInv`, `LeaseInv`). From it: `HoldersKnown`, `WritersAreExclusive`,
`HeldStaysResident`, `LeasesAreWhole`, `PlansStay`. That comparing a binding with the first
earlier one suffices is a consequence of how `Conflicts` treats reads.

**Only model-checked.** Liveness: `ScopeTermination`, and the fairness that `TaskExecution` adds to
its safe part in `RefinesExecution` and `SequentialRefinesExecution`; ENABLED and leads-to
under fairness are out of the prover's reach. Of each of these refinements the safety half
is a theorem (`PoolRefinesExecution`, `ReferenceRefinesExecution`).

## 5. What is not modelled

- Weak memory in the task runtime: atomics are sequentially consistent. The flags
  involved are read under the wake lock or only need to be seen eventually. For the
  callbacks see section 2.
- Of the owning buffers: carriers with several owning branches, elements nested more than one
  level deep, copying resizes, slices, growth of strings, calls with an index out of range, calls
  whose layout, field table or tag does not fit the elements (a record call may notice a bad
  tag only after it has destroyed earlier fields, H 2948-2960, 3072-3083; each
  destroyed descriptor is reset to empty). A `buffer_create` or `region_create` that fails changes
  nothing and is not a step. The artifact contract, backend selection and dispatch geometry of
  the GPU runtime, which refuse before they change anything.
- A worker thread that dies by a panic (`PoolError::WorkerPanicked`): jobs run inside
  `catch_unwind`, the rest of the loop does not panic. Poisoned locks are recovered by
  the code and carry no state here.
- Failure to spawn a thread; exhaustion of memory outside the owning buffers.
- The text of manifests and cryptography in the installer; a change of the artifact
  between verification and copy; `remove_dir_all` is one step.
- Geometry in the UI: a position is what it hits. Render frames.
- The UI layout tree, package resolver, effect inference and language server, which are
  planned below. Compiler passes,
  code generators, device runtimes and command-line tools have no lasting state whose
  order of steps matters, and inputs far beyond exhaustive search.

## 6. Plan

Done: the task runtime, the installer, the UI interaction model, the callbacks and
owning buffers of the host runtime, the GPU resource table; the proofs above.

Next modules, in this order:

1. `LayoutTree` (U 718-1165): ids and scopes, failure of a capacity half-way through
   an addition, then geometry of siblings as operators against a reference.
2. `PackageResolver` (`jadren-package`): the visit over all small file systems against
   reachability; duplicate names and the cycle diagnostic.
3. `EffectInference` (`jadren-effects`): the fixed point against reachability.
4. `LanguageServer` (`jadren-lsp`): the request loop over any sequence of messages.

With each of them its invariants as theorems: for `EffectInference` that the loop stops at the
least fixed point, by induction on a set of numbers as for the order of tasks.
