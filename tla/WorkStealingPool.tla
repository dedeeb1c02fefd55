--------------------------- MODULE WorkStealingPool ---------------------------
(***************************************************************************)
(* One call of WorkStealingPool::execute: the calling thread coordinates,  *)
(* N worker threads own a deque each.  Steps are the critical sections of  *)
(* the code: one queue lock, one hold of the wake lock, one channel        *)
(* operation, one atomic load.  The wake lock is state of its own because  *)
(* wait_for_work keeps it over a scan of all the queues, while other       *)
(* workers pop from them.                                                  *)
(***************************************************************************)
EXTENDS TaskGraph

CONSTANTS Tasks,        \* task identities of the graph
          DependsOn,    \* explicit dependencies of each task
          Accesses,     \* declared resource accesses of each task
          N,            \* worker_count
          JobSets,      \* the sets of keys a caller's map of jobs may have
          MaxSpurious   \* bound: wake-ups of the condition variable nobody sent

NoTask == -1
Free == -1                        \* the wake lock has no holder
Workers == 0 .. N - 1
Edges == GraphEdges(Tasks, DependsOn, Accesses)

\* `execute` is given a graph that TaskGraphBuilder::build accepted.
ASSUME TasksAssumption == Tasks \subseteq Nat /\ IsFiniteSet(Tasks)
ASSUME DependsOnAssumption == DependsOn \in [Tasks -> SUBSET Tasks]
ASSUME AcyclicAssumption ==
  \E rank \in [Tasks -> 0 .. Cardinality(Tasks)] :
     \A e \in Edges : rank[e[1]] < rank[e[2]]
\* WorkStealingPool::new refuses zero workers.
ASSUME NAssumption == N \in Nat \ {0}
ASSUME JobSetsAssumption == JobSets \subseteq SUBSET Nat
ASSUME MaxSpuriousAssumption == MaxSpurious \in Nat

VARIABLES
  \* the coordinator's locals; jobs are the keys left in the map of jobs
  phase, jobs, batch, submitted, completed, running, nextWorker, completedOrder,
  outcome,
  \* StealQueueState and the completion channel
  queues, shutdown, wakeLock, channel, receiverAlive,
  \* the workers
  pc, probe, held, result,
  \* history: how often each job's closure was entered, how it ended, and
  \* how many jobs a worker began after the completion receiver was gone
  starts, ended, late,
  spurious

coordVars == <<phase, jobs, batch, submitted, completed, running, nextWorker,
               completedOrder, outcome>>
sharedVars == <<queues, shutdown, wakeLock, channel, receiverAlive>>
workerVars == <<pc, probe, held, result>>
history == <<starts, ended, late>>
vars == <<coordVars, sharedVars, workerVars, history, spurious>>

Phases == {"validate", "scan", "dispatch", "receive", "shutdown", "drop", "join",
           "returned", "refused"}
Pcs == {"unspawned", "take", "idle", "lock", "test", "pending", "waiting", "run", "send",
        "exited"}
JobResults == {"Ok", "Panicked"}

Pending == [kind |-> "Pending"]
Success == [kind |-> "Ok"]
ChannelClosed == [kind |-> "WorkerChannelClosed"]
TaskFailed(t) == [kind |-> "TaskFailed", task |-> t]
JobSetMismatch(missing, extra) ==
  [kind |-> "JobSetMismatch", missing |-> missing, extra |-> extra]

Init ==
  /\ phase = "validate" /\ jobs \in JobSets /\ batch = {} /\ submitted = {} /\ completed = {}
  /\ running = 0 /\ nextWorker = 0 /\ completedOrder = << >>
  /\ outcome = Pending
  /\ queues = [w \in Workers |-> << >>]
  /\ shutdown = FALSE /\ wakeLock = Free
  /\ channel = << >> /\ receiverAlive = TRUE
  /\ pc = [w \in Workers |-> "unspawned"]
  /\ probe = [w \in Workers |-> 0]
  /\ held = [w \in Workers |-> NoTask]
  /\ result = [w \in Workers |-> "Ok"]
  /\ starts = [t \in Tasks |-> 0]
  /\ ended = [t \in Tasks |-> "no"]
  /\ late = [w \in Workers |-> 0]
  /\ spurious = 0

-----------------------------------------------------------------------------
(* Coordinator: the loop of execute.                                       *)

\* Fault: a notification that is never sent.
NotifyNone == pc

\* The workers that wait on `wake` and are to reacquire the wake lock.
NotifyAll == [w \in Workers |-> IF pc[w] = "waiting" THEN "lock" ELSE pc[w]]

\* next_worker = (next_worker + 1) % self.worker_count.
RoundRobin(i) == (i + 1) % N

\* Fault: any map of jobs will do.
NotCompared == TRUE

\* expected == actual
JobsMatch == jobs = Tasks

\* The early return of execute, or else the state, the channel and the
\* workers are made.
Validate ==
  /\ phase = "validate"
  /\ IF JobsMatch
     THEN /\ phase' = "scan" /\ pc' = [w \in Workers |-> "take"]
          /\ UNCHANGED outcome
     ELSE /\ phase' = "refused" /\ UNCHANGED pc
          /\ outcome' = JobSetMismatch(Tasks \ jobs, jobs \ Tasks)
  /\ UNCHANGED <<jobs, batch, submitted, completed, running, nextWorker,
                 completedOrder, sharedVars, probe, held, result, history,
                 spurious>>

\* graph.ready_tasks(&completed), without the tasks already submitted.
Scan ==
  /\ phase = "scan"
  /\ batch' = ReadyTasks(Tasks, Edges, completed) \ submitted
  /\ phase' = "dispatch"
  /\ UNCHANGED <<jobs, submitted, completed, running, nextWorker,
                 completedOrder, outcome, sharedVars, workerVars, history, spurious>>

\* state.enqueue and the bookkeeping after it, for the next task in order.
Enqueue ==
  /\ phase = "dispatch"
  /\ batch # {}
  /\ wakeLock = Free
  /\ LET t == First(batch)
     IN  /\ queues' = [queues EXCEPT ![nextWorker] = Append(@, t)]
         /\ jobs' = jobs \ {t}
         /\ batch' = batch \ {t}
         /\ submitted' = submitted \cup {t}
  /\ pc' = NotifyAll
  /\ nextWorker' = RoundRobin(nextWorker)
  /\ running' = running + 1
  /\ UNCHANGED <<phase, completed, completedOrder, outcome, shutdown, wakeLock,
                 channel, receiverAlive, probe, held, result, history, spurious>>

\* Fault: the loop ends once everything was handed out.
AllSubmitted == submitted = Tasks

\* completed.len() == expected.len(): completed only holds tasks of the graph.
AllCompleted == completed = Tasks

\* The two exits of the loop between dispatching and receiving.
CheckDone ==
  /\ phase = "dispatch"
  /\ batch = {}
  /\ IF AllCompleted
     THEN phase' = "shutdown" /\ outcome' = Success
     ELSE IF running = 0
          THEN phase' = "shutdown" /\ outcome' = ChannelClosed
          ELSE phase' = "receive" /\ UNCHANGED outcome
  /\ UNCHANGED <<jobs, batch, submitted, completed, running, nextWorker,
                 completedOrder, sharedVars, workerVars, history, spurious>>

\* completion_receiver.recv() blocks until a completion or, when every
\* worker dropped its sender, an error.
Receive ==
  /\ phase = "receive"
  /\ channel # << >> \/ \A w \in Workers : pc[w] = "exited"
  /\ IF channel = << >>
     THEN /\ phase' = "shutdown" /\ outcome' = ChannelClosed
          /\ UNCHANGED <<completed, running, completedOrder, channel>>
     ELSE LET c == Head(channel)
          IN  /\ channel' = Tail(channel)
              /\ running' = running - 1
              /\ IF c.result = "Panicked"
                 THEN /\ phase' = "shutdown" /\ outcome' = TaskFailed(c.task)
                      /\ UNCHANGED <<completed, completedOrder>>
                 ELSE /\ phase' = "scan"
                      /\ completed' = completed \cup {c.task}
                      /\ completedOrder' = Append(completedOrder, c.task)
                      /\ UNCHANGED outcome
  /\ UNCHANGED <<jobs, batch, submitted, nextWorker, queues, shutdown, wakeLock,
                 receiverAlive, workerVars, history, spurious>>

\* state.request_shutdown().
RequestShutdown ==
  /\ phase = "shutdown"
  /\ wakeLock = Free
  /\ shutdown' = TRUE
  /\ pc' = NotifyAll
  /\ phase' = "drop"
  /\ UNCHANGED <<jobs, batch, submitted, completed, running, nextWorker,
                 completedOrder, outcome, queues, wakeLock, channel,
                 receiverAlive, probe, held, result, history, spurious>>

\* drop(completion_receiver): what is still in the channel is lost.
DropReceiver ==
  /\ phase = "drop"
  /\ receiverAlive' = FALSE
  /\ channel' = << >>
  /\ phase' = "join"
  /\ UNCHANGED <<jobs, batch, submitted, completed, running, nextWorker,
                 completedOrder, outcome, queues, shutdown, wakeLock,
                 workerVars, history, spurious>>

\* join_workers, then the answer.  Jobs left in a queue are dropped with it.
Join ==
  /\ phase = "join"
  /\ \A w \in Workers : pc[w] = "exited"
  /\ phase' = "returned"
  /\ queues' = [w \in Workers |-> << >>]
  /\ UNCHANGED <<jobs, batch, submitted, completed, running, nextWorker,
                 completedOrder, outcome, shutdown, wakeLock, channel,
                 receiverAlive, workerVars, history, spurious>>

-----------------------------------------------------------------------------
(* Workers: the thread body of spawn_stealing_workers.                     *)

Goto(w, label) == pc' = [pc EXCEPT ![w] = label]

\* The queue that the probe-th lock of take looks at.
Victim(w) == (w + probe[w]) % N

\* The own deque is popped at the back, a victim's at the front.
Popped(w, q) == IF probe[w] = 0 THEN q[Len(q)] ELSE Head(q)

\* Fault: the job is read and stays in the queue.
RestUnchanged(w, q) == q

Rest(w, q) == IF probe[w] = 0 THEN SubSeq(q, 1, Len(q) - 1) ELSE Tail(q)

\* One queue of take; the job found is entered at once.
Take(w) ==
  /\ pc[w] = "take"
  /\ queues[Victim(w)] # << >>
  /\ LET q == queues[Victim(w)]
         t == Popped(w, q)
     IN  /\ queues' = [queues EXCEPT ![Victim(w)] = Rest(w, q)]
         /\ held' = [held EXCEPT ![w] = t]
         /\ starts' = [starts EXCEPT ![t] = @ + 1]
  /\ late' = [late EXCEPT ![w] = IF receiverAlive THEN @ ELSE @ + 1]
  /\ probe' = [probe EXCEPT ![w] = 0]
  /\ Goto(w, "run")
  /\ UNCHANGED <<coordVars, shutdown, wakeLock, channel, receiverAlive, result,
                 ended, spurious>>

\* An empty queue: try the next victim, or give up after the last.
TakeEmpty(w) ==
  /\ pc[w] = "take"
  /\ queues[Victim(w)] = << >>
  /\ IF probe[w] = N - 1
     THEN probe' = [probe EXCEPT ![w] = 0] /\ Goto(w, "idle")
     ELSE probe' = [probe EXCEPT ![w] = @ + 1] /\ UNCHANGED pc
  /\ UNCHANGED <<coordVars, sharedVars, held, result, history, spurious>>

\* take returned None: leave when shutdown was requested, else wait.
Idle(w) ==
  /\ pc[w] = "idle"
  /\ Goto(w, IF shutdown THEN "exited" ELSE "lock")
  /\ UNCHANGED <<coordVars, sharedVars, probe, held, result, history, spurious>>

\* wait_for_work takes the wake lock, first or again after a wake-up.
LockWake(w) ==
  /\ pc[w] = "lock"
  /\ wakeLock = Free
  /\ wakeLock' = w
  /\ Goto(w, "test")
  /\ UNCHANGED <<coordVars, queues, shutdown, channel, receiverAlive, probe,
                 held, result, history, spurious>>

\* while !self.shutdown.load(..): the guard is dropped when it is set.
TestShutdown(w) ==
  /\ pc[w] = "test"
  /\ IF shutdown
     THEN wakeLock' = Free /\ Goto(w, "take")
     ELSE UNCHANGED wakeLock /\ Goto(w, "pending")
  /\ UNCHANGED <<coordVars, queues, shutdown, channel, receiverAlive, probe,
                 held, result, history, spurious>>

\* One queue of has_pending, under the wake lock.  After the last empty one
\* Condvar::wait gives the lock up and parks in one step.
TestPending(w) ==
  /\ pc[w] = "pending"
  /\ IF queues[probe[w]] # << >>
     THEN /\ Goto(w, "take") /\ wakeLock' = Free
          /\ probe' = [probe EXCEPT ![w] = 0]
     ELSE IF probe[w] = N - 1
          THEN /\ Goto(w, "waiting") /\ wakeLock' = Free
               /\ probe' = [probe EXCEPT ![w] = 0]
          ELSE /\ probe' = [probe EXCEPT ![w] = @ + 1]
               /\ UNCHANGED <<pc, wakeLock>>
  /\ UNCHANGED <<coordVars, queues, shutdown, channel, receiverAlive, held,
                 result, history, spurious>>

\* Condvar::wait may return without a notification.
SpuriousWake(w) ==
  /\ pc[w] = "waiting"
  /\ spurious < MaxSpurious
  /\ spurious' = spurious + 1
  /\ Goto(w, "lock")
  /\ UNCHANGED <<coordVars, sharedVars, probe, held, result, history>>

\* catch_unwind(job): the closure returns or panics.
RunJob(w) ==
  /\ pc[w] = "run"
  /\ \E r \in JobResults :
       /\ result' = [result EXCEPT ![w] = r]
       /\ ended' = [ended EXCEPT ![held[w]] = r]
  /\ Goto(w, "send")
  /\ UNCHANGED <<coordVars, sharedVars, probe, held, starts, late, spurious>>

\* Fault: the worker goes on although nobody receives completions any more.
AfterFailedSend == "take"

\* Where the loop goes when completion_sender.send returned an error.
SendErrorTarget == "exited"

\* completion_sender.send: an error ends the worker.
SendCompletion(w) ==
  /\ pc[w] = "send"
  /\ held' = [held EXCEPT ![w] = NoTask]
  /\ IF receiverAlive
     THEN /\ channel' = Append(channel, [task |-> held[w], result |-> result[w]])
          /\ Goto(w, "take")
     ELSE UNCHANGED channel /\ Goto(w, SendErrorTarget)
  /\ result' = [result EXCEPT ![w] = "Ok"]
  /\ UNCHANGED <<coordVars, queues, shutdown, wakeLock, receiverAlive, probe,
                 history, spurious>>

-----------------------------------------------------------------------------
Coordinator == \/ Validate \/ Scan \/ Enqueue \/ CheckDone \/ Receive
               \/ RequestShutdown \/ DropReceiver \/ Join

Worker(w) == \/ Take(w) \/ TakeEmpty(w) \/ Idle(w) \/ LockWake(w)
             \/ TestShutdown(w) \/ TestPending(w) \/ RunJob(w)
             \/ SendCompletion(w)

\* execute has returned to its caller.
Over == phase \in {"returned", "refused"}

Returned == Over /\ UNCHANGED vars

Next == \/ Coordinator
        \/ \E w \in Workers : Worker(w) \/ SpuriousWake(w)
        \/ Returned

\* The operating system schedules every thread, and job closures end.
Fairness == WF_vars(Coordinator) /\ \A w \in Workers : WF_vars(Worker(w))

Spec == Init /\ [][Next]_vars
FairSpec == Spec /\ Fairness

-----------------------------------------------------------------------------
(* Properties.                                                             *)

Completions == [task : Tasks, result : JobResults]
Mismatches ==
  [kind : {"JobSetMismatch"}, missing : SUBSET Nat, extra : SUBSET Nat]
Outcomes == {Pending, Success, ChannelClosed} \cup { TaskFailed(t) : t \in Tasks }
            \cup Mismatches

\* Every variable stays in the set its Rust type and use give it.
TypeOK ==
  /\ phase \in Phases /\ jobs \subseteq Nat
  /\ batch \subseteq Tasks /\ submitted \subseteq Tasks
  /\ completed \subseteq Tasks
  /\ running \in Int /\ nextWorker \in Workers
  /\ completedOrder \in Seq(Tasks)
  /\ outcome \in Outcomes
  /\ queues \in [Workers -> Seq(Tasks)]
  /\ shutdown \in BOOLEAN /\ receiverAlive \in BOOLEAN
  /\ wakeLock \in Workers \cup {Free}
  /\ channel \in Seq(Completions)
  /\ pc \in [Workers -> Pcs]
  /\ probe \in [Workers -> Workers]
  /\ held \in [Workers -> Tasks \cup {NoTask}]
  /\ result \in [Workers -> JobResults]
  /\ starts \in [Tasks -> Nat]
  /\ ended \in [Tasks -> JobResults \cup {"no"}]
  /\ late \in [Workers -> Nat]
  /\ spurious \in Nat

QueueSlots(t) ==
  { s \in Workers \X (1 .. Cardinality(Tasks)) :
      s[2] \in DOMAIN queues[s[1]] /\ queues[s[1]][s[2]] = t }
Hands(t) == { w \in Workers : held[w] = t }
ChannelSlots(t) == { i \in DOMAIN channel : channel[i].task = t }
ReportSlots(t) == { i \in DOMAIN completedOrder : completedOrder[i] = t }

\* No job is lost or duplicated on its way from the map of jobs over a deque,
\* a worker and the completion channel into the report (execute, take and
\* the worker loop): while the receiver lives, a submitted task that is not
\* the reported failure is in exactly one of these places, and its closure
\* was entered once iff it left the deques.
JobConservation ==
  receiverAlive =>
    \A t \in Tasks :
      LET places == Cardinality(QueueSlots(t)) + Cardinality(Hands(t))
                    + Cardinality(ChannelSlots(t)) + Cardinality(ReportSlots(t))
      IN  /\ places = IF t \in submitted /\ outcome # TaskFailed(t) THEN 1 ELSE 0
          /\ starts[t] = IF t \in submitted /\ QueueSlots(t) = {} THEN 1 ELSE 0

\* "Executes every graph task exactly once": no closure is entered twice,
\* also not by workers that still drain their queues during shutdown.
AtMostOnce == \A t \in Tasks : starts[t] <= 1

\* jobs.remove(&task).expect("validated graph/job set") never panics, however
\* often ready_tasks names a task: what is about to be handed out is there.
JobAlwaysThere == batch \subseteq jobs

\* A closure runs only after the closures of all tasks it depends on have
\* returned without a panic.
DependencyOrder ==
  \A w \in Workers : pc[w] = "run" =>
    \A d \in DependenciesOf(Tasks, Edges, held[w]) : ended[d] = "Ok"

\* Both touch one resource, and not both only read it.
MustExclude(a, b) ==
  \E l \in a, r \in b :
     l.resource = r.resource /\ {l.mode, r.mode} # {"Read"}

\* Two workers never run tasks with conflicting declared accesses at once,
\* which is what the conflict edges of build() are for.
ConflictsExclusive ==
  \A v, w \in Workers :
    (v # w /\ pc[v] = "run" /\ pc[w] = "run") =>
      ~MustExclude(Accesses[held[v]], Accesses[held[w]])

\* No lost wake-up between take, has_pending and Condvar::wait: nobody is
\* parked while a deque holds a job or after shutdown was requested.
NoLostWakeup ==
  (\E w \in Workers : pc[w] = "waiting") =>
     ~shutdown /\ \A w \in Workers : queues[w] = << >>

\* The answer is true of what happened: Ok means every closure returned and
\* completed_order lists the tasks in an order the edges allow; TaskFailed
\* names a task whose closure panicked; JobSetMismatch lists what is wrong
\* and nothing was run; WorkerChannelClosed never happens.  In every case no
\* closure is still running.
FaithfulAnswer ==
  Over =>
    /\ \A t \in Tasks : starts[t] > 0 => ended[t] # "no"
    /\ \/ /\ outcome = Success
          /\ \A t \in Tasks : ended[t] = "Ok"
          /\ \A e \in Edges : \E i, j \in DOMAIN completedOrder :
               i < j /\ completedOrder[i] = e[1] /\ completedOrder[j] = e[2]
       \/ \E t \in Tasks : outcome = TaskFailed(t) /\ ended[t] = "Panicked"
       \/ /\ outcome = JobSetMismatch(Tasks \ jobs, jobs \ Tasks)
          /\ jobs # Tasks
          /\ \A t \in Tasks : starts[t] = 0

\* Draining after a failure is bounded: once the completion receiver is
\* gone, each worker begins at most one more job before its send fails.
BoundedDrain == \A w \in Workers : late[w] <= 1

\* The documentation of WorkStealingPool: after a failed task requested
\* shutdown, "queued but not-yet-started jobs are then dropped".
QueuedJobsDropped ==
  [][(shutdown /\ outcome.kind = "TaskFailed") => starts' = starts]_vars

Execution == INSTANCE TaskExecution WITH
  started   <- { t \in Tasks : starts[t] > 0 },
  succeeded <- { t \in Tasks : ended[t] = "Ok" },
  panicked  <- { t \in Tasks : ended[t] = "Panicked" },
  given     <- jobs \cup submitted,
  answer    <- IF Over THEN outcome ELSE Pending

\* The stealing pool begins, ends and answers for jobs only as an execution
\* scope may; that it returns is ScopeTermination.
SafelyRefinesExecution == Execution!SafeSpec

-----------------------------------------------------------------------------
(* The inductive invariant behind the safety properties, in four layers.   *)

Dependencies(t) == DependenciesOf(Tasks, Edges, t)

\* There are no workers before the map of jobs was accepted.
Spawned ==
  phase \in {"validate", "refused"} => \A w \in Workers : pc[w] = "unspawned"

\* A worker holds a job exactly between taking it and reporting its end.
HoldsJob == \A w \in Workers : pc[w] \in {"run", "send"} <=> held[w] # NoTask

\* Layer 1, the wake lock: whoever scans for pending work owns it, shutdown
\* cannot be requested meanwhile and queues seen empty stay empty.
WakeLockOwner ==
  \A w \in Workers : pc[w] \in {"test", "pending"} <=> wakeLock = w
ProbeReset ==
  \A w \in Workers : pc[w] \notin {"take", "pending"} => probe[w] = 0
ScannedEmpty ==
  \A w \in Workers : pc[w] = "pending" =>
     ~shutdown /\ \A i \in Workers : i < probe[w] => queues[i] = << >>

WakeInv == WakeLockOwner /\ ProbeReset /\ ScannedEmpty /\ NoLostWakeup

\* Layer 2, whose job it is: a queued job was not entered yet and is queued
\* once, a held job is held once, and only finished jobs are reported.
Unsubmitted ==
  \A t \in Tasks \ submitted : starts[t] = 0 /\ ended[t] = "no"
QueuedFresh ==
  \A w \in Workers : \A i \in 1 .. Len(queues[w]) :
     /\ queues[w][i] \in submitted
     /\ starts[queues[w][i]] = 0
     /\ ended[queues[w][i]] = "no"
QueuedOnce ==
  \A v, w \in Workers :
    \A i \in 1 .. Len(queues[v]), j \in 1 .. Len(queues[w]) :
       queues[v][i] = queues[w][j] => v = w /\ i = j
HeldOnce ==
  \A v, w \in Workers : held[v] = held[w] /\ held[v] # NoTask => v = w
HeldStarted ==
  \A w \in Workers : held[w] # NoTask =>
     /\ held[w] \in submitted
     /\ starts[held[w]] = 1
     /\ ended[held[w]] = IF pc[w] = "run" THEN "no" ELSE result[w]
Reported ==
  \A i \in 1 .. Len(channel) :
     /\ channel[i].task \in submitted
     /\ ended[channel[i].task] = channel[i].result
CompletedOk == \A t \in completed : t \in submitted /\ ended[t] = "Ok"
BatchReady ==
  \A t \in batch : t \notin submitted /\ Dependencies(t) \subseteq completed
SubmittedReady == \A t \in submitted : Dependencies(t) \subseteq completed

JobInv ==
  /\ Unsubmitted /\ QueuedFresh /\ QueuedOnce /\ HeldOnce /\ HeldStarted
  /\ Reported /\ CompletedOk /\ BatchReady /\ SubmittedReady /\ AtMostOnce

\* The map of jobs holds what was not handed out yet.
JobsLeft ==
  IF phase \in {"validate", "refused"} THEN batch = {} /\ submitted = {}
  ELSE jobs = Tasks \ submitted

\* Layer 3, what the coordinator may conclude: the phases of shutdown, the
\* counter `running`, and that a job which was entered and has not ended is
\* in the hands of a running worker.
ShutdownPhases ==
  /\ shutdown <=> phase \in {"drop", "join", "returned"}
  /\ receiverAlive <=> phase \notin {"join", "returned"}
  /\ phase = "returned" => \A w \in Workers : pc[w] = "exited"
  /\ \A w \in Workers : pc[w] = "exited" => shutdown
ReportedOnce ==
  /\ \A i, j \in 1 .. Len(channel) : channel[i].task = channel[j].task => i = j
  /\ \A i \in 1 .. Len(channel) : channel[i].task \notin completed
  /\ \A w \in Workers : held[w] # NoTask =>
       /\ held[w] \notin completed
       /\ \A i \in 1 .. Len(channel) : channel[i].task # held[w]
RunningCount ==
  phase \in {"validate", "scan", "dispatch", "receive"} =>
     running = Cardinality(submitted \ completed)
DispatchComplete ==
  /\ phase = "dispatch" =>
       ReadyTasks(Tasks, Edges, completed) \subseteq submitted \cup batch
  /\ phase # "dispatch" => batch = {}
EnteredHeld ==
  \A t \in Tasks : starts[t] > 0 /\ ended[t] = "no" =>
     \E w \in Workers : held[w] = t
OrderedReport ==
  /\ \A t \in completed : \E i \in 1 .. Len(completedOrder) : completedOrder[i] = t
  /\ \A j \in 1 .. Len(completedOrder) :
       \A d \in Dependencies(completedOrder[j]) :
         \E i \in 1 .. Len(completedOrder) : i < j /\ completedOrder[i] = d
OutcomeTrue ==
  /\ outcome = Pending <=> phase \in {"validate", "scan", "dispatch", "receive"}
  /\ phase = "refused" =>
       outcome = JobSetMismatch(Tasks \ jobs, jobs \ Tasks) /\ jobs # Tasks
  /\ outcome \in Mismatches => phase = "refused"
  /\ outcome # ChannelClosed
  /\ outcome = Success => completed = Tasks
  /\ \A t \in Tasks : outcome = TaskFailed(t) => ended[t] = "Panicked"

AnswerInv ==
  /\ ShutdownPhases /\ ReportedOnce /\ RunningCount /\ DispatchComplete
  /\ EnteredHeld /\ OrderedReport /\ OutcomeTrue

\* Layer 4, where every job is: while completions are received a submitted
\* job is queued, held, in the channel, in the report, or the failure that is
\* about to be answered; and a worker that began a job too late leaves.
Queued(t) == \E w \in Workers : \E i \in 1 .. Len(queues[w]) : queues[w][i] = t
Accounted ==
  receiverAlive =>
    \A t \in submitted :
      \/ Queued(t)
      \/ \E w \in Workers : held[w] = t
      \/ \E i \in 1 .. Len(channel) : channel[i].task = t
      \/ t \in completed
      \/ outcome = TaskFailed(t)
FailedGone ==
  \A t \in Tasks : outcome = TaskFailed(t) =>
    /\ t \in submitted
    /\ \A w \in Workers : held[w] # t
    /\ \A i \in 1 .. Len(channel) : channel[i].task # t
ReportDistinct ==
  /\ \A i \in 1 .. Len(completedOrder) : completedOrder[i] \in completed
  /\ \A i, j \in 1 .. Len(completedOrder) :
       completedOrder[i] = completedOrder[j] => i = j
EndedStarted == \A t \in Tasks : ended[t] # "no" => starts[t] = 1
LateLeaves ==
  /\ receiverAlive => \A w \in Workers : late[w] = 0
  /\ \A w \in Workers : late[w] # 0 =>
       late[w] = 1 /\ pc[w] \in {"run", "send", "exited"}

PlaceInv ==
  Accounted /\ FailedGone /\ ReportDistinct /\ EndedStarted /\ LateLeaves

\* The inductive invariant of the proofs: what `execute` maintains about
\* the wake lock, the owner of every job, the coordinator's view and the
\* place of every job.
IndInv ==
  /\ TypeOK /\ Spawned /\ HoldsJob /\ WakeInv
  /\ JobInv /\ JobsLeft /\ AnswerInv /\ PlaceInv
=============================================================================
