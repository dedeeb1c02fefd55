------------------------------ MODULE WorkerPool ------------------------------
(***************************************************************************)
(* One call of WorkerPool::execute: N workers share one work channel whose *)
(* receiver is behind a mutex; the coordinator hands out at most N jobs at *)
(* a time and ends the workers with one Shutdown message each.  A worker   *)
(* keeps the mutex while it blocks in recv().                              *)
(***************************************************************************)
EXTENDS TaskGraph

CONSTANTS Tasks, DependsOn, Accesses,
          N,              \* worker_count
          JobSets         \* the sets of keys a caller's map of jobs may have

NoTask == -1
Shutdown == -2            \* WorkMessage::Shutdown; other messages are tasks
Free == -1
Workers == 0 .. N - 1
Edges == GraphEdges(Tasks, DependsOn, Accesses)

ASSUME TasksAssumption == Tasks \subseteq Nat /\ IsFiniteSet(Tasks)
ASSUME DependsOnAssumption == DependsOn \in [Tasks -> SUBSET Tasks]
ASSUME AcyclicAssumption ==
  \E rank \in [Tasks -> 0 .. Cardinality(Tasks)] :
     \A e \in Edges : rank[e[1]] < rank[e[2]]
ASSUME NAssumption == N \in Nat \ {0}
ASSUME JobSetsAssumption == JobSets \subseteq SUBSET Nat

VARIABLES
  phase, jobs, batch, submitted, completed, running, completedOrder, outcome,
  goodbyes,                 \* Shutdown messages still to be sent
  work, senderAlive,        \* the work channel
  recvLock,                 \* who holds the mutex around its receiver
  channel,                  \* the completion channel
  pc, held, result,
  starts, ended             \* history: closures entered, how they ended

coordVars == <<phase, jobs, batch, submitted, completed, running, completedOrder,
               outcome, goodbyes>>
workerVars == <<pc, held, result>>
history == <<starts, ended>>
vars == <<coordVars, work, senderAlive, recvLock, channel, workerVars, history>>

JobResults == {"Ok", "Panicked"}
Pending == [kind |-> "Pending"]
Success == [kind |-> "Ok"]
ChannelClosed == [kind |-> "WorkerChannelClosed"]
TaskFailed(t) == [kind |-> "TaskFailed", task |-> t]
JobSetMismatch(missing, extra) ==
  [kind |-> "JobSetMismatch", missing |-> missing, extra |-> extra]

AllExited == \A w \in Workers : pc[w] = "exited"

Init ==
  /\ phase = "validate" /\ jobs \in JobSets /\ batch = {} /\ submitted = {} /\ completed = {}
  /\ running = 0 /\ completedOrder = << >> /\ outcome = Pending
  /\ goodbyes = N
  /\ work = << >> /\ senderAlive = TRUE /\ recvLock = Free
  /\ channel = << >>
  /\ pc = [w \in Workers |-> "unspawned"]
  /\ held = [w \in Workers |-> NoTask]
  /\ result = [w \in Workers |-> "Ok"]
  /\ starts = [t \in Tasks |-> 0]
  /\ ended = [t \in Tasks |-> "no"]

-----------------------------------------------------------------------------
(* Coordinator.                                                            *)

\* The early return for a map of jobs that does not fit the graph, or else
\* the channels and the workers are made.
Validate ==
  /\ phase = "validate"
  /\ IF jobs = Tasks
     THEN /\ phase' = "scan" /\ pc' = [w \in Workers |-> "lock"]
          /\ UNCHANGED outcome
     ELSE /\ phase' = "refused" /\ UNCHANGED pc
          /\ outcome' = JobSetMismatch(Tasks \ jobs, jobs \ Tasks)
  /\ UNCHANGED <<jobs, batch, submitted, completed, running, completedOrder,
                 goodbyes, work, senderAlive, recvLock, channel, held, result,
                 history>>

Scan ==
  /\ phase = "scan"
  /\ batch' = ReadyTasks(Tasks, Edges, completed) \ submitted
  /\ phase' = "dispatch"
  /\ UNCHANGED <<jobs, submitted, completed, running, completedOrder, outcome,
                 goodbyes, work, senderAlive, recvLock, channel, workerVars,
                 history>>

\* Fault: one job too many is handed out.
RoomPlusOne == running <= N

\* Fault: jobs are handed out one at a time.
RoomWhenIdle == running = 0

\* if running >= self.worker_count { break; }
Room == running < N

\* work_sender.send fails once every worker dropped the shared receiver.
Dispatch ==
  /\ phase = "dispatch"
  /\ batch # {} /\ Room
  /\ jobs' = jobs \ {First(batch)}
  /\ LET t == First(batch)
     IN  IF AllExited
         THEN /\ phase' = "shutdown" /\ outcome' = ChannelClosed
              /\ UNCHANGED <<batch, work, submitted, running>>
         ELSE /\ work' = Append(work, t)
              /\ batch' = batch \ {t}
              /\ submitted' = submitted \cup {t}
              /\ running' = running + 1
              /\ UNCHANGED <<phase, outcome>>
  /\ UNCHANGED <<completed, completedOrder, goodbyes, senderAlive, recvLock,
                 channel, workerVars, history>>

\* Fault: the loop ends when nothing is left to hand out.
NothingReady == ReadyTasks(Tasks, Edges, completed) = {}
                \/ submitted = Tasks

\* completed.len() == expected.len()
AllCompleted == completed = Tasks

CheckDone ==
  /\ phase = "dispatch"
  /\ batch = {} \/ ~Room
  /\ batch' = {}
  /\ IF AllCompleted
     THEN phase' = "shutdown" /\ outcome' = Success
     ELSE IF running = 0
          THEN phase' = "shutdown" /\ outcome' = ChannelClosed
          ELSE phase' = "receive" /\ UNCHANGED outcome
  /\ UNCHANGED <<jobs, submitted, completed, running, completedOrder, goodbyes, work,
                 senderAlive, recvLock, channel, workerVars, history>>

Receive ==
  /\ phase = "receive"
  /\ channel # << >> \/ AllExited
  /\ IF channel = << >>
     THEN /\ phase' = "shutdown" /\ outcome' = ChannelClosed
          /\ UNCHANGED <<completed, running, completedOrder, channel>>
     ELSE LET c == Head(channel)
          IN  /\ channel' = Tail(channel)
              /\ running' = running - 1
              /\ IF c.result = "Panicked"
                 THEN /\ phase' = "shutdown" /\ outcome' = TaskFailed(c.task)
                      /\ UNCHANGED <<completed, completedOrder>>
                 ELSE /\ phase' = "scan"
                      /\ completed' = completed \cup {c.task}
                      /\ completedOrder' = Append(completedOrder, c.task)
                      /\ UNCHANGED outcome
  /\ UNCHANGED <<jobs, batch, submitted, goodbyes, work, senderAlive, recvLock,
                 workerVars, history>>

\* Fault: a Shutdown message overtakes the jobs that are still queued.
ShutdownFirst == <<Shutdown>> \o work

ShutdownLast == Append(work, Shutdown)

\* for _ in 0..worker_count: a failed send is ignored.
SendShutdown ==
  /\ phase = "shutdown"
  /\ goodbyes > 0
  /\ goodbyes' = goodbyes - 1
  /\ work' = IF AllExited THEN work ELSE ShutdownLast
  /\ UNCHANGED <<phase, jobs, batch, submitted, completed, running, completedOrder,
                 outcome, senderAlive, recvLock, channel, workerVars, history>>

DropSender ==
  /\ phase = "shutdown"
  /\ goodbyes = 0
  /\ senderAlive' = FALSE
  /\ phase' = "join"
  /\ UNCHANGED <<jobs, batch, submitted, completed, running, completedOrder, outcome,
                 goodbyes, work, recvLock, channel, workerVars, history>>

Join ==
  /\ phase = "join"
  /\ AllExited
  /\ phase' = "returned"
  /\ UNCHANGED <<jobs, batch, submitted, completed, running, completedOrder, outcome,
                 goodbyes, work, senderAlive, recvLock, channel, workerVars,
                 history>>

-----------------------------------------------------------------------------
(* Workers.                                                                *)

Goto(w, label) == pc' = [pc EXCEPT ![w] = label]

LockReceiver(w) ==
  /\ pc[w] = "lock"
  /\ recvLock = Free
  /\ recvLock' = w
  /\ Goto(w, "recv")
  /\ UNCHANGED <<coordVars, work, senderAlive, channel, held, result, history>>

\* The closure around guard.recv() drops the guard.
GuardDropped == Free

\* guard.recv() of a job; the guard is dropped before the job is entered.
TakeJob(w) ==
  /\ pc[w] = "recv"
  /\ work # << >> /\ Head(work) # Shutdown
  /\ work' = Tail(work)
  /\ recvLock' = GuardDropped
  /\ held' = [held EXCEPT ![w] = Head(work)]
  /\ starts' = [starts EXCEPT ![Head(work)] = @ + 1]
  /\ Goto(w, "run")
  /\ UNCHANGED <<coordVars, senderAlive, channel, result, ended>>

\* A Shutdown message, or the end of the channel, ends the worker.
TakeShutdown(w) ==
  /\ pc[w] = "recv"
  /\ IF work = << >> THEN ~senderAlive /\ UNCHANGED work
     ELSE Head(work) = Shutdown /\ work' = Tail(work)
  /\ recvLock' = GuardDropped
  /\ Goto(w, "exited")
  /\ UNCHANGED <<coordVars, senderAlive, channel, held, result, history>>

RunJob(w) ==
  /\ pc[w] = "run"
  /\ \E r \in JobResults :
       /\ result' = [result EXCEPT ![w] = r]
       /\ ended' = [ended EXCEPT ![held[w]] = r]
  /\ Goto(w, "send")
  /\ UNCHANGED <<coordVars, work, senderAlive, recvLock, channel, held, starts>>

\* The completion receiver outlives the workers, so the send succeeds.
SendCompletion(w) ==
  /\ pc[w] = "send"
  /\ channel' = Append(channel, [task |-> held[w], result |-> result[w]])
  /\ held' = [held EXCEPT ![w] = NoTask]
  /\ result' = [result EXCEPT ![w] = "Ok"]
  /\ Goto(w, "lock")
  /\ UNCHANGED <<coordVars, work, senderAlive, recvLock, history>>

-----------------------------------------------------------------------------
Coordinator == \/ Validate \/ Scan \/ Dispatch \/ CheckDone \/ Receive
               \/ SendShutdown \/ DropSender \/ Join

Worker(w) == \/ LockReceiver(w) \/ TakeJob(w) \/ TakeShutdown(w)
             \/ RunJob(w) \/ SendCompletion(w)

Over == phase \in {"returned", "refused"}

Returned == Over /\ UNCHANGED vars

Next == Coordinator \/ (\E w \in Workers : Worker(w)) \/ Returned

Spec == Init /\ [][Next]_vars

-----------------------------------------------------------------------------
(* Properties.                                                             *)

\* `running` counts the jobs that are queued, held or reported and not yet
\* received, and never exceeds the number of workers: the work channel
\* cannot grow beyond it whatever the graph.
InFlightBounded ==
  LET queued == { i \in DOMAIN work : work[i] # Shutdown }
      hands  == { w \in Workers : held[w] # NoTask }
  IN  /\ running = Cardinality(queued) + Cardinality(hands) + Len(channel)
      /\ running <= N

\* The pool is work-conserving: it blocks for a completion only when all
\* workers are occupied or every ready task was handed out.
WorkConserving ==
  phase = "receive" =>
    running = N \/ ReadyTasks(Tasks, Edges, completed) \subseteq submitted

\* Unlike the stealing pool this one drops nothing: when it returns, also
\* after a failure, every job it handed out was run to its end, once.
NothingDropped ==
  phase = "returned" =>
    /\ work = << >>
    /\ \A t \in Tasks :
         /\ starts[t] = IF t \in submitted THEN 1 ELSE 0
         /\ ended[t] = "no" <=> t \notin submitted

Execution == INSTANCE TaskExecution WITH
  started   <- { t \in Tasks : starts[t] > 0 },
  succeeded <- { t \in Tasks : ended[t] = "Ok" },
  panicked  <- { t \in Tasks : ended[t] = "Panicked" },
  given     <- jobs \cup submitted,
  answer    <- IF Over THEN outcome ELSE Pending

\* The fixed pool keeps the promise of an execution scope, that it returns
\* included: N Shutdown messages end N workers although all of them wait for
\* one mutex.
RefinesExecution == Execution!Spec

-----------------------------------------------------------------------------
(* The inductive invariant behind the safety properties, in three layers.  *)

Phases == {"validate", "scan", "dispatch", "receive", "shutdown", "join",
           "returned", "refused"}
Pcs == {"unspawned", "lock", "recv", "run", "send", "exited"}
Completions == [task : Tasks, result : JobResults]
Mismatches ==
  [kind : {"JobSetMismatch"}, missing : SUBSET Nat, extra : SUBSET Nat]
Outcomes == {Pending, Success, ChannelClosed} \cup { TaskFailed(t) : t \in Tasks }
            \cup Mismatches

\* Every variable stays in the set its Rust type and use give it.
TypeOK ==
  /\ phase \in Phases /\ jobs \subseteq Nat
  /\ batch \subseteq Tasks /\ submitted \subseteq Tasks
  /\ completed \subseteq Tasks
  /\ running \in Int /\ completedOrder \in Seq(Tasks)
  /\ outcome \in Outcomes /\ goodbyes \in Nat
  /\ work \in Seq(Tasks \cup {Shutdown}) /\ senderAlive \in BOOLEAN
  /\ recvLock \in Workers \cup {Free}
  /\ channel \in Seq(Completions)
  /\ pc \in [Workers -> Pcs]
  /\ held \in [Workers -> Tasks \cup {NoTask}]
  /\ result \in [Workers -> JobResults]
  /\ starts \in [Tasks -> Nat]
  /\ ended \in [Tasks -> JobResults \cup {"no"}]

Dependencies(t) == DependenciesOf(Tasks, Edges, t)

\* Layer 1, the messages: jobs precede the goodbyes, and every worker leaves
\* with a goodbye of its own, which nobody sends before the loop has ended.
Spawned ==
  phase \in {"validate", "refused"} => \A w \in Workers : pc[w] = "unspawned"
HoldsJob == \A w \in Workers : pc[w] \in {"run", "send"} <=> held[w] # NoTask
JobsFirst ==
  \A i, j \in 1 .. Len(work) : i < j /\ work[i] = Shutdown => work[j] = Shutdown
ExitedAfterJobs ==
  \A w \in Workers : pc[w] = "exited" =>
     \A i \in 1 .. Len(work) : work[i] = Shutdown
LoopEnded ==
  /\ phase \notin {"shutdown", "join", "returned"} =>
       /\ goodbyes = N
       /\ \A i \in 1 .. Len(work) : work[i] # Shutdown
       /\ \A w \in Workers : pc[w] # "exited"
  /\ phase \in {"join", "returned"} => goodbyes = 0
  /\ senderAlive <=> phase \notin {"join", "returned"}
  /\ phase = "returned" => AllExited
GoodbyeCount ==
  Cardinality({ i \in 1 .. Len(work) : work[i] = Shutdown }) + goodbyes
    + Cardinality({ w \in Workers : pc[w] = "exited" }) = N

MessageInv ==
  Spawned /\ HoldsJob /\ JobsFirst /\ ExitedAfterJobs /\ LoopEnded /\ GoodbyeCount

\* Layer 2, whose job it is.
Unsubmitted ==
  \A t \in Tasks \ submitted : starts[t] = 0 /\ ended[t] = "no"
QueuedFresh ==
  \A i \in 1 .. Len(work) : work[i] # Shutdown =>
     work[i] \in submitted /\ starts[work[i]] = 0 /\ ended[work[i]] = "no"
QueuedOnce ==
  \A i, j \in 1 .. Len(work) : work[i] = work[j] /\ work[i] # Shutdown => i = j
HeldOnce ==
  \A v, w \in Workers : held[v] = held[w] /\ held[v] # NoTask => v = w
HeldStarted ==
  \A w \in Workers : held[w] # NoTask =>
     /\ held[w] \in submitted
     /\ starts[held[w]] = 1
     /\ ended[held[w]] = IF pc[w] = "run" THEN "no" ELSE result[w]
\* A job that was handed out is queued or was entered once, and one that was
\* entered and has not ended is in a worker's hands.
Accounted ==
  \A t \in submitted :
    \/ \E i \in 1 .. Len(work) : work[i] = t
    \/ starts[t] = 1 /\ (ended[t] = "no" => \E w \in Workers : held[w] = t)
Reported ==
  \A i \in 1 .. Len(channel) :
     /\ channel[i].task \in submitted
     /\ ended[channel[i].task] = channel[i].result
ReportedOnce ==
  /\ \A i, j \in 1 .. Len(channel) : channel[i].task = channel[j].task => i = j
  /\ \A i \in 1 .. Len(channel) : channel[i].task \notin completed
  /\ \A w \in Workers : held[w] # NoTask =>
       /\ held[w] \notin completed
       /\ \A i \in 1 .. Len(channel) : channel[i].task # held[w]
CompletedOk == \A t \in completed : t \in submitted /\ ended[t] = "Ok"
BatchReady ==
  \A t \in batch : t \notin submitted /\ Dependencies(t) \subseteq completed
SubmittedReady == \A t \in submitted : Dependencies(t) \subseteq completed

JobInv ==
  /\ Unsubmitted /\ QueuedFresh /\ QueuedOnce /\ HeldOnce /\ HeldStarted
  /\ Accounted /\ Reported /\ ReportedOnce /\ CompletedOk /\ BatchReady
  /\ SubmittedReady

\* Layer 3, what the coordinator may conclude.
JobsLeft ==
  IF phase \in {"validate", "refused"} THEN batch = {} /\ submitted = {}
  ELSE jobs = Tasks \ submitted
RunningCount ==
  phase \in {"validate", "scan", "dispatch", "receive"} =>
     running = Cardinality(submitted \ completed)
DispatchComplete ==
  phase = "dispatch" =>
     ReadyTasks(Tasks, Edges, completed) \subseteq submitted \cup batch
OutcomeTrue ==
  /\ outcome = Pending <=> phase \in {"validate", "scan", "dispatch", "receive"}
  /\ phase = "refused" =>
       outcome = JobSetMismatch(Tasks \ jobs, jobs \ Tasks) /\ jobs # Tasks
  /\ outcome \in Mismatches => phase = "refused"
  /\ outcome # ChannelClosed
  /\ outcome = Success => completed = Tasks
  /\ \A t \in Tasks : outcome = TaskFailed(t) => ended[t] = "Panicked"

AnswerInv ==
  /\ JobsLeft /\ InFlightBounded /\ RunningCount /\ DispatchComplete
  /\ WorkConserving /\ OutcomeTrue

\* The inductive invariant of the proofs.
IndInv == TypeOK /\ MessageInv /\ JobInv /\ AnswerInv
=============================================================================
