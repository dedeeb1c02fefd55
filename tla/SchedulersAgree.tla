---------------------------- MODULE SchedulersAgree ----------------------------
(***************************************************************************)
(* One graph given to two executors: a program runs its jobs on the fixed  *)
(* pool and then, as the reference, on the deterministic scheduler inside  *)
(* a scope that may be cancelled.  Whether the body of a task panics is a  *)
(* property of the task, the same in both executions.                      *)
(***************************************************************************)
EXTENDS WorkerPool

VARIABLES faulty,     \* the tasks whose body panics
          position, step, cancelled, seqJobs, seqOrder, seqOutcome, seqAnswer,
          seqStarted, seqSucceeded, seqPanicked, seqEntered

seqVars == <<position, step, cancelled, seqJobs, seqOrder, seqOutcome, seqAnswer,
             seqStarted, seqSucceeded, seqPanicked, seqEntered>>
allVars == <<vars, faulty, seqVars>>

Order == TopologicalOrder(Tasks, Edges)

\* build() accepted the graph: its order lists every task.
ASSUME OrderAssumption == Order \in LinearExtensions(Tasks, Edges)

Sequential == INSTANCE DeterministicScheduler WITH
  jobs <- seqJobs, completedOrder <- seqOrder, outcome <- seqOutcome,
  answer <- seqAnswer, started <- seqStarted, succeeded <- seqSucceeded,
  panicked <- seqPanicked, entered <- seqEntered

BothInit ==
  /\ Init
  /\ Sequential!Init
  /\ seqJobs = jobs
  /\ faulty \in SUBSET Tasks

PoolCoordinator == Coordinator /\ UNCHANGED <<faulty, seqVars>>

PoolWorker(w) ==
  /\ \/ LockReceiver(w) \/ TakeJob(w) \/ TakeShutdown(w) \/ SendCompletion(w)
     \/ RunJob(w) /\ (result'[w] = "Panicked" <=> held[w] \in faulty)
  /\ UNCHANGED <<faulty, seqVars>>

SequentialCaller ==
  /\ Over
  /\ Sequential!Caller
  /\ step = "body" => (step' = "failed" <=> Sequential!Current \in faulty)
  /\ UNCHANGED <<vars, faulty>>

SequentialCancel ==
  /\ Over
  /\ Sequential!Cancel
  /\ UNCHANGED <<vars, faulty>>

BothDone == seqAnswer # Pending /\ UNCHANGED allVars

BothNext ==
  \/ PoolCoordinator \/ \E w \in Workers : PoolWorker(w)
  \/ SequentialCaller \/ SequentialCancel \/ BothDone

\* The operating system schedules every thread, and bodies end.
BothSpec ==
  /\ BothInit /\ [][BothNext]_allVars
  /\ WF_allVars(PoolCoordinator)
  /\ \A w \in Workers : WF_allVars(PoolWorker(w))
  /\ WF_allVars(SequentialCaller)

-----------------------------------------------------------------------------
(* Properties.                                                             *)

\* The position of a task in the reference order.
Rank(t) == CHOOSE i \in DOMAIN Order : Order[i] = t

\* However the threads of the pool interleave, its verdict on a graph is the
\* verdict of the deterministic scheduler: the same refusal, success exactly
\* when no body panics, and otherwise the name of a panicking task, where the
\* reference names the first one of the topological order.
SameVerdict ==
  (Over /\ seqAnswer # Pending /\ ~cancelled) =>
     /\ outcome.kind = seqAnswer.kind
     /\ outcome.kind = "JobSetMismatch" => outcome = seqAnswer
     /\ outcome.kind = "Ok" => faulty = {} /\ completed = Tasks
     /\ outcome.kind = "TaskFailed" =>
          /\ outcome.task \in faulty
          /\ \A t \in faulty : Rank(seqAnswer.task) <= Rank(t)

\* The deterministic scheduler keeps the promise of an execution scope, the
\* one the pools keep.
SequentialRefinesExecution == Sequential!RefinesExecution

-----------------------------------------------------------------------------
(* The inductive invariant behind SameVerdict, on top of the pool's.       *)

\* On the pool a body panics exactly when it is faulty.
FaultyPanics ==
  \A t \in Tasks : ended[t] # "no" => (ended[t] = "Panicked" <=> t \in faulty)

\* The reference starts with the jobs the pool was given, once the pool is done.
SameGiven ==
  /\ step = "validate" => seqJobs = jobs \cup submitted
  /\ step # "validate" => Over
  /\ step \notin {"validate", "done"} => jobs \cup submitted = Tasks

\* Without cancellation every task before position was run and is not faulty.
RanInOrder ==
  /\ position \in 0 .. Len(Order)
  /\ step \in {"check", "enter", "body", "skip", "failed"} => position < Len(Order)
  /\ step = "skip" => cancelled
  /\ step = "failed" => Order[position + 1] \in faulty
  /\ ~cancelled => \A i \in 1 .. position : Order[i] \notin faulty

ReferenceVerdict ==
  \/ /\ seqOutcome = Success /\ position = Len(Order)
     /\ jobs \cup submitted = Tasks
  \/ /\ position < Len(Order) /\ seqOutcome = TaskFailed(Order[position + 1])
     /\ Order[position + 1] \in faulty /\ jobs \cup submitted = Tasks
  \/ /\ jobs \cup submitted # Tasks
     /\ LET given == jobs \cup submitted
        IN  seqOutcome = JobSetMismatch(Tasks \ given, given \ Tasks)

SequentialInv ==
  /\ cancelled \in BOOLEAN /\ faulty \subseteq Tasks
  /\ SameGiven /\ RanInOrder
  /\ step = "done" => ReferenceVerdict
  /\ seqAnswer # Pending => step = "done" /\ (~cancelled => seqAnswer = seqOutcome)

BothInv == FaultyPanics /\ SequentialInv
=============================================================================
