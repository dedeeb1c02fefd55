------------------------ MODULE DeterministicScheduler ------------------------
(***************************************************************************)
(* TaskScope::run_deterministic on DeterministicScheduler::execute: the    *)
(* caller's thread runs the wrapped jobs one after the other in            *)
(* topological_order, and stops at the first panic.  Another thread may    *)
(* cancel the scope at any time.                                           *)
(***************************************************************************)
EXTENDS Integers, Sequences

CONSTANTS Tasks, Edges,
          Order,      \* graph.topological_order()
          JobSets     \* the sets of keys a caller's map of jobs may have

VARIABLES jobs,            \* keys left in the map of jobs
          position,        \* tasks of Order that ended
          step,            \* "validate", "next", "check", "enter", "body", "skip", "failed", "done"
          cancelled,
          completedOrder,
          outcome,         \* of execute
          answer,          \* of run_deterministic
          started, succeeded, panicked,   \* wrapped jobs
          entered                         \* bodies

vars == <<jobs, position, step, cancelled, completedOrder, outcome, answer, started,
          succeeded, panicked, entered>>

Pending == [kind |-> "Pending"]
Success == [kind |-> "Ok"]
TaskFailed(t) == [kind |-> "TaskFailed", task |-> t]
Cancelled == [kind |-> "Cancelled"]
JobSetMismatch(missing, extra) ==
  [kind |-> "JobSetMismatch", missing |-> missing, extra |-> extra]

Current == Order[position + 1]

Init ==
  /\ jobs \in JobSets /\ position = 0 /\ step = "validate" /\ cancelled = FALSE
  /\ completedOrder = << >> /\ outcome = Pending /\ answer = Pending
  /\ started = {} /\ succeeded = {} /\ panicked = {} /\ entered = {}

Cancel ==
  /\ ~cancelled /\ answer = Pending
  /\ cancelled' = TRUE
  /\ UNCHANGED <<jobs, position, step, completedOrder, outcome, answer, started,
                 succeeded, panicked, entered>>

\* The early return for a map of jobs that does not fit the graph.
Validate ==
  /\ step = "validate"
  /\ IF jobs = Tasks
     THEN step' = "next" /\ UNCHANGED outcome
     ELSE /\ step' = "done"
          /\ outcome' = JobSetMismatch(Tasks \ jobs, jobs \ Tasks)
  /\ UNCHANGED <<jobs, position, cancelled, completedOrder, answer, started,
                 succeeded, panicked, entered>>

\* for task in graph.topological_order(): the wrapped job is entered.
StartJob ==
  /\ step = "next"
  /\ position < Len(Order)
  /\ jobs' = jobs \ {Current}
  /\ started' = started \cup {Current}
  /\ step' = "check"
  /\ UNCHANGED <<position, cancelled, completedOrder, outcome, answer,
                 succeeded, panicked, entered>>

CheckToken ==
  /\ step = "check"
  /\ step' = IF cancelled THEN "skip" ELSE "enter"
  /\ UNCHANGED <<jobs, position, cancelled, completedOrder, outcome, answer, started,
                 succeeded, panicked, entered>>

EnterBody ==
  /\ step = "enter"
  /\ step' = "body"
  /\ entered' = entered \cup {Current}
  /\ UNCHANGED <<jobs, position, cancelled, completedOrder, outcome, answer, started,
                 succeeded, panicked>>

FinishJob ==
  /\ step \in {"body", "skip"}
  /\ succeeded' = succeeded \cup {Current}
  /\ completedOrder' = Append(completedOrder, Current)
  /\ position' = position + 1
  /\ step' = "next"
  /\ UNCHANGED <<jobs, cancelled, outcome, answer, started, panicked, entered>>

\* The body unwinds into catch_unwind.
PanicJob ==
  /\ step = "body"
  /\ panicked' = panicked \cup {Current}
  /\ step' = "failed"
  /\ UNCHANGED <<jobs, position, cancelled, completedOrder, outcome, answer, started,
                 succeeded, entered>>

\* Fault: the failure names the task after the one that panicked.
NextTask == Order[((position + 1) % Len(Order)) + 1]

FailedTask == Current

\* return Err(TaskFailed): the remaining tasks are not run.
Fail ==
  /\ step = "failed"
  /\ outcome' = TaskFailed(FailedTask)
  /\ step' = "done"
  /\ UNCHANGED <<jobs, position, cancelled, completedOrder, answer, started,
                 succeeded, panicked, entered>>

Finish ==
  /\ step = "next"
  /\ position = Len(Order)
  /\ outcome' = Success
  /\ step' = "done"
  /\ UNCHANGED <<jobs, position, cancelled, completedOrder, answer, started,
                 succeeded, panicked, entered>>

ScopeResult == IF outcome = Success /\ cancelled THEN Cancelled ELSE outcome

Answer ==
  /\ step = "done" /\ answer = Pending
  /\ answer' = ScopeResult
  /\ UNCHANGED <<jobs, position, step, cancelled, completedOrder, outcome, started,
                 succeeded, panicked, entered>>

Answered == answer # Pending /\ UNCHANGED vars

Caller == \/ Validate \/ StartJob \/ CheckToken \/ EnterBody \/ FinishJob \/ PanicJob
          \/ Fail \/ Finish \/ Answer

Next == Cancel \/ Caller \/ Answered

Spec == Init /\ [][Next]_vars /\ WF_vars(Caller)

-----------------------------------------------------------------------------
(* Properties.                                                             *)

Execution == INSTANCE TaskExecution WITH
  given  <- jobs \cup started,
  answer <- IF step = "done" THEN outcome ELSE Pending

\* The scheduler keeps the promise of an execution scope.
RefinesExecution == Execution!Spec
=============================================================================
