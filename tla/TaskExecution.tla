---------------------------- MODULE TaskExecution ----------------------------
(***************************************************************************)
(* What one call of `execute` promises its caller, whichever scheduler of  *)
(* jadren-concurrency runs it: a map of jobs that does not fit the graph   *)
(* is refused before anything runs; otherwise jobs begin after everything  *)
(* they depend on has succeeded, no job begins twice, and the call returns *)
(* only when no job is running any more, with Ok when every job succeeded  *)
(* and with the name of a job that panicked otherwise.                     *)
(***************************************************************************)
EXTENDS Integers, FiniteSets

CONSTANTS Tasks,     \* the tasks of the graph
          Edges,     \* pairs <<from, to>>
          JobSets    \* sets of keys a caller's map of jobs may have

VARIABLES given,      \* the keys of the map of jobs
          started,    \* jobs whose closure was entered
          succeeded,  \* jobs whose closure returned
          panicked,   \* jobs whose closure unwound
          answer      \* what the caller was given

vars == <<given, started, succeeded, panicked, answer>>

Pending == [kind |-> "Pending"]
Success == [kind |-> "Ok"]
TaskFailed(t) == [kind |-> "TaskFailed", task |-> t]
JobSetMismatch(missing, extra) ==
  [kind |-> "JobSetMismatch", missing |-> missing, extra |-> extra]

Running == started \ (succeeded \cup panicked)

Init == /\ given \in JobSets
        /\ started = {}
        /\ succeeded = {}
        /\ panicked = {}
        /\ answer = Pending

Refuse ==
  /\ answer = Pending
  /\ given # Tasks
  /\ answer' = JobSetMismatch(Tasks \ given, given \ Tasks)
  /\ UNCHANGED <<given, started, succeeded, panicked>>

Begin(t) ==
  /\ answer = Pending
  /\ given = Tasks
  /\ t \in Tasks \ started
  /\ \A e \in Edges : e[2] = t => e[1] \in succeeded
  /\ started' = started \cup {t}
  /\ UNCHANGED <<given, succeeded, panicked, answer>>

Succeed(t) ==
  /\ t \in Running
  /\ succeeded' = succeeded \cup {t}
  /\ UNCHANGED <<given, started, panicked, answer>>

Panic(t) ==
  /\ t \in Running
  /\ panicked' = panicked \cup {t}
  /\ UNCHANGED <<given, started, succeeded, answer>>

ReturnOk ==
  /\ answer = Pending
  /\ given = Tasks /\ succeeded = Tasks
  /\ answer' = Success
  /\ UNCHANGED <<given, started, succeeded, panicked>>

ReturnFailed(t) ==
  /\ answer = Pending
  /\ Running = {}
  /\ t \in panicked
  /\ answer' = TaskFailed(t)
  /\ UNCHANGED <<given, started, succeeded, panicked>>

Next == \/ Refuse \/ ReturnOk
        \/ \E t \in Tasks : Begin(t) \/ Succeed(t) \/ Panic(t) \/ ReturnFailed(t)

\* What may happen, without the promise that something does.
SafeSpec == Init /\ [][Next]_vars

\* The call returns: some step is taken as long as one is possible.
Spec == SafeSpec /\ WF_vars(Next)
=============================================================================
