------------------------------ MODULE TaskScope ------------------------------
(***************************************************************************)
(* TaskScope::run: every job is wrapped in a check of the cancellation     *)
(* token and the wrapped jobs run on the work-stealing pool.  A job of the *)
(* pool is now one check, then the body of the task or nothing.  Anyone    *)
(* who holds the token may cancel at any time, a running body included.    *)
(***************************************************************************)
EXTENDS WorkStealingPool

VARIABLES cancelled,     \* the AtomicBool of CancellationToken
          wrap,          \* where each worker is in the wrapped job
          answer,        \* what run() returned
          entered,       \* history: tasks whose own body was entered
          doomed         \* history: tasks no worker had taken at cancel()

scopeVars == <<cancelled, wrap, answer, entered, doomed>>
allVars == <<vars, scopeVars>>

Cancelled == [kind |-> "Cancelled"]

ScopeInit ==
  /\ Init
  /\ cancelled = FALSE
  /\ wrap = [w \in Workers |-> "check"]
  /\ answer = Pending
  /\ entered = {} /\ doomed = {}

\* TaskScope::cancel, CancellationToken::cancel.
Cancel ==
  /\ ~cancelled
  /\ answer = Pending
  /\ cancelled' = TRUE
  /\ doomed' = { t \in Tasks : starts[t] = 0 }
  /\ UNCHANGED <<vars, wrap, answer, entered>>

\* Fault: the token is not looked at.
AlwaysEnter == "enter"

AfterCheck == IF cancelled THEN "skip" ELSE "enter"

\* if !token.is_cancelled(), the first step of the wrapped job.
WrapCheck(w) ==
  /\ pc[w] = "run" /\ wrap[w] = "check"
  /\ wrap' = [wrap EXCEPT ![w] = AfterCheck]
  /\ UNCHANGED <<vars, cancelled, answer, entered, doomed>>

\* job(token): cancel() may have come between the check and this call.
EnterBody(w) ==
  /\ pc[w] = "run" /\ wrap[w] = "enter"
  /\ wrap' = [wrap EXCEPT ![w] = "body"]
  /\ entered' = entered \cup {held[w]}
  /\ UNCHANGED <<vars, cancelled, answer, doomed>>

\* The wrapped job ends: a body may panic, a skipped one returns.
EndJob(w) ==
  /\ wrap[w] \in {"body", "skip"}
  /\ RunJob(w)
  /\ wrap[w] = "skip" => result'[w] = "Ok"
  /\ wrap' = [wrap EXCEPT ![w] = "check"]
  /\ UNCHANGED <<cancelled, answer, entered, doomed>>

\* Every other step of the pool.
PoolWorker(w) ==
  /\ \/ Take(w) \/ TakeEmpty(w) \/ Idle(w) \/ LockWake(w) \/ TestShutdown(w)
     \/ TestPending(w) \/ SendCompletion(w)
  /\ UNCHANGED scopeVars

PoolSpurious(w) == SpuriousWake(w) /\ UNCHANGED scopeVars

PoolCoordinator == Coordinator /\ UNCHANGED scopeVars

\* Fault: the report of the pool is returned as it is.
IgnoreToken == outcome

\* Fault: a cancelled scope hides the panic that ended it.
TokenFirst == IF cancelled THEN Cancelled ELSE outcome

\* pool.execute(..)?, then self.is_cancelled().
ScopeResult == IF outcome = Success /\ cancelled THEN Cancelled ELSE outcome

Answer ==
  /\ Over
  /\ answer = Pending
  /\ answer' = ScopeResult
  /\ UNCHANGED <<vars, cancelled, wrap, entered, doomed>>

Answered == answer # Pending /\ UNCHANGED allVars

ScopeWorker(w) == WrapCheck(w) \/ EnterBody(w) \/ EndJob(w) \/ PoolWorker(w)

ScopeNext ==
  \/ Cancel \/ PoolCoordinator \/ Answer \/ Answered
  \/ \E w \in Workers : ScopeWorker(w) \/ PoolSpurious(w)

ScopeSpec ==
  /\ ScopeInit /\ [][ScopeNext]_allVars
  /\ WF_allVars(PoolCoordinator \/ Answer)
  /\ \A w \in Workers : WF_allVars(ScopeWorker(w))

-----------------------------------------------------------------------------
(* Properties.                                                             *)

\* Ok is never returned for a scope in which a body was skipped, although
\* the pool counts a skipped job as completed.
OkMeansAllBodiesRan == answer = Success => entered = Tasks

\* Cancelled is returned only when the token was set and nothing panicked: a
\* panic outranks the cancellation.
CancelledIsTrue ==
  answer = Cancelled => cancelled /\ \A t \in Tasks : ended[t] = "Ok"

\* "skips dependent jobs": the body of a task that no worker had taken when
\* the scope was cancelled is never entered.  Check and call are not one
\* step, so each worker may still enter the body it had taken, and no other.
CancelledTasksSkipped == entered \cap doomed = {}

\* run() returns, cancelled or not, with all workers joined.
ScopeTermination == <>(answer # Pending)

-----------------------------------------------------------------------------
(* The invariant behind these properties, on top of the pool's IndInv.     *)

ScopeTypeOK ==
  /\ cancelled \in BOOLEAN
  /\ wrap \in [Workers -> {"check", "skip", "enter", "body"}]
  /\ entered \subseteq Tasks /\ doomed \subseteq Tasks
\* A worker is inside a wrapped job only while it runs one; it skips only
\* what was cancelled, and the body it is in was entered.
WrapInv ==
  \A w \in Workers :
    /\ wrap[w] # "check" => pc[w] = "run"
    /\ wrap[w] = "skip" => cancelled
    /\ wrap[w] = "body" => held[w] \in entered
\* Only jobs the pool started were entered, and a job that ended without
\* having been entered was skipped, so the scope is cancelled.
EnteredInv ==
  /\ \A t \in entered : starts[t] > 0
  /\ \A t \in Tasks : ended[t] # "no" => t \in entered \/ cancelled
\* The tasks nobody had taken at cancel() are past no check of the token.
DoomedInv ==
  /\ doomed # {} => cancelled
  /\ entered \cap doomed = {}
  /\ \A w \in Workers : wrap[w] \in {"enter", "body"} => held[w] \notin doomed
\* What run() returned was made from the outcome of the pool and the token.
ScopeAnswer ==
  /\ answer # Pending => Over
  /\ answer = Success => outcome = Success /\ ~cancelled
  /\ answer = Cancelled => outcome = Success /\ cancelled

ScopeInv == ScopeTypeOK /\ WrapInv /\ EnteredInv /\ DoomedInv /\ ScopeAnswer
=============================================================================
