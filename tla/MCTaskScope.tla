----------------------------- MODULE MCTaskScope -----------------------------
(* A small instance of TaskScope for TLC.                                  *)
EXTENDS TaskScope

\* Three independent tasks, one more than the workers.
ScopeTasks == 0 .. 2
ScopeDependsOn == [t \in ScopeTasks |-> {}]
ScopeAccesses == [t \in ScopeTasks |-> {}]
ScopeJobSets == {0 .. 2, 1 .. 3}
=============================================================================
