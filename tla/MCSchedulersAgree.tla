-------------------------- MODULE MCSchedulersAgree --------------------------
(* A small instance of SchedulersAgree for TLC.                            *)
EXTENDS SchedulersAgree

\* Four tasks: 1, 2 and 3 may start at once (one more than the workers); 0
\* waits for 1 and 3, so that the order is not that of the identities, and
\* shares a resource with 2 that both only read.
FourTasks == 0 .. 3
FourDependsOn == [t \in FourTasks |-> IF t = 0 THEN {1, 3} ELSE {}]
FourAccesses ==
  [t \in FourTasks |-> IF t \in {0, 2} THEN {[resource |-> "r", mode |-> "Read"]} ELSE {}]
FourJobSets == {0 .. 3, 0 .. 2, 0 .. 4, 1 .. 4}
=============================================================================
