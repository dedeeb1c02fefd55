-------------------------- MODULE MCWorkStealingPool --------------------------
(* Small instances of WorkStealingPool for TLC.                            *)
EXTENDS WorkStealingPool

\* Four tasks: 3 depends on 0 and 1; 1 and 2 conflict on a resource that 1
\* reads and 2 writes, so that 2 waits for 1; 0 and 1 are independent.
FourTasks == 0 .. 3
FourDependsOn == [t \in FourTasks |-> IF t = 3 THEN {0, 1} ELSE {}]
FourAccesses ==
  [t \in FourTasks |->
     CASE t = 1 -> {[resource |-> "r", mode |-> "Read"]}
       [] t = 2 -> {[resource |-> "r", mode |-> "Write"]}
       [] OTHER -> {}]

\* The jobs of the graph, one missing, one extra, one replaced.
FourJobSets == {0 .. 3, 0 .. 2, 0 .. 4, 1 .. 4}

\* Three independent tasks that only read a shared resource.
ThreeTasks == 0 .. 2
ThreeDependsOn == [t \in ThreeTasks |-> {}]
ThreeAccesses == [t \in ThreeTasks |-> {[resource |-> "r", mode |-> "Read"]}]
ThreeJobSets == {0 .. 2, 0 .. 1, 0 .. 3, 1 .. 3}
=============================================================================
