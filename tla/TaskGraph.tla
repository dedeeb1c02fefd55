------------------------------ MODULE TaskGraph ------------------------------
(***************************************************************************)
(* The dependency graph of jadren-concurrency (DependencyGraph and the     *)
(* edge derivation of TaskGraphBuilder::build), as operators.              *)
(*                                                                         *)
(* A task identity is a natural number, because the code orders tasks by   *)
(* TaskId (BTreeMap, BTreeSet).  A graph is a set of tasks and a set of    *)
(* pairs <<from, to>>: "from" completes before "to" becomes ready.         *)
(***************************************************************************)
EXTENDS Integers, Sequences, FiniteSets

AccessModes == {"Read", "Write", "Atomic"}

DependencyKinds == {"DataConflict", "Explicit"}

\* Fault: only two writers conflict.
WritersConflict(a, b) == a = "Write" /\ b = "Write"

\* Two accesses to one resource need an edge unless both only read.
Conflicts(a, b) == ~(a = "Read" /\ b = "Read")

\* left and right are sets of accesses [resource, mode].
AccessesConflict(left, right) ==
  \E l \in left, r \in right :
     l.resource = r.resource /\ Conflicts(l.mode, r.mode)

\* Fault: the last key.
LastKey(S) == CHOOSE t \in S : \A u \in S : t >= u

\* The first key of an ordered set (BTreeSet::pop_first, iteration order).
First(S) == CHOOSE t \in S : \A u \in S : t <= u

-----------------------------------------------------------------------------
(* Edges of TaskGraphBuilder::build.  dependsOn and accesses are functions *)
(* on the set of tasks.                                                    *)

ExplicitEdges(tasks, dependsOn) ==
  { e \in tasks \X tasks : e[1] \in dependsOn[e[2]] }

ConflictEdges(tasks, accesses) ==
  { e \in tasks \X tasks :
      e[1] < e[2] /\ AccessesConflict(accesses[e[1]], accesses[e[2]]) }

GraphEdges(tasks, dependsOn, accesses) ==
  ExplicitEdges(tasks, dependsOn) \cup ConflictEdges(tasks, accesses)

EdgeKinds(tasks, dependsOn, accesses) ==
  [ e \in GraphEdges(tasks, dependsOn, accesses) |->
      { k \in DependencyKinds :
          \/ k = "Explicit" /\ e \in ExplicitEdges(tasks, dependsOn)
          \/ k = "DataConflict" /\ e \in ConflictEdges(tasks, accesses) } ]

-----------------------------------------------------------------------------
(* Queries of DependencyGraph.                                             *)

DependenciesOf(tasks, edges, t) == { d \in tasks : <<d, t>> \in edges }

DependentsOf(tasks, edges, t) == { d \in tasks : <<t, d>> \in edges }

\* Fault: a task is ready as soon as one of its dependencies is.
ReadyEarly(tasks, edges, completed) ==
  { t \in tasks : /\ t \notin completed
                  /\ LET d == DependenciesOf(tasks, edges, t)
                     IN  d = {} \/ d \cap completed # {} }

ReadyTasks(tasks, edges, completed) ==
  { t \in tasks : /\ t \notin completed
                  /\ DependenciesOf(tasks, edges, t) \subseteq completed }

\* Fault: a dependent is ready when the first of its dependencies is done.
PopReadyEager(tasks, edges, k) ==
  IF k.ready = {} THEN k
  ELSE LET t == First(k.ready)
       IN  [ order  |-> Append(k.order, t),
             degree |-> [ d \in tasks |-> 0 ],
             ready  |-> (k.ready \ {t}) \cup DependentsOf(tasks, edges, t) ]

(* topological_order: the state of the loop after n pops of the ready set. *)
(* A dependent whose in-degree reaches zero becomes ready.                 *)
PopReady(tasks, edges, k) ==
  IF k.ready = {} THEN k
  ELSE LET t == First(k.ready)
           next == DependentsOf(tasks, edges, t)
           degree == [ d \in tasks |->
                         k.degree[d] - (IF d \in next THEN 1 ELSE 0) ]
       IN  [ order  |-> Append(k.order, t),
             degree |-> degree,
             ready  |-> (k.ready \ {t}) \cup { d \in next : degree[d] = 0 } ]

\* Nothing popped yet: the in-degrees, and the tasks without dependencies.
StartLoop(tasks, edges) ==
  LET degree == [ t \in tasks |-> Cardinality(DependenciesOf(tasks, edges, t)) ]
  IN  [ order |-> << >>, degree |-> degree,
        ready |-> { t \in tasks : degree[t] = 0 } ]

\* Each task is popped at most once, so Cardinality(tasks) rounds empty ready.
TopologicalLoop(tasks, edges) ==
  LET run[n \in Nat] == IF n = 0 THEN StartLoop(tasks, edges)
                        ELSE PopReady(tasks, edges, run[n - 1])
  IN  run

TopologicalRun(tasks, edges) == TopologicalLoop(tasks, edges)[Cardinality(tasks)]

TopologicalOrder(tasks, edges) == TopologicalRun(tasks, edges).order

IsAcyclic(tasks, edges) ==
  Len(TopologicalOrder(tasks, edges)) = Cardinality(tasks)

\* The tasks the Cycle diagnostic names.
CycleTasks(tasks, edges) ==
  { t \in tasks : TopologicalRun(tasks, edges).degree[t] # 0 }

-----------------------------------------------------------------------------
(* What an order of the tasks is.                                          *)

\* All sequences that list the tasks of a graph once, dependencies first.
LinearExtensions(tasks, edges) ==
  { s \in [1 .. Cardinality(tasks) -> tasks] :
      /\ \A i, j \in DOMAIN s : i # j => s[i] # s[j]
      /\ \A i, j \in DOMAIN s : <<s[i], s[j]>> \in edges => i < j }
=============================================================================
