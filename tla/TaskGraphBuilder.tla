--------------------------- MODULE TaskGraphBuilder ---------------------------
(***************************************************************************)
(* TaskGraphBuilder of jadren-concurrency: tasks are declared one by one,  *)
(* then build() derives the edges and either hands out a graph or refuses. *)
(* A name is "blank" when its trimmed text is empty.                       *)
(***************************************************************************)
EXTENDS TaskGraph

CONSTANTS Specs,        \* task declarations a client may add
          MaxCalls      \* bound: calls of add_task

ASSUME SpecsAssumption ==
  Specs \subseteq [id : Nat, label : STRING, dependsOn : SUBSET Nat,
                   accesses : Seq([resource : STRING, mode : AccessModes])]
ASSUME MaxCallsAssumption == MaxCalls \in Nat

VARIABLES tasks,        \* declared tasks: id -> specification
          response,     \* what the last call returned
          calls,
          graph,        \* the tasks and edges build() derived
          consumed      \* build() was called

vars == <<tasks, response, calls, graph, consumed>>

NoGraph == [tasks |-> {}, edges |-> {}, kinds |-> << >>]
Ok == [kind |-> "Ok"]
GraphError(kind) == [kind |-> kind]
Cycle(remaining) == [kind |-> "Cycle", tasks |-> remaining]

Init == /\ tasks = << >> /\ response = Ok /\ calls = 0 /\ graph = NoGraph
        /\ consumed = FALSE

-----------------------------------------------------------------------------
AccessSet(spec) == { spec.accesses[i] : i \in DOMAIN spec.accesses }

\* The first access that is refused decides between the two errors.
EmptyResourceAt(spec, i) == spec.accesses[i].resource = "blank"
DuplicateAccessAt(spec, i) ==
  \E j \in 1 .. i - 1 : spec.accesses[j].resource = spec.accesses[i].resource

AccessError(spec) ==
  LET bad == { i \in DOMAIN spec.accesses :
                 EmptyResourceAt(spec, i) \/ DuplicateAccessAt(spec, i) }
  IN  IF bad = {} THEN Ok
      ELSE IF EmptyResourceAt(spec, First(bad)) THEN GraphError("EmptyResource")
      ELSE GraphError("DuplicateAccess")

AddError(spec) ==
  IF spec.label = "blank" THEN GraphError("EmptyLabel")
  ELSE IF spec.id \in DOMAIN tasks THEN GraphError("DuplicateTask")
  ELSE AccessError(spec)

InsertValid(spec) ==
  IF AddError(spec) # Ok THEN tasks
  ELSE [ t \in DOMAIN tasks \cup {spec.id} |->
           IF t = spec.id THEN spec ELSE tasks[t] ]

AddTask(spec) ==
  /\ ~consumed
  /\ calls < MaxCalls
  /\ calls' = calls + 1
  /\ response' = AddError(spec)
  /\ tasks' = InsertValid(spec)
  /\ UNCHANGED <<graph, consumed>>

-----------------------------------------------------------------------------
DeclaredDeps == [ t \in DOMAIN tasks |-> tasks[t].dependsOn ]
DeclaredAccesses == [ t \in DOMAIN tasks |-> AccessSet(tasks[t]) ]
DeclaredEdges == GraphEdges(DOMAIN tasks, DeclaredDeps, DeclaredAccesses)

\* build(self) consumes the builder, whatever it answers.
Build ==
  /\ ~consumed
  /\ LET ids == DOMAIN tasks
         unknown == \E t \in ids : ~(tasks[t].dependsOn \subseteq ids)
     IN  /\ response' = IF unknown THEN GraphError("UnknownDependency")
                        ELSE IF IsAcyclic(ids, DeclaredEdges) THEN Ok
                        ELSE Cycle(CycleTasks(ids, DeclaredEdges))
         /\ graph' = IF unknown THEN NoGraph
                     ELSE [ tasks |-> ids, edges |-> DeclaredEdges,
                            kinds |-> EdgeKinds(ids, DeclaredDeps, DeclaredAccesses) ]
  /\ consumed' = TRUE
  /\ UNCHANGED <<tasks, calls>>

Done == consumed /\ UNCHANGED vars

Next == (\E spec \in Specs : AddTask(spec)) \/ Build \/ Done

Spec == Init /\ [][Next]_vars

-----------------------------------------------------------------------------
(* Properties.                                                             *)

Accepted == consumed /\ response = Ok

\* s precedes r in the order that compares the first difference.
Precedes(s, r) ==
  \E i \in DOMAIN s : s[i] < r[i] /\ \A j \in 1 .. i - 1 : s[j] = r[j]

\* topological_order of an accepted graph is an order the edges allow, and of
\* all those the least: the order DeterministicScheduler promises to repeat.
LeastTopologicalOrder ==
  Accepted =>
    LET order == TopologicalOrder(graph.tasks, graph.edges)
        allowed == LinearExtensions(graph.tasks, graph.edges)
    IN  order \in allowed /\ \A s \in allowed : s = order \/ Precedes(order, s)

\* Tasks each of which waits for one of them can never start.
Deadlocked(edges, S) == \A t \in S : \E d \in S : <<d, t>> \in edges

\* build() refuses exactly the graphs no execution could finish, and the
\* Cycle diagnostic names all the tasks that could never start: those on a
\* cycle and those that wait for one.
CycleIffNoOrder ==
  (consumed /\ response.kind \in {"Ok", "Cycle"}) =>
     /\ response.kind = "Cycle" <=> LinearExtensions(graph.tasks, graph.edges) = {}
     /\ response.kind = "Cycle" =>
          response.tasks = UNION { S \in SUBSET graph.tasks : Deadlocked(graph.edges, S) }

\* A task as add_task and build() accept it.
WellFormed(t) ==
  /\ tasks[t].label # "blank"
  /\ \A i, j \in DOMAIN tasks[t].accesses :
       /\ tasks[t].accesses[i].resource # "blank"
       /\ i # j => tasks[t].accesses[i].resource # tasks[t].accesses[j].resource
  /\ tasks[t].dependsOn \subseteq graph.tasks

\* Refused declarations leave no trace in an accepted graph.  Its edges and
\* the reasons recorded for them are the declared dependencies and, from the
\* lower to the higher identity, the pairs of tasks that may not overlap;
\* there is no other edge.
EdgesJustified ==
  Accepted =>
    \A a, b \in graph.tasks :
      /\ WellFormed(a)
      /\ LET clash == \E x \in AccessSet(tasks[a]), y \in AccessSet(tasks[b]) :
                         x.resource = y.resource /\ {x.mode, y.mode} # {"Read"}
             reasons == (IF a < b /\ clash THEN {"DataConflict"} ELSE {})
                        \cup (IF a \in tasks[b].dependsOn THEN {"Explicit"} ELSE {})
         IN  IF <<a, b>> \in graph.edges
             THEN graph.kinds[<<a, b>>] = reasons /\ reasons # {}
             ELSE reasons = {}

-----------------------------------------------------------------------------
(* The inductive invariant behind these properties.                        *)

TypeOK ==
  /\ DOMAIN tasks \in SUBSET Nat /\ IsFiniteSet(DOMAIN tasks)
  /\ calls \in 0 .. MaxCalls /\ consumed \in BOOLEAN

\* Only declarations without an error are kept.
DeclaredValid ==
  \A t \in DOMAIN tasks :
    /\ tasks[t] \in Specs
    /\ tasks[t].label # "blank"
    /\ AccessError(tasks[t]) = Ok

\* What build() answered and handed out, for the tasks that were declared.
Judged ==
  LET ids == DOMAIN tasks
      known == \A t \in ids : tasks[t].dependsOn \subseteq ids
  IN  consumed =>
        \/ ~known /\ response = GraphError("UnknownDependency")
        \/ /\ known
           /\ response = IF IsAcyclic(ids, DeclaredEdges) THEN Ok
                         ELSE Cycle(CycleTasks(ids, DeclaredEdges))
           /\ graph = [ tasks |-> ids, edges |-> DeclaredEdges,
                        kinds |-> EdgeKinds(ids, DeclaredDeps, DeclaredAccesses) ]

BuilderInv == TypeOK /\ DeclaredValid /\ Judged
=============================================================================
