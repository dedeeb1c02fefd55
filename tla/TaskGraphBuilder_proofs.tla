------------------------ MODULE TaskGraphBuilder_proofs ------------------------
(***************************************************************************)
(* What is proved of the task graph for every set of declarations: the     *)
(* loop of topological_order computes the least order that the edges       *)
(* allow, build() refuses exactly the graphs without one and names the     *)
(* tasks that could never start, and the edges are the declared ones.      *)
(*                                                                         *)
(* The loop is a recursive function.  Induction over its rounds is stated  *)
(* of a set of numbers (NumbersFrom0) that every lemma defines for itself. *)
(***************************************************************************)
EXTENDS TaskGraphBuilder, TLAPS, FiniteSetTheorems, WellFoundedInduction

-----------------------------------------------------------------------------
(* Numbers.                                                                *)

\* A set of numbers that is not empty has a least member.
LEMMA LeastNumber ==
  ASSUME NEW S \in SUBSET Nat, S # {}
  PROVE  \E m \in S : \A u \in S : m <= u
<1>1. \E m \in S : \A u \in S : ~(<<u, m>> \in OpToRel(<, Nat))
  BY WFMin, NatLessThanWellFounded, Zenon
<1>2. \E m \in S : \A u \in S : ~(u < m)
  BY <1>1, Zenon DEF OpToRel
<1> QED
  BY <1>2

\* Induction over the numbers, as a statement about a set.
LEMMA NumbersFrom0 ==
  ASSUME NEW S \in SUBSET Nat, 0 \in S, \A n \in S : n + 1 \in S
  PROVE  S = Nat
<1> SUFFICES ASSUME Nat \ S # {} PROVE FALSE
  OBVIOUS
<1>1. PICK m \in Nat \ S : \A u \in Nat \ S : m <= u
  BY LeastNumber
<1>2. m - 1 \in Nat /\ ~(m <= m - 1)
  BY <1>1
<1>3. m - 1 \in S
  BY <1>1, <1>2
<1> QED
  BY <1>1, <1>3

\* pop_first takes the least ready task.
LEMMA FirstIsLeast ==
  ASSUME NEW S \in SUBSET Nat, S # {}
  PROVE  First(S) \in S /\ \A u \in S : First(S) <= u
BY LeastNumber, Zenon DEF First

-----------------------------------------------------------------------------
(* The loop of topological_order as a recurrence.                          *)

\* g lists the first n rounds of the loop.
Rounds(ids, edges, n, g) ==
  /\ DOMAIN g = 0 .. n
  /\ g[0] = StartLoop(ids, edges)
  /\ \A i \in 1 .. n : g[i] = PopReady(ids, edges, g[i - 1])

\* The loop can take any number of rounds.
LEMMA RoundsExist ==
  ASSUME NEW ids, NEW edges, NEW n \in Nat
  PROVE  \E g : Rounds(ids, edges, n, g)
<1> DEFINE S == { i \in Nat : \E g : Rounds(ids, edges, i, g) }
<1>1. 0 \in S
  <2>1. Rounds(ids, edges, 0, [i \in 0 .. 0 |-> StartLoop(ids, edges)])
    BY DEF Rounds
  <2> QED
    BY <2>1
<1>2. ASSUME NEW i \in S PROVE i + 1 \in S
  <2>1. PICK g : Rounds(ids, edges, i, g)
    OBVIOUS
  <2> DEFINE h == [j \in 0 .. i + 1 |->
                     IF j = i + 1 THEN PopReady(ids, edges, g[i]) ELSE g[j]]
  <2>2. Rounds(ids, edges, i + 1, h)
    <3>0. i \in Nat
      OBVIOUS
    <3>1. DOMAIN h = 0 .. i + 1
      OBVIOUS
    <3>2. h[0] = StartLoop(ids, edges)
      BY <2>1, <3>0 DEF Rounds
    <3>3. ASSUME NEW j \in 1 .. i + 1
          PROVE  h[j] = PopReady(ids, edges, h[j - 1])
      <4>1. j - 1 \in 0 .. i + 1 /\ j - 1 # i + 1 /\ j \in 0 .. i + 1
        BY <3>0
      <4>2. h[j - 1] = g[j - 1]
        BY <4>1
      <4>3. CASE j = i + 1
        BY <4>1, <4>2, <4>3, <3>0
      <4>4. CASE j # i + 1
        <5>1. h[j] = g[j] /\ j \in 1 .. i
          BY <4>1, <4>4, <3>0
        <5> QED
          BY <5>1, <4>2, <2>1 DEF Rounds
      <4> QED
        BY <4>3, <4>4
    <3> HIDE DEF h
    <3> QED
      BY <3>1, <3>2, <3>3 DEF Rounds
  <2> QED
    BY <2>2
<1> HIDE DEF S
<1>3. S \in SUBSET Nat
  BY DEF S
<1>4. S = Nat
  BY <1>1, <1>2, <1>3, NumbersFrom0
<1> QED
  BY <1>4 DEF S

\* A longer run of the loop continues a shorter one.
LEMMA RoundsAgree ==
  ASSUME NEW ids, NEW edges, NEW n \in Nat, NEW m \in Nat, NEW g, NEW h,
         Rounds(ids, edges, n, g), Rounds(ids, edges, m, h), n <= m
  PROVE  g[n] = h[n]
<1> DEFINE S == { i \in Nat : i <= n => g[i] = h[i] }
<1>1. 0 \in S
  BY DEF Rounds
<1>2. ASSUME NEW i \in S PROVE i + 1 \in S
  <2> SUFFICES ASSUME i + 1 <= n PROVE g[i + 1] = h[i + 1]
    OBVIOUS
  <2>1. g[i] = h[i] /\ i + 1 \in 1 .. n /\ i + 1 \in 1 .. m /\ (i + 1) - 1 = i
    OBVIOUS
  <2>2. g[i + 1] = PopReady(ids, edges, g[i])
    BY <2>1 DEF Rounds
  <2>3. h[i + 1] = PopReady(ids, edges, h[i])
    BY <2>1 DEF Rounds
  <2> QED
    BY <2>1, <2>2, <2>3
<1>3. S = Nat
  <2> HIDE DEF S
  <2>1. S \in SUBSET Nat
    BY DEF S
  <2> QED
    BY <1>1, <1>2, <2>1, NumbersFrom0
<1> QED
  BY <1>3

\* The function TopologicalLoop defines does satisfy its definition.
LEMMA LoopRecurrence ==
  ASSUME NEW ids, NEW edges
  PROVE  LET run == TopologicalLoop(ids, edges)
         IN  /\ run[0] = StartLoop(ids, edges)
             /\ \A n \in Nat : run[n + 1] = PopReady(ids, edges, run[n])
<1> DEFINE G(n) == CHOOSE g : Rounds(ids, edges, n, g)
           f == [n \in Nat |-> G(n)[n]]
           Step(r) == [n \in Nat |-> IF n = 0 THEN StartLoop(ids, edges)
                                     ELSE PopReady(ids, edges, r[n - 1])]
<1>1. \A n \in Nat : Rounds(ids, edges, n, G(n))
  BY RoundsExist, Zenon
<1>2. f = Step(f)
  <2>1. ASSUME NEW n \in Nat
        PROVE  f[n] = IF n = 0 THEN StartLoop(ids, edges)
                      ELSE PopReady(ids, edges, f[n - 1])
    <3> HIDE DEF G
    <3>1. CASE n = 0
      BY <1>1, <3>1 DEF Rounds
    <3>2. CASE n # 0
      <4>1. n - 1 \in Nat /\ n - 1 <= n /\ n \in 1 .. n
        BY <3>2
      <4>2. G(n)[n] = PopReady(ids, edges, G(n)[n - 1])
        BY <1>1, <4>1 DEF Rounds
      <4>3. G(n - 1)[n - 1] = G(n)[n - 1]
        BY <1>1, <4>1, RoundsAgree
      <4> QED
        BY <4>1, <4>2, <4>3, <3>2
    <3> QED
      BY <3>1, <3>2
  <2>2. f = [n \in Nat |-> f[n]]
    OBVIOUS
  <2> HIDE DEF f, G
  <2> QED
    BY <2>1, <2>2
<1> HIDE DEF f
<1>3. TopologicalLoop(ids, edges) = Step(TopologicalLoop(ids, edges))
  BY <1>2, Zenon DEF TopologicalLoop
<1> HIDE DEF Step
<1>4. \A r : \A n \in Nat : Step(r)[n] = IF n = 0 THEN StartLoop(ids, edges)
                                         ELSE PopReady(ids, edges, r[n - 1])
  BY DEF Step
<1>5. TopologicalLoop(ids, edges)[0] = StartLoop(ids, edges)
  BY <1>3, <1>4
<1>6. ASSUME NEW n \in Nat
      PROVE  TopologicalLoop(ids, edges)[n + 1]
               = PopReady(ids, edges, TopologicalLoop(ids, edges)[n])
  <2>1. n + 1 \in Nat /\ n + 1 # 0 /\ (n + 1) - 1 = n
    OBVIOUS
  <2>2. TopologicalLoop(ids, edges)[n + 1]
          = PopReady(ids, edges, TopologicalLoop(ids, edges)[(n + 1) - 1])
    BY <1>3, <1>4, <2>1
  <2> QED
    BY <2>1, <2>2
<1> QED
  BY <1>5, <1>6

-----------------------------------------------------------------------------
(* What the loop has computed after n rounds.                              *)

\* The tasks at the first n positions of an order.
Popped(order, n) == { order[i] : i \in 1 .. n }

\* Each task was the least of the tasks that were ready when it was popped.
Greedy(ids, edges, order) ==
  \A i \in 1 .. Len(order) :
    LET ready == ReadyTasks(ids, edges, Popped(order, i - 1))
    IN  order[i] \in ready /\ \A r \in ready : order[i] <= r

LoopInv(ids, edges, n, k) ==
  LET done == Popped(k.order, Len(k.order))
  IN  /\ k.order \in Seq(ids) /\ Greedy(ids, edges, k.order)
      /\ k.degree = [ d \in ids |->
                        Cardinality(DependenciesOf(ids, edges, d) \ done) ]
      /\ k.ready = ReadyTasks(ids, edges, done)
      /\ Len(k.order) = n \/ k.ready = {}

\* Without a pop, ready are the tasks without dependencies.
LEMMA StartLoopInv ==
  ASSUME NEW ids, IsFiniteSet(ids), NEW edges
  PROVE  LoopInv(ids, edges, 0, StartLoop(ids, edges))
<1> DEFINE k == StartLoop(ids, edges)
<1>1. k.order = << >> /\ Len(k.order) = 0 /\ k.order \in Seq(ids)
  BY DEF StartLoop
<1>2. Popped(k.order, Len(k.order)) = {}
  BY <1>1 DEF Popped
<1>3. k.degree = [ d \in ids |-> Cardinality(DependenciesOf(ids, edges, d) \ {}) ]
  <2>1. \A d : DependenciesOf(ids, edges, d) \ {} = DependenciesOf(ids, edges, d)
    OBVIOUS
  <2> QED
    BY <2>1 DEF StartLoop
<1>4. k.ready = ReadyTasks(ids, edges, {})
  <2>1. ASSUME NEW t \in ids
        PROVE  Cardinality(DependenciesOf(ids, edges, t)) = 0
                 <=> DependenciesOf(ids, edges, t) \subseteq {}
    <3>1. DependenciesOf(ids, edges, t) \in SUBSET ids
      BY DEF DependenciesOf
    <3>2. IsFiniteSet(DependenciesOf(ids, edges, t))
      BY <3>1, FS_Subset
    <3> QED
      BY <3>2, FS_EmptySet
  <2>2. k.ready = { t \in ids : Cardinality(DependenciesOf(ids, edges, t)) = 0 }
    BY DEF StartLoop
  <2> QED
    BY <2>1, <2>2 DEF ReadyTasks
<1>5. Greedy(ids, edges, k.order)
  BY <1>1 DEF Greedy
<1> HIDE DEF k
<1>6. k.degree = [ d \in ids |-> Cardinality(DependenciesOf(ids, edges, d)
                                              \ Popped(k.order, Len(k.order))) ]
  BY <1>2, <1>3
<1>7. k.ready = ReadyTasks(ids, edges, Popped(k.order, Len(k.order)))
  BY <1>2, <1>4
<1> QED
  BY <1>1, <1>5, <1>6, <1>7, Zenon DEF LoopInv, k

\* Whatever was popped had its dependencies popped before.
LEMMA PoppedClosed ==
  ASSUME NEW ids, NEW edges, NEW order \in Seq(ids), Greedy(ids, edges, order),
         NEW t \in Popped(order, Len(order))
  PROVE  DependenciesOf(ids, edges, t) \subseteq Popped(order, Len(order))
<1>1. PICK i \in 1 .. Len(order) : t = order[i]
  BY DEF Popped
<1>2. t \in ReadyTasks(ids, edges, Popped(order, i - 1))
  BY <1>1 DEF Greedy
<1>3. Popped(order, i - 1) \subseteq Popped(order, Len(order))
  BY <1>1 DEF Popped
<1> QED
  BY <1>2, <1>3 DEF ReadyTasks

\* A pop keeps the in-degrees and the ready set true of what was popped.
LEMMA PopReadyInv ==
  ASSUME NEW ids \in SUBSET Nat, IsFiniteSet(ids), NEW edges, NEW n \in Nat,
         NEW k, LoopInv(ids, edges, n, k)
  PROVE  LoopInv(ids, edges, n + 1, PopReady(ids, edges, k))
<1>1. CASE k.ready = {}
  BY <1>1 DEF LoopInv, PopReady
<1>2. CASE k.ready # {}
  <2> DEFINE t == First(k.ready)
             next == DependentsOf(ids, edges, t)
             done == Popped(k.order, Len(k.order))
             more == done \cup {t}
             q == PopReady(ids, edges, k)
             degree == [ d \in ids |-> k.degree[d] - (IF d \in next THEN 1 ELSE 0) ]
             Deps(d) == DependenciesOf(ids, edges, d)
  <2>1. /\ k.order \in Seq(ids) /\ Greedy(ids, edges, k.order)
        /\ k.degree = [ d \in ids |-> Cardinality(Deps(d) \ done) ]
        /\ k.ready = ReadyTasks(ids, edges, done)
        /\ Len(k.order) = n
    BY <1>2 DEF LoopInv
  <2>2. q = [ order  |-> Append(k.order, t),
              degree |-> degree,
              ready  |-> (k.ready \ {t}) \cup { d \in next : degree[d] = 0 } ]
    BY <1>2 DEF PopReady
  <2>3. t \in k.ready /\ \A u \in k.ready : t <= u
    <3>1. k.ready \in SUBSET Nat
      BY <2>1 DEF ReadyTasks
    <3> QED
      BY <1>2, <3>1, FirstIsLeast
  <2>4. t \in ids /\ t \notin done /\ Deps(t) \subseteq done
    BY <2>1, <2>3 DEF ReadyTasks
  <2>5. \A d \in ids : d \in next <=> t \in Deps(d)
    BY <2>4 DEF DependentsOf, DependenciesOf
  <2>6. next \subseteq ids
    BY DEF DependentsOf
  <2> HIDE DEF t, next, q
  <2>7. /\ q.order \in Seq(ids) /\ Len(q.order) = n + 1
        /\ q.order = Append(k.order, t)
        /\ q.order[n + 1] = t
        /\ \A i \in 1 .. n : q.order[i] = k.order[i]
    BY <2>1, <2>2, <2>4
  <2>8. Popped(q.order, Len(q.order)) = more
    BY <2>1, <2>7 DEF Popped
  <2>9. \A i \in 0 .. n : Popped(q.order, i) = Popped(k.order, i)
    BY <2>7 DEF Popped
  <2>10. Greedy(ids, edges, q.order)
    <3> SUFFICES ASSUME NEW i \in 1 .. n + 1
                 PROVE  LET ready == ReadyTasks(ids, edges, Popped(q.order, i - 1))
                        IN  /\ q.order[i] \in ready
                            /\ \A r \in ready : q.order[i] <= r
      BY <2>7 DEF Greedy
    <3>1. i - 1 \in 0 .. n
      OBVIOUS
    <3>2. Popped(q.order, i - 1) = Popped(k.order, i - 1)
      BY <2>9, <3>1
    <3>3. CASE i = n + 1
      <4>1. i - 1 = n /\ q.order[i] = t
        BY <2>7, <3>3
      <4> QED
        BY <2>1, <2>3, <3>2, <4>1
    <3>4. CASE i \in 1 .. n
      <4>1. q.order[i] = k.order[i]
        BY <2>7, <3>4
      <4> QED
        BY <2>1, <3>2, <3>4, <4>1 DEF Greedy
    <3> QED
      BY <3>3, <3>4
  <2>11. ASSUME NEW d \in ids
         PROVE  degree[d] = Cardinality(Deps(d) \ more)
    <3>1. IsFiniteSet(Deps(d) \ done)
      <4>1. (Deps(d) \ done) \in SUBSET ids
        BY DEF DependenciesOf
      <4> QED
        BY <4>1, FS_Subset
    <3>2. Deps(d) \ more = (Deps(d) \ done) \ {t}
      OBVIOUS
    <3>3. t \in Deps(d) \ done <=> d \in next
      BY <2>4, <2>5
    <3>4. Cardinality(Deps(d) \ done) \in Nat
      BY <3>1, FS_CardinalityType
    <3>5. Cardinality((Deps(d) \ done) \ {t})
            = IF t \in Deps(d) \ done THEN Cardinality(Deps(d) \ done) - 1
              ELSE Cardinality(Deps(d) \ done)
      BY <3>1, FS_RemoveElement
    <3>6. degree[d] = Cardinality(Deps(d) \ done) - (IF d \in next THEN 1 ELSE 0)
      BY <2>1
    <3> HIDE DEF degree, Deps, done, more
    <3> QED
      BY <3>2, <3>3, <3>4, <3>5, <3>6
  <2>12. q.degree = [ d \in ids |-> Cardinality(Deps(d) \ more) ]
    BY <2>2, <2>11
  <2>13. ASSUME NEW d \in ids
         PROVE  degree[d] = 0 <=> Deps(d) \subseteq more
    <3>1. IsFiniteSet(Deps(d) \ more)
      <4>1. (Deps(d) \ more) \in SUBSET ids
        BY DEF DependenciesOf
      <4> QED
        BY <4>1, FS_Subset
    <3>2. degree[d] = 0 <=> Deps(d) \ more = {}
      BY <2>11, <3>1, FS_EmptySet
    <3> QED
      BY <3>2
  <2>14. q.ready = ReadyTasks(ids, edges, more)
    <3>1. q.ready = (k.ready \ {t}) \cup { d \in next : degree[d] = 0 }
      BY <2>2
    <3>2. ASSUME NEW d \in ids, t \notin Deps(d)
          PROVE  d \in q.ready <=> d \in ReadyTasks(ids, edges, more)
      <4>1. d \notin next
        BY <2>5, <3>2
      <4>2. d \in q.ready <=> d \in k.ready /\ d # t
        BY <3>1, <4>1
      <4>3. Deps(d) \subseteq more <=> Deps(d) \subseteq done
        BY <3>2
      <4> QED
        BY <2>1, <4>2, <4>3 DEF ReadyTasks
    <3>3. ASSUME NEW d \in ids, t \in Deps(d)
          PROVE  d \in q.ready <=> d \in ReadyTasks(ids, edges, more)
      <4>1. d # t
        BY <2>4, <3>3
      <4>2. d \notin done
        BY <2>1, <2>4, <3>3, PoppedClosed
      <4>3. d \notin k.ready
        BY <2>1, <2>4, <3>3 DEF ReadyTasks
      <4>4. d \in q.ready <=> degree[d] = 0
        BY <2>5, <3>1, <3>3, <4>3
      <4> QED
        BY <2>13, <4>1, <4>2, <4>4 DEF ReadyTasks
    <3>4. q.ready \subseteq ids
      BY <3>1, <2>1, <2>6 DEF ReadyTasks
    <3> QED
      BY <3>2, <3>3, <3>4 DEF ReadyTasks
  <2> HIDE DEF done, more, degree
  <2>15. q.degree = [ d \in ids |-> Cardinality(Deps(d)
                                                 \ Popped(q.order, Len(q.order))) ]
    BY <2>8, <2>12
  <2>16. q.ready = ReadyTasks(ids, edges, Popped(q.order, Len(q.order)))
    BY <2>8, <2>14
  <2> QED
    BY <2>7, <2>10, <2>15, <2>16, Zenon DEF LoopInv, q
<1> QED
  BY <1>1, <1>2

\* The loop of topological_order pops ready tasks, the least first, until no
\* task is ready.
LEMMA LoopKeepsInv ==
  ASSUME NEW ids \in SUBSET Nat, IsFiniteSet(ids), NEW edges, NEW n \in Nat
  PROVE  LoopInv(ids, edges, n, TopologicalLoop(ids, edges)[n])
<1> DEFINE S == { i \in Nat : LoopInv(ids, edges, i, TopologicalLoop(ids, edges)[i]) }
<1>1. 0 \in S
  BY StartLoopInv, LoopRecurrence
<1>2. ASSUME NEW i \in S PROVE i + 1 \in S
  <2>1. TopologicalLoop(ids, edges)[i + 1]
          = PopReady(ids, edges, TopologicalLoop(ids, edges)[i])
    BY LoopRecurrence
  <2>2. LoopInv(ids, edges, i + 1,
                PopReady(ids, edges, TopologicalLoop(ids, edges)[i]))
    BY PopReadyInv
  <2> QED
    BY <2>1, <2>2
<1>3. S = Nat
  <2> HIDE DEF S
  <2>1. S \in SUBSET Nat
    BY DEF S
  <2> QED
    BY <1>1, <1>2, <2>1, NumbersFrom0
<1> QED
  BY <1>3

-----------------------------------------------------------------------------
(* What the order means for the graph.                                     *)

\* No task is popped twice.
LEMMA GreedyDistinct ==
  ASSUME NEW ids, NEW edges, NEW order \in Seq(ids), Greedy(ids, edges, order),
         NEW i \in 1 .. Len(order), NEW j \in 1 .. Len(order), i < j
  PROVE  order[i] # order[j]
<1>1. order[i] \in Popped(order, j - 1)
  BY DEF Popped
<1>2. order[j] \notin Popped(order, j - 1)
  BY DEF Greedy, ReadyTasks
<1> QED
  BY <1>1, <1>2

\* As many distinct tasks as there are: all of them.
LEMMA DistinctListsAll ==
  ASSUME NEW ids, IsFiniteSet(ids), NEW s \in [1 .. Cardinality(ids) -> ids],
         \A i, j \in 1 .. Cardinality(ids) : i # j => s[i] # s[j]
  PROVE  \A t \in ids : \E i \in 1 .. Cardinality(ids) : s[i] = t
<1>1. Cardinality(ids) \in Nat
  BY FS_CardinalityType
<1>2. s \in Injection(1 .. Cardinality(ids), ids)
  BY DEF Injection, IsInjective
<1>3. Cardinality(1 .. Cardinality(ids)) = Cardinality(ids)
  BY <1>1, FS_Interval
<1>4. s \in Surjection(1 .. Cardinality(ids), ids)
  BY <1>2, <1>3, FS_Injection
<1> QED
  BY <1>4 DEF Surjection

\* What topological_order has when its loop ends.
LEMMA RunFacts ==
  ASSUME NEW ids \in SUBSET Nat, IsFiniteSet(ids), NEW edges
  PROVE  LoopInv(ids, edges, Cardinality(ids), TopologicalRun(ids, edges))
<1>1. Cardinality(ids) \in Nat
  BY FS_CardinalityType
<1> QED
  BY <1>1, LoopKeepsInv DEF TopologicalRun

\* An accepted order lists every task once, its dependencies before it.
LEMMA OrderIsLinear ==
  ASSUME NEW ids \in SUBSET Nat, IsFiniteSet(ids), NEW edges,
         IsAcyclic(ids, edges)
  PROVE  TopologicalOrder(ids, edges) \in LinearExtensions(ids, edges)
<1> DEFINE order == TopologicalOrder(ids, edges)
<1>1. /\ order \in Seq(ids) /\ Greedy(ids, edges, order)
      /\ Len(order) = Cardinality(ids) /\ Cardinality(ids) \in Nat
  BY RunFacts, FS_CardinalityType DEF LoopInv, TopologicalOrder, IsAcyclic
<1> HIDE DEF order
<1>2. order \in [1 .. Cardinality(ids) -> ids] /\ DOMAIN order = 1 .. Len(order)
  BY <1>1
<1>3. \A i, j \in 1 .. Len(order) : i # j => order[i] # order[j]
  <2> SUFFICES ASSUME NEW i \in 1 .. Len(order), NEW j \in 1 .. Len(order), i # j
               PROVE  order[i] # order[j]
    OBVIOUS
  <2>1. i < j \/ j < i
    BY <1>1
  <2> QED
    BY <1>1, <2>1, GreedyDistinct
<1>4. ASSUME NEW i \in 1 .. Len(order), NEW j \in 1 .. Len(order),
             <<order[i], order[j]>> \in edges
      PROVE  i < j
  <2>1. order[i] \in DependenciesOf(ids, edges, order[j])
    BY <1>1, <1>2, <1>4 DEF DependenciesOf
  <2>2. order[i] \in Popped(order, j - 1)
    BY <1>1, <2>1 DEF Greedy, ReadyTasks
  <2>3. PICK m \in 1 .. j - 1 : order[i] = order[m]
    BY <2>2 DEF Popped
  <2>4. m \in 1 .. Len(order) /\ m < j
    BY <1>1
  <2> QED
    BY <1>3, <2>3, <2>4
<1> QED
  BY <1>1, <1>2, <1>3, <1>4 DEF LinearExtensions, order

\* In an order that the edges allow, the next task is ready once the ones
\* before it are done.
LEMMA NextIsReady ==
  ASSUME NEW ids, IsFiniteSet(ids), NEW edges,
         NEW s \in LinearExtensions(ids, edges), NEW i \in 1 .. Cardinality(ids)
  PROVE  s[i] \in ReadyTasks(ids, edges, Popped(s, i - 1))
<1>0. Cardinality(ids) \in Nat
  BY FS_CardinalityType
<1>1. /\ s \in [1 .. Cardinality(ids) -> ids]
      /\ \A m, j \in 1 .. Cardinality(ids) : m # j => s[m] # s[j]
      /\ \A m, j \in 1 .. Cardinality(ids) : <<s[m], s[j]>> \in edges => m < j
  BY DEF LinearExtensions
<1>2. \A t \in ids : \E j \in 1 .. Cardinality(ids) : s[j] = t
  BY <1>1, DistinctListsAll
<1>3. s[i] \in ids
  BY <1>1
<1>4. s[i] \notin Popped(s, i - 1)
  <2>1. \A j \in 1 .. i - 1 : j \in 1 .. Cardinality(ids) /\ j # i
    BY <1>0
  <2> QED
    BY <1>1, <2>1 DEF Popped
<1>5. ASSUME NEW d \in DependenciesOf(ids, edges, s[i])
      PROVE  d \in Popped(s, i - 1)
  <2>1. PICK j \in 1 .. Cardinality(ids) : s[j] = d
    BY <1>2 DEF DependenciesOf
  <2>2. j < i
    BY <1>1, <2>1 DEF DependenciesOf
  <2>3. j \in 1 .. i - 1
    BY <2>2, <1>0
  <2> QED
    BY <2>1, <2>3 DEF Popped
<1> QED
  BY <1>3, <1>4, <1>5 DEF ReadyTasks

\* Of all the orders that the edges allow it is the least.
LEMMA OrderIsLeast ==
  ASSUME NEW ids \in SUBSET Nat, IsFiniteSet(ids), NEW edges,
         IsAcyclic(ids, edges), NEW s \in LinearExtensions(ids, edges)
  PROVE  \/ s = TopologicalOrder(ids, edges)
         \/ Precedes(TopologicalOrder(ids, edges), s)
<1> DEFINE order == TopologicalOrder(ids, edges)
           Differ == { i \in 1 .. Cardinality(ids) : s[i] # order[i] }
<1>0. Cardinality(ids) \in Nat
  BY FS_CardinalityType
<1>1. order \in [1 .. Cardinality(ids) -> ids] /\ s \in [1 .. Cardinality(ids) -> ids]
  BY OrderIsLinear DEF LinearExtensions
<1>2. Greedy(ids, edges, order) /\ Len(order) = Cardinality(ids)
  BY RunFacts DEF LoopInv, TopologicalOrder, IsAcyclic
<1> HIDE DEF order
<1>3. CASE Differ = {}
  <2>1. \A i \in 1 .. Cardinality(ids) : s[i] = order[i]
    BY <1>3
  <2>2. DOMAIN s = 1 .. Cardinality(ids) /\ DOMAIN order = 1 .. Cardinality(ids)
        /\ s = [i \in DOMAIN s |-> s[i]] /\ order = [i \in DOMAIN order |-> order[i]]
    BY <1>1
  <2>3. s = order
    BY <2>1, <2>2
  <2> QED
    BY <2>3 DEF order
<1>4. CASE Differ # {}
  <2>1. PICK i \in Differ : \A j \in Differ : i <= j
    <3>1. Differ \in SUBSET Nat
      BY <1>0
    <3> QED
      BY <1>4, <3>1, LeastNumber
  <2>2. \A j \in 1 .. i - 1 : order[j] = s[j]
    BY <2>1, <1>0
  <2>3. Popped(s, i - 1) = Popped(order, i - 1)
    BY <2>2 DEF Popped
  <2>4. s[i] \in ReadyTasks(ids, edges, Popped(order, i - 1))
    BY <2>1, <2>3, NextIsReady
  <2>5. order[i] <= s[i]
    BY <1>2, <2>1, <2>4 DEF Greedy
  <2>6. order[i] < s[i]
    <3>1. order[i] \in Nat /\ s[i] \in Nat /\ order[i] # s[i]
      BY <1>1, <2>1
    <3> QED
      BY <2>5, <3>1
  <2>7. Precedes(order, s)
    BY <1>1, <2>1, <2>2, <2>6 DEF Precedes
  <2> QED
    BY <2>7 DEF order
<1> QED
  BY <1>3, <1>4

\* A graph for which the loop ends too early cannot be ordered at all.
LEMMA StuckHasNoOrder ==
  ASSUME NEW ids \in SUBSET Nat, IsFiniteSet(ids), NEW edges,
         ~IsAcyclic(ids, edges)
  PROVE  LinearExtensions(ids, edges) = {}
<1> SUFFICES ASSUME NEW s \in LinearExtensions(ids, edges) PROVE FALSE
  OBVIOUS
<1> DEFINE order == TopologicalOrder(ids, edges)
           done == Popped(order, Len(order))
           Waiting == { i \in 1 .. Cardinality(ids) : s[i] \notin done }
<1>0. Cardinality(ids) \in Nat
  BY FS_CardinalityType
<1>1. /\ order \in Seq(ids) /\ Greedy(ids, edges, order)
      /\ Len(order) # Cardinality(ids) /\ ReadyTasks(ids, edges, done) = {}
  BY RunFacts DEF LoopInv, TopologicalOrder, IsAcyclic
<1> HIDE DEF order
<1>2. /\ s \in [1 .. Cardinality(ids) -> ids]
      /\ \A i, j \in 1 .. Cardinality(ids) : i # j => s[i] # s[j]
  BY DEF LinearExtensions
<1>3. CASE Waiting = {}
  <2>1. ids \subseteq done
    <3>1. \A t \in ids : \E i \in 1 .. Cardinality(ids) : s[i] = t
      BY <1>2, DistinctListsAll
    <3>2. \A i \in 1 .. Cardinality(ids) : s[i] \in done
      BY <1>3
    <3> HIDE DEF done
    <3> QED
      BY <3>1, <3>2
  <2>2. done \subseteq ids
    BY <1>1 DEF Popped
  <2>3. Len(order) \in Nat /\ order \in [1 .. Len(order) -> ids]
    BY <1>1
  <2>4. order \in Injection(1 .. Len(order), ids)
    <3>1. ASSUME NEW i \in 1 .. Len(order), NEW j \in 1 .. Len(order),
                 order[i] = order[j]
          PROVE  i = j
      <4>1. ~(i < j) /\ ~(j < i)
        BY <1>1, <3>1, GreedyDistinct
      <4> QED
        BY <4>1, <2>3
    <3> QED
      BY <2>3, <3>1 DEF Injection, IsInjective
  <2>5. order \in Surjection(1 .. Len(order), ids)
    BY <2>1, <2>3 DEF Surjection, Popped
  <2>6. Cardinality(1 .. Len(order)) = Cardinality(ids)
    BY <2>4, <2>5, FS_Injection
  <2>7. Cardinality(1 .. Len(order)) = Len(order)
    BY <2>3, FS_Interval
  <2> QED
    BY <1>1, <2>6, <2>7
<1>4. CASE Waiting # {}
  <2>1. PICK i \in Waiting : \A j \in Waiting : i <= j
    <3>1. Waiting \in SUBSET Nat
      BY <1>0
    <3> QED
      BY <1>4, <3>1, LeastNumber
  <2>2. Popped(s, i - 1) \subseteq done
    <3>1. \A j \in 1 .. i - 1 : s[j] \in done
      BY <2>1, <1>0
    <3> QED
      BY <3>1 DEF Popped
  <2>3. s[i] \in ReadyTasks(ids, edges, Popped(s, i - 1))
    BY <2>1, NextIsReady
  <2>4. s[i] \in ReadyTasks(ids, edges, done)
    BY <2>1, <2>2, <2>3 DEF ReadyTasks
  <2> QED
    BY <1>1, <2>4
<1> QED
  BY <1>3, <1>4

\* The tasks left with an in-degree are all that can never start.
LEMMA RemainingIsDeadlocked ==
  ASSUME NEW ids \in SUBSET Nat, IsFiniteSet(ids), NEW edges,
         ~IsAcyclic(ids, edges)
  PROVE  CycleTasks(ids, edges) = UNION { S \in SUBSET ids : Deadlocked(edges, S) }
<1> DEFINE order == TopologicalOrder(ids, edges)
           done == Popped(order, Len(order))
           Deps(d) == DependenciesOf(ids, edges, d)
<1>1. /\ order \in Seq(ids) /\ Greedy(ids, edges, order)
      /\ ReadyTasks(ids, edges, done) = {}
      /\ TopologicalRun(ids, edges).degree
           = [ d \in ids |-> Cardinality(Deps(d) \ done) ]
  BY RunFacts DEF LoopInv, TopologicalOrder, IsAcyclic
<1> HIDE DEF order
<1>2. ASSUME NEW d \in ids
      PROVE  Cardinality(Deps(d) \ done) # 0 <=> d \notin done
  <2>1. (Deps(d) \ done) \in SUBSET ids
    BY DEF DependenciesOf
  <2>2. Cardinality(Deps(d) \ done) = 0 <=> Deps(d) \ done = {}
    BY <2>1, FS_Subset, FS_EmptySet
  <2>3. d \in done => Deps(d) \subseteq done
    BY <1>1, PoppedClosed
  <2>4. d \notin done => ~(Deps(d) \subseteq done)
    BY <1>1 DEF ReadyTasks
  <2> QED
    BY <2>2, <2>3, <2>4
<1>3. CycleTasks(ids, edges) = ids \ done
  <2>1. CycleTasks(ids, edges) = { d \in ids : Cardinality(Deps(d) \ done) # 0 }
    BY <1>1 DEF CycleTasks
  <2> HIDE DEF Deps, done
  <2> QED
    BY <1>2, <2>1
<1>4. Deadlocked(edges, ids \ done)
  BY <1>1 DEF Deadlocked, ReadyTasks, DependenciesOf
<1>5. ASSUME NEW S \in SUBSET ids, Deadlocked(edges, S)
      PROVE  S \cap done = {}
  <2> DEFINE Hits == { i \in 1 .. Len(order) : order[i] \in S }
  <2> SUFFICES ASSUME Hits # {} PROVE FALSE
    BY DEF Popped
  <2>0. Len(order) \in Nat
    BY <1>1
  <2>1. PICK i \in Hits : \A j \in Hits : i <= j
    <3>1. Hits \in SUBSET Nat
      BY <2>0
    <3> QED
      BY <3>1, LeastNumber
  <2>2. PICK d \in S : <<d, order[i]>> \in edges
    BY <1>5, <2>1 DEF Deadlocked
  <2>3. d \in Popped(order, i - 1)
    <3>1. d \in Deps(order[i])
      BY <2>2 DEF DependenciesOf
    <3> QED
      BY <1>1, <2>1, <3>1 DEF Greedy, ReadyTasks
  <2>4. PICK j \in 1 .. i - 1 : order[j] = d
    BY <2>3 DEF Popped
  <2>5. j \in Hits /\ ~(i <= j)
    BY <2>0, <2>1, <2>4
  <2> QED
    BY <2>1, <2>5
<1> QED
  BY <1>3, <1>4, <1>5

-----------------------------------------------------------------------------
(* The builder.                                                            *)

\* add_task keeps a declaration only when it has no error.
LEMMA AddTaskStep ==
  ASSUME BuilderInv, NEW spec \in Specs, AddTask(spec)
  PROVE  BuilderInv'
<1>1. tasks' = InsertValid(spec) /\ consumed' = consumed /\ ~consumed
      /\ calls < MaxCalls /\ calls' = calls + 1
  BY DEF AddTask
<1>2. Judged'
  BY <1>1 DEF Judged
<1>3. calls' \in 0 .. MaxCalls /\ consumed' \in BOOLEAN
  BY <1>1, MaxCallsAssumption DEF BuilderInv, TypeOK
<1>4. CASE AddError(spec) # Ok
  <2>1. tasks' = tasks
    BY <1>1, <1>4 DEF InsertValid
  <2>2. DeclaredValid'
    BY <2>1 DEF BuilderInv, DeclaredValid
  <2> QED
    BY <1>2, <1>3, <2>1, <2>2 DEF BuilderInv, TypeOK
<1>5. CASE AddError(spec) = Ok
  <2>1. tasks' = [ t \in DOMAIN tasks \cup {spec.id} |->
                     IF t = spec.id THEN spec ELSE tasks[t] ]
    BY <1>1, <1>5 DEF InsertValid
  <2>2. spec.label # "blank" /\ AccessError(spec) = Ok
    BY <1>5 DEF AddError, GraphError, Ok
  <2>3. spec.id \in Nat
    BY SpecsAssumption
  <2>4. DOMAIN tasks' = DOMAIN tasks \cup {spec.id}
    BY <2>1
  <2>5. DOMAIN tasks' \in SUBSET Nat /\ IsFiniteSet(DOMAIN tasks')
    BY <2>3, <2>4, FS_AddElement DEF BuilderInv, TypeOK
  <2>6. ASSUME NEW t \in DOMAIN tasks'
        PROVE  /\ tasks'[t] \in Specs
               /\ tasks'[t].label # "blank"
               /\ AccessError(tasks'[t]) = Ok
    <3>1. tasks'[t] = spec \/ (t \in DOMAIN tasks /\ tasks'[t] = tasks[t])
      BY <2>1, <2>4
    <3> QED
      BY <2>2, <3>1 DEF BuilderInv, DeclaredValid
  <2>7. DeclaredValid'
    BY <2>6 DEF DeclaredValid
  <2> QED
    BY <1>2, <1>3, <2>5, <2>7 DEF BuilderInv, TypeOK
<1> QED
  BY <1>4, <1>5

\* build() judges what was declared.
LEMMA BuildStep ==
  ASSUME BuilderInv, Build
  PROVE  BuilderInv'
<1>1. tasks' = tasks /\ calls' = calls /\ consumed' = TRUE
  BY DEF Build
<1>2. TypeOK' /\ DeclaredValid'
  BY <1>1 DEF BuilderInv, TypeOK, DeclaredValid
<1>3. /\ DeclaredEdges' = DeclaredEdges
      /\ DeclaredDeps' = DeclaredDeps /\ DeclaredAccesses' = DeclaredAccesses
  BY <1>1 DEF DeclaredEdges, DeclaredDeps, DeclaredAccesses
<1>4. Judged'
  BY <1>1, <1>3 DEF Judged, Build
<1> QED
  BY <1>2, <1>4 DEF BuilderInv

\* What add_task keeps and what build() judges, for every set of
\* declarations and every sequence of calls.
THEOREM BuilderInvariant == Spec => []BuilderInv
<1>1. Init => BuilderInv
  <2> SUFFICES ASSUME Init PROVE BuilderInv
    OBVIOUS
  <2>1. DOMAIN tasks = {} /\ calls = 0 /\ consumed = FALSE
    BY DEF Init
  <2>2. TypeOK
    <3>1. calls \in 0 .. MaxCalls
      BY <2>1, MaxCallsAssumption
    <3>2. DOMAIN tasks \in SUBSET Nat /\ IsFiniteSet(DOMAIN tasks)
      BY <2>1, FS_EmptySet
    <3> QED
      BY <2>1, <3>1, <3>2 DEF TypeOK
  <2>3. DeclaredValid /\ Judged
    BY <2>1 DEF DeclaredValid, Judged
  <2> QED
    BY <2>2, <2>3 DEF BuilderInv
<1>2. BuilderInv /\ [Next]_vars => BuilderInv'
  <2> SUFFICES ASSUME BuilderInv, [Next]_vars PROVE BuilderInv'
    OBVIOUS
  <2>1. CASE UNCHANGED vars
    <3>1. /\ tasks' = tasks /\ response' = response /\ calls' = calls
          /\ graph' = graph /\ consumed' = consumed
      BY <2>1 DEF vars
    <3>2. TypeOK' /\ DeclaredValid'
      BY <3>1 DEF BuilderInv, TypeOK, DeclaredValid
    <3>3. /\ DeclaredEdges' = DeclaredEdges
          /\ DeclaredDeps' = DeclaredDeps /\ DeclaredAccesses' = DeclaredAccesses
      BY <3>1 DEF DeclaredEdges, DeclaredDeps, DeclaredAccesses
    <3>4. Judged'
      BY <3>1, <3>3 DEF BuilderInv, Judged
    <3> QED
      BY <3>2, <3>4 DEF BuilderInv
  <2> QED
    BY <2>1, AddTaskStep, BuildStep DEF Next, Done
<1> QED
  BY <1>1, <1>2, PTL DEF Spec

\* What an invariant says of an accepted graph.
LEMMA AcceptedGraph ==
  ASSUME BuilderInv, Accepted
  PROVE  /\ graph.tasks = DOMAIN tasks /\ graph.edges = DeclaredEdges
         /\ graph.kinds = EdgeKinds(DOMAIN tasks, DeclaredDeps, DeclaredAccesses)
         /\ IsAcyclic(graph.tasks, graph.edges)
         /\ graph.tasks \in SUBSET Nat /\ IsFiniteSet(graph.tasks)
         /\ \A t \in graph.tasks : tasks[t].dependsOn \subseteq graph.tasks
BY DEF BuilderInv, TypeOK, Judged, Accepted, Ok, GraphError, Cycle

\* The order of an accepted graph is the least that its edges allow.
THEOREM OrderIsLeastTopological == Spec => []LeastTopologicalOrder
<1>1. BuilderInv => LeastTopologicalOrder
  BY AcceptedGraph, OrderIsLinear, OrderIsLeast DEF LeastTopologicalOrder
<1> QED
  BY <1>1, BuilderInvariant, PTL

\* build() refuses exactly the graphs that cannot be ordered, and names the
\* tasks that could never start.
THEOREM RefusedIffNoOrder == Spec => []CycleIffNoOrder
<1>1. BuilderInv => CycleIffNoOrder
  <2> SUFFICES ASSUME BuilderInv, consumed, response.kind \in {"Ok", "Cycle"}
               PROVE  CycleIffNoOrder
    BY DEF CycleIffNoOrder
  <2>1. /\ graph.tasks = DOMAIN tasks /\ graph.edges = DeclaredEdges
        /\ response = IF IsAcyclic(graph.tasks, graph.edges) THEN Ok
                      ELSE Cycle(CycleTasks(graph.tasks, graph.edges))
    BY DEF BuilderInv, Judged, GraphError
  <2>2. graph.tasks \in SUBSET Nat /\ IsFiniteSet(graph.tasks)
    BY <2>1 DEF BuilderInv, TypeOK
  <2>3. CASE IsAcyclic(graph.tasks, graph.edges)
    <3>1. response.kind = "Ok"
      BY <2>1, <2>3 DEF Ok
    <3>2. LinearExtensions(graph.tasks, graph.edges) # {}
      BY <2>2, <2>3, OrderIsLinear
    <3> QED
      BY <3>1, <3>2 DEF CycleIffNoOrder
  <2>4. CASE ~IsAcyclic(graph.tasks, graph.edges)
    <3>1. /\ response.kind = "Cycle"
          /\ response.tasks = CycleTasks(graph.tasks, graph.edges)
      BY <2>1, <2>4 DEF Cycle
    <3>2. LinearExtensions(graph.tasks, graph.edges) = {}
      BY <2>2, <2>4, StuckHasNoOrder
    <3> QED
      BY <2>2, <2>4, <3>1, <3>2, RemainingIsDeadlocked DEF CycleIffNoOrder
  <2> QED
    BY <2>3, <2>4
<1> QED
  BY <1>1, BuilderInvariant, PTL

\* The loop over the accesses refuses every blank and every repeated name.
LEMMA NoAccessError ==
  ASSUME NEW spec \in Specs, AccessError(spec) = Ok,
         NEW i \in DOMAIN spec.accesses, NEW j \in DOMAIN spec.accesses
  PROVE  /\ spec.accesses[i].resource # "blank"
         /\ i # j => spec.accesses[i].resource # spec.accesses[j].resource
<1>1. \A m \in DOMAIN spec.accesses :
        ~EmptyResourceAt(spec, m) /\ ~DuplicateAccessAt(spec, m)
  BY DEF AccessError, GraphError, Ok
<1>2. DOMAIN spec.accesses \subseteq Nat \ {0}
  BY SpecsAssumption
<1>3. spec.accesses[i].resource # "blank"
  BY <1>1 DEF EmptyResourceAt
<1>4. ASSUME i # j PROVE spec.accesses[i].resource # spec.accesses[j].resource
  <2>1. i < j \/ j < i
    BY <1>2, <1>4
  <2>2. CASE i < j
    <3>1. i \in 1 .. j - 1
      BY <1>2, <2>2
    <3> QED
      BY <1>1, <3>1 DEF DuplicateAccessAt
  <2>3. CASE j < i
    <3>1. j \in 1 .. i - 1
      BY <1>2, <2>3
    <3> QED
      BY <1>1, <3>1 DEF DuplicateAccessAt
  <2> QED
    BY <2>1, <2>2, <2>3
<1> QED
  BY <1>3, <1>4

\* Every edge of an accepted graph has the reasons the declarations give it,
\* and no pair of tasks with a reason is without an edge.
THEOREM EdgesAreJustified == Spec => []EdgesJustified
<1>1. BuilderInv => EdgesJustified
  <2> SUFFICES ASSUME BuilderInv, Accepted, NEW a \in graph.tasks, NEW b \in graph.tasks
               PROVE  /\ WellFormed(a)
                      /\ LET clash == \E x \in AccessSet(tasks[a]), y \in AccessSet(tasks[b]) :
                                 x.resource = y.resource /\ {x.mode, y.mode} # {"Read"}
                             reasons == (IF a < b /\ clash THEN {"DataConflict"} ELSE {})
                                \cup (IF a \in tasks[b].dependsOn THEN {"Explicit"} ELSE {})
                         IN  IF <<a, b>> \in graph.edges
                             THEN graph.kinds[<<a, b>>] = reasons /\ reasons # {}
                             ELSE reasons = {}
    BY DEF EdgesJustified
  <2> DEFINE ids == DOMAIN tasks
             clash == \E x \in AccessSet(tasks[a]), y \in AccessSet(tasks[b]) :
                         x.resource = y.resource /\ {x.mode, y.mode} # {"Read"}
             explicit == <<a, b>> \in ExplicitEdges(ids, DeclaredDeps)
             conflict == <<a, b>> \in ConflictEdges(ids, DeclaredAccesses)
  <2>1. /\ graph.edges = DeclaredEdges
        /\ graph.kinds = EdgeKinds(ids, DeclaredDeps, DeclaredAccesses)
        /\ a \in ids /\ b \in ids
        /\ tasks[a].dependsOn \subseteq graph.tasks
    BY AcceptedGraph
  <2>2. WellFormed(a)
    <3>1. tasks[a] \in Specs /\ tasks[a].label # "blank" /\ AccessError(tasks[a]) = Ok
      BY <2>1 DEF BuilderInv, DeclaredValid
    <3> QED
      BY <2>1, <3>1, NoAccessError DEF WellFormed
  <2>3. explicit <=> a \in tasks[b].dependsOn
    BY <2>1 DEF ExplicitEdges, DeclaredDeps
  <2>4. conflict <=> a < b /\ clash
    <3>1. \A x, y : {x, y} # {"Read"} <=> Conflicts(x, y)
      BY DEF Conflicts
    <3>2. conflict <=> a < b /\ AccessesConflict(AccessSet(tasks[a]), AccessSet(tasks[b]))
      BY <2>1 DEF ConflictEdges, DeclaredAccesses
    <3> QED
      BY <3>1, <3>2 DEF AccessesConflict
  <2>5. <<a, b>> \in graph.edges <=> explicit \/ conflict
    BY <2>1 DEF DeclaredEdges, GraphEdges
  <2>6. ASSUME <<a, b>> \in graph.edges
        PROVE  graph.kinds[<<a, b>>] = { k \in DependencyKinds :
                 (k = "Explicit" /\ explicit) \/ (k = "DataConflict" /\ conflict) }
    <3>1. <<a, b>> \in GraphEdges(ids, DeclaredDeps, DeclaredAccesses)
      BY <2>1, <2>6 DEF DeclaredEdges
    <3> QED
      BY <2>1, <3>1 DEF EdgeKinds
  <2>7. { k \in DependencyKinds :
            (k = "Explicit" /\ explicit) \/ (k = "DataConflict" /\ conflict) }
          = (IF conflict THEN {"DataConflict"} ELSE {})
            \cup (IF explicit THEN {"Explicit"} ELSE {})
    <3> HIDE DEF explicit, conflict
    <3> QED
      BY DEF DependencyKinds
  <2> DEFINE reasons == (IF a < b /\ clash THEN {"DataConflict"} ELSE {})
                        \cup (IF a \in tasks[b].dependsOn THEN {"Explicit"} ELSE {})
  <2> HIDE DEF explicit, conflict, clash
  <2>8. reasons = (IF conflict THEN {"DataConflict"} ELSE {})
                  \cup (IF explicit THEN {"Explicit"} ELSE {})
    BY <2>3, <2>4
  <2>9. (reasons # {} <=> explicit \/ conflict)
    BY <2>8
  <2>10. IF <<a, b>> \in graph.edges
         THEN graph.kinds[<<a, b>>] = reasons /\ reasons # {}
         ELSE reasons = {}
    BY <2>5, <2>6, <2>7, <2>8, <2>9
  <2> QED
    BY <2>2, <2>10, Zenon DEF clash
<1> QED
  BY <1>1, BuilderInvariant, PTL
=============================================================================
