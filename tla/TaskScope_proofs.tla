-------------------------- MODULE TaskScope_proofs --------------------------
(***************************************************************************)
(* Proofs about WorkStealingPool, for every graph, every number of workers *)
(* and every number of spurious wake-ups, and about TaskScope::run on top  *)
(* of it.  A scope takes the steps of the pool, so everything proved of    *)
(* the pool holds in it; what the token adds is ScopeInv.                  *)
(***************************************************************************)
EXTENDS TaskScope, TLAPS, FiniteSetTheorems, WellFoundedInduction

\* Worker indices: the round robin of execute and the victims of take stay
\* within the workers.
LEMMA WorkerIndex ==
  /\ 0 \in Workers
  /\ Workers \subseteq Nat
  /\ Free \notin Workers
  /\ \A i, j \in Workers : (i + j) % N \in Workers
  /\ \A i \in Workers : (i + 1) % N \in Workers
  /\ \A i \in Workers : i # N - 1 => i + 1 \in Workers
BY NAssumption DEF Workers, Free

\* The first task of a nonempty batch is one of its members (BTreeSet order).
LEMMA FirstMember ==
  ASSUME NEW S \in SUBSET Tasks, S # {}
  PROVE  First(S) \in S
<1>1. S \subseteq Nat
  BY TasksAssumption
<1>2. \E t \in S : \A u \in S : ~(<<u, t>> \in OpToRel(<, Nat))
  BY <1>1, WFMin, NatLessThanWellFounded, Zenon
<1>3. \E t \in S : \A u \in S : ~(u < t)
  BY <1>1, <1>2, Zenon DEF OpToRel
<1>4. \E t \in S : \A u \in S : t <= u
  BY <1>1, <1>3
<1> QED
  BY <1>4, Zenon DEF First

\* No worker exists before execute accepted the map of jobs.
LEMMA SpawnedInvariant == Spec => []Spawned
<1>1. Init => Spawned
  BY DEF Init, Spawned
<1>2. Spawned /\ [Next]_vars => Spawned'
  <2> SUFFICES ASSUME Spawned, [Next]_vars PROVE Spawned'
    OBVIOUS
  <2> USE DEF coordVars, sharedVars, workerVars, history
  <2>1. CASE Coordinator
    BY <2>1 DEF Coordinator, Validate, Scan, Enqueue, CheckDone, Receive,
                RequestShutdown, DropReceiver, Join, Spawned
  <2>2. ASSUME NEW w \in Workers, Worker(w) \/ SpuriousWake(w) PROVE Spawned'
    <3>1. pc[w] # "unspawned" /\ phase' = phase
      BY <2>2 DEF Worker, Take, TakeEmpty, Idle, LockWake, TestShutdown,
                  TestPending, RunJob, SendCompletion, SpuriousWake
    <3> QED
      BY <3>1 DEF Spawned
  <2>3. CASE UNCHANGED vars
    BY <2>3 DEF vars, Spawned
  <2> QED
    BY <2>1, <2>2, <2>3 DEF Next, Returned
<1> QED
  BY <1>1, <1>2, PTL DEF Spec

\* Every variable stays in its type, and workers at "run" or "send" hold a
\* job, along each step of the coordinator and
\* of a worker.
THEOREM TypeCorrect == Spec => [](TypeOK /\ HoldsJob)
<1> USE DEF HoldsJob
<1>1. Init => TypeOK /\ HoldsJob
  <2> SUFFICES ASSUME Init PROVE TypeOK /\ HoldsJob
    OBVIOUS
  <2>1. jobs \subseteq Nat
    BY JobSetsAssumption DEF Init
  <2>2. << >> \in Seq(Completions) /\ << >> \in Seq(Tasks)
    OBVIOUS
  <2> QED
    BY <2>1, <2>2, WorkerIndex
       DEF Init, TypeOK, Phases, Pcs, JobResults, Outcomes
<1>2. Spawned /\ TypeOK /\ HoldsJob /\ [Next]_vars => TypeOK' /\ HoldsJob'
  <2> SUFFICES ASSUME Spawned, TypeOK, HoldsJob, [Next]_vars
               PROVE  TypeOK' /\ HoldsJob'
    OBVIOUS
  <2> USE DEF coordVars, sharedVars, workerVars, history
  <2>0. CASE Validate
    <3>1. jobs \subseteq Nat /\ Tasks \subseteq Nat
      BY TasksAssumption DEF TypeOK
    <3>2. outcome' \in Outcomes
      <4>1. JobSetMismatch(Tasks \ jobs, jobs \ Tasks) \in Mismatches
        BY <3>1 DEF Mismatches, JobSetMismatch
      <4>2. outcome' = outcome \/ outcome' \in Mismatches
        BY <2>0, <4>1 DEF Validate
      <4> QED
        BY <4>2 DEF TypeOK, Outcomes
    <3>3. pc' \in [Workers -> Pcs] /\ phase' \in Phases
      BY <2>0 DEF Validate, TypeOK, Pcs, Phases
    <3>4. /\ \A w \in Workers : held[w] = NoTask /\ held' = held
          /\ \A w \in Workers : pc'[w] \in {"unspawned", "take"}
      BY <2>0 DEF Validate, Spawned
    <3>5. HoldsJob'
      BY <3>4
    <3> QED
      BY <2>0, <3>2, <3>3, <3>5 DEF Validate, TypeOK
  <2>1. CASE Scan
    BY <2>1 DEF TypeOK, Scan, ReadyTasks, Phases
  <2>2. CASE Enqueue
    <3>1. First(batch) \in Tasks
      BY <2>2, FirstMember DEF Enqueue, TypeOK
    <3>2. queues' \in [Workers -> Seq(Tasks)]
      BY <2>2, <3>1 DEF Enqueue, TypeOK
    <3>3. nextWorker' \in Workers
      BY <2>2, WorkerIndex DEF Enqueue, TypeOK, RoundRobin
    <3>4. pc' \in [Workers -> Pcs]
      BY <2>2 DEF Enqueue, TypeOK, NotifyAll, Pcs
    <3>5. batch' \subseteq Tasks /\ submitted' \subseteq Tasks /\ running' \in Int
      BY <2>2, <3>1 DEF Enqueue, TypeOK
    <3>6. TypeOK'
      BY <2>2, <3>2, <3>3, <3>4, <3>5 DEF Enqueue, TypeOK
    <3>7. HoldsJob'
      BY <2>2 DEF Enqueue, NotifyAll, TypeOK
    <3> QED
      BY <3>6, <3>7
  <2>3. CASE CheckDone
    BY <2>3 DEF TypeOK, CheckDone, Phases, Outcomes
  <2>4. CASE Receive
    <3>1. CASE channel = << >>
      BY <2>4, <3>1 DEF TypeOK, Receive, Phases, Outcomes
    <3>2. CASE channel # << >>
      <4>1. channel \in Seq(Completions)
        BY DEF TypeOK
      <4>2. Head(channel) \in Completions /\ Tail(channel) \in Seq(Completions)
        BY <3>2, <4>1
      <4>3. Head(channel).task \in Tasks
        BY <4>2 DEF Completions
      <4>4. TypeOK'
        <5>0. /\ completedOrder \in Seq(Tasks)
              /\ completedOrder' \in { completedOrder,
                                      Append(completedOrder, Head(channel).task) }
          BY <2>4, <3>2 DEF TypeOK, Receive
        <5>1. completedOrder' \in Seq(Tasks)
          BY <4>3, <5>0
        <5>2. completed' \subseteq Tasks
          BY <2>4, <3>2, <4>3 DEF TypeOK, Receive
        <5>3. outcome' \in Outcomes
          BY <2>4, <3>2, <4>3 DEF TypeOK, Receive, Outcomes
        <5>4. phase' \in Phases /\ running' \in Int
          BY <2>4, <3>2 DEF TypeOK, Receive, Phases
        <5>5. channel' \in Seq(Completions)
          BY <2>4, <3>2, <4>2 DEF Receive
        <5> QED
          BY <2>4, <5>1, <5>2, <5>3, <5>4, <5>5 DEF TypeOK, Receive
      <4>5. HoldsJob'
        BY <2>4 DEF Receive
      <4> QED
        BY <4>4, <4>5
    <3> QED
      BY <3>1, <3>2
  <2>5. CASE RequestShutdown
    BY <2>5 DEF TypeOK, RequestShutdown, NotifyAll, Phases, Pcs
  <2>6. CASE DropReceiver
    <3>1. << >> \in Seq(Completions)
      OBVIOUS
    <3> QED
      BY <2>6, <3>1 DEF TypeOK, DropReceiver, Phases
  <2>7. CASE Join
    BY <2>7 DEF TypeOK, Join, Phases
  <2>8. ASSUME NEW w \in Workers, Worker(w) \/ SpuriousWake(w)
       PROVE TypeOK' /\ HoldsJob'
    <3> USE DEF Goto
    <3>1. CASE Take(w)
      <4>1. Victim(w) \in Workers
        <5>1. probe[w] \in Workers
          BY DEF TypeOK
        <5> QED
          BY <5>1, WorkerIndex DEF Victim
      <4>2. queues[Victim(w)] \in Seq(Tasks) /\ queues[Victim(w)] # << >>
        BY <3>1, <4>1 DEF Take, TypeOK
      <4>3. Popped(w, queues[Victim(w)]) \in Tasks
        BY <4>2 DEF Popped
      <4>4. Rest(w, queues[Victim(w)]) \in Seq(Tasks)
        BY <4>2 DEF Rest
      <4>5. queues' \in [Workers -> Seq(Tasks)]
        BY <3>1, <4>1, <4>4 DEF Take, TypeOK
      <4>6. /\ held' \in [Workers -> Tasks \cup {NoTask}]
            /\ starts' \in [Tasks -> Nat]
            /\ late' \in [Workers -> Nat]
            /\ probe' \in [Workers -> Workers]
        <5>1. held' \in [Workers -> Tasks \cup {NoTask}]
          BY <3>1, <4>3 DEF Take, TypeOK
        <5>2. starts' \in [Tasks -> Nat]
          BY <3>1, <4>3 DEF Take, TypeOK
        <5>3. late' \in [Workers -> Nat]
          BY <3>1 DEF Take, TypeOK
        <5>4. probe' \in [Workers -> Workers]
          BY <3>1, WorkerIndex DEF Take, TypeOK
        <5> QED
          BY <5>1, <5>2, <5>3, <5>4
      <4>7. TypeOK'
        BY <3>1, <4>5, <4>6 DEF Take, TypeOK, Pcs
      <4>8. HoldsJob'
        BY <3>1, <4>3, TasksAssumption DEF Take, TypeOK, NoTask
      <4> QED
        BY <4>7, <4>8
    <3>2. CASE TakeEmpty(w)
      <4>1. probe' \in [Workers -> Workers]
        BY <3>2, WorkerIndex DEF TakeEmpty, TypeOK
      <4> QED
        BY <3>2, <4>1 DEF TakeEmpty, TypeOK, Pcs
    <3>3. CASE Idle(w)
      BY <3>3 DEF Idle, TypeOK, Pcs
    <3>4. CASE LockWake(w)
      BY <3>4 DEF LockWake, TypeOK, Pcs
    <3>5. CASE TestShutdown(w)
      BY <3>5 DEF TestShutdown, TypeOK, Pcs
    <3>6. CASE TestPending(w)
      <4>1. probe' \in [Workers -> Workers]
        <5>1. \/ probe' = [probe EXCEPT ![w] = 0]
              \/ probe[w] # N - 1 /\ probe' = [probe EXCEPT ![w] = @ + 1]
          BY <3>6 DEF TestPending
        <5>2. probe \in [Workers -> Workers]
          BY DEF TypeOK
        <5>3. probe[w] # N - 1 => probe[w] + 1 \in Workers
          BY <5>2, WorkerIndex
        <5> QED
          BY <5>1, <5>2, <5>3, WorkerIndex
      <4>2. pc' \in [Workers -> Pcs] /\ wakeLock' \in Workers \cup {Free}
        BY <3>6 DEF TestPending, TypeOK, Pcs
      <4>3. TypeOK'
        BY <3>6, <4>1, <4>2 DEF TestPending, TypeOK
      <4>4. HoldsJob'
        BY <3>6 DEF TestPending, TypeOK
      <4> QED
        BY <4>3, <4>4
    <3>7. CASE RunJob(w)
      <4>1. held[w] \in Tasks
        BY <3>7 DEF RunJob, TypeOK
      <4> QED
        BY <3>7, <4>1 DEF RunJob, TypeOK, Pcs
    <3>8. CASE SendCompletion(w)
      <4>1. [task |-> held[w], result |-> result[w]] \in Completions
        BY <3>8 DEF SendCompletion, TypeOK, Completions
      <4>2. channel \in Seq(Completions)
        BY DEF TypeOK
      <4>3. Append(channel, [task |-> held[w], result |-> result[w]])
              \in Seq(Completions)
        BY <4>1, <4>2
      <4>4. channel' \in Seq(Completions)
        BY <3>8, <4>2, <4>3 DEF SendCompletion
      <4> QED
        BY <3>8, <4>4 DEF SendCompletion, SendErrorTarget, TypeOK, Pcs, JobResults
    <3>9. CASE SpuriousWake(w)
      BY <3>9 DEF SpuriousWake, TypeOK, Pcs
    <3> QED
      BY <2>8, <3>1, <3>2, <3>3, <3>4, <3>5, <3>6, <3>7, <3>8, <3>9 DEF Worker
  <2>9. CASE UNCHANGED vars
    BY <2>9 DEF TypeOK, vars
  <2> QED
    BY <2>0, <2>1, <2>2, <2>3, <2>4, <2>5, <2>6, <2>7, <2>8, <2>9
       DEF Next, Coordinator, Returned
<1> QED
  BY <1>1, <1>2, SpawnedInvariant, PTL DEF Spec

-----------------------------------------------------------------------------
(* Layer 1: the protocol of the wake lock.                                 *)

LEMMA WakeStep ==
  Spawned /\ TypeOK /\ WakeInv /\ [Next]_vars => WakeInv'
<1> SUFFICES ASSUME Spawned, TypeOK, WakeInv, [Next]_vars PROVE WakeInv'
  OBVIOUS
<1> USE DEF coordVars, sharedVars, workerVars, history, Goto,
            WakeInv, WakeLockOwner, ProbeReset, ScannedEmpty, NoLostWakeup
<1>0. CASE Validate
  <2>1. /\ \A v \in Workers : pc[v] = "unspawned"
        /\ \A v \in Workers : pc'[v] \in {"unspawned", "take"}
        /\ UNCHANGED <<queues, shutdown, wakeLock, probe>>
    BY <1>0 DEF Validate, Spawned
  <2>2. \A v \in Workers : probe[v] = 0 /\ wakeLock # v
    BY <2>1
  <2> QED
    BY <2>1, <2>2
<1>1. CASE Scan \/ CheckDone \/ Receive \/ DropReceiver
  BY <1>1 DEF Scan, CheckDone, Receive, DropReceiver
<1>2. CASE Enqueue
  <2>1. \A v \in Workers : pc'[v] = IF pc[v] = "waiting" THEN "lock" ELSE pc[v]
    BY <1>2 DEF Enqueue, NotifyAll
  <2>2. \A v \in Workers : pc[v] \notin {"test", "pending"}
    BY <1>2, WorkerIndex DEF Enqueue
  <2> QED
    BY <1>2, <2>1, <2>2 DEF Enqueue
<1>3. CASE RequestShutdown
  <2>1. \A v \in Workers : pc'[v] = IF pc[v] = "waiting" THEN "lock" ELSE pc[v]
    BY <1>3 DEF RequestShutdown, NotifyAll
  <2>2. \A v \in Workers : pc[v] \notin {"test", "pending"}
    BY <1>3, WorkerIndex DEF RequestShutdown
  <2> QED
    BY <1>3, <2>1, <2>2 DEF RequestShutdown
<1>4. CASE Join
  BY <1>4 DEF Join
<1>5. ASSUME NEW w \in Workers, Worker(w) \/ SpuriousWake(w) PROVE WakeInv'
  <2>1. CASE Take(w)
    <3>1. \A v \in Workers : queues[v] = << >> => queues'[v] = << >>
      BY <2>1 DEF Take, TypeOK
    <3>2. \A v \in Workers : v # w => pc'[v] = pc[v] /\ probe'[v] = probe[v]
      BY <2>1 DEF Take, TypeOK
    <3>3. pc'[w] = "run" /\ probe'[w] = 0 /\ pc[w] = "take"
      BY <2>1 DEF Take, TypeOK
    <3> QED
      BY <2>1, <3>1, <3>2, <3>3 DEF Take
  <2>2. CASE TakeEmpty(w) \/ Idle(w) \/ RunJob(w) \/ SendCompletion(w)
             \/ SpuriousWake(w)
    <3>1. UNCHANGED <<queues, shutdown, wakeLock>>
      BY <2>2 DEF TakeEmpty, Idle, RunJob, SendCompletion, SpuriousWake
    <3>2. \A v \in Workers : v # w => pc'[v] = pc[v] /\ probe'[v] = probe[v]
      BY <2>2 DEF TakeEmpty, Idle, RunJob, SendCompletion, SpuriousWake, TypeOK
    <3>3. /\ pc[w] \notin {"test", "pending"}
          /\ pc'[w] \notin {"test", "pending", "waiting"}
      BY <2>2 DEF TakeEmpty, Idle, RunJob, SendCompletion, SendErrorTarget,
                  SpuriousWake, TypeOK
    <3>4. pc'[w] # "take" => probe'[w] = 0
      BY <2>2 DEF TakeEmpty, Idle, RunJob, SendCompletion, SpuriousWake, TypeOK
    <3> QED
      BY <3>1, <3>2, <3>3, <3>4
  <2>3. CASE LockWake(w)
    <3>1. \A v \in Workers : v # w => pc'[v] = pc[v]
      BY <2>3 DEF LockWake, TypeOK
    <3>2. pc[w] = "lock" /\ pc'[w] = "test"
      BY <2>3 DEF LockWake, TypeOK
    <3>3. wakeLock = Free /\ wakeLock' = w
          /\ UNCHANGED <<queues, shutdown, probe>>
      BY <2>3 DEF LockWake
    <3> QED
      BY <3>1, <3>2, <3>3, WorkerIndex
  <2>4. CASE TestShutdown(w)
    <3>1. \A v \in Workers : v # w => pc'[v] = pc[v]
      BY <2>4 DEF TestShutdown, TypeOK
    <3>2. /\ UNCHANGED <<queues, shutdown, probe>>
          /\ pc[w] = "test" /\ wakeLock = w /\ probe[w] = 0
          /\ \/ shutdown /\ pc'[w] = "take" /\ wakeLock' = Free
             \/ ~shutdown /\ pc'[w] = "pending" /\ wakeLock' = w
      BY <2>4 DEF TestShutdown, TypeOK
    <3>3. \A i \in Workers : ~(i < 0)
      BY WorkerIndex
    <3> QED
      BY <3>1, <3>2, <3>3, WorkerIndex
  <2>5. CASE TestPending(w)
    <3>1. \A v \in Workers : v # w => pc'[v] = pc[v] /\ probe'[v] = probe[v]
      BY <2>5 DEF TestPending, TypeOK
    <3>2. UNCHANGED <<queues, shutdown>> /\ wakeLock = w /\ ~shutdown
      BY <2>5 DEF TestPending
    <3>3. probe[w] \in Workers
      BY DEF TypeOK
    <3>4. CASE queues[probe[w]] # << >>
      <4>1. pc'[w] = "take" /\ wakeLock' = Free
        BY <2>5, <3>4 DEF TestPending, TypeOK
      <4>2. \A v \in Workers : pc'[v] # "pending" /\ pc'[v] # "test"
        BY <3>1, <3>2, <4>1
      <4>3. \A v \in Workers : pc'[v] = "waiting" => pc[v] = "waiting"
        BY <3>1, <4>1
      <4> QED
        BY <3>1, <3>2, <4>1, <4>2, <4>3, WorkerIndex
    <3>5. CASE queues[probe[w]] = << >> /\ probe[w] = N - 1
      <4>1. pc'[w] = "waiting" /\ wakeLock' = Free /\ probe'[w] = 0
        BY <2>5, <3>5 DEF TestPending, TypeOK
      <4>2. \A i \in Workers : i < probe[w] \/ i = probe[w]
        BY <3>5, NAssumption DEF Workers
      <4>3. \A i \in Workers : queues[i] = << >>
        BY <2>5, <3>5, <4>2 DEF TestPending
      <4>4. \A v \in Workers : pc'[v] # "pending" /\ pc'[v] # "test"
        BY <3>1, <3>2, <4>1
      <4> QED
        BY <3>1, <3>2, <4>1, <4>3, <4>4, WorkerIndex
    <3>6. CASE queues[probe[w]] = << >> /\ probe[w] # N - 1
      <4>1. pc' = pc /\ wakeLock' = wakeLock /\ probe'[w] = probe[w] + 1
        BY <2>5, <3>6 DEF TestPending, TypeOK
      <4>2. \A i \in Workers : i < probe[w] + 1 => i < probe[w] \/ i = probe[w]
        BY <3>3, NAssumption DEF Workers
      <4>3. \A i \in Workers : i < probe'[w] => queues[i] = << >>
        BY <2>5, <3>6, <4>1, <4>2 DEF TestPending
      <4>4. pc[w] = "pending"
        BY <2>5 DEF TestPending
      <4> QED
        BY <3>1, <3>2, <4>1, <4>3, <4>4
    <3> QED
      BY <3>4, <3>5, <3>6
  <2> QED
    BY <1>5, <2>1, <2>2, <2>3, <2>4, <2>5 DEF Worker
<1>6. CASE UNCHANGED vars
  BY <1>6 DEF vars
<1> QED
  BY <1>0, <1>1, <1>2, <1>3, <1>4, <1>5, <1>6 DEF Next, Coordinator, Returned

\* Layer 1 holds in every state.
LEMMA WakeInvariant == Spec => []WakeInv
<1>1. Init => WakeInv
  BY WorkerIndex DEF Init, WakeInv, WakeLockOwner, ProbeReset, ScannedEmpty,
                     NoLostWakeup
<1> QED
  BY <1>1, WakeStep, TypeCorrect, SpawnedInvariant, PTL DEF Spec

\* No lost wake-up between take, has_pending, Condvar::wait and the
\* notifications of enqueue and request_shutdown.
THEOREM WakeCorrect == Spec => []NoLostWakeup
<1>1. WakeInv => NoLostWakeup
  BY DEF WakeInv
<1> QED
  BY <1>1, WakeInvariant, PTL

-----------------------------------------------------------------------------
(* Layer 2: the owner of every job.                                        *)

\* A worker takes a job from a queue: where the job was, and that the other
\* slots of the queue keep their jobs (pop_back and pop_front).
LEMMA TakeFacts ==
  ASSUME TypeOK, NEW w \in Workers, Take(w)
  PROVE  \E u \in Workers, k \in Nat, t \in Tasks :
           /\ k \in 1 .. Len(queues[u])
           /\ queues[u][k] = t
           /\ held' = [held EXCEPT ![w] = t]
           /\ starts' = [starts EXCEPT ![t] = @ + 1]
           /\ \A v \in Workers : v # u => queues'[v] = queues[v]
           /\ \/ /\ k = Len(queues[u]) /\ Len(queues'[u]) = Len(queues[u]) - 1
                 /\ \A i \in 1 .. Len(queues'[u]) : queues'[u][i] = queues[u][i]
              \/ /\ k = 1 /\ Len(queues'[u]) = Len(queues[u]) - 1
                 /\ \A i \in 1 .. Len(queues'[u]) : queues'[u][i] = queues[u][i + 1]
<1> DEFINE u == Victim(w)
           q == queues[u]
<1>1. u \in Workers
  <2>1. probe[w] \in Workers
    BY DEF TypeOK
  <2> QED
    BY <2>1, WorkerIndex DEF Victim
<1>2. q \in Seq(Tasks) /\ q # << >>
  BY <1>1 DEF Take, TypeOK
<1>3. /\ queues' = [queues EXCEPT ![u] = Rest(w, q)]
      /\ held' = [held EXCEPT ![w] = Popped(w, q)]
      /\ starts' = [starts EXCEPT ![Popped(w, q)] = @ + 1]
  BY DEF Take
<1>4. /\ queues'[u] = Rest(w, q)
      /\ \A v \in Workers : v # u => queues'[v] = queues[v]
  BY <1>1, <1>3 DEF TypeOK
<1> HIDE DEF u
<1>5. CASE probe[w] = 0
  <2>1. Popped(w, q) = q[Len(q)] /\ Rest(w, q) = SubSeq(q, 1, Len(q) - 1)
    BY <1>5 DEF Popped, Rest
  <2>2. Len(q) \in Nat /\ Len(q) \in 1 .. Len(q) /\ q[Len(q)] \in Tasks
    BY <1>2
  <2>3. /\ Len(Rest(w, q)) = Len(q) - 1
        /\ \A i \in 1 .. Len(Rest(w, q)) : Rest(w, q)[i] = q[i]
    BY <1>2, <2>1
  <2> u \in Workers /\ Len(q) \in Nat /\ q[Len(q)] \in Tasks
    BY <1>1, <2>2
  <2> WITNESS u \in Workers, Len(q) \in Nat, q[Len(q)] \in Tasks
  <2> QED
    BY <1>3, <1>4, <2>1, <2>2, <2>3
<1>6. CASE probe[w] # 0
  <2>1. Popped(w, q) = q[1] /\ Rest(w, q) = Tail(q)
    BY <1>2, <1>6 DEF Popped, Rest
  <2>2. 1 \in 1 .. Len(q) /\ q[1] \in Tasks
    BY <1>2
  <2>3. /\ Len(Rest(w, q)) = Len(q) - 1
        /\ \A i \in 1 .. Len(Rest(w, q)) : Rest(w, q)[i] = q[i + 1]
    BY <1>2, <2>1
  <2> u \in Workers /\ 1 \in Nat /\ q[1] \in Tasks
    BY <1>1, <2>2
  <2> WITNESS u \in Workers, 1 \in Nat, q[1] \in Tasks
  <2> QED
    BY <1>3, <1>4, <2>1, <2>2, <2>3
<1> QED
  BY <1>5, <1>6

\* A job is queued in one slot of one deque.
LEMMA SlotUnique ==
  ASSUME QueuedOnce, NEW v \in Workers, NEW w \in Workers,
         NEW i \in 1 .. Len(queues[v]), NEW j \in 1 .. Len(queues[w]),
         queues[v][i] = queues[w][j]
  PROVE  v = w /\ i = j
BY DEF QueuedOnce

LEMMA JobStep ==
  Spawned /\ TypeOK /\ HoldsJob /\ JobInv /\ [Next]_vars => JobInv'
<1> SUFFICES ASSUME Spawned, TypeOK, HoldsJob, JobInv, [Next]_vars PROVE JobInv'
  OBVIOUS
<1> USE DEF coordVars, sharedVars, workerVars, history, Goto
<1> USE DEF JobInv
<1>0. CASE Validate
  <2>1. /\ \A w \in Workers : pc[w] = "unspawned" /\ pc'[w] # "run"
        /\ UNCHANGED <<batch, submitted, completed, queues, channel, held,
                       result, starts, ended>>
    BY <1>0 DEF Validate, Spawned
  <2>2. HeldStarted'
    BY <2>1 DEF HeldStarted
  <2> QED
    BY <2>1, <2>2 DEF Unsubmitted, QueuedFresh, QueuedOnce, HeldOnce,
       Reported, CompletedOk, BatchReady, SubmittedReady, AtMostOnce
<1>1. CASE Scan
  <2>1. BatchReady'
    BY <1>1 DEF Scan, BatchReady, ReadyTasks, Dependencies
  <2> QED
    BY <1>1, <2>1 DEF Scan, Unsubmitted, QueuedFresh, QueuedOnce, HeldOnce,
         HeldStarted, Reported, CompletedOk, SubmittedReady, AtMostOnce
<1>2. CASE Enqueue
  <2> DEFINE t == First(batch)
  <2>1. t \in batch /\ t \in Tasks
    BY <1>2, FirstMember DEF Enqueue, TypeOK
  <2>2. /\ queues' = [queues EXCEPT ![nextWorker] = Append(queues[nextWorker], t)]
        /\ batch' = batch \ {t} /\ submitted' = submitted \cup {t}
        /\ UNCHANGED <<completed, channel, held, result, starts, ended>>
    BY <1>2 DEF Enqueue
  <2>3. \A w \in Workers : (pc'[w] = "run") <=> (pc[w] = "run")
    BY <1>2 DEF Enqueue, NotifyAll
  <2> HIDE DEF t
  <2>4. t \notin submitted /\ starts[t] = 0 /\ ended[t] = "no"
        /\ Dependencies(t) \subseteq completed
    BY <2>1 DEF BatchReady, Unsubmitted
  <2>5. \A v \in Workers : \A i \in 1 .. Len(queues'[v]) :
          \/ i \in 1 .. Len(queues[v]) /\ queues'[v][i] = queues[v][i]
          \/ v = nextWorker /\ i = Len(queues[v]) + 1 /\ queues'[v][i] = t
    <3>1. /\ nextWorker \in Workers /\ queues \in [Workers -> Seq(Tasks)]
      BY DEF TypeOK
    <3>2. \A v \in Workers : v # nextWorker => queues'[v] = queues[v]
      BY <2>2, <3>1
    <3>3. queues'[nextWorker] = Append(queues[nextWorker], t)
      BY <2>2, <3>1
    <3> QED
      BY <2>1, <3>1, <3>2, <3>3
  <2>6. Unsubmitted' /\ SubmittedReady' /\ BatchReady' /\ AtMostOnce'
    BY <2>2, <2>4 DEF Unsubmitted, SubmittedReady, BatchReady, AtMostOnce
  <2>7. QueuedFresh'
    BY <2>2, <2>4, <2>5 DEF QueuedFresh
  <2>8. QueuedOnce'
    <3> SUFFICES ASSUME NEW v1 \in Workers, NEW v2 \in Workers,
                        NEW i1 \in 1 .. Len(queues'[v1]),
                        NEW i2 \in 1 .. Len(queues'[v2]),
                        queues'[v1][i1] = queues'[v2][i2]
                 PROVE  v1 = v2 /\ i1 = i2
      BY DEF QueuedOnce
    <3>1. \A v \in Workers : \A i \in 1 .. Len(queues[v]) : queues[v][i] # t
      BY <2>4 DEF QueuedFresh
    <3>2. CASE queues'[v1][i1] = t
      <4>1. /\ v1 = nextWorker /\ i1 = Len(queues[v1]) + 1
            /\ v2 = nextWorker /\ i2 = Len(queues[v2]) + 1
        BY <2>5, <3>1, <3>2, Zenon
      <4> QED
        BY <4>1
    <3>3. CASE queues'[v1][i1] # t
      <4>1. /\ i1 \in 1 .. Len(queues[v1]) /\ queues'[v1][i1] = queues[v1][i1]
            /\ i2 \in 1 .. Len(queues[v2]) /\ queues'[v2][i2] = queues[v2][i2]
        BY <2>5, <3>3
      <4>2. queues[v1][i1] = queues[v2][i2]
        BY <4>1
      <4>3. QueuedOnce
        OBVIOUS
      <4> HIDE DEF JobInv
      <4> QED
        BY <4>1, <4>2, <4>3, SlotUnique
    <3> QED
      BY <3>2, <3>3
  <2>9. HeldOnce' /\ HeldStarted' /\ Reported' /\ CompletedOk'
    BY <2>2, <2>3 DEF HeldOnce, HeldStarted, Reported, CompletedOk
  <2> QED
    BY <2>6, <2>7, <2>8, <2>9
<1>3. CASE CheckDone
  BY <1>3 DEF CheckDone, Unsubmitted, QueuedFresh, QueuedOnce, HeldOnce,
       HeldStarted, Reported, CompletedOk, BatchReady, SubmittedReady, AtMostOnce
<1>4. CASE Receive
  <2>1. UNCHANGED <<batch, submitted, queues, pc, held, result, starts, ended>>
    BY <1>4 DEF Receive
  <2>2. completed \subseteq completed'
    BY <1>4 DEF Receive
  <2>3. Unsubmitted' /\ QueuedFresh' /\ QueuedOnce' /\ HeldOnce' /\ HeldStarted'
        /\ AtMostOnce'
    BY <2>1 DEF Unsubmitted, QueuedFresh, QueuedOnce, HeldOnce, HeldStarted,
         AtMostOnce
  <2>4. BatchReady' /\ SubmittedReady'
    BY <2>1, <2>2 DEF BatchReady, SubmittedReady
  <2>5. CASE channel = << >>
    BY <1>4, <2>1, <2>3, <2>4, <2>5 DEF Receive, Reported, CompletedOk
  <2>6. CASE channel # << >>
    <3>1. channel \in Seq(Completions)
      BY DEF TypeOK
    <3>2. channel' = Tail(channel)
      BY <1>4, <2>6 DEF Receive
    <3>3. \A i \in 1 .. Len(channel') :
             i + 1 \in 1 .. Len(channel) /\ channel'[i] = channel[i + 1]
      BY <2>6, <3>1, <3>2
    <3>4. Reported'
      BY <2>1, <3>3 DEF Reported
    <3>5. /\ Head(channel).task \in submitted
          /\ ended[Head(channel).task] = Head(channel).result
      <4>1. 1 \in 1 .. Len(channel) /\ Head(channel) = channel[1]
        BY <2>6, <3>1
      <4> QED
        BY <4>1 DEF Reported
    <3>6. \/ completed' = completed
          \/ /\ completed' = completed \cup {Head(channel).task}
             /\ Head(channel).result # "Panicked"
      BY <1>4, <2>6 DEF Receive
    <3>7. Head(channel).result \in JobResults
      <4>1. Head(channel) \in Completions
        BY <2>6, <3>1
      <4> QED
        BY <4>1 DEF Completions
    <3>8. CompletedOk'
      BY <2>1, <3>5, <3>6, <3>7 DEF CompletedOk, JobResults
    <3> QED
      BY <2>3, <2>4, <3>4, <3>8
  <2> QED
    BY <2>5, <2>6
<1>5. CASE RequestShutdown
  <2>1. \A w \in Workers : (pc'[w] = "run") <=> (pc[w] = "run")
    BY <1>5 DEF RequestShutdown, NotifyAll
  <2> QED
    BY <1>5, <2>1 DEF RequestShutdown, Unsubmitted, QueuedFresh, QueuedOnce,
       HeldOnce, HeldStarted, Reported, CompletedOk, BatchReady, SubmittedReady,
       AtMostOnce
<1>6. CASE DropReceiver
  <2>1. Reported'
    BY <1>6 DEF DropReceiver, Reported
  <2> QED
    BY <1>6, <2>1 DEF DropReceiver, Unsubmitted, QueuedFresh, QueuedOnce,
       HeldOnce, HeldStarted, CompletedOk, BatchReady, SubmittedReady, AtMostOnce
<1>7. CASE Join
  <2>1. \A w \in Workers : Len(queues'[w]) = 0
    BY <1>7 DEF Join
  <2>2. QueuedFresh' /\ QueuedOnce'
    BY <2>1 DEF QueuedFresh, QueuedOnce
  <2> QED
    BY <1>7, <2>2 DEF Join, Unsubmitted, HeldOnce, HeldStarted, Reported,
       CompletedOk, BatchReady, SubmittedReady, AtMostOnce
<1>8. ASSUME NEW w \in Workers, Take(w) PROVE JobInv'
  <2>1. PICK u \in Workers, k \in Nat, t \in Tasks :
           /\ k \in 1 .. Len(queues[u])
           /\ queues[u][k] = t
           /\ held' = [held EXCEPT ![w] = t]
           /\ starts' = [starts EXCEPT ![t] = @ + 1]
           /\ \A v \in Workers : v # u => queues'[v] = queues[v]
           /\ \/ /\ k = Len(queues[u]) /\ Len(queues'[u]) = Len(queues[u]) - 1
                 /\ \A i \in 1 .. Len(queues'[u]) : queues'[u][i] = queues[u][i]
              \/ /\ k = 1 /\ Len(queues'[u]) = Len(queues[u]) - 1
                 /\ \A i \in 1 .. Len(queues'[u]) : queues'[u][i] = queues[u][i + 1]
    BY <1>8, TakeFacts
  <2>2. UNCHANGED <<batch, submitted, completed, channel, result, ended>>
        /\ pc' = [pc EXCEPT ![w] = "run"]
    BY <1>8 DEF Take
  <2>3. t \in submitted /\ starts[t] = 0 /\ ended[t] = "no"
    BY <2>1 DEF QueuedFresh
  <2>4. starts'[t] = 1 /\ \A s \in Tasks : s # t => starts'[s] = starts[s]
    BY <2>1, <2>3 DEF TypeOK
  <2>5. held'[w] = t /\ \A v \in Workers : v # w => held'[v] = held[v]
    BY <2>1 DEF TypeOK
  <2>6. pc'[w] = "run" /\ \A v \in Workers : v # w => pc'[v] = pc[v]
    BY <2>2 DEF TypeOK
  <2>7. \A v \in Workers : Len(queues[v]) \in Nat
    BY DEF TypeOK
  \* Every job still queued stood in a slot other than the one taken from.
  <2>8. \A v \in Workers : \A i \in 1 .. Len(queues'[v]) :
          \E j \in 1 .. Len(queues[v]) :
             queues'[v][i] = queues[v][j] /\ ~(v = u /\ j = k)
    <3>1. ASSUME NEW i \in 1 .. Len(queues'[u])
          PROVE  \E j \in 1 .. Len(queues[u]) :
                    queues'[u][i] = queues[u][j] /\ j # k
      <4>1. i \in 1 .. Len(queues[u]) /\ i + 1 \in 1 .. Len(queues[u])
            /\ i # Len(queues[u]) /\ i + 1 # 1
        BY <2>1, <2>7, <3>1
      <4> QED
        BY <2>1, <4>1
    <3>2. ASSUME NEW v \in Workers, v # u, NEW i \in 1 .. Len(queues'[v])
          PROVE  \E j \in 1 .. Len(queues[v]) : queues'[v][i] = queues[v][j]
      BY <2>1, <3>2
    <3> QED
      BY <3>1, <3>2
  <2>9. \A v \in Workers : \A i \in 1 .. Len(queues'[v]) :
           /\ queues'[v][i] # t
           /\ queues'[v][i] \in submitted
           /\ queues'[v][i] \in Tasks
           /\ starts[queues'[v][i]] = 0
           /\ ended[queues'[v][i]] = "no"
    <3> TAKE v \in Workers
    <3> TAKE i \in 1 .. Len(queues'[v])
    <3>1. PICK j \in 1 .. Len(queues[v]) :
             queues'[v][i] = queues[v][j] /\ ~(v = u /\ j = k)
      BY <2>8
    <3>2. queues'[v][i] # t
      BY <2>1, <3>1 DEF QueuedOnce
    <3>3. submitted \subseteq Tasks
      BY DEF TypeOK
    <3> QED
      BY <3>1, <3>2, <3>3 DEF QueuedFresh
  <2>10. QueuedFresh'
    BY <2>2, <2>4, <2>9 DEF QueuedFresh
  <2>11. QueuedOnce'
    <3> SUFFICES ASSUME NEW v1 \in Workers, NEW v2 \in Workers,
                        NEW i1 \in 1 .. Len(queues'[v1]),
                        NEW i2 \in 1 .. Len(queues'[v2]),
                        queues'[v1][i1] = queues'[v2][i2]
                 PROVE  v1 = v2 /\ i1 = i2
      BY DEF QueuedOnce
    <3>1. \A v \in Workers, i \in Nat : v # u /\ i \in 1 .. Len(queues'[v]) =>
             i \in 1 .. Len(queues[v]) /\ queues'[v][i] = queues[v][i]
      BY <2>1
    <3>2. \/ \A i \in 1 .. Len(queues'[u]) :
               i \in 1 .. Len(queues[u]) /\ queues'[u][i] = queues[u][i]
          \/ \A i \in 1 .. Len(queues'[u]) :
               i + 1 \in 1 .. Len(queues[u]) /\ queues'[u][i] = queues[u][i + 1]
      BY <2>1, <2>7
    <3>3. i1 \in Nat /\ i2 \in Nat
      <4>1. Len(queues'[v1]) \in Nat /\ Len(queues'[v2]) \in Nat
        BY <2>1, <2>7
      <4> QED
        BY <4>1
    <3>4. CASE v1 = u /\ v2 = u
      <4>1. CASE \A i \in 1 .. Len(queues'[u]) :
               i \in 1 .. Len(queues[u]) /\ queues'[u][i] = queues[u][i]
        BY <3>4, <4>1 DEF QueuedOnce
      <4>2. CASE \A i \in 1 .. Len(queues'[u]) :
               i + 1 \in 1 .. Len(queues[u]) /\ queues'[u][i] = queues[u][i + 1]
        <5>0. /\ i1 + 1 \in 1 .. Len(queues[u]) /\ i2 + 1 \in 1 .. Len(queues[u])
              /\ queues[u][i1 + 1] = queues[u][i2 + 1]
          BY <3>4, <4>2, Zenon
        <5>1. i1 + 1 = i2 + 1
          BY <5>0, SlotUnique
        <5> QED
          BY <3>3, <3>4, <5>1
      <4> QED
        BY <3>2, <4>1, <4>2
    <3>5. CASE v1 # u /\ v2 # u
      BY <3>1, <3>3, <3>5 DEF QueuedOnce
    <3>6. CASE v1 = u /\ v2 # u
      <4>1. PICK j \in 1 .. Len(queues[u]) : queues'[v1][i1] = queues[u][j]
        BY <2>8, <3>6
      <4>2. i2 \in 1 .. Len(queues[v2]) /\ queues'[v2][i2] = queues[v2][i2]
        BY <3>1, <3>3, <3>6
      <4> QED
        BY <3>6, <4>1, <4>2 DEF QueuedOnce
    <3>7. CASE v1 # u /\ v2 = u
      <4>1. PICK j \in 1 .. Len(queues[u]) : queues'[v2][i2] = queues[u][j]
        BY <2>8, <3>7
      <4>2. i1 \in 1 .. Len(queues[v1]) /\ queues'[v1][i1] = queues[v1][i1]
        BY <3>1, <3>3, <3>7
      <4> QED
        BY <3>7, <4>1, <4>2 DEF QueuedOnce
    <3> QED
      BY <3>4, <3>5, <3>6, <3>7
  <2>12. \A v \in Workers : held[v] # t
    BY <2>3, TasksAssumption DEF HeldStarted, NoTask
  <2>13. HeldOnce'
    BY <2>5, <2>12 DEF HeldOnce
  <2>14. HeldStarted'
    <3> SUFFICES ASSUME NEW v \in Workers, held'[v] # NoTask
                 PROVE  /\ held'[v] \in submitted'
                        /\ starts'[held'[v]] = 1
                        /\ ended'[held'[v]] = IF pc'[v] = "run" THEN "no" ELSE result'[v]
      BY DEF HeldStarted
    <3>1. CASE v = w
      BY <2>2, <2>3, <2>4, <2>5, <2>6, <3>1
    <3>2. CASE v # w
      <4>1. held[v] \in Tasks /\ held[v] # t
        BY <2>5, <2>12, <3>2 DEF TypeOK
      <4> QED
        BY <2>2, <2>4, <2>5, <2>6, <3>2, <4>1 DEF HeldStarted
    <3> QED
      BY <3>1, <3>2
  <2>15. Unsubmitted' /\ AtMostOnce'
    BY <2>2, <2>3, <2>4 DEF Unsubmitted, AtMostOnce
  <2>16. Reported' /\ CompletedOk' /\ BatchReady' /\ SubmittedReady'
    BY <2>2 DEF Reported, CompletedOk, BatchReady, SubmittedReady
  <2> QED
    BY <2>10, <2>11, <2>13, <2>14, <2>15, <2>16
<1>9. ASSUME NEW w \in Workers,
             \/ TakeEmpty(w) \/ Idle(w) \/ LockWake(w) \/ TestShutdown(w)
             \/ TestPending(w) \/ SpuriousWake(w)
      PROVE JobInv'
  <2>1. UNCHANGED <<batch, submitted, completed, queues, channel, held, result,
                    starts, ended>>
    BY <1>9 DEF TakeEmpty, Idle, LockWake, TestShutdown, TestPending, SpuriousWake
  <2>2. \A v \in Workers : (pc'[v] = "run") <=> (pc[v] = "run")
    BY <1>9 DEF TakeEmpty, Idle, LockWake, TestShutdown, TestPending,
                SpuriousWake, TypeOK
  <2> QED
    BY <2>1, <2>2 DEF Unsubmitted, QueuedFresh, QueuedOnce, HeldOnce,
       HeldStarted, Reported, CompletedOk, BatchReady, SubmittedReady, AtMostOnce
<1>10. ASSUME NEW w \in Workers, RunJob(w) PROVE JobInv'
  <2>1. PICK r \in JobResults :
          result' = [result EXCEPT ![w] = r] /\ ended' = [ended EXCEPT ![held[w]] = r]
    BY <1>10 DEF RunJob
  <2>2. UNCHANGED <<batch, submitted, completed, queues, channel, held, starts>>
    BY <1>10 DEF RunJob
  <2>3. /\ held[w] # NoTask /\ held[w] \in Tasks /\ ended[held[w]] = "no"
        /\ held[w] \in submitted /\ starts[held[w]] = 1
    BY <1>10 DEF RunJob, HoldsJob, HeldStarted, TypeOK
  <2>4. /\ pc'[w] = "send" /\ result'[w] = r
        /\ \A v \in Workers : v # w => pc'[v] = pc[v] /\ result'[v] = result[v]
    BY <1>10, <2>1 DEF RunJob, TypeOK
  <2>5. /\ ended'[held[w]] = r
        /\ \A t \in Tasks : t # held[w] => ended'[t] = ended[t]
    BY <2>1, <2>3 DEF TypeOK
  <2>6. QueuedFresh'
    <3>1. \A v \in Workers : \A i \in 1 .. Len(queues[v]) :
             queues[v][i] # held[w] /\ queues[v][i] \in Tasks
      BY <2>3 DEF QueuedFresh, TypeOK
    <3> QED
      BY <2>2, <2>5, <3>1 DEF QueuedFresh
  <2>7. HeldStarted'
    <3> SUFFICES ASSUME NEW v \in Workers, held[v] # NoTask
                 PROVE  /\ held[v] \in submitted
                        /\ starts[held[v]] = 1
                        /\ ended'[held[v]] = IF pc'[v] = "run" THEN "no" ELSE result'[v]
      BY <2>2 DEF HeldStarted
    <3>1. CASE v = w
      BY <2>3, <2>4, <2>5, <3>1
    <3>2. CASE v # w
      <4>1. held[v] \in Tasks /\ held[v] # held[w]
        BY <2>3, <3>2 DEF HeldOnce, TypeOK
      <4> QED
        BY <2>4, <2>5, <3>2, <4>1 DEF HeldStarted
    <3> QED
      BY <3>1, <3>2
  <2>8. Reported'
    <3>1. \A i \in 1 .. Len(channel) :
             channel[i].task \in Tasks /\ channel[i].result \in JobResults
      <4>1. channel \in Seq(Completions)
        BY DEF TypeOK
      <4>2. \A i \in 1 .. Len(channel) : channel[i] \in Completions
        BY <4>1
      <4> QED
        BY <4>2 DEF Completions
    <3>2. \A i \in 1 .. Len(channel) : channel[i].task # held[w]
      BY <2>3, <3>1 DEF Reported, JobResults
    <3> QED
      BY <2>2, <2>5, <3>1, <3>2 DEF Reported
  <2>9. CompletedOk'
    BY <2>2, <2>3, <2>5 DEF CompletedOk, TypeOK
  <2>10. Unsubmitted'
    BY <2>2, <2>3, <2>5 DEF Unsubmitted
  <2>11. QueuedOnce' /\ HeldOnce' /\ BatchReady' /\ SubmittedReady' /\ AtMostOnce'
    BY <2>2 DEF QueuedOnce, HeldOnce, BatchReady, SubmittedReady, AtMostOnce
  <2> QED
    BY <2>6, <2>7, <2>8, <2>9, <2>10, <2>11
<1>11. ASSUME NEW w \in Workers, SendCompletion(w) PROVE JobInv'
  <2>1. UNCHANGED <<batch, submitted, completed, queues, starts, ended>>
    BY <1>11 DEF SendCompletion
  <2>2. /\ held'[w] = NoTask
        /\ \A v \in Workers : v # w =>
              pc'[v] = pc[v] /\ result'[v] = result[v] /\ held'[v] = held[v]
    BY <1>11 DEF SendCompletion, TypeOK
  <2>3. HeldOnce' /\ HeldStarted'
    BY <2>1, <2>2 DEF HeldOnce, HeldStarted
  <2>4. Reported'
    <3>1. channel \in Seq(Completions)
      BY DEF TypeOK
    <3>2. held[w] \in submitted /\ ended[held[w]] = result[w]
      BY <1>11 DEF SendCompletion, HoldsJob, HeldStarted
    <3>3. channel' \in { channel,
                         Append(channel, [task |-> held[w], result |-> result[w]]) }
      BY <1>11 DEF SendCompletion
    <3>4. \A i \in 1 .. Len(channel') :
             \/ i \in 1 .. Len(channel) /\ channel'[i] = channel[i]
             \/ channel'[i] = [task |-> held[w], result |-> result[w]]
      BY <3>1, <3>3
    <3> QED
      BY <2>1, <3>2, <3>4 DEF Reported
  <2>5. Unsubmitted' /\ QueuedFresh' /\ QueuedOnce' /\ CompletedOk'
        /\ BatchReady' /\ SubmittedReady' /\ AtMostOnce'
    BY <2>1 DEF Unsubmitted, QueuedFresh, QueuedOnce, CompletedOk, BatchReady,
                SubmittedReady, AtMostOnce
  <2> QED
    BY <2>3, <2>4, <2>5
<1>12. CASE UNCHANGED vars
  BY <1>12 DEF vars, Unsubmitted, QueuedFresh, QueuedOnce, HeldOnce,
       HeldStarted, Reported, CompletedOk, BatchReady, SubmittedReady, AtMostOnce
<1> QED
  BY <1>0, <1>1, <1>2, <1>3, <1>4, <1>5, <1>6, <1>7, <1>8, <1>9, <1>10, <1>11,
     <1>12
     DEF Next, Coordinator, Worker, Returned

\* Layer 2 holds in every state.
LEMMA JobInvariant == Spec => []JobInv
<1>1. Init => JobInv
  BY DEF Init, JobInv, Unsubmitted, QueuedFresh, QueuedOnce, HeldOnce,
       HeldStarted, Reported, CompletedOk, BatchReady, SubmittedReady, AtMostOnce
<1> QED
  BY <1>1, JobStep, TypeCorrect, SpawnedInvariant, PTL DEF Spec

\* No closure is entered twice, whichever worker takes or steals the job.
THEOREM ExactlyOnce == Spec => []AtMostOnce
<1>1. JobInv => AtMostOnce
  BY DEF JobInv
<1> QED
  BY <1>1, JobInvariant, PTL

\* A worker's step is none of the coordinator's state and neither requests
\* shutdown nor drops the receiver.
LEMMA WorkerFrame ==
  ASSUME NEW w \in Workers, Worker(w) \/ SpuriousWake(w)
  PROVE  UNCHANGED <<phase, jobs, batch, submitted, completed, running,
                     completedOrder, outcome, shutdown, receiverAlive>>
BY DEF Worker, Take, TakeEmpty, Idle, LockWake, TestShutdown, TestPending,
       RunJob, SendCompletion, SpuriousWake, coordVars, sharedVars

\* The map of jobs holds what was not handed out yet.
LEMMA JobsLeftInvariant == Spec => []JobsLeft
<1>1. Init => JobsLeft
  BY DEF Init, JobsLeft
<1>2. JobsLeft /\ [Next]_vars => JobsLeft'
  <2> SUFFICES ASSUME JobsLeft, [Next]_vars PROVE JobsLeft'
    OBVIOUS
  <2> USE DEF coordVars, sharedVars, workerVars, history, JobsLeft
  <2>1. CASE Validate
    BY <2>1 DEF Validate, JobsMatch
  <2>2. CASE Enqueue
    BY <2>2 DEF Enqueue
  <2>3. CASE Scan \/ CheckDone \/ Receive \/ RequestShutdown \/ DropReceiver
             \/ Join
    BY <2>3 DEF Scan, CheckDone, Receive, RequestShutdown, DropReceiver, Join
  <2>4. ASSUME NEW w \in Workers, Worker(w) \/ SpuriousWake(w) PROVE JobsLeft'
    BY <2>4, WorkerFrame
  <2>5. CASE UNCHANGED vars
    BY <2>5 DEF vars
  <2> QED
    BY <2>1, <2>2, <2>3, <2>4, <2>5 DEF Next, Coordinator, Returned
<1> QED
  BY <1>1, <1>2, PTL DEF Spec

\* The expect of jobs.remove never fires: a task that is about to be handed
\* out still has its job in the map.
THEOREM JobAvailable == Spec => []JobAlwaysThere
<1>1. TypeOK /\ JobInv /\ JobsLeft => JobAlwaysThere
  BY DEF TypeOK, JobInv, BatchReady, JobsLeft, JobAlwaysThere
<1> QED
  BY <1>1, TypeCorrect, JobInvariant, JobsLeftInvariant, PTL

\* A closure runs only after the closures of its dependencies returned.
THEOREM DependenciesFirst == Spec => []DependencyOrder
<1>1. TypeOK /\ HoldsJob /\ JobInv => DependencyOrder
  BY DEF HoldsJob, JobInv, DependencyOrder, HeldStarted, SubmittedReady,
         CompletedOk, Dependencies
<1> QED
  BY <1>1, JobInvariant, TypeCorrect, PTL

\* Tasks whose declared accesses conflict never run at the same time.
THEOREM NoConflictingOverlap == Spec => []ConflictsExclusive
<1>1. TypeOK /\ HoldsJob /\ JobInv /\ DependencyOrder => ConflictsExclusive
  <2> SUFFICES ASSUME TypeOK, HoldsJob, JobInv, DependencyOrder,
                      NEW v \in Workers, NEW w \in Workers,
                      v # w, pc[v] = "run", pc[w] = "run",
                      MustExclude(Accesses[held[v]], Accesses[held[w]])
               PROVE  FALSE
    BY DEF ConflictsExclusive
  <2> DEFINE a == held[v]
             b == held[w]
  <2>1. /\ a \in Tasks /\ b \in Tasks /\ a # b
        /\ ended[a] = "no" /\ ended[b] = "no"
    BY DEF HoldsJob, JobInv, HeldStarted, HeldOnce, TypeOK
  <2>2. /\ AccessesConflict(Accesses[a], Accesses[b])
        /\ AccessesConflict(Accesses[b], Accesses[a])
    BY DEF MustExclude, AccessesConflict, Conflicts
  <2>3. a < b \/ b < a
    <3>1. \A x, y \in Tasks : x = y \/ x < y \/ y < x
      BY TasksAssumption
    <3> QED
      BY <2>1, <3>1
  <2>4. CASE a < b
    <3>1. <<a, b>> \in Edges
      BY <2>1, <2>2, <2>4 DEF Edges, GraphEdges, ConflictEdges
    <3>2. a \in DependenciesOf(Tasks, Edges, b)
      BY <2>1, <3>1 DEF DependenciesOf
    <3> QED
      BY <2>1, <3>2 DEF DependencyOrder
  <2>5. CASE b < a
    <3>1. <<b, a>> \in Edges
      BY <2>1, <2>2, <2>5 DEF Edges, GraphEdges, ConflictEdges
    <3>2. b \in DependenciesOf(Tasks, Edges, a)
      BY <2>1, <3>1 DEF DependenciesOf
    <3> QED
      BY <2>1, <3>2 DEF DependencyOrder
  <2> QED
    BY <2>3, <2>4, <2>5
<1> QED
  BY <1>1, JobInvariant, TypeCorrect, DependenciesFirst, PTL

-----------------------------------------------------------------------------
(* Layer 3: what the coordinator may conclude.                             *)

\* The phases of shutdown and the flags the workers read go together.
LEMMA ShutdownPhasesStep ==
  ASSUME Spawned, TypeOK, HoldsJob, ShutdownPhases, [Next]_vars
  PROVE  ShutdownPhases'
<1> USE DEF coordVars, sharedVars, workerVars, history, ShutdownPhases
<1>1. CASE Validate
  <2>1. /\ ~shutdown /\ receiverAlive /\ UNCHANGED <<shutdown, receiverAlive>>
        /\ phase' \in {"scan", "refused"}
        /\ \A v \in Workers : pc'[v] # "exited"
    BY <1>1 DEF Validate, Spawned
  <2> QED
    BY <2>1
<1>2. CASE Scan \/ CheckDone \/ Receive \/ DropReceiver \/ Join
  BY <1>2 DEF Scan, CheckDone, Receive, DropReceiver, Join
<1>3. CASE Enqueue \/ RequestShutdown
  <2>1. \A v \in Workers : pc'[v] = "exited" <=> pc[v] = "exited"
    BY <1>3 DEF Enqueue, RequestShutdown, NotifyAll
  <2> QED
    BY <1>3, <2>1 DEF Enqueue, RequestShutdown
<1>4. ASSUME NEW w \in Workers, Worker(w) \/ SpuriousWake(w)
      PROVE  ShutdownPhases'
  <2>1. /\ pc[w] # "exited"
        /\ \A v \in Workers : v # w => pc'[v] = pc[v]
    BY <1>4 DEF Worker, Take, TakeEmpty, Idle, LockWake, TestShutdown,
                TestPending, RunJob, SendCompletion, SpuriousWake, Goto, TypeOK
  <2>2. pc'[w] = "exited" => shutdown
    BY <1>4 DEF Worker, Take, TakeEmpty, Idle, LockWake, TestShutdown,
                TestPending, RunJob, SendCompletion, SpuriousWake, Goto, TypeOK
  <2> QED
    BY <1>4, <2>1, <2>2, WorkerFrame
<1>5. CASE UNCHANGED vars
  BY <1>5 DEF vars
<1> QED
  BY <1>1, <1>2, <1>3, <1>4, <1>5 DEF Next, Coordinator, Returned

\* While a batch is handed out nothing that is ready is forgotten.
LEMMA DispatchCompleteStep ==
  ASSUME JobsLeft, DispatchComplete, [Next]_vars
  PROVE  DispatchComplete'
<1> USE DEF coordVars, sharedVars, workerVars, history, DispatchComplete
<1>1. CASE Validate
  BY <1>1 DEF Validate, JobsLeft
<1>2. CASE Scan
  BY <1>2 DEF Scan, ReadyTasks
<1>3. CASE Enqueue
  BY <1>3 DEF Enqueue
<1>4. CASE CheckDone \/ Receive \/ RequestShutdown \/ DropReceiver \/ Join
  BY <1>4 DEF CheckDone, Receive, RequestShutdown, DropReceiver, Join
<1>5. ASSUME NEW w \in Workers, Worker(w) \/ SpuriousWake(w)
      PROVE  DispatchComplete'
  BY <1>5, WorkerFrame
<1>6. CASE UNCHANGED vars
  BY <1>6 DEF vars
<1> QED
  BY <1>1, <1>2, <1>3, <1>4, <1>5, <1>6 DEF Next, Coordinator, Returned

\* In a finite graph without cycles some task is ready unless all are done:
\* one of least rank among those that are not.
LEMMA SomeTaskReady ==
  ASSUME NEW done \in SUBSET Tasks, done # Tasks
  PROVE  ReadyTasks(Tasks, Edges, done) # {}
<1>1. PICK rank \in [Tasks -> 0 .. Cardinality(Tasks)] :
             \A e \in Edges : rank[e[1]] < rank[e[2]]
  BY AcyclicAssumption
<1>2. Cardinality(Tasks) \in Nat
  BY TasksAssumption, FS_CardinalityType
<1> DEFINE Ranks == { rank[t] : t \in Tasks \ done }
<1>3. Ranks \subseteq Nat /\ Ranks # {}
  BY <1>1, <1>2
<1>4. \E r \in Ranks : \A s \in Ranks : ~(<<s, r>> \in OpToRel(<, Nat))
  BY <1>3, WFMin, NatLessThanWellFounded, Zenon
<1>5. \E r \in Ranks : \A s \in Ranks : ~(s < r)
  BY <1>3, <1>4, Zenon DEF OpToRel
<1>6. PICK t \in Tasks \ done : \A u \in Tasks \ done : ~(rank[u] < rank[t])
  BY <1>5
<1>7. \A d \in DependenciesOf(Tasks, Edges, t) : d \in Tasks /\ rank[d] < rank[t]
  BY <1>1 DEF DependenciesOf
<1>8. DependenciesOf(Tasks, Edges, t) \subseteq done
  BY <1>6, <1>7
<1> QED
  BY <1>6, <1>8 DEF ReadyTasks

\* submitted \ completed is finite, so counting it is meaningful.
LEMMA OpenFinite ==
  ASSUME TypeOK
  PROVE  IsFiniteSet(submitted \ completed)
<1>1. (submitted \ completed) \in SUBSET Tasks
  BY DEF TypeOK
<1> QED
  BY <1>1, TasksAssumption, FS_Subset

\* The loop of execute never finds nothing running with tasks left over.
LEMMA NeverStuck ==
  ASSUME TypeOK, RunningCount, DispatchComplete,
         phase = "dispatch", batch = {}, completed # Tasks
  PROVE  running # 0
<1> SUFFICES ASSUME running = 0 PROVE FALSE
  OBVIOUS
<1>1. Cardinality(submitted \ completed) = 0
  BY DEF RunningCount
<1>2. submitted \ completed = {}
  BY <1>1, OpenFinite, FS_EmptySet
<1>3. PICK t : t \in ReadyTasks(Tasks, Edges, completed)
  BY SomeTaskReady DEF TypeOK
<1>4. t \in submitted
  BY <1>3 DEF DispatchComplete
<1> QED
  BY <1>2, <1>3, <1>4 DEF ReadyTasks

\* The completion at the head of the channel is of a task of the graph.
LEMMA ChannelTyped ==
  ASSUME TypeOK
  PROVE  /\ channel \in Seq(Completions)
         /\ \A i \in 1 .. Len(channel) :
               channel[i].task \in Tasks /\ channel[i].result \in JobResults
<1>1. channel \in Seq(Completions)
  BY DEF TypeOK
<1>2. \A i \in 1 .. Len(channel) : channel[i] \in Completions
  BY <1>1
<1> QED
  BY <1>1, <1>2 DEF Completions

\* The two ways a received completion is booked: a panicked task ends the
\* loop, any other one is reported.
LEMMA ReceiveFacts ==
  ASSUME TypeOK, Receive, channel # << >>
  PROVE  /\ 1 \in 1 .. Len(channel)
         /\ channel[1].task \in Tasks
         /\ running' = running - 1
         /\ \A i \in 1 .. Len(channel') :
               i + 1 \in 1 .. Len(channel) /\ channel'[i] = channel[i + 1]
         /\ \A i \in 1 .. Len(channel) :
               i = 1 \/ (i - 1 \in 1 .. Len(channel') /\ channel'[i - 1] = channel[i])
         /\ \/ /\ channel[1].result = "Panicked"
               /\ phase' = "shutdown" /\ outcome' = TaskFailed(channel[1].task)
               /\ completed' = completed /\ completedOrder' = completedOrder
            \/ /\ channel[1].result = "Ok"
               /\ phase' = "scan" /\ outcome' = outcome
               /\ completed' = completed \cup {channel[1].task}
               /\ completedOrder' = Append(completedOrder, channel[1].task)
         /\ UNCHANGED <<batch, submitted, queues, shutdown, receiverAlive, pc,
                        held, result, starts, ended, late, jobs>>
<1>1. /\ channel \in Seq(Completions)
      /\ channel[1] = Head(channel)
      /\ 1 \in 1 .. Len(channel)
  BY ChannelTyped
<1>2. channel[1].task \in Tasks /\ channel[1].result \in JobResults
  BY <1>1, ChannelTyped
<1>3. channel' = Tail(channel) /\ running' = running - 1
  BY DEF Receive
<1>4. /\ \A i \in 1 .. Len(channel') :
            i + 1 \in 1 .. Len(channel) /\ channel'[i] = channel[i + 1]
      /\ \A i \in 1 .. Len(channel) :
            i = 1 \/ (i - 1 \in 1 .. Len(channel') /\ channel'[i - 1] = channel[i])
  BY <1>1, <1>3
<1>5. \/ /\ channel[1].result = "Panicked"
         /\ phase' = "shutdown" /\ outcome' = TaskFailed(channel[1].task)
         /\ completed' = completed /\ completedOrder' = completedOrder
      \/ /\ channel[1].result = "Ok"
         /\ phase' = "scan" /\ outcome' = outcome
         /\ completed' = completed \cup {channel[1].task}
         /\ completedOrder' = Append(completedOrder, channel[1].task)
  BY <1>1, <1>2 DEF Receive, JobResults
<1>6. UNCHANGED <<batch, submitted, queues, shutdown, receiverAlive, pc,
                  held, result, starts, ended, late, jobs>>
  BY DEF Receive, workerVars, history
<1> QED
  BY <1>1, <1>2, <1>3, <1>4, <1>5, <1>6

\* recv only fails when every worker is gone, which takes a shutdown.
LEMMA ReceiveFinds ==
  ASSUME ShutdownPhases, Receive
  PROVE  channel # << >>
<1>1. 0 \in Workers
  BY WorkerIndex
<1> QED
  BY <1>1 DEF Receive, ShutdownPhases

\* A worker that reports its job gives it up; the channel grows by it as
\* long as somebody receives.
LEMMA SendFacts ==
  ASSUME TypeOK, NEW w \in Workers, SendCompletion(w)
  PROVE  /\ pc[w] = "send" /\ held'[w] = NoTask
         /\ \A v \in Workers : v # w => held'[v] = held[v] /\ pc'[v] = pc[v]
         /\ pc'[w] = IF receiverAlive THEN "take" ELSE "exited"
         /\ UNCHANGED <<starts, ended, late, queues>>
         /\ IF receiverAlive
            THEN /\ Len(channel') = Len(channel) + 1
                 /\ channel'[Len(channel')] = [task |-> held[w], result |-> result[w]]
                 /\ \A i \in 1 .. Len(channel) :
                      i \in 1 .. Len(channel') /\ channel'[i] = channel[i]
                 /\ \A i \in 1 .. Len(channel') :
                      \/ i \in 1 .. Len(channel) /\ channel'[i] = channel[i]
                      \/ /\ i = Len(channel) + 1
                         /\ channel'[i].task = held[w]
            ELSE channel' = channel
<1>1. channel \in Seq(Completions)
  BY DEF TypeOK
<1>2. /\ pc[w] = "send" /\ held' = [held EXCEPT ![w] = NoTask]
      /\ UNCHANGED <<starts, ended, late, queues>>
  BY DEF SendCompletion, history
<1>3. /\ held'[w] = NoTask
      /\ \A v \in Workers : v # w => held'[v] = held[v] /\ pc'[v] = pc[v]
      /\ pc'[w] = IF receiverAlive THEN "take" ELSE "exited"
  BY DEF SendCompletion, SendErrorTarget, Goto, TypeOK
<1>4. CASE receiverAlive
  <2>1. channel' = Append(channel, [task |-> held[w], result |-> result[w]])
    BY <1>4 DEF SendCompletion
  <2> QED
    BY <1>1, <1>2, <1>3, <1>4, <2>1
<1>5. CASE ~receiverAlive
  <2>1. channel' = channel
    BY <1>5 DEF SendCompletion
  <2> QED
    BY <1>2, <1>3, <1>5, <2>1
<1> QED
  BY <1>4, <1>5

\* The steps of a worker between two jobs touch no job.
Searching(w) == \/ TakeEmpty(w) \/ Idle(w) \/ LockWake(w) \/ TestShutdown(w)
                \/ TestPending(w) \/ SpuriousWake(w)

\* Searching for work changes no job, and ends the worker only on shutdown.
LEMMA SearchFacts ==
  ASSUME TypeOK, NEW w \in Workers, Searching(w)
  PROVE  /\ UNCHANGED <<queues, channel, held, result, starts, ended, late>>
         /\ pc[w] \notin {"run", "send", "exited"}
         /\ pc'[w] \notin {"run", "send"}
         /\ pc'[w] = "exited" => shutdown
         /\ \A v \in Workers : v # w => pc'[v] = pc[v]
BY DEF Searching, TakeEmpty, Idle, LockWake, TestShutdown, TestPending,
       SpuriousWake, Goto, TypeOK, sharedVars, history

\* A worker searches, takes a job, runs it or reports it.
LEMMA WorkerSteps ==
  ASSUME NEW w \in Workers, Worker(w) \/ SpuriousWake(w)
  PROVE  Searching(w) \/ Take(w) \/ RunJob(w) \/ SendCompletion(w)
BY DEF Worker, Searching

\* A worker ends the one job it holds.
LEMMA RunFacts ==
  ASSUME TypeOK, HoldsJob, NEW w \in Workers, RunJob(w)
  PROVE  /\ UNCHANGED <<queues, channel, held, starts, late>>
         /\ pc[w] = "run" /\ pc'[w] = "send"
         /\ \A v \in Workers : v # w => pc'[v] = pc[v]
         /\ held[w] \in Tasks /\ held[w] # NoTask
         /\ \E r \in JobResults : ended' = [ended EXCEPT ![held[w]] = r]
         /\ ended'[held[w]] \in JobResults
         /\ \A t \in Tasks : t # held[w] => ended'[t] = ended[t]
<1>1. /\ pc[w] = "run" /\ pc'[w] = "send"
      /\ \A v \in Workers : v # w => pc'[v] = pc[v]
      /\ UNCHANGED <<queues, channel, held, starts, late>>
  BY DEF RunJob, Goto, TypeOK, sharedVars
<1>2. held[w] \in Tasks /\ held[w] # NoTask
  BY <1>1 DEF HoldsJob, TypeOK
<1>3. PICK r \in JobResults : ended' = [ended EXCEPT ![held[w]] = r]
  BY DEF RunJob
<1>4. /\ ended'[held[w]] = r
      /\ \A t \in Tasks : t # held[w] => ended'[t] = ended[t]
  BY <1>2, <1>3 DEF TypeOK
<1> QED
  BY <1>1, <1>2, <1>3, <1>4

\* The job a worker takes was queued, so nobody entered or reported it.
LEMMA TakeFresh ==
  ASSUME TypeOK, HoldsJob, JobInv, NEW w \in Workers, Take(w)
  PROVE  \E t \in Tasks :
           /\ t \in submitted /\ starts[t] = 0 /\ ended[t] = "no"
           /\ \E u \in Workers : \E k \in 1 .. Len(queues[u]) : queues[u][k] = t
           /\ held[w] = NoTask /\ held'[w] = t /\ t # NoTask
           /\ \A v \in Workers : v # w => held'[v] = held[v] /\ pc'[v] = pc[v]
           /\ pc[w] = "take" /\ pc'[w] = "run"
           /\ starts'[t] = 1
           /\ \A s \in Tasks : s # t => starts'[s] = starts[s]
           /\ UNCHANGED <<channel, ended, receiverAlive>>
           /\ t \notin completed
           /\ \A i \in 1 .. Len(channel) : channel[i].task # t
           /\ \A v \in Workers : held[v] # t
<1>1. PICK u \in Workers, k \in Nat, t \in Tasks :
           /\ k \in 1 .. Len(queues[u])
           /\ queues[u][k] = t
           /\ held' = [held EXCEPT ![w] = t]
           /\ starts' = [starts EXCEPT ![t] = @ + 1]
           /\ \A v \in Workers : v # u => queues'[v] = queues[v]
           /\ \/ /\ k = Len(queues[u]) /\ Len(queues'[u]) = Len(queues[u]) - 1
                 /\ \A i \in 1 .. Len(queues'[u]) : queues'[u][i] = queues[u][i]
              \/ /\ k = 1 /\ Len(queues'[u]) = Len(queues[u]) - 1
                 /\ \A i \in 1 .. Len(queues'[u]) : queues'[u][i] = queues[u][i + 1]
  BY TakeFacts
<1>2. t \in submitted /\ starts[t] = 0 /\ ended[t] = "no"
  BY <1>1 DEF JobInv, QueuedFresh
<1>3. /\ pc[w] = "take" /\ pc'[w] = "run"
      /\ \A v \in Workers : v # w => pc'[v] = pc[v]
      /\ UNCHANGED <<channel, ended, receiverAlive>>
  BY DEF Take, Goto, TypeOK
<1>4. held[w] = NoTask /\ t # NoTask
  BY <1>3, TasksAssumption DEF HoldsJob, NoTask
<1>5. /\ held'[w] = t
      /\ \A v \in Workers : v # w => held'[v] = held[v]
  BY <1>1 DEF TypeOK
<1>6. /\ starts'[t] = 1
      /\ \A s \in Tasks : s # t => starts'[s] = starts[s]
  BY <1>1, <1>2 DEF TypeOK
<1>7. t \notin completed
  BY <1>2 DEF JobInv, CompletedOk
<1>8. \A i \in 1 .. Len(channel) : channel[i].task # t
  BY <1>2, ChannelTyped DEF JobInv, Reported, JobResults
<1>9. \A v \in Workers : held[v] # t
  BY <1>2, <1>4 DEF JobInv, HeldStarted
<1> QED
  BY <1>1, <1>2, <1>3, <1>4, <1>5, <1>6, <1>7, <1>8, <1>9

\* Taking a job removes that one from the queues.
LEMMA TakeOne ==
  ASSUME TypeOK, NEW w \in Workers, Take(w)
  PROVE  \A s \in Tasks : Queued(s) => s = held'[w] \/ Queued(s)'
<1>0. PICK u \in Workers, k \in Nat, t \in Tasks :
           /\ k \in 1 .. Len(queues[u])
           /\ queues[u][k] = t
           /\ held' = [held EXCEPT ![w] = t]
           /\ \A v \in Workers : v # u => queues'[v] = queues[v]
           /\ \/ /\ k = Len(queues[u]) /\ Len(queues'[u]) = Len(queues[u]) - 1
                 /\ \A i \in 1 .. Len(queues'[u]) : queues'[u][i] = queues[u][i]
              \/ /\ k = 1 /\ Len(queues'[u]) = Len(queues[u]) - 1
                 /\ \A i \in 1 .. Len(queues'[u]) : queues'[u][i] = queues[u][i + 1]
  BY TakeFacts
<1>9. held'[w] = t
  BY <1>0 DEF TypeOK
<1> SUFFICES ASSUME NEW s \in Tasks, NEW v \in Workers,
                    NEW i \in 1 .. Len(queues[v]), queues[v][i] = s, s # t
             PROVE  \E x \in Workers : \E j \in 1 .. Len(queues'[x]) :
                      queues'[x][j] = s
  BY <1>9 DEF Queued
<1>1. CASE v # u
  BY <1>0, <1>1
<1>2. CASE v = u
  <2>1. i # k
    BY <1>0, <1>2
  <2>2. Len(queues[u]) \in Nat
    BY DEF TypeOK
  <2>3. CASE k = Len(queues[u]) /\ Len(queues'[u]) = Len(queues[u]) - 1
             /\ \A j \in 1 .. Len(queues'[u]) : queues'[u][j] = queues[u][j]
    <3>1. i \in 1 .. Len(queues'[u])
      BY <1>2, <2>1, <2>2, <2>3
    <3> QED
      BY <1>2, <2>3, <3>1
  <2>4. CASE k = 1 /\ Len(queues'[u]) = Len(queues[u]) - 1
             /\ \A j \in 1 .. Len(queues'[u]) : queues'[u][j] = queues[u][j + 1]
    <3>1. i - 1 \in 1 .. Len(queues'[u])
      BY <1>2, <2>1, <2>2, <2>4
    <3>2. queues'[u][i - 1] = s
      BY <1>2, <2>4, <3>1
    <3> QED
      BY <3>1, <3>2
  <2> QED
    BY <1>0, <2>3, <2>4
<1> QED
  BY <1>1, <1>2

\* The steps of the coordinator that neither hand a job out nor book one.
Deciding == Validate \/ Scan \/ CheckDone \/ RequestShutdown \/ DropReceiver \/ Join

\* Such a step leaves all bookkeeping alone and at most empties the channel.
LEMMA DecideFacts ==
  ASSUME Deciding
  PROVE  /\ UNCHANGED <<submitted, completed, completedOrder, running, held,
                        result, starts, ended, late>>
         /\ channel' = channel \/ channel' = << >>
         /\ receiverAlive' => receiverAlive /\ channel' = channel
         /\ queues' = queues \/ phase = "join"
BY DEF Deciding, Validate, Scan, CheckDone, RequestShutdown, DropReceiver, Join,
       coordVars, sharedVars, workerVars, history

\* Handing a job out moves it from the batch and the map into a deque.
LEMMA EnqueueFacts ==
  ASSUME TypeOK, Enqueue
  PROVE  \E t \in batch :
           /\ t \in Tasks
           /\ submitted' = submitted \cup {t}
           /\ batch' = batch \ {t} /\ jobs' = jobs \ {t}
           /\ running' = running + 1
           /\ phase = "dispatch"
           /\ Queued(t)'
           /\ \A s \in Tasks : Queued(s) => Queued(s)'
           /\ UNCHANGED <<phase, completed, completedOrder, outcome, shutdown,
                          channel, receiverAlive, held, result, starts, ended,
                          late>>
<1>1. PICK t \in batch : t = First(batch) /\ t \in Tasks
  BY FirstMember DEF Enqueue, TypeOK
<1>2. PICK n \in Workers : n = nextWorker /\ queues[n] \in Seq(Tasks)
  BY DEF TypeOK
<1>3. queues' = [queues EXCEPT ![n] = Append(queues[n], t)]
  BY <1>1, <1>2 DEF Enqueue
<1>4. /\ queues'[n] = Append(queues[n], t)
      /\ \A v \in Workers : v # n => queues'[v] = queues[v]
  BY <1>2, <1>3 DEF TypeOK
<1>5. /\ submitted' = submitted \cup {t}
      /\ batch' = batch \ {t} /\ jobs' = jobs \ {t}
      /\ running' = running + 1
      /\ phase = "dispatch"
      /\ UNCHANGED <<phase, completed, completedOrder, outcome, shutdown,
                     channel, receiverAlive, held, result, starts, ended, late>>
  BY <1>1 DEF Enqueue, history
<1>6. /\ Len(queues'[n]) = Len(queues[n]) + 1 /\ Len(queues[n]) \in Nat
      /\ queues'[n][Len(queues[n]) + 1] = t
      /\ \A i \in 1 .. Len(queues[n]) : queues'[n][i] = queues[n][i]
  BY <1>1, <1>2, <1>4
<1>7. Queued(t)'
  BY <1>2, <1>6 DEF Queued
<1>8. \A s \in Tasks : Queued(s) => Queued(s)'
  <2> SUFFICES ASSUME NEW s \in Tasks, NEW v \in Workers,
                      NEW i \in 1 .. Len(queues[v]), queues[v][i] = s
               PROVE  \E x \in Workers : \E j \in 1 .. Len(queues'[x]) :
                        queues'[x][j] = s
    BY DEF Queued
  <2>1. CASE v # n
    BY <1>4, <2>1
  <2>2. CASE v = n
    <3>1. i \in 1 .. Len(queues'[n]) /\ queues'[n][i] = s
      BY <1>6, <2>2
    <3> QED
      BY <1>2, <3>1
  <2> QED
    BY <2>1, <2>2
<1> QED
  BY <1>1, <1>5, <1>7, <1>8

\* Every step is of one of these kinds.
LEMMA NextCases ==
  ASSUME [Next]_vars
  PROVE  \/ Deciding \/ Enqueue \/ Receive
         \/ \E w \in Workers : \/ Searching(w) \/ Take(w) \/ RunJob(w)
                               \/ SendCompletion(w)
         \/ UNCHANGED vars
BY DEF Next, Coordinator, Worker, Returned, Deciding, Searching

\* A completion is under way once: in one hand, one message or the report.
LEMMA ReportedOnceStep ==
  ASSUME TypeOK, HoldsJob, JobInv, ShutdownPhases, ReportedOnce, [Next]_vars
  PROVE  ReportedOnce'
<1> USE DEF ReportedOnce
<1>1. CASE Deciding
  <2>1. Len(<< >>) = 0
    OBVIOUS
  <2> QED
    BY <1>1, <2>1, DecideFacts
<1>2. CASE Enqueue
  BY <1>2, EnqueueFacts
<1>3. CASE Receive
  <2>1. channel # << >>
    BY <1>3, ReceiveFinds
  <2>2. \A i \in 1 .. Len(channel') :
           /\ i + 1 \in 1 .. Len(channel) /\ channel'[i] = channel[i + 1]
           /\ i + 1 # 1 /\ 1 \in 1 .. Len(channel)
    BY <1>3, <2>1, ReceiveFacts, ChannelTyped
  <2>3. completed' \subseteq completed \cup {channel[1].task} /\ held' = held
        /\ 1 \in 1 .. Len(channel)
    BY <1>3, <2>1, ReceiveFacts
  <2>4. \A i \in 1 .. Len(channel') : channel'[i].task # channel[1].task
    BY <2>2
  <2>5. \A i, j \in 1 .. Len(channel') :
           channel'[i].task = channel'[j].task => i = j
    BY <2>2
  <2>6. \A i \in 1 .. Len(channel') : channel'[i].task \notin completed'
    BY <2>2, <2>3, <2>4
  <2>7. \A v \in Workers : held'[v] # NoTask =>
           /\ held'[v] \notin completed'
           /\ \A i \in 1 .. Len(channel') : channel'[i].task # held'[v]
    BY <2>2, <2>3
  <2> QED
    BY <2>5, <2>6, <2>7
<1>4. ASSUME NEW w \in Workers, Searching(w) PROVE ReportedOnce'
  BY <1>4, SearchFacts, WorkerFrame DEF Searching, Worker
<1>5. ASSUME NEW w \in Workers, Take(w) PROVE ReportedOnce'
  <2>1. completed' = completed
    BY <1>5, WorkerFrame DEF Worker
  <2> QED
    BY <1>5, <2>1, TakeFresh
<1>6. ASSUME NEW w \in Workers, RunJob(w) PROVE ReportedOnce'
  BY <1>6, RunFacts, WorkerFrame DEF Worker
<1>7. ASSUME NEW w \in Workers, SendCompletion(w) PROVE ReportedOnce'
  <2>1. completed' = completed
    BY <1>7, WorkerFrame DEF Worker
  <2>2. /\ held[w] # NoTask /\ held'[w] = NoTask
        /\ \A v \in Workers : v # w => held'[v] = held[v]
    BY <1>7, SendFacts DEF HoldsJob
  <2>3. \A v \in Workers : held'[v] # NoTask => v # w /\ held'[v] # held[w]
    BY <2>2 DEF JobInv, HeldOnce
  <2>4. CASE ~receiverAlive
    BY <1>7, <2>1, <2>2, <2>4, SendFacts
  <2>5. CASE receiverAlive
    <3>1. /\ \A i \in 1 .. Len(channel') :
                      \/ i \in 1 .. Len(channel) /\ channel'[i] = channel[i]
                      \/ i = Len(channel) + 1 /\ channel'[i].task = held[w]
      BY <1>7, <2>5, SendFacts
    <3> QED
      BY <2>1, <2>2, <2>3, <3>1
  <2> QED
    BY <2>4, <2>5
<1>8. CASE UNCHANGED vars
  BY <1>8 DEF vars, coordVars, sharedVars, workerVars
<1> QED
  BY NextCases, <1>1, <1>2, <1>3, <1>4, <1>5, <1>6, <1>7, <1>8

\* `running` counts what was handed out and not yet received.
LEMMA RunningCountStep ==
  ASSUME TypeOK, HoldsJob, JobInv, JobsLeft, ShutdownPhases, ReportedOnce,
         RunningCount, [Next]_vars
  PROVE  RunningCount'
<1>1. CASE Deciding
  <2>1. UNCHANGED <<submitted, completed, running>>
    BY <1>1, DecideFacts
  <2>2. phase' \in {"validate", "scan", "dispatch", "receive"} =>
           phase \in {"validate", "scan", "dispatch", "receive"}
    BY <1>1 DEF Deciding, Validate, Scan, CheckDone, RequestShutdown,
                DropReceiver, Join
  <2> QED
    BY <2>1, <2>2 DEF RunningCount
<1>2. CASE Enqueue
  <2>1. PICK t \in batch : /\ submitted' = submitted \cup {t}
                           /\ completed' = completed /\ running' = running + 1
                           /\ phase = "dispatch"
    BY <1>2, EnqueueFacts
  <2>2. t \notin submitted /\ completed \subseteq submitted
    BY <2>1 DEF JobInv, BatchReady, CompletedOk
  <2>3. submitted' \ completed' = (submitted \ completed) \cup {t}
    BY <2>1, <2>2
  <2>4. Cardinality((submitted \ completed) \cup {t})
          = Cardinality(submitted \ completed) + 1
    BY <2>2, OpenFinite, FS_AddElement
  <2> QED
    BY <2>1, <2>3, <2>4 DEF RunningCount
<1>3. CASE Receive
  <2>1. channel # << >>
    BY <1>3, ReceiveFinds
  <2> DEFINE t == channel[1].task
  <2>2. t \in submitted \ completed
    BY <1>3, <2>1, ReceiveFacts DEF JobInv, Reported, ReportedOnce
  <2>3. CASE channel[1].result = "Panicked"
    BY <1>3, <2>1, <2>3, ReceiveFacts DEF RunningCount
  <2>4. CASE channel[1].result # "Panicked"
    <3>1. /\ submitted' = submitted /\ completed' = completed \cup {t}
          /\ running' = running - 1 /\ phase = "receive"
      BY <1>3, <2>1, <2>4, ReceiveFacts DEF Receive
    <3>2. submitted' \ completed' = (submitted \ completed) \ {t}
      BY <3>1
    <3>3. Cardinality((submitted \ completed) \ {t})
            = Cardinality(submitted \ completed) - 1
      BY <2>2, OpenFinite, FS_RemoveElement
    <3> QED
      BY <3>1, <3>2, <3>3 DEF RunningCount
  <2> QED
    BY <2>3, <2>4
<1>4. ASSUME NEW w \in Workers,
             Searching(w) \/ Take(w) \/ RunJob(w) \/ SendCompletion(w)
      PROVE  RunningCount'
  <2>1. Worker(w) \/ SpuriousWake(w)
    BY <1>4 DEF Searching, Worker
  <2> QED
    BY <2>1, WorkerFrame DEF RunningCount
<1>5. CASE UNCHANGED vars
  BY <1>5 DEF vars, coordVars, RunningCount
<1> QED
  BY NextCases, <1>1, <1>2, <1>3, <1>4, <1>5

\* A job that was entered and has not ended is in a worker's hands.
LEMMA EnteredHeldStep ==
  ASSUME TypeOK, HoldsJob, JobInv, ShutdownPhases, EnteredHeld, [Next]_vars
  PROVE  EnteredHeld'
<1> USE DEF EnteredHeld
<1>1. CASE Deciding
  BY <1>1, DecideFacts
<1>2. CASE Enqueue
  BY <1>2, EnqueueFacts
<1>3. CASE Receive
  BY <1>3, ReceiveFinds, ReceiveFacts
<1>4. ASSUME NEW w \in Workers, Searching(w) PROVE EnteredHeld'
  BY <1>4, SearchFacts
<1>5. ASSUME NEW w \in Workers, Take(w) PROVE EnteredHeld'
  <2>1. PICK t \in Tasks :
           /\ held[w] = NoTask /\ held'[w] = t /\ ended' = ended
           /\ \A v \in Workers : v # w => held'[v] = held[v]
           /\ \A s \in Tasks : s # t => starts'[s] = starts[s]
    BY <1>5, TakeFresh
  <2>2. \A s \in Tasks : s # NoTask
    BY TasksAssumption DEF NoTask
  <2> QED
    BY <2>1, <2>2
<1>6. ASSUME NEW w \in Workers, RunJob(w) PROVE EnteredHeld'
  BY <1>6, RunFacts DEF JobResults
<1>7. ASSUME NEW w \in Workers, SendCompletion(w) PROVE EnteredHeld'
  <2>1. /\ pc[w] = "send" /\ UNCHANGED <<starts, ended>>
        /\ \A v \in Workers : v # w => held'[v] = held[v]
    BY <1>7, SendFacts
  <2>2. result[w] # "no"
    BY DEF TypeOK, JobResults
  <2>3. ended[held[w]] # "no"
    BY <2>1, <2>2 DEF HoldsJob, JobInv, HeldStarted
  <2> QED
    BY <2>1, <2>3
<1>8. CASE UNCHANGED vars
  BY <1>8 DEF vars, workerVars, history
<1> QED
  BY NextCases, <1>1, <1>2, <1>3, <1>4, <1>5, <1>6, <1>7, <1>8

\* What is appended to the report comes after everything it depends on.
LEMMA OrderedReportStep ==
  ASSUME TypeOK, JobInv, ShutdownPhases, OrderedReport, [Next]_vars
  PROVE  OrderedReport'
<1>1. CASE Receive
  <2>1. channel # << >> /\ completedOrder \in Seq(Tasks)
    BY <1>1, ReceiveFinds DEF TypeOK
  <2>2. CASE completed' = completed /\ completedOrder' = completedOrder
    BY <2>2 DEF OrderedReport
  <2>3. CASE ~(completed' = completed /\ completedOrder' = completedOrder)
    <3> DEFINE t == channel[1].task
               n == Len(completedOrder)
    <3>1. /\ completed' = completed \cup {t}
          /\ completedOrder' = Append(completedOrder, t)
          /\ t \in Tasks /\ t \in submitted
      BY <1>1, <2>1, <2>3, ReceiveFacts DEF JobInv, Reported
    <3>2. /\ n \in Nat /\ Len(completedOrder') = n + 1
          /\ completedOrder'[n + 1] = t
          /\ \A i \in 1 .. n : i \in 1 .. n + 1 /\ completedOrder'[i] = completedOrder[i]
      BY <2>1, <3>1
    <3>3. Dependencies(t) \subseteq completed
      BY <3>1 DEF JobInv, SubmittedReady
    <3>4. \A s \in completed' :
             \E i \in 1 .. Len(completedOrder') : completedOrder'[i] = s
      <4>1. n + 1 \in 1 .. n + 1
        BY <3>2
      <4> QED
        BY <3>1, <3>2, <4>1 DEF OrderedReport
    <3>5. ASSUME NEW j \in 1 .. Len(completedOrder'),
                 NEW d \in Dependencies(completedOrder'[j])
          PROVE  \E i \in 1 .. Len(completedOrder') : i < j /\ completedOrder'[i] = d
      <4>1. CASE j \in 1 .. n
        <5>1. PICK i \in 1 .. n : i < j /\ completedOrder[i] = d
          BY <3>2, <3>5, <4>1 DEF OrderedReport
        <5> QED
          BY <3>2, <5>1
      <4>2. CASE j = n + 1
        <5>1. d \in completed
          BY <3>2, <3>3, <3>5, <4>2
        <5>2. PICK i \in 1 .. n : completedOrder[i] = d
          BY <5>1 DEF OrderedReport
        <5>3. i < j
          BY <3>2, <4>2
        <5> QED
          BY <3>2, <5>2, <5>3
      <4> QED
        BY <3>2, <4>1, <4>2
    <3> QED
      BY <3>4, <3>5 DEF OrderedReport, Dependencies
  <2> QED
    BY <2>2, <2>3
<1>2. CASE completed' = completed /\ completedOrder' = completedOrder
  BY <1>2 DEF OrderedReport, Dependencies
<1>3. ~Receive => completed' = completed /\ completedOrder' = completedOrder
  <2>1. CASE Deciding
    BY <2>1, DecideFacts
  <2>2. CASE Enqueue
    BY <2>2, EnqueueFacts
  <2>3. ASSUME NEW w \in Workers,
               Searching(w) \/ Take(w) \/ RunJob(w) \/ SendCompletion(w)
        PROVE  completed' = completed /\ completedOrder' = completedOrder
    BY <2>3, WorkerFrame DEF Searching, Worker
  <2>4. CASE UNCHANGED vars
    BY <2>4 DEF vars, coordVars
  <2> QED
    BY NextCases, <2>1, <2>2, <2>3, <2>4
<1> QED
  BY <1>1, <1>2, <1>3

\* The answers are told apart by their kind, and failures by their task.
LEMMA AnswersDiffer ==
  /\ Success # Pending /\ ChannelClosed # Pending /\ Success # ChannelClosed
  /\ Pending \notin Mismatches /\ Success \notin Mismatches
  /\ ChannelClosed \notin Mismatches
  /\ \A t : /\ TaskFailed(t) # Pending /\ TaskFailed(t) # Success
            /\ TaskFailed(t) # ChannelClosed /\ TaskFailed(t) \notin Mismatches
  /\ \A s, t : TaskFailed(s) = TaskFailed(t) => s = t
  /\ \A m, x : /\ JobSetMismatch(m, x) # Pending /\ JobSetMismatch(m, x) # Success
               /\ JobSetMismatch(m, x) # ChannelClosed
               /\ \A t : JobSetMismatch(m, x) # TaskFailed(t)
<1>1. /\ Pending.kind = "Pending" /\ Success.kind = "Ok"
      /\ ChannelClosed.kind = "WorkerChannelClosed"
      /\ \A t : TaskFailed(t).kind = "TaskFailed" /\ TaskFailed(t).task = t
      /\ \A m, x : JobSetMismatch(m, x).kind = "JobSetMismatch"
      /\ \A o \in Mismatches : o.kind = "JobSetMismatch"
  BY DEF Pending, Success, ChannelClosed, TaskFailed, JobSetMismatch, Mismatches
<1>2. /\ Success # Pending /\ ChannelClosed # Pending /\ Success # ChannelClosed
      /\ Pending \notin Mismatches /\ Success \notin Mismatches
      /\ ChannelClosed \notin Mismatches
  BY <1>1
<1>3. \A t : /\ TaskFailed(t) # Pending /\ TaskFailed(t) # Success
             /\ TaskFailed(t) # ChannelClosed /\ TaskFailed(t) \notin Mismatches
  BY <1>1
<1>4. \A s, t : TaskFailed(s) = TaskFailed(t) => s = t
  BY <1>1
<1>5. \A m, x : /\ JobSetMismatch(m, x) # Pending /\ JobSetMismatch(m, x) # Success
                /\ JobSetMismatch(m, x) # ChannelClosed
                /\ \A t : JobSetMismatch(m, x) # TaskFailed(t)
  BY <1>1
<1> QED
  BY <1>2, <1>3, <1>4, <1>5

\* The outcome the coordinator settled on is true of the jobs.
LEMMA OutcomeTrueStep ==
  ASSUME TypeOK, HoldsJob, JobInv, ShutdownPhases, RunningCount, DispatchComplete,
         OutcomeTrue, [Next]_vars
  PROVE  OutcomeTrue'
<1> USE DEF OutcomeTrue
<1>1. CASE Deciding
  <2>1. ended' = ended /\ completed' = completed
    BY <1>1, DecideFacts
  <2>2. CASE Validate
    <3>1. phase = "validate" /\ jobs' = jobs /\ outcome = Pending
      BY <2>2 DEF Validate
    <3>2. CASE jobs = Tasks
      <4>1. phase' = "scan" /\ outcome' = outcome
        BY <2>2, <3>2 DEF Validate, JobsMatch
      <4> QED
        BY <2>1, <3>1, <4>1, AnswersDiffer
    <3>3. CASE jobs # Tasks
      <4>1. phase' = "refused" /\ outcome' = JobSetMismatch(Tasks \ jobs, jobs \ Tasks)
        BY <2>2, <3>3 DEF Validate, JobsMatch
      <4> QED
        BY <2>1, <3>1, <3>3, <4>1, AnswersDiffer
    <3> QED
      BY <3>2, <3>3
  <2>3. CASE CheckDone
    <3>1. phase = "dispatch" /\ batch = {}
      BY <2>3 DEF CheckDone
    <3>2. CASE completed = Tasks
      <4>1. phase' = "shutdown" /\ outcome' = Success
        BY <2>3, <3>2 DEF CheckDone, AllCompleted
      <4> QED
        BY <2>1, <3>2, <4>1, AnswersDiffer
    <3>3. CASE completed # Tasks
      <4>1. running # 0
        BY <3>1, <3>3, NeverStuck
      <4>2. phase' = "receive" /\ outcome' = outcome
        BY <2>3, <3>3, <4>1 DEF CheckDone, AllCompleted
      <4> QED
        BY <2>1, <3>1, <4>2, AnswersDiffer
    <3> QED
      BY <3>2, <3>3
  <2>4. CASE Scan \/ RequestShutdown \/ DropReceiver \/ Join
    <3>1. /\ outcome' = outcome /\ phase' # "refused" /\ phase # "refused"
          /\ jobs' = jobs
          /\ phase' \in {"validate", "scan", "dispatch", "receive"}
               <=> phase \in {"validate", "scan", "dispatch", "receive"}
      BY <2>4 DEF Scan, RequestShutdown, DropReceiver, Join
    <3> QED
      BY <2>1, <3>1
  <2> QED
    BY <1>1, <2>2, <2>3, <2>4 DEF Deciding
<1>2. CASE Enqueue
  <2>1. phase = "dispatch"
        /\ UNCHANGED <<phase, outcome, completed, ended>>
    BY <1>2, EnqueueFacts
  <2> QED
    BY <2>1
<1>3. CASE Receive
  <2>1. channel # << >> /\ phase = "receive"
    BY <1>3, ReceiveFinds DEF Receive
  <2>2. ended' = ended /\ outcome = Pending
    BY <1>3, <2>1, ReceiveFacts
  <2>3. CASE channel[1].result = "Panicked"
    <3>1. phase' = "shutdown" /\ outcome' = TaskFailed(channel[1].task)
      BY <1>3, <2>1, <2>3, ReceiveFacts
    <3>2. ended[channel[1].task] = "Panicked"
      BY <1>3, <2>1, <2>3, ReceiveFacts DEF JobInv, Reported
    <3> QED
      BY <2>2, <3>1, <3>2, AnswersDiffer
  <2>4. CASE channel[1].result # "Panicked"
    <3>1. phase' = "scan" /\ outcome' = Pending
      BY <1>3, <2>1, <2>2, <2>4, ReceiveFacts
    <3> QED
      BY <2>2, <3>1, AnswersDiffer
  <2> QED
    BY <2>3, <2>4
<1>4. ASSUME NEW w \in Workers,
             Searching(w) \/ Take(w) \/ RunJob(w) \/ SendCompletion(w)
      PROVE  OutcomeTrue'
  <2>1. UNCHANGED <<phase, jobs, completed, outcome>>
    BY <1>4, WorkerFrame DEF Searching, Worker
  <2>2. \A t \in Tasks : ended[t] = "Panicked" => ended'[t] = "Panicked"
    <3>1. CASE RunJob(w)
      <4>1. ended[held[w]] = "no" /\ \A t \in Tasks : t # held[w] => ended'[t] = ended[t]
        BY <3>1, RunFacts DEF JobInv, HeldStarted
      <4> QED
        BY <4>1
    <3>2. CASE Searching(w)
      BY <3>2, SearchFacts
    <3>3. CASE Take(w) \/ SendCompletion(w)
      BY <3>3 DEF Take, SendCompletion, history
    <3> QED
      BY <1>4, <3>1, <3>2, <3>3
  <2> QED
    BY <2>1, <2>2
<1>5. CASE UNCHANGED vars
  BY <1>5 DEF vars, coordVars, history
<1> QED
  BY NextCases, <1>1, <1>2, <1>3, <1>4, <1>5

\* Layer 3 holds in every state.
LEMMA AnswerInvariant == Spec => []AnswerInv
<1>1. Init => AnswerInv
  <2> SUFFICES ASSUME Init PROVE AnswerInv
    OBVIOUS
  <2>1. ShutdownPhases /\ ReportedOnce /\ EnteredHeld /\ OrderedReport
    BY DEF Init, ShutdownPhases, ReportedOnce, EnteredHeld, OrderedReport
  <2>2. RunningCount /\ DispatchComplete
    BY FS_EmptySet DEF Init, RunningCount, DispatchComplete
  <2>3. OutcomeTrue
    BY AnswersDiffer DEF Init, OutcomeTrue
  <2> QED
    BY <2>1, <2>2, <2>3 DEF AnswerInv
<1>2. /\ Spawned /\ TypeOK /\ HoldsJob /\ JobInv /\ JobsLeft /\ AnswerInv
      /\ [Next]_vars
      => AnswerInv'
  BY ShutdownPhasesStep, ReportedOnceStep, RunningCountStep, DispatchCompleteStep,
     EnteredHeldStep, OrderedReportStep, OutcomeTrueStep DEF AnswerInv
<1> QED
  BY <1>1, <1>2, SpawnedInvariant, TypeCorrect, JobInvariant, JobsLeftInvariant,
     PTL DEF Spec

-----------------------------------------------------------------------------
(* Layer 4: the place of every job.                                        *)

\* A submitted job is always somewhere, as long as completions are received.
LEMMA AccountedStep ==
  ASSUME TypeOK, HoldsJob, JobInv, ShutdownPhases, OutcomeTrue, Accounted,
         [Next]_vars
  PROVE  Accounted'
<1> SUFFICES ASSUME receiverAlive', NEW t \in submitted'
             PROVE  \/ Queued(t)'
                    \/ \E w \in Workers : held'[w] = t
                    \/ \E i \in 1 .. Len(channel') : channel'[i].task = t
                    \/ t \in completed'
                    \/ outcome' = TaskFailed(t)
  BY DEF Accounted
<1>0. receiverAlive /\ phase # "join"
  <2>1. receiverAlive' => receiverAlive
    BY NextCases, WorkerFrame, DecideFacts, EnqueueFacts, ReceiveFinds,
       ReceiveFacts DEF Worker, Searching, vars, sharedVars
  <2> QED
    BY <2>1 DEF ShutdownPhases
<1>1. CASE Deciding
  <2>1. UNCHANGED <<submitted, completed, held, channel, queues>>
    BY <1>0, <1>1, DecideFacts
  <2>2. \A s \in Tasks : outcome = TaskFailed(s) => outcome' = outcome
    <3>1. \A s \in Tasks : phase \in {"validate", "dispatch"} =>
             outcome # TaskFailed(s)
      BY AnswersDiffer DEF OutcomeTrue
    <3> QED
      BY <1>1, <3>1 DEF Deciding, Validate, Scan, CheckDone, RequestShutdown,
                        DropReceiver, Join
  <2>3. t \in Tasks
    BY <2>1 DEF TypeOK
  <2> QED
    BY <1>0, <2>1, <2>2, <2>3 DEF Accounted, Queued
<1>2. CASE Enqueue
  <2>1. PICK u \in batch :
           /\ submitted' = submitted \cup {u} /\ Queued(u)'
           /\ \A s \in Tasks : Queued(s) => Queued(s)'
           /\ UNCHANGED <<completed, outcome, channel, held>>
    BY <1>2, EnqueueFacts
  <2> QED
    BY <1>0, <2>1 DEF Accounted, TypeOK
<1>3. CASE Receive
  <2>1. channel # << >> /\ phase = "receive"
    BY <1>3, ReceiveFinds DEF Receive
  <2>2. /\ UNCHANGED <<submitted, held, queues>> /\ completed \subseteq completed'
        /\ channel[1].task \in completed' \/ outcome' = TaskFailed(channel[1].task)
        /\ \A i \in 1 .. Len(channel) :
               i = 1 \/ (i - 1 \in 1 .. Len(channel') /\ channel'[i - 1] = channel[i])
    BY <1>3, <2>1, ReceiveFacts
  <2>3. outcome # TaskFailed(t)
    BY <2>1, AnswersDiffer DEF OutcomeTrue
  <2>4. CASE \E i \in 1 .. Len(channel) : channel[i].task = t
    BY <2>2, <2>4
  <2> QED
    BY <1>0, <2>2, <2>3, <2>4 DEF Accounted, Queued
<1>4. ASSUME NEW w \in Workers, Searching(w) \/ RunJob(w)
      PROVE  \/ Queued(t)'
             \/ \E v \in Workers : held'[v] = t
             \/ \E i \in 1 .. Len(channel') : channel'[i].task = t
             \/ t \in completed'
             \/ outcome' = TaskFailed(t)
  <2>1. UNCHANGED <<submitted, completed, outcome>>
    BY <1>4, WorkerFrame DEF Searching, Worker
  <2>2. UNCHANGED <<held, channel, queues>>
    BY <1>4, SearchFacts, RunFacts
  <2> QED
    BY <1>0, <2>1, <2>2 DEF Accounted, Queued
<1>5. ASSUME NEW w \in Workers, Take(w)
      PROVE  Queued(t)' \/ (\E v \in Workers : held'[v] = t)
             \/ (\E i \in 1 .. Len(channel') : channel'[i].task = t)
             \/ t \in completed' \/ outcome' = TaskFailed(t)
  <2>1. UNCHANGED <<submitted, completed, outcome>>
    BY <1>5, WorkerFrame DEF Worker
  <2>2. /\ held[w] = NoTask /\ channel' = channel
        /\ \A v \in Workers : v # w => held'[v] = held[v]
    BY <1>5, TakeFresh
  <2>4. \A s \in Tasks : Queued(s) => s = held'[w] \/ Queued(s)'
    BY <1>5, TakeOne
  <2>3. t \in Tasks /\ t # NoTask
    BY <2>1, TasksAssumption DEF TypeOK, NoTask
  <2> QED
    BY <1>0, <2>1, <2>2, <2>3, <2>4 DEF Accounted
<1>6. ASSUME NEW w \in Workers, SendCompletion(w)
      PROVE  Queued(t)' \/ (\E v \in Workers : held'[v] = t)
             \/ (\E i \in 1 .. Len(channel') : channel'[i].task = t)
             \/ t \in completed' \/ outcome' = TaskFailed(t)
  <2>1. UNCHANGED <<submitted, completed, outcome>>
    BY <1>6, WorkerFrame DEF Worker
  <2>2. /\ queues' = queues
        /\ \A v \in Workers : v # w => held'[v] = held[v]
        /\ \A i \in 1 .. Len(channel) :
                      i \in 1 .. Len(channel') /\ channel'[i] = channel[i]
    BY <1>0, <1>6, SendFacts
  <2>3. \E i \in 1 .. Len(channel') : channel'[i].task = held[w]
    <3>1. /\ Len(channel) \in Nat /\ Len(channel') = Len(channel) + 1
          /\ channel'[Len(channel')] = [task |-> held[w], result |-> result[w]]
      BY <1>0, <1>6, SendFacts, ChannelTyped
    <3>2. Len(channel') \in 1 .. Len(channel')
      BY <3>1
    <3> QED
      BY <3>1, <3>2
  <2> QED
    BY <1>0, <2>1, <2>2, <2>3 DEF Accounted, Queued
<1>7. CASE UNCHANGED vars
  BY <1>0, <1>7 DEF vars, coordVars, sharedVars, workerVars, Accounted, Queued
<1> QED
  BY NextCases, <1>1, <1>2, <1>3, <1>4, <1>5, <1>6, <1>7

\* The task that is answered as failed has left hands and channel.
LEMMA FailedGoneStep ==
  ASSUME TypeOK, HoldsJob, JobInv, ShutdownPhases, OutcomeTrue, ReportedOnce,
         FailedGone, [Next]_vars
  PROVE  FailedGone'
<1> USE DEF FailedGone
<1>0. \A t \in Tasks : outcome = TaskFailed(t) =>
         phase \notin {"validate", "scan", "dispatch", "receive"}
  BY AnswersDiffer DEF OutcomeTrue
<1>1. CASE Deciding
  <2>1. \A t \in Tasks : outcome' = TaskFailed(t) => outcome = outcome'
    BY <1>1, AnswersDiffer DEF Deciding, Validate, Scan, CheckDone,
         RequestShutdown, DropReceiver, Join
  <2>2. Len(<< >>) = 0
    OBVIOUS
  <2> QED
    BY <1>1, <2>1, <2>2, DecideFacts
<1>2. CASE Enqueue
  BY <1>2, EnqueueFacts
<1>3. CASE Receive
  <2>1. channel # << >> /\ phase = "receive"
    BY <1>3, ReceiveFinds DEF Receive
  <2>2. SUFFICES ASSUME NEW t \in Tasks, outcome' = TaskFailed(t)
                 PROVE  /\ t \in submitted
                        /\ \A w \in Workers : held[w] # t
                        /\ \A i \in 1 .. Len(channel') : channel'[i].task # t
    BY <1>3, <2>1, ReceiveFacts
  <2>3. outcome' # outcome
    BY <1>0, <2>1, <2>2
  <2>4. t = channel[1].task
    BY <1>3, <2>1, <2>2, <2>3, ReceiveFacts, AnswersDiffer
  <2>5. 1 \in 1 .. Len(channel)
    BY <1>3, <2>1, ReceiveFacts
  <2>6. t \in submitted
    BY <2>4, <2>5 DEF JobInv, Reported
  <2>7. \A w \in Workers : held[w] # t
    <3>1. t # NoTask
      BY TasksAssumption DEF NoTask
    <3> QED
      BY <2>4, <2>5, <3>1 DEF ReportedOnce
  <2>8. \A i \in 1 .. Len(channel') : channel'[i].task # t
    <3>1. \A i \in 1 .. Len(channel') :
             /\ i + 1 \in 1 .. Len(channel) /\ channel'[i] = channel[i + 1]
             /\ i + 1 # 1
      BY <1>3, <2>1, ReceiveFacts, ChannelTyped
    <3> QED
      BY <2>4, <2>5, <3>1 DEF ReportedOnce
  <2> QED
    BY <2>6, <2>7, <2>8
<1>4. ASSUME NEW w \in Workers, Searching(w) \/ RunJob(w) PROVE FailedGone'
  <2>1. UNCHANGED <<submitted, outcome>>
    BY <1>4, WorkerFrame DEF Searching, Worker
  <2>2. UNCHANGED <<held, channel>>
    BY <1>4, SearchFacts, RunFacts
  <2> QED
    BY <2>1, <2>2
<1>5. ASSUME NEW w \in Workers, Take(w) PROVE FailedGone'
  <2>1. UNCHANGED <<submitted, outcome>>
    BY <1>5, WorkerFrame DEF Worker
  <2>2. PICK u \in Tasks :
           /\ held'[w] = u /\ channel' = channel /\ ended[u] = "no"
           /\ \A v \in Workers : v # w => held'[v] = held[v]
    BY <1>5, TakeFresh
  <2>3. outcome # TaskFailed(u)
    BY <2>2 DEF OutcomeTrue
  <2> QED
    BY <2>1, <2>2, <2>3
<1>6. ASSUME NEW w \in Workers, SendCompletion(w) PROVE FailedGone'
  <2>1. UNCHANGED <<submitted, outcome>>
    BY <1>6, WorkerFrame DEF Worker
  <2>2. /\ held'[w] = NoTask /\ pc[w] = "send"
        /\ \A v \in Workers : v # w => held'[v] = held[v]
        /\ \A i \in 1 .. Len(channel') :
             \/ i \in 1 .. Len(channel) /\ channel'[i] = channel[i]
             \/ channel'[i].task = held[w]
    BY <1>6, SendFacts
  <2>3. \A t \in Tasks : t # NoTask
    BY TasksAssumption DEF NoTask
  <2> QED
    BY <2>1, <2>2, <2>3
<1>7. CASE UNCHANGED vars
  BY <1>7 DEF vars, coordVars, sharedVars, workerVars
<1> QED
  BY NextCases, <1>1, <1>2, <1>3, <1>4, <1>5, <1>6, <1>7

\* The report names completed tasks only, each once.
LEMMA ReportDistinctStep ==
  ASSUME TypeOK, JobInv, ShutdownPhases, ReportedOnce, ReportDistinct, [Next]_vars
  PROVE  ReportDistinct'
<1> USE DEF ReportDistinct
<1>1. CASE Receive
  <2>1. channel # << >> /\ completedOrder \in Seq(Tasks)
    BY <1>1, ReceiveFinds DEF TypeOK
  <2>2. CASE completed' = completed /\ completedOrder' = completedOrder
    BY <2>2
  <2>3. CASE ~(completed' = completed /\ completedOrder' = completedOrder)
    <3> DEFINE t == channel[1].task
               n == Len(completedOrder)
    <3>1. /\ completed' = completed \cup {t}
          /\ completedOrder' = Append(completedOrder, t)
          /\ t \in Tasks /\ t \notin completed
      BY <1>1, <2>1, <2>3, ReceiveFacts DEF ReportedOnce
    <3>2. /\ n \in Nat /\ Len(completedOrder') = n + 1
          /\ completedOrder'[n + 1] = t
          /\ \A i \in 1 .. n : completedOrder'[i] = completedOrder[i]
          /\ \A i \in 1 .. n + 1 : i \in 1 .. n \/ i = n + 1
      BY <2>1, <3>1
    <3>3. \A i \in 1 .. n : completedOrder'[i] \in completed
      BY <3>2
    <3> QED
      BY <3>1, <3>2, <3>3
  <2> QED
    BY <2>2, <2>3
<1>2. ~Receive => completed' = completed /\ completedOrder' = completedOrder
  <2>1. CASE Deciding
    BY <2>1, DecideFacts
  <2>2. CASE Enqueue
    BY <2>2, EnqueueFacts
  <2>3. ASSUME NEW w \in Workers,
               Searching(w) \/ Take(w) \/ RunJob(w) \/ SendCompletion(w)
        PROVE  completed' = completed /\ completedOrder' = completedOrder
    BY <2>3, WorkerFrame DEF Searching, Worker
  <2>4. CASE UNCHANGED vars
    BY <2>4 DEF vars, coordVars
  <2> QED
    BY NextCases, <2>1, <2>2, <2>3, <2>4
<1> QED
  BY <1>1, <1>2

\* Only a job that was entered ends.
LEMMA EndedStartedStep ==
  ASSUME TypeOK, HoldsJob, JobInv, ShutdownPhases, EndedStarted, [Next]_vars
  PROVE  EndedStarted'
<1> USE DEF EndedStarted
<1>1. CASE Deciding
  BY <1>1, DecideFacts
<1>2. CASE Enqueue
  BY <1>2, EnqueueFacts
<1>3. CASE Receive
  BY <1>3, ReceiveFinds, ReceiveFacts
<1>4. ASSUME NEW w \in Workers, Searching(w) PROVE EndedStarted'
  BY <1>4, SearchFacts
<1>5. ASSUME NEW w \in Workers, Take(w) PROVE EndedStarted'
  BY <1>5, TakeFresh
<1>6. ASSUME NEW w \in Workers, RunJob(w) PROVE EndedStarted'
  <2>1. starts[held[w]] = 1
    BY <1>6, RunFacts DEF JobInv, HeldStarted
  <2> QED
    BY <1>6, <2>1, RunFacts
<1>7. ASSUME NEW w \in Workers, SendCompletion(w) PROVE EndedStarted'
  BY <1>7, SendFacts
<1>8. CASE UNCHANGED vars
  BY <1>8 DEF vars, history
<1> QED
  BY NextCases, <1>1, <1>2, <1>3, <1>4, <1>5, <1>6, <1>7, <1>8

\* A worker that began a job after the receiver was gone leaves next.
LEMMA LateLeavesStep ==
  ASSUME Spawned, TypeOK, HoldsJob, JobInv, ShutdownPhases, LateLeaves, [Next]_vars
  PROVE  LateLeaves'
<1> USE DEF LateLeaves
<1>1. CASE Validate
  <2>1. receiverAlive /\ UNCHANGED <<late, receiverAlive>>
    BY <1>1 DEF Validate, ShutdownPhases, sharedVars, history
  <2> QED
    BY <2>1
<1>2. CASE Scan \/ CheckDone \/ DropReceiver \/ Join \/ Receive
  BY <1>2 DEF Scan, CheckDone, DropReceiver, Join, Receive, sharedVars,
              workerVars, history
<1>3. CASE Enqueue \/ RequestShutdown
  <2>1. \A v \in Workers : pc[v] \in {"run", "send", "exited"} => pc'[v] = pc[v]
    BY <1>3 DEF Enqueue, RequestShutdown, NotifyAll
  <2> QED
    BY <1>3, <2>1 DEF Enqueue, RequestShutdown, history
<1>4. ASSUME NEW w \in Workers, Worker(w) \/ SpuriousWake(w) PROVE LateLeaves'
  <2>0. receiverAlive' = receiverAlive
    BY <1>4, WorkerFrame
  <2>1. CASE Searching(w)
    <3>1. late[w] = 0
      BY <2>1, SearchFacts
    <3> QED
      BY <2>0, <2>1, <3>1, SearchFacts
  <2>2. CASE Take(w)
    <3>1. /\ late'[w] = IF receiverAlive THEN late[w] ELSE late[w] + 1
          /\ \A v \in Workers : v # w => late'[v] = late[v] /\ pc'[v] = pc[v]
          /\ pc[w] = "take" /\ pc'[w] = "run"
      BY <2>2 DEF Take, Goto, TypeOK
    <3>2. late[w] = 0
      BY <3>1
    <3> QED
      BY <2>0, <3>1, <3>2
  <2>3. CASE RunJob(w)
    BY <2>0, <2>3, RunFacts
  <2>4. CASE SendCompletion(w)
    BY <2>0, <2>4, SendFacts
  <2> QED
    BY <1>4, <2>1, <2>2, <2>3, <2>4, WorkerSteps
<1>5. CASE UNCHANGED vars
  BY <1>5 DEF vars, sharedVars, workerVars, history
<1> QED
  BY <1>1, <1>2, <1>3, <1>4, <1>5 DEF Next, Coordinator, Returned

\* Layer 4 holds in every state.
LEMMA PlaceInvariant == Spec => []PlaceInv
<1>1. Init => PlaceInv
  <2> SUFFICES ASSUME Init PROVE PlaceInv
    OBVIOUS
  <2>1. Accounted /\ ReportDistinct /\ EndedStarted /\ LateLeaves
    BY DEF Init, Accounted, ReportDistinct, EndedStarted, LateLeaves
  <2>2. FailedGone
    BY AnswersDiffer DEF Init, FailedGone
  <2> QED
    BY <2>1, <2>2 DEF PlaceInv
<1>2. /\ Spawned /\ TypeOK /\ HoldsJob /\ JobInv /\ AnswerInv /\ PlaceInv
      /\ [Next]_vars
      => PlaceInv'
  BY AccountedStep, FailedGoneStep, ReportDistinctStep, EndedStartedStep,
     LateLeavesStep DEF PlaceInv, AnswerInv
<1> QED
  BY <1>1, <1>2, SpawnedInvariant, TypeCorrect, JobInvariant, AnswerInvariant,
     PTL DEF Spec

-----------------------------------------------------------------------------
(* What follows from the four layers.                                      *)

\* The four layers together are an invariant of execute.
THEOREM InductiveInvariant == Spec => []IndInv
<1>1. TypeOK /\ HoldsJob /\ Spawned /\ WakeInv /\ JobInv /\ JobsLeft /\ AnswerInv
      /\ PlaceInv => IndInv
  BY DEF IndInv
<1> QED
  BY <1>1, TypeCorrect, SpawnedInvariant, WakeInvariant, JobInvariant,
     JobsLeftInvariant, AnswerInvariant, PlaceInvariant, PTL

\* Once the receiver is gone each worker begins at most one more job.
THEOREM DrainIsBounded == Spec => []BoundedDrain
<1>1. PlaceInv => \A w \in Workers : late[w] = 0 \/ late[w] = 1
  BY DEF PlaceInv, LateLeaves
<1>2. PlaceInv => BoundedDrain
  BY <1>1 DEF BoundedDrain
<1> QED
  BY <1>2, PlaceInvariant, PTL

\* An edge relates two tasks of the graph, and makes its source one of the
\* dependencies of its target.
LEMMA EdgeDependency ==
  ASSUME NEW e \in Edges
  PROVE  e[1] \in Tasks /\ e[2] \in Tasks /\ e[1] \in Dependencies(e[2])
BY DEF Edges, GraphEdges, ExplicitEdges, ConflictEdges, Dependencies,
       DependenciesOf

\* When execute is about to return, every job that was entered has ended.
LEMMA NothingRunning ==
  ASSUME TypeOK, HoldsJob, EnteredHeld, NEW t \in Tasks, starts[t] > 0,
         \A w \in Workers : pc[w] \in {"unspawned", "exited"}
  PROVE  ended[t] # "no"
<1>1. \A w \in Workers : held[w] = NoTask
  BY DEF HoldsJob
<1>2. t # NoTask
  BY TasksAssumption DEF NoTask
<1> QED
  BY <1>1, <1>2 DEF EnteredHeld

\* What execute may answer once it asked for shutdown.
LEMMA ShutdownAnswer ==
  ASSUME TypeOK, OutcomeTrue, phase \in {"shutdown", "drop", "join", "returned"}
  PROVE  \/ outcome = Success /\ completed = Tasks
         \/ \E t \in Tasks : outcome = TaskFailed(t) /\ ended[t] = "Panicked"
<1>1. outcome # Pending /\ outcome # ChannelClosed /\ outcome \notin Mismatches
  BY DEF OutcomeTrue
<1>2. outcome = Success \/ \E t \in Tasks : outcome = TaskFailed(t)
  BY <1>1 DEF TypeOK, Outcomes
<1> QED
  BY <1>2 DEF OutcomeTrue

\* The answer of execute is true of what happened.
THEOREM AnswerFaithful == Spec => []FaithfulAnswer
<1>1. IndInv => FaithfulAnswer
  <2> SUFFICES ASSUME IndInv, Over PROVE FaithfulAnswer
    BY DEF FaithfulAnswer
  <2> USE DEF IndInv, JobInv, AnswerInv
  <2>1. CASE phase = "refused"
    <3>1. \A t \in Tasks : starts[t] = 0
      BY <2>1 DEF JobsLeft, Unsubmitted
    <3>2. /\ outcome = JobSetMismatch(Tasks \ jobs, jobs \ Tasks)
          /\ jobs # Tasks
      BY <2>1 DEF OutcomeTrue
    <3> QED
      BY <3>1, <3>2 DEF FaithfulAnswer
  <2>2. CASE phase = "returned"
    <3>1. \A t \in Tasks : starts[t] > 0 => ended[t] # "no"
      <4>1. \A w \in Workers : pc[w] = "exited"
        BY <2>2 DEF ShutdownPhases
      <4> QED
        BY <4>1, NothingRunning
    <3>2. CASE outcome = Success /\ completed = Tasks
      <4>1. \A t \in Tasks : ended[t] = "Ok"
        BY <3>2 DEF CompletedOk
      <4>2. ASSUME NEW e \in Edges
            PROVE  \E i, j \in DOMAIN completedOrder :
                     i < j /\ completedOrder[i] = e[1] /\ completedOrder[j] = e[2]
        <5>1. DOMAIN completedOrder = 1 .. Len(completedOrder)
          BY DEF TypeOK
        <5>2. PICK j \in 1 .. Len(completedOrder) : completedOrder[j] = e[2]
          BY <3>2, EdgeDependency DEF OrderedReport
        <5>3. e[1] \in Dependencies(completedOrder[j])
          BY <5>2, EdgeDependency
        <5>4. PICK i \in 1 .. Len(completedOrder) : i < j /\ completedOrder[i] = e[1]
          BY <5>3 DEF OrderedReport
        <5> QED
          BY <5>1, <5>2, <5>4
      <4> QED
        BY <3>1, <3>2, <4>1, <4>2 DEF FaithfulAnswer
    <3>3. CASE \E t \in Tasks : outcome = TaskFailed(t) /\ ended[t] = "Panicked"
      BY <3>1, <3>3 DEF FaithfulAnswer
    <3> QED
      BY <2>2, <3>2, <3>3, ShutdownAnswer
  <2> QED
    BY <2>1, <2>2 DEF Over
<1> QED
  BY <1>1, InductiveInvariant, PTL

\* A deque holds each job once, so it is no longer than the graph.
LEMMA QueueBound ==
  ASSUME TypeOK, QueuedOnce, NEW w \in Workers
  PROVE  /\ Len(queues[w]) \in Nat
         /\ Len(queues[w]) <= Cardinality(Tasks)
         /\ Cardinality(Tasks) \in Nat
<1> DEFINE q == queues[w]
           S == 1 .. Len(q)
<1>1. q \in Seq(Tasks) /\ Len(q) \in Nat /\ q \in [S -> Tasks]
  BY DEF TypeOK
<1>2. \A i, j \in S : q[i] = q[j] => i = j
  BY DEF QueuedOnce
<1>3. q \in Injection(S, Tasks)
  BY <1>1, <1>2 DEF Injection, IsInjective
<1>4. Cardinality(S) <= Cardinality(Tasks)
  BY <1>3, TasksAssumption, FS_Injection
<1>5. Cardinality(S) = Len(q)
  <2>1. 1 \in Int /\ Len(q) \in Int
    BY <1>1
  <2>2. Cardinality(1 .. Len(q)) = IF 1 > Len(q) THEN 0 ELSE Len(q) - 1 + 1
    BY <2>1, FS_Interval
  <2> QED
    BY <1>1, <2>2
<1> QED
  BY <1>1, <1>4, <1>5, TasksAssumption, FS_CardinalityType

\* A task has one slot in the deques, or none.
LEMMA QueueSlotCount ==
  ASSUME TypeOK, QueuedOnce, NEW t \in Tasks
  PROVE  /\ Queued(t) => Cardinality(QueueSlots(t)) = 1 /\ QueueSlots(t) # {}
         /\ ~Queued(t) => Cardinality(QueueSlots(t)) = 0 /\ QueueSlots(t) = {}
<1>1. \A w \in Workers : DOMAIN queues[w] = 1 .. Len(queues[w])
  BY DEF TypeOK
<1>2. CASE Queued(t)
  <2>1. PICK w \in Workers : \E i \in 1 .. Len(queues[w]) : queues[w][i] = t
    BY <1>2 DEF Queued
  <2>2. PICK i \in 1 .. Len(queues[w]) : queues[w][i] = t
    BY <2>1
  <2>3. i \in 1 .. Cardinality(Tasks)
    BY QueueBound
  <2>4. <<w, i>> \in QueueSlots(t)
    BY <1>1, <2>2, <2>3 DEF QueueSlots
  <2>5. \A s \in QueueSlots(t) : s = <<w, i>>
    BY <1>1, <2>2 DEF QueueSlots, QueuedOnce
  <2>6. QueueSlots(t) = {<<w, i>>}
    BY <2>4, <2>5
  <2> QED
    BY <1>2, <2>6, FS_Singleton
<1>3. CASE ~Queued(t)
  <2>1. QueueSlots(t) = {}
    BY <1>1, <1>3 DEF QueueSlots, Queued
  <2> QED
    BY <1>3, <2>1, FS_EmptySet
<1> QED
  BY <1>2, <1>3

\* A task is in one hand, or none.
LEMMA HandCount ==
  ASSUME TypeOK, HeldOnce, NEW t \in Tasks
  PROVE  /\ (\E w \in Workers : held[w] = t) => Cardinality(Hands(t)) = 1
         /\ (\A w \in Workers : held[w] # t) => Cardinality(Hands(t)) = 0
<1>1. ASSUME NEW w \in Workers, held[w] = t PROVE Cardinality(Hands(t)) = 1
  <2>1. t # NoTask
    BY TasksAssumption DEF NoTask
  <2>2. Hands(t) = {w}
    BY <1>1, <2>1 DEF Hands, HeldOnce
  <2> QED
    BY <2>2, FS_Singleton
<1>2. ASSUME \A w \in Workers : held[w] # t PROVE Cardinality(Hands(t)) = 0
  <2>1. Hands(t) = {}
    BY <1>2 DEF Hands
  <2> QED
    BY <2>1, FS_EmptySet
<1> QED
  BY <1>1, <1>2

InChannel(t) == \E i \in 1 .. Len(channel) : channel[i].task = t

\* A task has one message in the channel, or none.
LEMMA ChannelCount ==
  ASSUME TypeOK, ReportedOnce, NEW t \in Tasks
  PROVE  /\ InChannel(t) => Cardinality(ChannelSlots(t)) = 1
         /\ ~InChannel(t) => Cardinality(ChannelSlots(t)) = 0
<1>1. DOMAIN channel = 1 .. Len(channel)
  BY DEF TypeOK
<1>2. ASSUME NEW i \in 1 .. Len(channel), channel[i].task = t
      PROVE  Cardinality(ChannelSlots(t)) = 1
  <2>1. ChannelSlots(t) = {i}
    BY <1>1, <1>2 DEF ChannelSlots, ReportedOnce
  <2> QED
    BY <2>1, FS_Singleton
<1>3. ASSUME ~InChannel(t) PROVE Cardinality(ChannelSlots(t)) = 0
  <2>1. ChannelSlots(t) = {}
    BY <1>1, <1>3 DEF ChannelSlots, InChannel
  <2> QED
    BY <2>1, FS_EmptySet
<1> QED
  BY <1>2, <1>3 DEF InChannel

\* A task is in the report once if it is completed, else not at all.
LEMMA ReportCount ==
  ASSUME TypeOK, OrderedReport, ReportDistinct, NEW t \in Tasks
  PROVE  Cardinality(ReportSlots(t)) = IF t \in completed THEN 1 ELSE 0
<1>1. DOMAIN completedOrder = 1 .. Len(completedOrder)
  BY DEF TypeOK
<1>2. CASE t \in completed
  <2>1. PICK i \in 1 .. Len(completedOrder) : completedOrder[i] = t
    BY <1>2 DEF OrderedReport
  <2>2. ReportSlots(t) = {i}
    BY <1>1, <2>1 DEF ReportSlots, ReportDistinct
  <2> QED
    BY <1>2, <2>2, FS_Singleton
<1>3. CASE t \notin completed
  <2>1. ReportSlots(t) = {}
    BY <1>1, <1>3 DEF ReportSlots, ReportDistinct
  <2> QED
    BY <1>3, <2>1, FS_EmptySet
<1> QED
  BY <1>2, <1>3

\* No job is lost or duplicated between the map of jobs and the report.
THEOREM JobsConserved == Spec => []JobConservation
<1>1. IndInv => JobConservation
  <2> SUFFICES ASSUME IndInv, receiverAlive, NEW t \in Tasks
               PROVE  /\ Cardinality(QueueSlots(t)) + Cardinality(Hands(t))
                           + Cardinality(ChannelSlots(t)) + Cardinality(ReportSlots(t))
                           = IF t \in submitted /\ outcome # TaskFailed(t) THEN 1 ELSE 0
                      /\ starts[t] = IF t \in submitted /\ QueueSlots(t) = {} THEN 1 ELSE 0
    BY DEF JobConservation
  <2> DEFINE Held(s) == \E w \in Workers : held[w] = s
  <2>0. /\ TypeOK /\ HoldsJob /\ JobInv /\ AnswerInv /\ PlaceInv
        /\ ReportedOnce /\ OutcomeTrue /\ OrderedReport
        /\ Accounted /\ FailedGone /\ ReportDistinct /\ EndedStarted
        /\ QueuedFresh /\ QueuedOnce /\ HeldOnce /\ HeldStarted /\ Reported
        /\ CompletedOk /\ Unsubmitted
    BY DEF IndInv, JobInv, AnswerInv, PlaceInv
  <2>1. t # NoTask
    BY TasksAssumption DEF NoTask
  <2>2. Queued(t) => t \in submitted /\ starts[t] = 0 /\ ended[t] = "no"
    BY <2>0 DEF Queued, QueuedFresh
  <2>3. Held(t) => /\ t \in submitted /\ starts[t] = 1 /\ t \notin completed
                   /\ ~InChannel(t)
    BY <2>0, <2>1 DEF HeldStarted, ReportedOnce, InChannel
  <2>4. InChannel(t) => t \in submitted /\ t \notin completed /\ ended[t] # "no"
    <3>1. \A i \in 1 .. Len(channel) : channel[i].result # "no"
      BY <2>0, ChannelTyped DEF JobResults
    <3> QED
      BY <2>0, <3>1 DEF Reported, ReportedOnce, InChannel
  <2>5. t \in completed => t \in submitted /\ ended[t] = "Ok"
    BY <2>0 DEF CompletedOk
  <2>6. outcome = TaskFailed(t) => /\ t \in submitted /\ ~Held(t) /\ ~InChannel(t)
                                   /\ ended[t] = "Panicked"
    BY <2>0 DEF FailedGone, OutcomeTrue, InChannel
  <2>7. ended[t] # "no" => starts[t] = 1
    BY <2>0 DEF EndedStarted
  <2>8. t \in submitted => \/ Queued(t) \/ Held(t) \/ InChannel(t)
                           \/ t \in completed \/ outcome = TaskFailed(t)
    BY <2>0 DEF Accounted, InChannel
  <2>9. t \notin submitted => starts[t] = 0
    BY <2>0 DEF Unsubmitted
  <2>10. /\ Queued(t) => Cardinality(QueueSlots(t)) = 1 /\ QueueSlots(t) # {}
         /\ ~Queued(t) => Cardinality(QueueSlots(t)) = 0 /\ QueueSlots(t) = {}
    BY <2>0, QueueSlotCount
  <2>11. /\ Held(t) => Cardinality(Hands(t)) = 1
         /\ ~Held(t) => Cardinality(Hands(t)) = 0
    BY <2>0, HandCount
  <2>12. /\ InChannel(t) => Cardinality(ChannelSlots(t)) = 1
         /\ ~InChannel(t) => Cardinality(ChannelSlots(t)) = 0
    BY <2>0, ChannelCount
  <2>13. Cardinality(ReportSlots(t)) = IF t \in completed THEN 1 ELSE 0
    BY <2>0, ReportCount
  <2> HIDE DEF Held
  <2> QED
    BY <2>2, <2>3, <2>4, <2>5, <2>6, <2>7, <2>8, <2>9, <2>10, <2>11, <2>12, <2>13
<1> QED
  BY <1>1, InductiveInvariant, PTL

-----------------------------------------------------------------------------
(* Refinement of TaskExecution.                                            *)

\* A step that changes neither the jobs' histories, nor the map of jobs and
\* what was taken from it, nor whether execute returned is invisible.
LEMMA InvisibleStep ==
  ASSUME UNCHANGED <<starts, ended, outcome>>,
         jobs' \cup submitted' = jobs \cup submitted, Over' = Over
  PROVE  UNCHANGED Execution!vars
BY DEF Execution!vars

\* Each step of the pool is a step of the abstract execution or invisible.
LEMMA ExecutionStep ==
  ASSUME IndInv, IndInv', [Next]_vars
  PROVE  Execution!Next \/ UNCHANGED Execution!vars
<1>0. /\ TypeOK /\ HoldsJob /\ Spawned /\ JobInv /\ JobsLeft /\ AnswerInv
      /\ ShutdownPhases /\ EnteredHeld /\ OutcomeTrue /\ BatchReady
      /\ SubmittedReady /\ CompletedOk /\ HeldStarted
  BY DEF IndInv, AnswerInv, JobInv
<1>1. CASE Validate
  <2>1. /\ phase = "validate" /\ UNCHANGED <<jobs, submitted, starts, ended>>
        /\ submitted = {} /\ ~Over
    BY <1>0, <1>1 DEF Validate, JobsLeft, history, Over
  <2>2. CASE jobs = Tasks
    <3>1. phase' = "scan" /\ outcome' = outcome
      BY <1>1, <2>2 DEF Validate, JobsMatch
    <3>2. Over' = Over
      BY <2>1, <3>1 DEF Over
    <3> QED
      BY <2>1, <3>1, <3>2, InvisibleStep
  <2>3. CASE jobs # Tasks
    <3>1. Over' /\ outcome' = JobSetMismatch(Tasks \ jobs, jobs \ Tasks)
      BY <1>1, <2>3 DEF Validate, JobsMatch, Over
    <3>2. Execution!Refuse
      BY <2>1, <2>3, <3>1
         DEF Execution!Refuse, Execution!Pending, Pending,
             Execution!JobSetMismatch, JobSetMismatch
    <3> QED
      BY <3>2 DEF Execution!Next
  <2> QED
    BY <2>2, <2>3
<1>2. CASE Scan \/ CheckDone \/ RequestShutdown \/ DropReceiver
  <2>1. UNCHANGED <<jobs, submitted, starts, ended>> /\ ~Over /\ ~Over'
    BY <1>2 DEF Scan, CheckDone, RequestShutdown, DropReceiver, history, Over
  <2> QED
    BY <2>1 DEF Execution!vars
<1>3. CASE Join
  <2>1. /\ phase = "join" /\ ~Over /\ Over' /\ outcome' = outcome
        /\ UNCHANGED <<jobs, submitted, starts, ended>>
        /\ \A w \in Workers : pc[w] = "exited"
    BY <1>3 DEF Join, history, Over
  <2>2. jobs \cup submitted = Tasks
    BY <1>0, <2>1 DEF JobsLeft, TypeOK
  <2>3. CASE outcome = Success /\ completed = Tasks
    <3>1. \A t \in Tasks : ended[t] = "Ok"
      BY <1>0, <2>3 DEF CompletedOk
    <3>2. { t \in Tasks : ended[t] = "Ok" } = Tasks
      BY <3>1
    <3>3. Execution!ReturnOk
      BY <2>1, <2>2, <2>3, <3>2
         DEF Execution!ReturnOk, Execution!Pending, Pending,
             Execution!Success, Success
    <3> QED
      BY <3>3 DEF Execution!Next
  <2>4. ASSUME NEW t \in Tasks, outcome = TaskFailed(t), ended[t] = "Panicked"
        PROVE  Execution!Next
    <3>1. \A s \in Tasks : starts[s] > 0 => ended[s] # "no"
      BY <1>0, <2>1, NothingRunning
    <3>2. Execution!Running = {}
      BY <1>0, <3>1 DEF Execution!Running, TypeOK, JobResults
    <3>3. Execution!ReturnFailed(t)
      BY <2>1, <2>4, <3>2
         DEF Execution!ReturnFailed, Execution!Pending, Pending,
             Execution!TaskFailed, TaskFailed
    <3> QED
      BY <3>3 DEF Execution!Next
  <2> QED
    BY <1>0, <2>1, <2>3, <2>4, ShutdownAnswer
<1>4. CASE Enqueue
  <2>1. PICK t \in batch :
           /\ submitted' = submitted \cup {t} /\ jobs' = jobs \ {t}
           /\ phase = "dispatch"
           /\ UNCHANGED <<phase, outcome, starts, ended>>
    BY <1>0, <1>4, EnqueueFacts
  <2>2. t \in jobs
    BY <1>0, <2>1 DEF JobsLeft, BatchReady, TypeOK
  <2>3. jobs' \cup submitted' = jobs \cup submitted /\ Over' = Over
    BY <2>1, <2>2 DEF Over
  <2> QED
    BY <2>1, <2>3, InvisibleStep
<1>5. CASE Receive
  <2>1. /\ UNCHANGED <<jobs, submitted, starts, ended>>
        /\ phase = "receive" /\ phase' \in {"scan", "shutdown"}
    BY <1>5 DEF Receive, history
  <2>2. ~Over /\ ~Over'
    BY <2>1 DEF Over
  <2> QED
    BY <2>1, <2>2 DEF Execution!vars
<1>6. ASSUME NEW w \in Workers,
             Searching(w) \/ Take(w) \/ RunJob(w) \/ SendCompletion(w)
      PROVE  Execution!Next \/ UNCHANGED Execution!vars
  <2>1. UNCHANGED <<phase, jobs, submitted, outcome>>
    BY <1>6, WorkerFrame DEF Searching, Worker
  <2>2. Over' = Over
    BY <2>1 DEF Over
  <2>3. CASE Searching(w) \/ SendCompletion(w)
    <3>1. UNCHANGED <<starts, ended>>
      BY <1>0, <2>3, SearchFacts, SendFacts
    <3> QED
      BY <2>1, <2>2, <3>1, InvisibleStep
  <2>4. CASE Take(w) \/ RunJob(w)
    <3>1. pc[w] \notin {"unspawned", "exited"}
      BY <2>4 DEF Take, RunJob
    <3>2. ~Over /\ phase # "validate"
      BY <1>0, <3>1 DEF Over, Spawned, ShutdownPhases
    <3>3. jobs \cup submitted = Tasks
      BY <1>0, <3>2 DEF JobsLeft, TypeOK, Over
    <3>4. CASE Take(w)
      <4>1. PICK t \in Tasks :
               /\ t \in submitted /\ starts[t] = 0 /\ starts'[t] = 1
               /\ \A s \in Tasks : s # t => starts'[s] = starts[s]
               /\ ended' = ended
        BY <1>0, <3>4, TakeFresh
      <4>2. { s \in Tasks : starts'[s] > 0 } = { s \in Tasks : starts[s] > 0 } \cup {t}
        BY <4>1
      <4>3. t \in Tasks \ { s \in Tasks : starts[s] > 0 }
        BY <4>1
      <4>4. \A e \in Edges : e[2] = t => e[1] \in { s \in Tasks : ended[s] = "Ok" }
        BY <1>0, <4>1, EdgeDependency DEF SubmittedReady, CompletedOk
      <4>5. Execution!Begin(t)
        BY <2>1, <2>2, <3>2, <3>3, <4>1, <4>2, <4>3, <4>4
           DEF Execution!Begin, Execution!Pending, Pending
      <4> QED
        BY <4>5 DEF Execution!Next
    <3>5. CASE RunJob(w)
      <4>1. /\ starts' = starts /\ pc[w] = "run" /\ held[w] \in Tasks
            /\ held[w] # NoTask
            /\ ended'[held[w]] \in JobResults
            /\ \A t \in Tasks : t # held[w] => ended'[t] = ended[t]
        BY <1>0, <3>5, RunFacts
      <4>2. PICK t \in Tasks : t = held[w]
        BY <4>1
      <4>3. starts[t] = 1 /\ ended[t] = "no"
        BY <1>0, <4>1, <4>2 DEF HeldStarted
      <4>4. t \in Execution!Running
        BY <4>3 DEF Execution!Running
      <4>5. CASE ended'[t] = "Ok"
        <5>1. { s \in Tasks : ended'[s] = "Ok" }
                = { s \in Tasks : ended[s] = "Ok" } \cup {t}
          BY <4>1, <4>2, <4>5
        <5>2. { s \in Tasks : ended'[s] = "Panicked" }
                = { s \in Tasks : ended[s] = "Panicked" }
          BY <4>1, <4>2, <4>3, <4>5
        <5>3. Execution!Succeed(t)
          BY <2>1, <2>2, <4>1, <4>4, <5>1, <5>2 DEF Execution!Succeed
        <5> QED
          BY <5>3 DEF Execution!Next
      <4>6. CASE ended'[t] = "Panicked"
        <5>1. { s \in Tasks : ended'[s] = "Panicked" }
                = { s \in Tasks : ended[s] = "Panicked" } \cup {t}
          BY <4>1, <4>2, <4>6
        <5>2. { s \in Tasks : ended'[s] = "Ok" }
                = { s \in Tasks : ended[s] = "Ok" }
          BY <4>1, <4>2, <4>3, <4>6
        <5>3. Execution!Panic(t)
          BY <2>1, <2>2, <4>1, <4>4, <5>1, <5>2 DEF Execution!Panic
        <5> QED
          BY <5>3 DEF Execution!Next
      <4> QED
        BY <4>1, <4>2, <4>5, <4>6 DEF JobResults
    <3> QED
      BY <2>4, <3>4, <3>5
  <2> QED
    BY <1>6, <2>3, <2>4
<1>7. CASE UNCHANGED vars
  <2>1. UNCHANGED <<jobs, submitted, starts, ended, outcome, phase>>
    BY <1>7 DEF vars, coordVars, history
  <2>2. Over' = Over
    BY <2>1 DEF Over
  <2> QED
    BY <2>1, <2>2, InvisibleStep
<1> QED
  BY NextCases, <1>1, <1>2, <1>3, <1>4, <1>5, <1>6, <1>7 DEF Deciding

\* The stealing pool begins, ends and answers for jobs only as an execution
\* scope may.
THEOREM PoolRefinesExecution == Spec => SafelyRefinesExecution
<1>1. Init => Execution!Init
  <2> SUFFICES ASSUME Init PROVE Execution!Init
    OBVIOUS
  <2>1. /\ { t \in Tasks : starts[t] > 0 } = {}
        /\ { t \in Tasks : ended[t] = "Ok" } = {}
        /\ { t \in Tasks : ended[t] = "Panicked" } = {}
    BY DEF Init
  <2>2. jobs \cup submitted \in JobSets /\ outcome = Pending
    BY DEF Init
  <2> QED
    BY <2>1, <2>2 DEF Execution!Init, Execution!Pending, Pending
<1>2. IndInv /\ IndInv' /\ [Next]_vars => [Execution!Next]_(Execution!vars)
  BY ExecutionStep
<1> QED
  BY <1>1, <1>2, InductiveInvariant, PTL
     DEF Spec, SafelyRefinesExecution, Execution!SafeSpec

-----------------------------------------------------------------------------
(* The scope.                                                              *)

\* A step of the scope is a step of the pool or leaves the pool alone.
LEMMA ScopeStepsThePool == [ScopeNext]_allVars => [Next]_vars
<1> SUFFICES ASSUME ScopeNext PROVE [Next]_vars
  BY DEF allVars
<1>1. CASE Cancel \/ Answer \/ Answered
  BY <1>1 DEF Cancel, Answer, Answered, allVars
<1>2. CASE PoolCoordinator
  BY <1>2 DEF PoolCoordinator, Next
<1>3. ASSUME NEW w \in Workers, ScopeWorker(w) \/ PoolSpurious(w)
      PROVE  [Next]_vars
  <2>1. Worker(w) \/ SpuriousWake(w) \/ UNCHANGED vars
    BY <1>3 DEF ScopeWorker, PoolSpurious, WrapCheck, EnterBody, EndJob,
                PoolWorker, Worker
  <2> QED
    BY <2>1 DEF Next
<1> QED
  BY <1>1, <1>2, <1>3 DEF ScopeNext

\* Whatever is true of the pool is true of the scope that runs on it.
THEOREM ScopeRunsThePool == ScopeSpec => Spec
<1>1. ScopeInit => Init
  BY DEF ScopeInit
<1> QED
  BY <1>1, ScopeStepsThePool, PTL DEF ScopeSpec, Spec

-----------------------------------------------------------------------------
(* The steps of the pool do not disturb what the scope keeps.              *)

\* A step of the pool that ends no job.
PoolStep ==
  \/ Coordinator
  \/ \E w \in Workers : Searching(w) \/ Take(w) \/ SendCompletion(w)

\* Such a step ends no job, forgets no entry, leaves running jobs alone and
\* changes no answer the pool has given.
LEMMA PoolStepFacts ==
  ASSUME IndInv, PoolStep
  PROVE  /\ ended' = ended
         /\ \A t \in Tasks : starts[t] > 0 => starts'[t] > 0
         /\ \A w \in Workers : pc[w] = "run" => pc'[w] = "run" /\ held'[w] = held[w]
         /\ Over => Over' /\ outcome' = outcome
<1>0. TypeOK /\ HoldsJob /\ Spawned /\ JobInv /\ ShutdownPhases
  BY DEF IndInv, AnswerInv
<1>1. CASE Coordinator
  <2>1. UNCHANGED <<starts, ended, held>> /\ ~Over
    BY <1>1 DEF Coordinator, Validate, Scan, Enqueue, CheckDone, Receive,
         RequestShutdown, DropReceiver, Join, workerVars, history, Over
  <2>2. \A w \in Workers : pc[w] = "run" => pc'[w] = "run"
    BY <1>0, <1>1 DEF Coordinator, Validate, Scan, Enqueue, CheckDone, Receive,
         RequestShutdown, DropReceiver, Join, workerVars, NotifyAll, Spawned
  <2> QED
    BY <2>1, <2>2
<1>2. ASSUME NEW w \in Workers, Searching(w) \/ Take(w) \/ SendCompletion(w)
      PROVE  /\ ended' = ended
             /\ \A t \in Tasks : starts[t] > 0 => starts'[t] > 0
             /\ \A v \in Workers : pc[v] = "run" => pc'[v] = "run" /\ held'[v] = held[v]
             /\ Over => Over' /\ outcome' = outcome
  <2>1. UNCHANGED <<phase, outcome>>
    BY <1>2, WorkerFrame DEF Searching, Worker
  <2>2. CASE Searching(w)
    BY <1>0, <2>1, <2>2, SearchFacts DEF Over
  <2>3. CASE Take(w)
    <3>1. PICK t \in Tasks :
             /\ starts'[t] = 1 /\ ended' = ended /\ pc[w] = "take"
             /\ \A v \in Workers : v # w => held'[v] = held[v] /\ pc'[v] = pc[v]
             /\ \A s \in Tasks : s # t => starts'[s] = starts[s]
      BY <1>0, <2>3, TakeFresh
    <3> QED
      BY <2>1, <3>1 DEF Over
  <2>4. CASE SendCompletion(w)
    BY <1>0, <2>1, <2>4, SendFacts DEF Over
  <2> QED
    BY <1>2, <2>2, <2>3, <2>4
<1> QED
  BY <1>1, <1>2 DEF PoolStep

\* The steps of the scope: the token, the wrapped job, and the pool's own.
LEMMA ScopeCases ==
  ASSUME [ScopeNext]_allVars
  PROVE  \/ Cancel \/ Answer
         \/ PoolStep /\ UNCHANGED scopeVars
         \/ \E w \in Workers : WrapCheck(w) \/ EnterBody(w) \/ EndJob(w)
         \/ UNCHANGED allVars
BY DEF ScopeNext, Answered, PoolCoordinator, PoolSpurious, ScopeWorker,
       PoolWorker, PoolStep, Searching

-----------------------------------------------------------------------------
(* The invariant of the scope.                                             *)

\* The answer of a cancelled scope is none of the pool's answers.
LEMMA CancelledDiffers ==
  /\ Cancelled # Pending /\ Cancelled # Success
  /\ TypeOK => outcome # Cancelled
<1>1. Cancelled.kind = "Cancelled"
  BY DEF Cancelled
<1>2. \A o \in Outcomes : o.kind # "Cancelled"
  BY DEF Outcomes, Pending, Success, ChannelClosed, TaskFailed, Mismatches
<1>3. Cancelled # Pending /\ Cancelled # Success
  BY DEF Cancelled, Pending, Success
<1> QED
  BY <1>1, <1>2, <1>3 DEF TypeOK

\* ScopeInv is inductive relative to the pool's invariant.
LEMMA ScopeStep ==
  ASSUME IndInv, ScopeInv, [ScopeNext]_allVars
  PROVE  ScopeInv'
<1> USE DEF ScopeInv
<1>0. /\ TypeOK /\ HoldsJob /\ Spawned /\ JobInv /\ HeldStarted
      /\ ShutdownPhases /\ EndedStarted /\ OutcomeTrue
  BY DEF IndInv, AnswerInv, JobInv, PlaceInv
<1>1. CASE Cancel
  <2>1. /\ ~cancelled /\ cancelled' /\ answer = Pending
        /\ doomed' = { t \in Tasks : starts[t] = 0 }
        /\ UNCHANGED <<wrap, answer, entered>> /\ UNCHANGED vars
    BY <1>1 DEF Cancel
  <2>2. UNCHANGED <<pc, held, starts, ended, outcome, phase>>
    BY <2>1 DEF vars, coordVars, workerVars, history
  <2>3. \A w \in Workers : wrap[w] # "check" => starts[held[w]] = 1
    BY <1>0 DEF WrapInv, HoldsJob, HeldStarted
  <2>4. ScopeTypeOK'
    BY <1>1, <2>1 DEF ScopeTypeOK, Cancel
  <2>5. WrapInv' /\ EnteredInv'
    BY <2>1, <2>2 DEF WrapInv, EnteredInv
  <2>6. DoomedInv'
    <3>1. \A t \in entered : t \notin doomed'
      BY <2>1 DEF EnteredInv
    <3>2. \A w \in Workers : wrap[w] \in {"enter", "body"} => held[w] \notin doomed'
      BY <2>1, <2>3
    <3> QED
      BY <2>1, <2>2, <3>1, <3>2 DEF DoomedInv
  <2>7. ScopeAnswer'
    BY <2>1, AnswersDiffer, CancelledDiffers DEF ScopeAnswer
  <2> QED
    BY <2>4, <2>5, <2>6, <2>7
<1>2. CASE Answer
  <2>1. /\ Over /\ answer' = ScopeResult /\ UNCHANGED <<cancelled, wrap, entered, doomed>>
        /\ UNCHANGED vars
    BY <1>2 DEF Answer
  <2>2. UNCHANGED <<pc, held, starts, ended, outcome, phase>>
    BY <2>1 DEF vars, coordVars, workerVars, history
  <2>3. Over' = Over
    BY <2>2 DEF Over
  <2>4. ScopeAnswer'
    BY <1>0, <2>1, <2>2, <2>3, CancelledDiffers DEF ScopeAnswer, ScopeResult
  <2> QED
    BY <2>1, <2>2, <2>4 DEF ScopeTypeOK, WrapInv, EnteredInv, DoomedInv
<1>3. CASE PoolStep /\ UNCHANGED scopeVars
  <2>1. UNCHANGED <<cancelled, wrap, answer, entered, doomed>>
    BY <1>3 DEF scopeVars
  <2>2. /\ ended' = ended
        /\ \A t \in Tasks : starts[t] > 0 => starts'[t] > 0
        /\ \A w \in Workers : pc[w] = "run" => pc'[w] = "run" /\ held'[w] = held[w]
        /\ Over => Over' /\ outcome' = outcome
    BY <1>3, PoolStepFacts
  <2>3. WrapInv'
    BY <2>1, <2>2 DEF WrapInv
  <2>4. EnteredInv'
    BY <2>1, <2>2 DEF EnteredInv, ScopeTypeOK
  <2>5. DoomedInv'
    BY <2>1, <2>2 DEF DoomedInv, WrapInv
  <2>6. ScopeAnswer'
    BY <2>1, <2>2, AnswersDiffer, CancelledDiffers DEF ScopeAnswer
  <2> QED
    BY <2>1, <2>3, <2>4, <2>5, <2>6 DEF ScopeTypeOK
<1>4. ASSUME NEW w \in Workers, WrapCheck(w) \/ EnterBody(w) PROVE ScopeInv'
  <2>1. /\ pc[w] = "run" /\ UNCHANGED <<cancelled, answer, doomed>> /\ UNCHANGED vars
        /\ \A v \in Workers : v # w => wrap'[v] = wrap[v]
    BY <1>4 DEF WrapCheck, EnterBody, ScopeTypeOK
  <2>2. UNCHANGED <<pc, held, starts, ended, outcome, phase>>
    BY <2>1 DEF vars, coordVars, workerVars, history
  <2>3. held[w] \in Tasks /\ starts[held[w]] = 1
    BY <1>0, <2>1 DEF HoldsJob, HeldStarted, TypeOK
  <2>4. ScopeAnswer'
    BY <2>1, <2>2 DEF ScopeAnswer, Over
  <2>5. CASE WrapCheck(w)
    <3>1. /\ entered' = entered
          /\ wrap'[w] = IF cancelled THEN "skip" ELSE "enter"
          /\ wrap' \in [Workers -> {"check", "skip", "enter", "body"}]
      BY <2>5 DEF WrapCheck, AfterCheck, ScopeTypeOK
    <3> QED
      BY <2>1, <2>2, <2>4, <3>1 DEF ScopeTypeOK, WrapInv, EnteredInv, DoomedInv
  <2>6. CASE EnterBody(w)
    <3>1. /\ entered' = entered \cup {held[w]} /\ wrap[w] = "enter" /\ wrap'[w] = "body"
          /\ wrap' \in [Workers -> {"check", "skip", "enter", "body"}]
      BY <2>6 DEF EnterBody, ScopeTypeOK
    <3>2. ScopeTypeOK' /\ WrapInv'
      BY <2>1, <2>2, <2>3, <3>1 DEF ScopeTypeOK, WrapInv
    <3>3. EnteredInv'
      BY <2>1, <2>2, <2>3, <3>1 DEF EnteredInv
    <3>4. held[w] \notin doomed
      BY <3>1 DEF DoomedInv
    <3>5. DoomedInv'
      BY <2>1, <2>2, <3>1, <3>4 DEF DoomedInv
    <3> QED
      BY <2>4, <3>2, <3>3, <3>5
  <2> QED
    BY <1>4, <2>5, <2>6
<1>5. ASSUME NEW w \in Workers, EndJob(w) PROVE ScopeInv'
  <2>1. /\ wrap[w] \in {"body", "skip"} /\ RunJob(w)
        /\ wrap'[w] = "check" /\ \A v \in Workers : v # w => wrap'[v] = wrap[v]
        /\ wrap' \in [Workers -> {"check", "skip", "enter", "body"}]
        /\ UNCHANGED <<cancelled, answer, entered, doomed>>
    BY <1>5 DEF EndJob, ScopeTypeOK
  <2>2. /\ UNCHANGED <<held, starts>> /\ pc[w] = "run"
        /\ \A v \in Workers : v # w => pc'[v] = pc[v]
        /\ \A t \in Tasks : t # held[w] => ended'[t] = ended[t]
    BY <1>0, <2>1, RunFacts
  <2>3. UNCHANGED <<phase, outcome>>
    BY <2>1, WorkerFrame DEF Worker
  <2>4. held[w] \in entered \/ cancelled
    BY <2>1 DEF WrapInv
  <2>5. EnteredInv'
    BY <2>1, <2>2, <2>4 DEF EnteredInv
  <2>6. ScopeAnswer'
    BY <2>1, <2>3 DEF ScopeAnswer, Over
  <2> QED
    BY <2>1, <2>2, <2>5, <2>6 DEF ScopeTypeOK, WrapInv, DoomedInv
<1>6. CASE UNCHANGED allVars
  <2>1. UNCHANGED <<cancelled, wrap, answer, entered, doomed, pc, held, starts,
                    ended, outcome, phase>>
    BY <1>6 DEF allVars, scopeVars, vars, coordVars, workerVars, history
  <2> QED
    BY <2>1 DEF ScopeTypeOK, WrapInv, EnteredInv, DoomedInv, ScopeAnswer, Over
<1> QED
  BY ScopeCases, <1>1, <1>2, <1>3, <1>4, <1>5, <1>6

\* ScopeInv holds in every state of a scope, next to the pool's invariant.
THEOREM ScopeInvariant == ScopeSpec => [](IndInv /\ ScopeInv)
<1>1. ScopeInit => ScopeInv
  <2> SUFFICES ASSUME ScopeInit PROVE ScopeInv
    OBVIOUS
  <2>1. ScopeTypeOK /\ WrapInv /\ DoomedInv
    BY DEF ScopeInit, ScopeTypeOK, WrapInv, DoomedInv
  <2>2. EnteredInv
    BY DEF ScopeInit, Init, EnteredInv
  <2>3. ScopeAnswer
    BY AnswersDiffer, CancelledDiffers DEF ScopeInit, ScopeAnswer
  <2> QED
    BY <2>1, <2>2, <2>3 DEF ScopeInv
<1>2. IndInv /\ ScopeInv /\ [ScopeNext]_allVars => ScopeInv'
  BY ScopeStep
<1> QED
  BY <1>1, <1>2, ScopeRunsThePool, InductiveInvariant, PTL DEF ScopeSpec

\* All jobs of the pool returned when its outcome is Ok.
LEMMA SuccessMeansOk ==
  ASSUME IndInv, outcome = Success
  PROVE  \A t \in Tasks : ended[t] = "Ok"
BY DEF IndInv, AnswerInv, JobInv, OutcomeTrue, CompletedOk

\* Ok is never returned for a scope in which a body was skipped.
THEOREM OkIsHonest == ScopeSpec => []OkMeansAllBodiesRan
<1>1. IndInv /\ ScopeInv => OkMeansAllBodiesRan
  <2> SUFFICES ASSUME IndInv, ScopeInv, answer = Success PROVE entered = Tasks
    BY DEF OkMeansAllBodiesRan
  <2>1. outcome = Success /\ ~cancelled
    BY DEF ScopeInv, ScopeAnswer
  <2>2. \A t \in Tasks : t \in entered
    BY <2>1, SuccessMeansOk DEF ScopeInv, EnteredInv
  <2> QED
    BY <2>2 DEF ScopeInv, ScopeTypeOK
<1> QED
  BY <1>1, ScopeInvariant, PTL

\* Cancelled is returned only for a token that was set, and hides no panic.
THEOREM CancelledIsHonest == ScopeSpec => []CancelledIsTrue
<1>1. IndInv /\ ScopeInv => CancelledIsTrue
  BY SuccessMeansOk DEF CancelledIsTrue, ScopeInv, ScopeAnswer
<1> QED
  BY <1>1, ScopeInvariant, PTL

\* The bodies of tasks that nobody had taken at cancel() are never entered.
THEOREM CancellationSkips == ScopeSpec => []CancelledTasksSkipped
<1>1. IndInv /\ ScopeInv => CancelledTasksSkipped
  BY DEF CancelledTasksSkipped, ScopeInv, DoomedInv
<1> QED
  BY <1>1, ScopeInvariant, PTL

\* A scope keeps the safety half of the promise of an execution scope, and
\* its pool drains as boundedly as without a token.
THEOREM ScopeKeepsPoolPromise == ScopeSpec => SafelyRefinesExecution /\ []BoundedDrain
BY ScopeRunsThePool, PoolRefinesExecution, DrainIsBounded, PTL
=============================================================================
