------------------------ MODULE SchedulersAgree_proofs ------------------------
(***************************************************************************)
(* What is proved of the fixed pool for every graph and number of workers: *)
(* its inductive invariant IndInv in three layers (messages, jobs, what    *)
(* the coordinator concludes), the three properties that follow from it,   *)
(* and that the pool implements TaskExecution; at the end, that its        *)
(* verdict is the one of the deterministic scheduler.                      *)
(***************************************************************************)
EXTENDS SchedulersAgree, TLAPS, FiniteSetTheorems, WellFoundedInduction

-----------------------------------------------------------------------------
(* Counting the messages of a channel.                                     *)

\* The positions of s that hold a member of A.
Where(s, A) == { i \in 1 .. Len(s) : s[i] \in A }

\* There are finitely many of them.
LEMMA WhereFinite ==
  ASSUME NEW S, NEW s \in Seq(S), NEW A
  PROVE  IsFiniteSet(Where(s, A)) /\ Cardinality(Where(s, A)) \in Nat
<1>1. Len(s) \in Nat
  OBVIOUS
<1>2. IsFiniteSet(1 .. Len(s))
  BY <1>1, FS_Interval
<1>3. Where(s, A) \in SUBSET (1 .. Len(s))
  BY DEF Where
<1>4. IsFiniteSet(Where(s, A))
  BY <1>2, <1>3, FS_Subset
<1> QED
  BY <1>4, FS_CardinalityType

\* Sending a message adds the last position, if it counts.
LEMMA WhereAppend ==
  ASSUME NEW S, NEW s \in Seq(S), NEW A, NEW x \in S
  PROVE  Cardinality(Where(Append(s, x), A))
           = Cardinality(Where(s, A)) + (IF x \in A THEN 1 ELSE 0)
<1> DEFINE n == Len(s)
           r == Append(s, x)
<1>1. /\ n \in Nat /\ Len(r) = n + 1 /\ r[n + 1] = x
      /\ \A i \in 1 .. n : r[i] = s[i]
      /\ n + 1 \notin 1 .. n
      /\ \A i \in 1 .. n + 1 : i \in 1 .. n \/ i = n + 1
      /\ n + 1 \in 1 .. n + 1
      /\ \A i \in 1 .. n : i \in 1 .. n + 1
  OBVIOUS
<1> HIDE DEF n, r
<1>2. n = Len(s)
  BY DEF n
<1>3. CASE x \in A
  <2>1. Where(r, A) = Where(s, A) \cup {n + 1}
    BY <1>1, <1>2, <1>3 DEF Where
  <2>2. n + 1 \notin Where(s, A)
    BY <1>1, <1>2 DEF Where
  <2>3. Cardinality(Where(s, A) \cup {n + 1}) = Cardinality(Where(s, A)) + 1
    BY <2>2, WhereFinite, FS_AddElement
  <2> QED
    BY <1>3, <2>1, <2>3 DEF r
<1>4. CASE x \notin A
  <2>1. Where(r, A) = Where(s, A)
    BY <1>1, <1>2, <1>4 DEF Where
  <2>2. Cardinality(Where(s, A)) \in Nat
    BY WhereFinite
  <2> QED
    BY <1>4, <2>1, <2>2 DEF r
<1> QED
  BY <1>3, <1>4

\* Receiving a message moves all positions down by one and drops the first.
LEMMA WhereTail ==
  ASSUME NEW S, NEW s \in Seq(S), s # << >>, NEW A
  PROVE  Cardinality(Where(Tail(s), A))
           = Cardinality(Where(s, A)) - (IF s[1] \in A THEN 1 ELSE 0)
<1> DEFINE n == Len(s)
           r == Tail(s)
           P == Where(s, A) \ {1}
           Q == Where(r, A)
           f == [i \in P |-> i - 1]
<1>1. /\ n \in Nat /\ Len(r) = n - 1 /\ 1 \in 1 .. n
      /\ \A i \in 1 .. n - 1 : r[i] = s[i + 1]
      /\ \A i \in 1 .. n - 1 : i + 1 \in 1 .. n /\ i + 1 # 1 /\ i + 1 - 1 = i
      /\ \A i \in 1 .. n : i # 1 => i - 1 \in 1 .. n - 1 /\ (i - 1) + 1 = i
  OBVIOUS
<1>2. P \subseteq 1 .. n /\ 1 \notin P /\ Q \subseteq 1 .. n - 1
  BY <1>1 DEF Where
<1>3. \A i \in P : i - 1 \in Q
  <2> SUFFICES ASSUME NEW i \in P PROVE i - 1 \in Q
    OBVIOUS
  <2>1. i \in 1 .. n /\ i # 1 /\ s[i] \in A
    BY DEF Where
  <2>2. i - 1 \in 1 .. n - 1 /\ r[i - 1] = s[i]
    BY <1>1, <2>1
  <2> QED
    BY <1>1, <2>1, <2>2 DEF Where
<1>4. \A j \in Q : j + 1 \in P /\ (j + 1) - 1 = j
  <2> SUFFICES ASSUME NEW j \in Q PROVE j + 1 \in P /\ (j + 1) - 1 = j
    OBVIOUS
  <2>1. j \in 1 .. n - 1 /\ r[j] \in A
    BY <1>1 DEF Where
  <2>2. j + 1 \in 1 .. n /\ j + 1 # 1 /\ s[j + 1] \in A
    BY <1>1, <2>1
  <2> QED
    BY <2>1, <2>2 DEF Where
<1>5. \A i, j \in P : i - 1 = j - 1 => i = j
  BY <1>1, <1>2
<1> HIDE DEF P, Q
<1>6. f \in Bijection(P, Q)
  <2>1. f \in [P -> Q]
    BY <1>3
  <2>2. \A i, j \in P : f[i] = f[j] => i = j
    BY <1>5
  <2>3. \A j \in Q : \E i \in P : f[i] = j
    <3> SUFFICES ASSUME NEW j \in Q PROVE \E i \in P : f[i] = j
      OBVIOUS
    <3>1. j + 1 \in P /\ f[j + 1] = j
      BY <1>4
    <3> QED
      BY <3>1
  <2> HIDE DEF f
  <2> QED
    BY <2>1, <2>2, <2>3 DEF Bijection, Injection, Surjection, IsInjective
<1>7. IsFiniteSet(P) /\ Cardinality(P)
        = Cardinality(Where(s, A)) - (IF s[1] \in A THEN 1 ELSE 0)
  <2>1. IsFiniteSet(Where(s, A)) /\ Cardinality(Where(s, A)) \in Nat
    BY WhereFinite
  <2>2. 1 \in Where(s, A) <=> s[1] \in A
    BY <1>1 DEF Where
  <2>3. /\ IsFiniteSet(Where(s, A) \ {1})
        /\ Cardinality(Where(s, A) \ {1})
             = IF 1 \in Where(s, A) THEN Cardinality(Where(s, A)) - 1
               ELSE Cardinality(Where(s, A))
    BY <2>1, FS_RemoveElement
  <2> QED
    BY <2>1, <2>2, <2>3 DEF P
<1>8. Cardinality(Q) = Cardinality(P)
  <2>1. ExistsBijection(P, Q)
    BY <1>6 DEF ExistsBijection
  <2> QED
    BY <1>7, <2>1, FS_Bijection
<1> QED
  BY <1>7, <1>8 DEF Q

-----------------------------------------------------------------------------
(* Types, and who holds a job.                                             *)

\* Worker 0 exists, and the marks for no task, no holder and shutdown are
\* none of the things they are mixed with.
LEMMA Marks ==
  /\ 0 \in Workers /\ Free \notin Workers
  /\ \A t \in Tasks : t # NoTask /\ t # Shutdown
BY NAssumption, TasksAssumption DEF Workers, Free, NoTask, Shutdown

\* The first task of a nonempty batch is one of its members (BTreeSet order).
LEMMA FirstMember ==
  ASSUME NEW S \in SUBSET Tasks, S # {}
  PROVE  First(S) \in S
<1>1. S \subseteq Nat
  BY TasksAssumption
<1>2. \E t \in S : \A u \in S : ~(<<u, t>> \in OpToRel(<, Nat))
  BY <1>1, WFMin, NatLessThanWellFounded, Zenon
<1>3. \E t \in S : \A u \in S : ~(u < t)
  BY <1>1, <1>2, Zenon DEF OpToRel
<1>4. \E t \in S : \A u \in S : t <= u
  BY <1>1, <1>3
<1> QED
  BY <1>4, Zenon DEF First

\* No worker exists before execute accepted the map of jobs.
LEMMA SpawnedInvariant == Spec => []Spawned
<1>1. Init => Spawned
  BY DEF Init, Spawned
<1>2. Spawned /\ [Next]_vars => Spawned'
  <2> SUFFICES ASSUME Spawned, [Next]_vars PROVE Spawned'
    OBVIOUS
  <2> USE DEF coordVars, workerVars, history
  <2>1. CASE Coordinator
    BY <2>1 DEF Coordinator, Validate, Scan, Dispatch, CheckDone, Receive,
                SendShutdown, DropSender, Join, Spawned
  <2>2. ASSUME NEW w \in Workers, Worker(w) PROVE Spawned'
    <3>1. pc[w] # "unspawned" /\ phase' = phase
      BY <2>2 DEF Worker, LockReceiver, TakeJob, TakeShutdown, RunJob,
                  SendCompletion
    <3> QED
      BY <3>1 DEF Spawned
  <2>3. CASE UNCHANGED vars
    BY <2>3 DEF vars, Spawned
  <2> QED
    BY <2>1, <2>2, <2>3 DEF Next, Returned
<1> QED
  BY <1>1, <1>2, PTL DEF Spec

\* Every variable stays in its type, and workers at "run" or "send" hold a
\* job, along each step of the coordinator and of a worker.
THEOREM TypeCorrect == Spec => [](TypeOK /\ HoldsJob)
<1> USE DEF HoldsJob
<1>1. Init => TypeOK /\ HoldsJob
  <2> SUFFICES ASSUME Init PROVE TypeOK /\ HoldsJob
    OBVIOUS
  <2>1. jobs \subseteq Nat /\ N \in Nat
    BY JobSetsAssumption, NAssumption DEF Init
  <2>2. /\ << >> \in Seq(Completions) /\ << >> \in Seq(Tasks)
        /\ << >> \in Seq(Tasks \cup {Shutdown})
    OBVIOUS
  <2> QED
    BY <2>1, <2>2 DEF Init, TypeOK, Phases, Pcs, JobResults, Outcomes
<1>2. Spawned /\ TypeOK /\ HoldsJob /\ [Next]_vars => TypeOK' /\ HoldsJob'
  <2> SUFFICES ASSUME Spawned, TypeOK, HoldsJob, [Next]_vars
               PROVE  TypeOK' /\ HoldsJob'
    OBVIOUS
  <2> USE DEF coordVars, workerVars, history
  <2>0. CASE Validate
    <3>1. jobs \subseteq Nat /\ Tasks \subseteq Nat
      BY TasksAssumption DEF TypeOK
    <3>2. outcome' \in Outcomes
      <4>1. JobSetMismatch(Tasks \ jobs, jobs \ Tasks) \in Mismatches
        BY <3>1 DEF Mismatches, JobSetMismatch
      <4>2. outcome' = outcome \/ outcome' \in Mismatches
        BY <2>0, <4>1 DEF Validate
      <4> QED
        BY <4>2 DEF TypeOK, Outcomes
    <3>3. pc' \in [Workers -> Pcs] /\ phase' \in Phases
      BY <2>0 DEF Validate, TypeOK, Pcs, Phases
    <3>4. /\ \A w \in Workers : held[w] = NoTask /\ held' = held
          /\ \A w \in Workers : pc'[w] \in {"unspawned", "lock"}
      BY <2>0 DEF Validate, Spawned
    <3>5. HoldsJob'
      BY <3>4
    <3> QED
      BY <2>0, <3>2, <3>3, <3>5 DEF Validate, TypeOK
  <2>1. CASE Scan
    BY <2>1 DEF TypeOK, Scan, ReadyTasks, Phases
  <2>2. CASE Dispatch
    <3>1. First(batch) \in Tasks
      BY <2>2, FirstMember DEF Dispatch, TypeOK
    <3>2. work' \in Seq(Tasks \cup {Shutdown})
      <4>1. work' = work \/ work' = Append(work, First(batch))
        BY <2>2 DEF Dispatch
      <4>2. work \in Seq(Tasks \cup {Shutdown})
        BY DEF TypeOK
      <4> QED
        BY <3>1, <4>1, <4>2
    <3>3. /\ batch' \subseteq Tasks /\ submitted' \subseteq Tasks
          /\ running' \in Int /\ jobs' \subseteq Nat
      <4>1. jobs' = jobs \ {First(batch)}
        BY <2>2 DEF Dispatch
      <4>2. batch' = batch \/ batch' = batch \ {First(batch)}
        BY <2>2 DEF Dispatch
      <4>3. submitted' = submitted \/ submitted' = submitted \cup {First(batch)}
        BY <2>2 DEF Dispatch
      <4>4. running' = running \/ running' = running + 1
        BY <2>2 DEF Dispatch
      <4>5. /\ jobs \subseteq Nat /\ batch \subseteq Tasks
            /\ submitted \subseteq Tasks /\ running \in Int
        BY DEF TypeOK
      <4>6. batch' \subseteq Tasks /\ jobs' \subseteq Nat
        BY <4>1, <4>2, <4>5
      <4>7. submitted' \subseteq Tasks
        BY <3>1, <4>3, <4>5
      <4> QED
        BY <4>4, <4>5, <4>6, <4>7
    <3>4. phase' \in Phases /\ outcome' \in Outcomes
      BY <2>2 DEF Dispatch, TypeOK, Phases, Outcomes
    <3> QED
      BY <2>2, <3>2, <3>3, <3>4 DEF Dispatch, TypeOK
  <2>3. CASE CheckDone
    BY <2>3 DEF TypeOK, CheckDone, Phases, Outcomes
  <2>4. CASE Receive
    <3>1. CASE channel = << >>
      BY <2>4, <3>1 DEF TypeOK, Receive, Phases, Outcomes
    <3>2. CASE channel # << >>
      <4>1. channel \in Seq(Completions)
        BY DEF TypeOK
      <4>2. Head(channel) \in Completions /\ Tail(channel) \in Seq(Completions)
        BY <3>2, <4>1
      <4>3. Head(channel).task \in Tasks
        BY <4>2 DEF Completions
      <4>4. TypeOK'
        <5>0. /\ completedOrder \in Seq(Tasks)
              /\ completedOrder' \in { completedOrder,
                                      Append(completedOrder, Head(channel).task) }
          BY <2>4, <3>2 DEF TypeOK, Receive
        <5>1. completedOrder' \in Seq(Tasks)
          BY <4>3, <5>0
        <5>2. completed' \subseteq Tasks
          BY <2>4, <3>2, <4>3 DEF TypeOK, Receive
        <5>3. outcome' \in Outcomes
          BY <2>4, <3>2, <4>3 DEF TypeOK, Receive, Outcomes
        <5>4. phase' \in Phases /\ running' \in Int
          BY <2>4, <3>2 DEF TypeOK, Receive, Phases
        <5>5. channel' \in Seq(Completions)
          BY <2>4, <3>2, <4>2 DEF Receive
        <5> QED
          BY <2>4, <5>1, <5>2, <5>3, <5>4, <5>5 DEF TypeOK, Receive
      <4>5. HoldsJob'
        BY <2>4 DEF Receive
      <4> QED
        BY <4>4, <4>5
    <3> QED
      BY <3>1, <3>2
  <2>5. CASE SendShutdown
    <3>1. work' \in Seq(Tasks \cup {Shutdown})
      <4>1. work' = work \/ work' = Append(work, Shutdown)
        BY <2>5 DEF SendShutdown, ShutdownLast
      <4>2. work \in Seq(Tasks \cup {Shutdown})
        BY DEF TypeOK
      <4> QED
        BY <4>1, <4>2
    <3>2. goodbyes' \in Nat
      BY <2>5 DEF SendShutdown, TypeOK
    <3> QED
      BY <2>5, <3>1, <3>2 DEF SendShutdown, TypeOK
  <2>6. CASE DropSender \/ Join
    BY <2>6 DEF TypeOK, DropSender, Join, Phases
  <2>7. ASSUME NEW w \in Workers, Worker(w) PROVE TypeOK' /\ HoldsJob'
    <3> USE DEF Goto
    <3>1. CASE LockReceiver(w)
      BY <3>1 DEF LockReceiver, TypeOK, Pcs
    <3>2. CASE TakeJob(w)
      <4>1. work \in Seq(Tasks \cup {Shutdown}) /\ work # << >> /\ Head(work) # Shutdown
        BY <3>2 DEF TakeJob, TypeOK
      <4>2. Head(work) \in Tasks /\ Tail(work) \in Seq(Tasks \cup {Shutdown})
        BY <4>1
      <4>3. /\ held' \in [Workers -> Tasks \cup {NoTask}]
            /\ starts' \in [Tasks -> Nat]
            /\ pc' \in [Workers -> Pcs]
        BY <3>2, <4>2 DEF TakeJob, TypeOK, Pcs
      <4>4. HoldsJob'
        BY <3>2, <4>2, Marks DEF TakeJob, TypeOK
      <4>5. recvLock' \in Workers \cup {Free}
        BY <3>2 DEF TakeJob, GuardDropped
      <4> QED
        BY <3>2, <4>2, <4>3, <4>4, <4>5 DEF TakeJob, TypeOK
    <3>3. CASE TakeShutdown(w)
      <4>1. work' \in Seq(Tasks \cup {Shutdown})
        <5>1. work \in Seq(Tasks \cup {Shutdown})
          BY DEF TypeOK
        <5>2. work' = work \/ (work # << >> /\ work' = Tail(work))
          BY <3>3 DEF TakeShutdown
        <5> QED
          BY <5>1, <5>2
      <4>2. recvLock' \in Workers \cup {Free} /\ pc' \in [Workers -> Pcs]
        BY <3>3 DEF TakeShutdown, GuardDropped, TypeOK, Pcs
      <4>3. HoldsJob'
        BY <3>3 DEF TakeShutdown, TypeOK
      <4> QED
        BY <3>3, <4>1, <4>2, <4>3 DEF TakeShutdown, TypeOK
    <3>4. CASE RunJob(w)
      <4>1. held[w] \in Tasks
        BY <3>4 DEF RunJob, TypeOK
      <4> QED
        BY <3>4, <4>1 DEF RunJob, TypeOK, Pcs
    <3>5. CASE SendCompletion(w)
      <4>1. [task |-> held[w], result |-> result[w]] \in Completions
        BY <3>5 DEF SendCompletion, TypeOK, Completions
      <4>2. channel \in Seq(Completions)
        BY DEF TypeOK
      <4>3. channel' \in Seq(Completions)
        BY <3>5, <4>1, <4>2 DEF SendCompletion
      <4> QED
        BY <3>5, <4>3 DEF SendCompletion, TypeOK, Pcs, JobResults
    <3> QED
      BY <2>7, <3>1, <3>2, <3>3, <3>4, <3>5 DEF Worker
  <2>8. CASE UNCHANGED vars
    BY <2>8 DEF TypeOK, vars
  <2> QED
    BY <2>0, <2>1, <2>2, <2>3, <2>4, <2>5, <2>6, <2>7, <2>8
       DEF Next, Coordinator, Returned
<1> QED
  BY <1>1, <1>2, SpawnedInvariant, PTL DEF Spec

-----------------------------------------------------------------------------
(* What each step does.                                                    *)

\* The messages in the two channels.
LEMMA ChannelTyped ==
  ASSUME TypeOK
  PROVE  /\ channel \in Seq(Completions) /\ Len(channel) \in Nat
         /\ \A i \in 1 .. Len(channel) :
               channel[i].task \in Tasks /\ channel[i].result \in JobResults
         /\ work \in Seq(Tasks \cup {Shutdown}) /\ Len(work) \in Nat
         /\ \A i \in 1 .. Len(work) : work[i] \in Tasks \cup {Shutdown}
<1>1. channel \in Seq(Completions) /\ work \in Seq(Tasks \cup {Shutdown})
  BY DEF TypeOK
<1>2. /\ \A i \in 1 .. Len(channel) : channel[i] \in Completions
      /\ \A i \in 1 .. Len(work) : work[i] \in Tasks \cup {Shutdown}
      /\ Len(work) \in Nat /\ Len(channel) \in Nat
  BY <1>1
<1> QED
  BY <1>1, <1>2 DEF Completions

\* The steps of the coordinator that neither hand a job out nor book one.
Deciding == Validate \/ Scan \/ CheckDone \/ SendShutdown \/ DropSender \/ Join

\* Such a step leaves the jobs alone and sends no job.
LEMMA DecideFacts ==
  ASSUME Deciding
  PROVE  /\ UNCHANGED <<submitted, completed, completedOrder, running, held,
                        result, starts, ended, channel, jobs>>
         /\ work' = work \/ (work' = Append(work, Shutdown) /\ SendShutdown)
BY DEF Deciding, Validate, Scan, CheckDone, SendShutdown, ShutdownLast,
       DropSender, Join, coordVars, workerVars, history

\* Sending to a channel keeps what is in it and adds the message.
LEMMA AppendFacts ==
  ASSUME NEW S, NEW s \in Seq(S), NEW x \in S, NEW r, r = Append(s, x)
  PROVE  /\ Len(s) \in Nat /\ Len(r) = Len(s) + 1 /\ r[Len(r)] = x
         /\ Len(r) \in 1 .. Len(r)
         /\ \A i \in 1 .. Len(s) : i \in 1 .. Len(r) /\ r[i] = s[i] /\ i # Len(r)
         /\ \A i \in 1 .. Len(r) : \/ i \in 1 .. Len(s) /\ r[i] = s[i]
                                   \/ i = Len(r) /\ r[i] = x
OBVIOUS

\* Receiving takes the first message and moves the others up.
LEMMA TailFacts ==
  ASSUME NEW S, NEW s \in Seq(S), s # << >>, NEW r, r = Tail(s)
  PROVE  /\ 1 \in 1 .. Len(s) /\ s[1] = Head(s) /\ Len(r) = Len(s) - 1
         /\ Len(s) \in Nat
         /\ \A i \in 1 .. Len(r) : /\ i + 1 \in 1 .. Len(s) /\ r[i] = s[i + 1]
                                   /\ i + 1 # 1
         /\ \A i \in 1 .. Len(s) :
               i = 1 \/ (i - 1 \in 1 .. Len(r) /\ r[i - 1] = s[i])
OBVIOUS

\* A job is handed out: nobody has left while the loop runs, so the send
\* succeeds.
LEMMA DispatchFacts ==
  ASSUME TypeOK, LoopEnded, Dispatch
  PROVE  /\ phase = "dispatch" /\ running < N /\ phase' = phase
         /\ \E t \in batch :
              /\ t \in Tasks
              /\ submitted' = submitted \cup {t}
              /\ batch' = batch \ {t} /\ jobs' = jobs \ {t}
              /\ work' = Append(work, t)
         /\ running' = running + 1
         /\ UNCHANGED <<completed, completedOrder, outcome, goodbyes, senderAlive,
                        channel, pc, held, result, starts, ended>>
<1>1. ~AllExited
  BY Marks DEF AllExited, Dispatch, LoopEnded
<1>2. First(batch) \in batch /\ First(batch) \in Tasks
  BY FirstMember DEF Dispatch, TypeOK
<1> QED
  BY <1>1, <1>2 DEF Dispatch, Room, workerVars, history

\* A completion is booked: a panicked task ends the loop, any other one is
\* reported.
LEMMA ReceiveFacts ==
  ASSUME TypeOK, LoopEnded, Receive
  PROVE  /\ channel # << >> /\ phase = "receive"
         /\ channel[1].task \in Tasks
         /\ channel' = Tail(channel)
         /\ running' = running - 1
         /\ \/ /\ channel[1].result = "Panicked"
               /\ phase' = "shutdown" /\ outcome' = TaskFailed(channel[1].task)
               /\ completed' = completed /\ completedOrder' = completedOrder
            \/ /\ channel[1].result = "Ok"
               /\ phase' = "scan" /\ outcome' = outcome
               /\ completed' = completed \cup {channel[1].task}
               /\ completedOrder' = Append(completedOrder, channel[1].task)
         /\ UNCHANGED <<jobs, batch, submitted, goodbyes, work, senderAlive, pc,
                        held, result, starts, ended>>
<1>1. ~AllExited /\ channel # << >> /\ phase = "receive"
  BY Marks DEF AllExited, Receive, LoopEnded
<1>2. 1 \in 1 .. Len(channel) /\ channel[1] = Head(channel)
  BY <1>1, ChannelTyped
<1>3. channel[1].task \in Tasks /\ channel[1].result \in JobResults
  BY <1>2, ChannelTyped
<1>4. channel' = Tail(channel) /\ running' = running - 1
  BY <1>1 DEF Receive
<1>5. \/ /\ channel[1].result = "Panicked"
         /\ phase' = "shutdown" /\ outcome' = TaskFailed(channel[1].task)
         /\ completed' = completed /\ completedOrder' = completedOrder
      \/ /\ channel[1].result = "Ok"
         /\ phase' = "scan" /\ outcome' = outcome
         /\ completed' = completed \cup {channel[1].task}
         /\ completedOrder' = Append(completedOrder, channel[1].task)
  BY <1>1, <1>2, <1>3 DEF Receive, JobResults
<1>6. UNCHANGED <<jobs, batch, submitted, goodbyes, work, senderAlive, pc,
                  held, result, starts, ended>>
  BY DEF Receive, workerVars, history
<1> QED
  BY <1>1, <1>3, <1>4, <1>5, <1>6

\* A worker leaves the coordinator's state and its own sender alone.
LEMMA WorkerFrame ==
  ASSUME NEW w \in Workers, Worker(w)
  PROVE  UNCHANGED <<phase, jobs, batch, submitted, completed, running,
                     completedOrder, outcome, goodbyes, senderAlive>>
BY DEF Worker, LockReceiver, TakeJob, TakeShutdown, RunJob, SendCompletion,
       coordVars

\* Locking the receiver moves no job.
LEMMA LockFacts ==
  ASSUME TypeOK, NEW w \in Workers, LockReceiver(w)
  PROVE  /\ UNCHANGED <<work, channel, held, result, starts, ended>>
         /\ pc[w] = "lock" /\ pc'[w] = "recv"
         /\ \A v \in Workers : v # w => pc'[v] = pc[v]
BY DEF LockReceiver, Goto, TypeOK, history

\* The worker enters the job at the head of the channel.
LEMMA TakeJobFacts ==
  ASSUME TypeOK, HoldsJob, NEW w \in Workers, TakeJob(w)
  PROVE  /\ work # << >> /\ work' = Tail(work) /\ work[1] \in Tasks
         /\ held[w] = NoTask /\ held'[w] = work[1]
         /\ \A v \in Workers : v # w => held'[v] = held[v] /\ pc'[v] = pc[v]
         /\ pc[w] = "recv" /\ pc'[w] = "run"
         /\ starts'[work[1]] = starts[work[1]] + 1
         /\ \A t \in Tasks : t # work[1] => starts'[t] = starts[t]
         /\ UNCHANGED <<channel, result, ended>>
<1>1. work # << >> /\ Head(work) # Shutdown /\ work' = Tail(work)
  BY DEF TakeJob
<1>2. work[1] = Head(work) /\ work[1] \in Tasks
  BY <1>1, ChannelTyped
<1>3. /\ pc[w] = "recv" /\ pc'[w] = "run"
      /\ held'[w] = Head(work)
      /\ \A v \in Workers : v # w => held'[v] = held[v] /\ pc'[v] = pc[v]
      /\ UNCHANGED <<channel, result, ended>>
  BY DEF TakeJob, Goto, TypeOK
<1>4. held[w] = NoTask
  BY <1>3 DEF HoldsJob
<1>5. starts' = [starts EXCEPT ![work[1]] = @ + 1]
  BY <1>2 DEF TakeJob
<1>6. /\ starts'[work[1]] = starts[work[1]] + 1
      /\ \A t \in Tasks : t # work[1] => starts'[t] = starts[t]
  BY <1>2, <1>5 DEF TypeOK
<1> QED
  BY <1>1, <1>2, <1>3, <1>4, <1>6

\* The worker leaves at a goodbye or at the end of the channel.
LEMMA TakeShutdownFacts ==
  ASSUME TypeOK, NEW w \in Workers, TakeShutdown(w)
  PROVE  /\ \/ work = << >> /\ work' = work /\ ~senderAlive
            \/ work # << >> /\ work[1] = Shutdown /\ work' = Tail(work)
         /\ UNCHANGED <<channel, held, result, starts, ended>>
         /\ pc[w] = "recv" /\ pc'[w] = "exited"
         /\ \A v \in Workers : v # w => pc'[v] = pc[v]
<1>1. \/ work = << >> /\ work' = work /\ ~senderAlive
      \/ work # << >> /\ Head(work) = Shutdown /\ work' = Tail(work)
  BY DEF TakeShutdown
<1>2. work # << >> => work[1] = Head(work)
  BY ChannelTyped
<1>3. /\ UNCHANGED <<channel, held, result, starts, ended>>
      /\ pc[w] = "recv" /\ pc'[w] = "exited"
      /\ \A v \in Workers : v # w => pc'[v] = pc[v]
  BY DEF TakeShutdown, Goto, TypeOK, history
<1> QED
  BY <1>1, <1>2, <1>3

\* A job ends, Ok or Panicked, in the hands of its worker.
LEMMA RunFacts ==
  ASSUME TypeOK, HoldsJob, NEW w \in Workers, RunJob(w)
  PROVE  /\ UNCHANGED <<work, channel, held, starts>>
         /\ pc[w] = "run" /\ pc'[w] = "send"
         /\ \A v \in Workers : v # w => pc'[v] = pc[v] /\ result'[v] = result[v]
         /\ held[w] \in Tasks /\ held[w] # NoTask
         /\ ended'[held[w]] = result'[w] /\ result'[w] \in JobResults
         /\ \A t \in Tasks : t # held[w] => ended'[t] = ended[t]
<1>1. /\ pc[w] = "run" /\ pc'[w] = "send"
      /\ \A v \in Workers : v # w => pc'[v] = pc[v]
      /\ UNCHANGED <<work, channel, held, starts>>
  BY DEF RunJob, Goto, TypeOK
<1>2. held[w] \in Tasks /\ held[w] # NoTask
  BY <1>1 DEF HoldsJob, TypeOK
<1>3. PICK r \in JobResults : /\ ended' = [ended EXCEPT ![held[w]] = r]
                              /\ result' = [result EXCEPT ![w] = r]
  BY DEF RunJob
<1>4. /\ ended'[held[w]] = r /\ result'[w] = r
      /\ \A t \in Tasks : t # held[w] => ended'[t] = ended[t]
      /\ \A v \in Workers : v # w => result'[v] = result[v]
  BY <1>2, <1>3 DEF TypeOK
<1> QED
  BY <1>1, <1>2, <1>3, <1>4

\* The worker reports its job and asks for the next one.
LEMMA SendFacts ==
  ASSUME TypeOK, HoldsJob, NEW w \in Workers, SendCompletion(w)
  PROVE  /\ pc[w] = "send" /\ held[w] # NoTask /\ held[w] \in Tasks
         /\ held'[w] = NoTask /\ pc'[w] = "lock"
         /\ \A v \in Workers : v # w => /\ held'[v] = held[v] /\ pc'[v] = pc[v]
                                        /\ result'[v] = result[v]
         /\ UNCHANGED <<starts, ended, work>>
         /\ [task |-> held[w], result |-> result[w]] \in Completions
         /\ channel' = Append(channel, [task |-> held[w], result |-> result[w]])
<1>1. /\ pc[w] = "send" /\ held'[w] = NoTask /\ pc'[w] = "lock"
      /\ \A v \in Workers : v # w => /\ held'[v] = held[v] /\ pc'[v] = pc[v]
                                     /\ result'[v] = result[v]
      /\ UNCHANGED <<starts, ended, work>>
  BY DEF SendCompletion, Goto, TypeOK, history
<1>2. held[w] # NoTask /\ held[w] \in Tasks
  BY <1>1 DEF HoldsJob, TypeOK
<1>3. [task |-> held[w], result |-> result[w]] \in Completions
  BY <1>2 DEF TypeOK, Completions
<1>4. channel' = Append(channel, [task |-> held[w], result |-> result[w]])
  BY DEF SendCompletion
<1> QED
  BY <1>1, <1>2, <1>3, <1>4

\* Every step is of one of these kinds.
LEMMA NextCases ==
  ASSUME [Next]_vars
  PROVE  \/ Deciding \/ Dispatch \/ Receive
         \/ \E w \in Workers : Worker(w)
         \/ UNCHANGED vars
BY DEF Next, Coordinator, Returned, Deciding

-----------------------------------------------------------------------------
(* Layer 1: jobs precede the goodbyes, one goodbye for every worker.       *)

Exited == { w \in Workers : pc[w] = "exited" }

\* The workers that have left are finitely many, at most N, and N only when
\* all have.
LEMMA ExitedCount ==
  /\ IsFiniteSet(Exited) /\ Cardinality(Exited) \in Nat
  /\ Cardinality(Exited) = N <=> AllExited
<1>1. N \in Nat /\ N # 0
  BY NAssumption
<1>2. IsFiniteSet(Workers) /\ Cardinality(Workers) = N
  <2>1. 0 \in Int /\ N - 1 \in Int
    BY <1>1
  <2>2. /\ IsFiniteSet(0 .. N - 1)
        /\ Cardinality(0 .. N - 1) = IF 0 > N - 1 THEN 0 ELSE (N - 1) - 0 + 1
    BY <2>1, FS_Interval
  <2> QED
    BY <1>1, <2>2 DEF Workers
<1>3. Exited \in SUBSET Workers
  BY DEF Exited
<1>4. IsFiniteSet(Exited) /\ (Cardinality(Workers) = Cardinality(Exited) => Workers = Exited)
  BY <1>2, <1>3, FS_Subset
<1>5. Cardinality(Exited) \in Nat
  BY <1>4, FS_CardinalityType
<1>6. AllExited <=> Workers = Exited
  BY DEF AllExited, Exited
<1> QED
  BY <1>2, <1>4, <1>5, <1>6

\* GoodbyeCount with the counting operators.
LEMMA GoodbyeSum ==
  GoodbyeCount <=>
    Cardinality(Where(work, {Shutdown})) + goodbyes + Cardinality(Exited) = N
<1>1. { i \in 1 .. Len(work) : work[i] = Shutdown } = Where(work, {Shutdown})
  BY DEF Where
<1> QED
  BY <1>1 DEF GoodbyeCount, Exited

\* While a worker waits for a message, the channel is not both empty and
\* closed: its goodbye is still to be sent or received.  Likewise somebody
\* is left as long as a goodbye is to be sent.
LEMMA GoodbyeForEach ==
  ASSUME TypeOK, LoopEnded, GoodbyeCount
  PROVE  /\ ~AllExited => work # << >> \/ senderAlive
         /\ goodbyes > 0 => ~AllExited
<1> DEFINE k == Cardinality(Where(work, {Shutdown}))
<1>1. k \in Nat /\ k + goodbyes + Cardinality(Exited) = N /\ N \in Nat
  BY GoodbyeSum, WhereFinite, ChannelTyped, NAssumption
<1>2. Cardinality(Exited) \in Nat /\ (Cardinality(Exited) = N <=> AllExited)
  BY ExitedCount
<1>3. goodbyes \in Nat
  BY DEF TypeOK
<1> HIDE DEF k
<1>4. goodbyes > 0 => ~AllExited
  BY <1>1, <1>2, <1>3
<1>5. ASSUME work = << >>, ~senderAlive PROVE AllExited
  <2>1. goodbyes = 0
    BY <1>5 DEF LoopEnded
  <2>2. Where(work, {Shutdown}) = {}
    BY <1>5 DEF Where
  <2>3. k = 0
    BY <2>2, FS_EmptySet DEF k
  <2> QED
    BY <1>1, <1>2, <2>1, <2>3
<1> QED
  BY <1>4, <1>5

\* A goodbye is taken from the head of the channel.
LEMMA TakesGoodbye ==
  ASSUME TypeOK, LoopEnded, GoodbyeCount, NEW w \in Workers, TakeShutdown(w)
  PROVE  work # << >> /\ work[1] = Shutdown /\ work' = Tail(work)
<1>1. ~AllExited
  BY TakeShutdownFacts DEF AllExited
<1> QED
  BY <1>1, TakeShutdownFacts, GoodbyeForEach

\* Nobody says goodbye and nobody leaves before the loop has ended.
LEMMA LoopEndedStep ==
  ASSUME Spawned, TypeOK, HoldsJob, LoopEnded, GoodbyeCount, [Next]_vars
  PROVE  LoopEnded'
<1>1. CASE Validate
  <2>1. /\ phase = "validate" /\ phase' \in {"scan", "refused"}
        /\ UNCHANGED <<goodbyes, work, senderAlive>>
        /\ \A w \in Workers : pc'[w] # "exited"
    BY <1>1 DEF Validate, Spawned
  <2> QED
    BY <2>1 DEF LoopEnded
<1>2. CASE Scan \/ CheckDone
  <2>1. /\ UNCHANGED <<goodbyes, work, senderAlive, pc>>
        /\ phase \in {"scan", "dispatch"} /\ phase' \in {"dispatch", "receive", "shutdown"}
    BY <1>2 DEF Scan, CheckDone, workerVars
  <2> QED
    BY <2>1 DEF LoopEnded
<1>3. CASE SendShutdown
  <2>1. phase = "shutdown" /\ UNCHANGED <<phase, senderAlive, pc>>
    BY <1>3 DEF SendShutdown, workerVars
  <2> QED
    BY <2>1 DEF LoopEnded
<1>4. CASE DropSender \/ Join
  BY <1>4 DEF DropSender, Join, LoopEnded, AllExited, workerVars
<1>5. CASE Dispatch
  <2>1. PICK t \in Tasks : work' = Append(work, t)
    BY <1>5, DispatchFacts
  <2>2. \A i \in 1 .. Len(work') : work'[i] # Shutdown
    <3>1. \A i \in 1 .. Len(work') : \/ i \in 1 .. Len(work) /\ work'[i] = work[i]
                                     \/ work'[i] = t
      BY <2>1, ChannelTyped, AppendFacts
    <3>2. phase = "dispatch"
      BY <1>5, DispatchFacts
    <3> QED
      BY <3>1, <3>2, Marks DEF LoopEnded
  <2> QED
    BY <1>5, <2>2, DispatchFacts DEF LoopEnded
<1>6. CASE Receive
  BY <1>6, ReceiveFacts DEF LoopEnded
<1>7. ASSUME NEW w \in Workers, Worker(w) PROVE LoopEnded'
  <2>1. UNCHANGED <<phase, goodbyes, senderAlive>>
    BY <1>7, WorkerFrame
  <2>2. pc[w] # "exited"
    BY <1>7 DEF Worker, LockReceiver, TakeJob, TakeShutdown, RunJob, SendCompletion
  <2>3. CASE phase \in {"shutdown", "join", "returned"}
    BY <2>1, <2>2, <2>3 DEF LoopEnded, AllExited
  <2>4. CASE phase \notin {"shutdown", "join", "returned"}
    <3>1. ~TakeShutdown(w)
      <4>1. TakeShutdown(w) => work # << >> /\ work[1] = Shutdown
        BY TakesGoodbye
      <4>2. work # << >> => 1 \in 1 .. Len(work)
        BY ChannelTyped
      <4> QED
        BY <2>4, <4>1, <4>2 DEF LoopEnded
    <3>2. pc'[w] # "exited" /\ \A v \in Workers : v # w => pc'[v] = pc[v]
      BY <1>7, <3>1, LockFacts, TakeJobFacts, RunFacts, SendFacts DEF Worker
    <3>3. work' = work \/ (work # << >> /\ work' = Tail(work))
      BY <1>7, <3>1, LockFacts, TakeJobFacts, RunFacts, SendFacts DEF Worker
    <3>4. \A i \in 1 .. Len(work') :
             \/ i \in 1 .. Len(work) /\ work'[i] = work[i]
             \/ i + 1 \in 1 .. Len(work) /\ work'[i] = work[i + 1]
      BY <3>3, ChannelTyped, TailFacts
    <3> QED
      BY <2>1, <2>4, <3>2, <3>4 DEF LoopEnded
  <2> QED
    BY <2>3, <2>4
<1>8. CASE UNCHANGED vars
  BY <1>8 DEF vars, coordVars, workerVars, LoopEnded, AllExited
<1> QED
  BY NextCases, <1>1, <1>2, <1>3, <1>4, <1>5, <1>6, <1>7, <1>8 DEF Deciding

\* Goodbyes are sent behind the jobs, so who takes one leaves no job behind.
LEMMA MessageOrderStep ==
  ASSUME Spawned, TypeOK, HoldsJob, LoopEnded, GoodbyeCount, JobsFirst,
         ExitedAfterJobs, [Next]_vars
  PROVE  JobsFirst' /\ ExitedAfterJobs'
<1>1. CASE work' = work /\ \A w \in Workers : pc'[w] = "exited" => pc[w] = "exited"
  BY <1>1 DEF JobsFirst, ExitedAfterJobs
<1>2. CASE Deciding
  <2>1. \A w \in Workers : pc'[w] = "exited" => pc[w] = "exited"
    BY <1>2 DEF Deciding, Validate, Scan, CheckDone, SendShutdown, DropSender,
                Join, workerVars
  <2>2. CASE work' = Append(work, Shutdown)
    <3>1. /\ Len(work') = Len(work) + 1
          /\ \A i \in 1 .. Len(work') : \/ i \in 1 .. Len(work) /\ work'[i] = work[i]
                                        \/ i = Len(work') /\ work'[i] = Shutdown
      BY <2>2, ChannelTyped, AppendFacts
    <3> QED
      BY <2>1, <3>1, ChannelTyped DEF JobsFirst, ExitedAfterJobs
  <2> QED
    BY <1>1, <1>2, <2>1, <2>2, DecideFacts
<1>3. CASE Dispatch
  <2>1. /\ pc' = pc /\ phase = "dispatch"
        /\ \E t \in Tasks : work' = Append(work, t)
    BY <1>3, DispatchFacts
  <2>2. PICK t \in Tasks : work' = Append(work, t)
    BY <2>1
  <2>3. \A w \in Workers : pc'[w] # "exited"
    BY <2>1 DEF LoopEnded
  <2>4. \A i \in 1 .. Len(work') : work'[i] # Shutdown
    <3>1. \A i \in 1 .. Len(work') : \/ i \in 1 .. Len(work) /\ work'[i] = work[i]
                                     \/ work'[i] = t
      BY <2>2, ChannelTyped, AppendFacts
    <3> QED
      BY <2>1, <3>1, Marks DEF LoopEnded
  <2> QED
    BY <2>3, <2>4 DEF JobsFirst, ExitedAfterJobs
<1>4. CASE Receive
  BY <1>1, <1>4, ReceiveFacts
<1>5. ASSUME NEW w \in Workers, Worker(w) PROVE JobsFirst' /\ ExitedAfterJobs'
  <2>1. CASE LockReceiver(w) \/ RunJob(w) \/ SendCompletion(w)
    <3>1. work' = work /\ \A v \in Workers : pc'[v] = "exited" => pc[v] = "exited"
      BY <2>1, LockFacts, RunFacts, SendFacts
    <3> QED
      BY <1>1, <3>1
  <2>2. CASE TakeJob(w) \/ TakeShutdown(w)
    <3>1. work # << >> /\ work' = Tail(work)
      BY <2>2, TakeJobFacts, TakesGoodbye
    <3>2. /\ 1 \in 1 .. Len(work)
          /\ \A i \in 1 .. Len(work') :
               i + 1 \in 1 .. Len(work) /\ work'[i] = work[i + 1]
      BY <3>1, ChannelTyped, TailFacts
    <3>3. \A i, j \in 1 .. Len(work') : i < j => i + 1 < j + 1
      BY <3>1, ChannelTyped
    <3>4. JobsFirst'
      BY <3>2, <3>3 DEF JobsFirst
    <3>5. ExitedAfterJobs'
      <4>1. CASE TakeJob(w)
        <5>1. \A v \in Workers : pc'[v] = "exited" => pc[v] = "exited"
          BY <4>1, TakeJobFacts
        <5> QED
          BY <3>2, <5>1 DEF ExitedAfterJobs
      <4>2. CASE TakeShutdown(w)
        <5>1. work[1] = Shutdown
          BY <4>2, TakesGoodbye
        <5>2. \A i \in 1 .. Len(work') : 1 < i + 1
          BY <3>1, ChannelTyped
        <5>3. \A i \in 1 .. Len(work') : work'[i] = Shutdown
          BY <3>2, <5>1, <5>2 DEF JobsFirst
        <5> QED
          BY <5>3 DEF ExitedAfterJobs
      <4> QED
        BY <2>2, <4>1, <4>2
    <3> QED
      BY <3>4, <3>5
  <2> QED
    BY <1>5, <2>1, <2>2 DEF Worker
<1>6. CASE UNCHANGED vars
  BY <1>1, <1>6 DEF vars, workerVars
<1> QED
  BY NextCases, <1>2, <1>3, <1>4, <1>5, <1>6

\* Goodbyes to send, goodbyes in the channel and workers that left are N.
LEMMA GoodbyeStep ==
  ASSUME Spawned, TypeOK, TypeOK', HoldsJob, LoopEnded, GoodbyeCount, [Next]_vars
  PROVE  GoodbyeCount'
<1> DEFINE K == Cardinality(Where(work, {Shutdown}))
           X == Cardinality(Exited)
<1>0. /\ K \in Nat /\ X \in Nat /\ N \in Nat /\ goodbyes \in Nat
      /\ K + goodbyes + X = N
  BY GoodbyeSum, WhereFinite, ChannelTyped, ExitedCount, NAssumption DEF TypeOK
<1>S. (K + goodbyes + X = N)' => GoodbyeCount'
  BY GoodbyeSum, PTL
<1>1. CASE UNCHANGED <<work, goodbyes>> /\ Exited' = Exited
  BY <1>0, <1>1, <1>S
<1>2. CASE Validate
  <2>1. UNCHANGED <<work, goodbyes>>
        /\ \A w \in Workers : pc[w] # "exited" /\ pc'[w] # "exited"
    BY <1>2 DEF Validate, Spawned
  <2>2. Exited' = Exited
    BY <2>1 DEF Exited
  <2> QED
    BY <1>1, <2>1, <2>2
<1>3. CASE Scan \/ CheckDone \/ DropSender \/ Join
  <2>1. UNCHANGED <<work, goodbyes, pc>>
    BY <1>3 DEF Scan, CheckDone, DropSender, Join, workerVars
  <2>2. Exited' = Exited
    BY <2>1 DEF Exited
  <2> QED
    BY <1>1, <2>1, <2>2
<1>4. CASE SendShutdown
  <2>1. goodbyes > 0 /\ goodbyes' = goodbyes - 1 /\ pc' = pc
        /\ work' = Append(work, Shutdown)
    BY <1>4, GoodbyeForEach DEF SendShutdown, ShutdownLast, workerVars
  <2>2. Exited' = Exited
    BY <2>1 DEF Exited
  <2>3. Cardinality(Where(work', {Shutdown})) = K + 1
    BY <2>1, ChannelTyped, WhereAppend
  <2> QED
    BY <1>0, <1>S, <2>1, <2>2, <2>3
<1>5. CASE Dispatch
  <2>1. goodbyes' = goodbyes /\ pc' = pc /\ \E t \in Tasks : work' = Append(work, t)
    BY <1>5, DispatchFacts
  <2>2. PICK t \in Tasks : work' = Append(work, t)
    BY <2>1
  <2>3. Exited' = Exited
    BY <2>1 DEF Exited
  <2>4. Cardinality(Where(work', {Shutdown})) = K
    BY <1>0, <2>2, ChannelTyped, WhereAppend, Marks
  <2> QED
    BY <1>0, <1>S, <2>1, <2>3, <2>4
<1>6. CASE Receive
  <2>1. UNCHANGED <<work, goodbyes, pc>>
    BY <1>6, ReceiveFacts
  <2>2. Exited' = Exited
    BY <2>1 DEF Exited
  <2> QED
    BY <1>1, <2>1, <2>2
<1>7. ASSUME NEW w \in Workers, Worker(w) PROVE GoodbyeCount'
  <2>1. goodbyes' = goodbyes
    BY <1>7, WorkerFrame
  <2>2. CASE LockReceiver(w) \/ RunJob(w) \/ SendCompletion(w)
    <3>1. work' = work /\ \A v \in Workers : pc'[v] = "exited" <=> pc[v] = "exited"
      BY <2>2, LockFacts, RunFacts, SendFacts
    <3>2. Exited' = Exited
      BY <3>1 DEF Exited
    <3> QED
      BY <1>1, <2>1, <3>1, <3>2
  <2>3. CASE TakeJob(w)
    <3>1. /\ work # << >> /\ work' = Tail(work) /\ work[1] \in Tasks
          /\ \A v \in Workers : pc'[v] = "exited" <=> pc[v] = "exited"
      BY <2>3, TakeJobFacts
    <3>2. Exited' = Exited
      BY <3>1 DEF Exited
    <3>3. Cardinality(Where(work', {Shutdown})) = K
      BY <1>0, <3>1, ChannelTyped, WhereTail, Marks
    <3> QED
      BY <1>0, <1>S, <2>1, <3>2, <3>3
  <2>4. CASE TakeShutdown(w)
    <3>1. /\ work # << >> /\ work' = Tail(work) /\ work[1] = Shutdown
          /\ pc[w] # "exited" /\ pc'[w] = "exited"
          /\ \A v \in Workers : v # w => pc'[v] = pc[v]
      BY <2>4, TakesGoodbye, TakeShutdownFacts
    <3>2. Exited' = Exited \cup {w} /\ w \notin Exited
      BY <3>1 DEF Exited
    <3>3. Cardinality(Where(work', {Shutdown})) = K - 1
      BY <3>1, ChannelTyped, WhereTail
    <3>4. Cardinality(Exited \cup {w}) = X + 1
      BY <3>2, ExitedCount, FS_AddElement
    <3> QED
      BY <1>0, <1>S, <2>1, <3>2, <3>3, <3>4
  <2> QED
    BY <1>7, <2>2, <2>3, <2>4 DEF Worker
<1>8. CASE UNCHANGED vars
  <2>1. UNCHANGED <<work, goodbyes, pc>>
    BY <1>8 DEF vars, coordVars, workerVars
  <2>2. Exited' = Exited
    BY <2>1 DEF Exited
  <2> QED
    BY <1>1, <2>1, <2>2
<1> QED
  BY NextCases, <1>2, <1>3, <1>4, <1>5, <1>6, <1>7, <1>8 DEF Deciding

\* Layer 1 holds in every state.
LEMMA MessageInvariant == Spec => []MessageInv
<1> DEFINE Rest == JobsFirst /\ ExitedAfterJobs /\ LoopEnded /\ GoodbyeCount
<1>1. Init => Rest
  <2> SUFFICES ASSUME Init PROVE Rest
    OBVIOUS
  <2>1. JobsFirst /\ ExitedAfterJobs /\ LoopEnded
    BY DEF Init, JobsFirst, ExitedAfterJobs, LoopEnded
  <2>2. Where(work, {Shutdown}) = {} /\ Exited = {}
    BY DEF Init, Where, Exited
  <2>3. GoodbyeCount
    <3>1. Cardinality(Where(work, {Shutdown})) = 0 /\ Cardinality(Exited) = 0
      BY <2>2, FS_EmptySet
    <3>2. goodbyes = N /\ N \in Nat
      BY NAssumption DEF Init
    <3> QED
      BY <3>1, <3>2, GoodbyeSum
  <2> QED
    BY <2>1, <2>3
<1>2. Spawned /\ TypeOK /\ TypeOK' /\ HoldsJob /\ Rest /\ [Next]_vars => Rest'
  BY LoopEndedStep, MessageOrderStep, GoodbyeStep
<1>3. Spawned /\ HoldsJob /\ Rest => MessageInv
  BY DEF MessageInv
<1> HIDE DEF Rest
<1> QED
  BY <1>1, <1>2, <1>3, SpawnedInvariant, TypeCorrect, PTL DEF Spec

-----------------------------------------------------------------------------
(* Layer 2: whose job it is.                                               *)

\* The work channel holds the same jobs after a step that moved them up by k.
SameJobs(k) ==
  /\ \A i \in 1 .. Len(work') : work'[i] # Shutdown =>
        i + k \in 1 .. Len(work) /\ work'[i] = work[i + k]
  /\ \A i \in 1 .. Len(work) : work[i] # Shutdown =>
        i - k \in 1 .. Len(work') /\ work'[i - k] = work[i]
  /\ \A i, j \in 1 .. Len(work') : i + k = j + k => i = j

\* A step that moves no job and enters, ends or reports none keeps layer 2.
LEMMA QuietStep ==
  ASSUME TypeOK, JobInv, NEW k \in {0, 1}, SameJobs(k),
         UNCHANGED <<submitted, completed, held, result, starts, ended, channel>>,
         \A w \in Workers : held[w] # NoTask => pc'[w] = pc[w],
         BatchReady'
  PROVE  JobInv'
<1>1. Unsubmitted' /\ HeldOnce' /\ Reported' /\ ReportedOnce' /\ CompletedOk'
  BY DEF JobInv, Unsubmitted, HeldOnce, Reported, ReportedOnce, CompletedOk
<1>2. SubmittedReady'
  BY DEF JobInv, SubmittedReady
<1>3. HeldStarted'
  BY DEF JobInv, HeldStarted
<1>4. QueuedFresh'
  BY DEF JobInv, QueuedFresh, SameJobs
<1>5. QueuedOnce'
  <2> SUFFICES ASSUME NEW i \in 1 .. Len(work'), NEW j \in 1 .. Len(work'),
                      work'[i] = work'[j], work'[i] # Shutdown
               PROVE  i = j
    BY DEF QueuedOnce
  <2>1. /\ i + k \in 1 .. Len(work) /\ work'[i] = work[i + k]
        /\ j + k \in 1 .. Len(work) /\ work'[j] = work[j + k]
    BY DEF SameJobs
  <2>2. i + k = j + k
    BY <2>1 DEF JobInv, QueuedOnce
  <2> QED
    BY <2>2 DEF SameJobs
<1>6. Accounted'
  <2> SUFFICES ASSUME NEW t \in submitted
               PROVE  \/ \E i \in 1 .. Len(work') : work'[i] = t
                      \/ starts[t] = 1 /\ (ended[t] = "no" => \E w \in Workers : held[w] = t)
    BY DEF Accounted
  <2>1. CASE \E i \in 1 .. Len(work) : work[i] = t
    <3>1. t # Shutdown
      BY Marks DEF TypeOK
    <3> QED
      BY <2>1, <3>1 DEF SameJobs
  <2> QED
    BY <2>1 DEF JobInv, Accounted
<1> QED
  BY <1>1, <1>2, <1>3, <1>4, <1>5, <1>6 DEF JobInv

\* The steps of the coordinator other than handing out and booking.
LEMMA DecideKeepsJobs ==
  ASSUME TypeOK, MessageInv, JobInv, Deciding
  PROVE  JobInv'
<1>1. UNCHANGED <<submitted, completed, held, result, starts, ended, channel>>
  BY DecideFacts
<1>2. \A w \in Workers : held[w] # NoTask => pc'[w] = pc[w]
  <2>1. CASE Validate
    BY <2>1 DEF Validate, MessageInv, Spawned, HoldsJob
  <2>2. CASE ~Validate
    BY <2>2 DEF Deciding, Scan, CheckDone, SendShutdown, DropSender, Join, workerVars
  <2> QED
    BY <2>1, <2>2
<1>3. BatchReady'
  <2>1. CASE Scan
    <3>1. \A t \in batch' : t \notin submitted /\ Dependencies(t) \subseteq completed
      BY <2>1 DEF Scan, ReadyTasks, Dependencies
    <3> QED
      BY <1>1, <3>1 DEF BatchReady, Dependencies
  <2>2. CASE ~Scan
    <3>1. batch' = batch \/ batch' = {}
      BY <2>2 DEF Deciding, Validate, CheckDone, SendShutdown, DropSender, Join
    <3> QED
      BY <1>1, <3>1 DEF JobInv, BatchReady, Dependencies
  <2> QED
    BY <2>1, <2>2
<1>4. SameJobs(0)
  <2>1. CASE work' = work
    BY <2>1, ChannelTyped DEF SameJobs
  <2>2. CASE work' = Append(work, Shutdown)
    <3>1. /\ \A i \in 1 .. Len(work) : i \in 1 .. Len(work') /\ work'[i] = work[i]
          /\ \A i \in 1 .. Len(work') : \/ i \in 1 .. Len(work) /\ work'[i] = work[i]
                                        \/ work'[i] = Shutdown
      BY <2>2, ChannelTyped, AppendFacts
    <3>2. \A i \in 1 .. Len(work) : i + 0 = i /\ i - 0 = i
      BY ChannelTyped
    <3>3. \A i \in 1 .. Len(work') : i + 0 = i
      OBVIOUS
    <3> QED
      BY <3>1, <3>2, <3>3 DEF SameJobs
  <2> QED
    BY <2>1, <2>2, DecideFacts
<1> QED
  BY <1>1, <1>2, <1>3, <1>4, QuietStep

\* Handing a job out queues it once: nobody has it yet.
LEMMA DispatchKeepsJobs ==
  ASSUME TypeOK, MessageInv, JobInv, Dispatch
  PROVE  JobInv'
<1>0. LoopEnded
  BY DEF MessageInv
<1>1. UNCHANGED <<completed, channel, pc, held, result, starts, ended>>
  BY <1>0, DispatchFacts
<1>2. PICK t \in batch : /\ t \in Tasks
                         /\ submitted' = submitted \cup {t}
                         /\ batch' = batch \ {t}
                         /\ work' = Append(work, t)
  BY <1>0, DispatchFacts
<1>3. t \notin submitted /\ Dependencies(t) \subseteq completed /\ t # Shutdown
  BY <1>2, Marks DEF JobInv, BatchReady
<1>4. starts[t] = 0 /\ ended[t] = "no"
  BY <1>2, <1>3 DEF JobInv, Unsubmitted
<1>5. /\ \A i \in 1 .. Len(work) : i \in 1 .. Len(work') /\ work'[i] = work[i]
      /\ \A i \in 1 .. Len(work') : \/ i \in 1 .. Len(work) /\ work'[i] = work[i]
                                    \/ i = Len(work') /\ work'[i] = t
      /\ Len(work') \in 1 .. Len(work') /\ work'[Len(work')] = t
  BY <1>2, ChannelTyped, AppendFacts
<1>6. \A i \in 1 .. Len(work) : work[i] # t
  BY <1>3 DEF JobInv, QueuedFresh
<1>7. Unsubmitted' /\ HeldOnce' /\ HeldStarted' /\ Reported' /\ ReportedOnce' /\ CompletedOk'
  BY <1>1, <1>2 DEF JobInv, Unsubmitted, HeldOnce, HeldStarted, Reported,
                    ReportedOnce, CompletedOk
<1>8. QueuedFresh'
  BY <1>1, <1>2, <1>4, <1>5 DEF JobInv, QueuedFresh
<1>9. QueuedOnce'
  BY <1>5, <1>6 DEF JobInv, QueuedOnce
<1>10. Accounted'
  <2> SUFFICES ASSUME NEW u \in submitted'
               PROVE  \/ \E i \in 1 .. Len(work') : work'[i] = u
                      \/ starts[u] = 1 /\ (ended[u] = "no" => \E w \in Workers : held[w] = u)
    BY <1>1 DEF Accounted
  <2>1. CASE u = t
    BY <1>5, <2>1
  <2>2. CASE u \in submitted
    BY <1>5, <2>2 DEF JobInv, Accounted
  <2> QED
    BY <1>2, <2>1, <2>2
<1>11. BatchReady' /\ SubmittedReady'
  BY <1>1, <1>2, <1>3 DEF JobInv, BatchReady, SubmittedReady, Dependencies
<1> QED
  BY <1>7, <1>8, <1>9, <1>10, <1>11 DEF JobInv

\* Booking a completion: its task is not reported a second time.
LEMMA ReceiveKeepsJobs ==
  ASSUME TypeOK, MessageInv, JobInv, Receive
  PROVE  JobInv'
<1> DEFINE u == channel[1].task
<1>0. LoopEnded
  BY DEF MessageInv
<1>1. /\ UNCHANGED <<batch, submitted, work, pc, held, result, starts, ended>>
      /\ channel # << >> /\ channel' = Tail(channel)
      /\ \/ completed' = completed
         \/ channel[1].result = "Ok" /\ completed' = completed \cup {u}
  BY <1>0, ReceiveFacts
<1>2. /\ 1 \in 1 .. Len(channel)
      /\ \A i \in 1 .. Len(channel') :
            i + 1 \in 1 .. Len(channel) /\ channel'[i] = channel[i + 1] /\ i + 1 # 1
  BY <1>1, ChannelTyped, TailFacts
<1>3. \A i, j \in 1 .. Len(channel') : i + 1 = j + 1 => i = j
  OBVIOUS
<1>4. u \in submitted /\ ended[u] = channel[1].result
  BY <1>2 DEF JobInv, Reported
<1> HIDE DEF u
<1>5. Unsubmitted' /\ QueuedFresh' /\ QueuedOnce' /\ HeldOnce' /\ HeldStarted' /\ Accounted'
  BY <1>1 DEF JobInv, Unsubmitted, QueuedFresh, QueuedOnce, HeldOnce, HeldStarted,
              Accounted
<1>6. Reported'
  BY <1>1, <1>2 DEF JobInv, Reported
<1>7. ReportedOnce'
  <2>1. /\ \A i, j \in 1 .. Len(channel) : channel[i].task = channel[j].task => i = j
        /\ \A i \in 1 .. Len(channel) : channel[i].task \notin completed
        /\ \A w \in Workers : held[w] # NoTask =>
             /\ held[w] \notin completed
             /\ \A i \in 1 .. Len(channel) : channel[i].task # held[w]
    BY DEF JobInv, ReportedOnce
  <2>2. \A i, j \in 1 .. Len(channel') : channel'[i].task = channel'[j].task => i = j
    <3> SUFFICES ASSUME NEW i \in 1 .. Len(channel'), NEW j \in 1 .. Len(channel'),
                        channel'[i].task = channel'[j].task
                 PROVE  i = j
      OBVIOUS
    <3>1. /\ i + 1 \in 1 .. Len(channel) /\ channel'[i] = channel[i + 1]
          /\ j + 1 \in 1 .. Len(channel) /\ channel'[j] = channel[j + 1]
      BY <1>2
    <3>2. i + 1 = j + 1
      BY <2>1, <3>1
    <3> QED
      BY <1>3, <3>2
  <2>3. \A i \in 1 .. Len(channel') : channel'[i].task \notin completed'
    BY <1>1, <1>2, <2>1 DEF u
  <2>4. \A w \in Workers : held'[w] # NoTask =>
          /\ held'[w] \notin completed'
          /\ \A i \in 1 .. Len(channel') : channel'[i].task # held'[w]
    BY <1>1, <1>2, <2>1 DEF u
  <2> QED
    BY <2>2, <2>3, <2>4 DEF ReportedOnce
<1>8. CompletedOk' /\ BatchReady' /\ SubmittedReady'
  BY <1>1, <1>4 DEF JobInv, CompletedOk, BatchReady, SubmittedReady, Dependencies
<1> QED
  BY <1>5, <1>6, <1>7, <1>8 DEF JobInv

\* Entering a job: it was queued once and is now in one pair of hands.
LEMMA TakeJobKeepsJobs ==
  ASSUME TypeOK, MessageInv, JobInv, NEW w \in Workers, TakeJob(w)
  PROVE  JobInv'
<1> DEFINE t == work[1]
<1>0. HoldsJob
  BY DEF MessageInv
<1>1. /\ work # << >> /\ work' = Tail(work) /\ t \in Tasks
      /\ held[w] = NoTask /\ held'[w] = t
      /\ \A v \in Workers : v # w => held'[v] = held[v] /\ pc'[v] = pc[v]
      /\ pc'[w] = "run"
      /\ starts'[t] = starts[t] + 1
      /\ \A x \in Tasks : x # t => starts'[x] = starts[x]
      /\ UNCHANGED <<channel, result, ended>>
  BY <1>0, TakeJobFacts
<1>2. UNCHANGED <<submitted, completed, batch>>
  BY WorkerFrame DEF Worker
<1>3. /\ 1 \in 1 .. Len(work)
      /\ \A i \in 1 .. Len(work') :
            i + 1 \in 1 .. Len(work) /\ work'[i] = work[i + 1] /\ i + 1 # 1
      /\ \A i \in 1 .. Len(work) :
            i = 1 \/ (i - 1 \in 1 .. Len(work') /\ work'[i - 1] = work[i])
  BY <1>1, ChannelTyped, TailFacts
<1>4. \A i, j \in 1 .. Len(work') : i + 1 = j + 1 => i = j
  OBVIOUS
<1>5. t # Shutdown /\ t # NoTask
  BY <1>1, Marks
<1>6. t \in submitted /\ starts[t] = 0 /\ ended[t] = "no"
  BY <1>3, <1>5 DEF JobInv, QueuedFresh
<1>7. \A i \in 1 .. Len(work') : work'[i] # t
  BY <1>3, <1>5 DEF JobInv, QueuedOnce
<1> HIDE DEF t
<1>8. starts'[t] = 1
  BY <1>1, <1>6
<1>9. \A v \in Workers : held[v] # t
  BY <1>5, <1>6 DEF JobInv, HeldStarted
<1>10. submitted \subseteq Tasks
  BY DEF TypeOK
<1>11. Unsubmitted' /\ CompletedOk' /\ BatchReady' /\ SubmittedReady' /\ Reported'
  BY <1>1, <1>2, <1>6 DEF JobInv, Unsubmitted, CompletedOk, BatchReady,
                          SubmittedReady, Reported, Dependencies
<1>12. QueuedFresh'
  BY <1>1, <1>2, <1>3, <1>7, <1>10 DEF JobInv, QueuedFresh
<1>13. QueuedOnce'
  <2> SUFFICES ASSUME NEW i \in 1 .. Len(work'), NEW j \in 1 .. Len(work'),
                      work'[i] = work'[j], work'[i] # Shutdown
               PROVE  i = j
    BY DEF QueuedOnce
  <2>1. i + 1 = j + 1
    BY <1>3 DEF JobInv, QueuedOnce
  <2> QED
    BY <1>4, <2>1
<1>14. HeldOnce'
  BY <1>1, <1>9 DEF JobInv, HeldOnce
<1>15. HeldStarted'
  <2> SUFFICES ASSUME NEW v \in Workers, held'[v] # NoTask
               PROVE  /\ held'[v] \in submitted
                      /\ starts'[held'[v]] = 1
                      /\ ended[held'[v]] = IF pc'[v] = "run" THEN "no" ELSE result[v]
    BY <1>1, <1>2 DEF HeldStarted
  <2>1. CASE v = w
    BY <1>1, <1>6, <1>8, <2>1
  <2>2. CASE v # w
    BY <1>1, <1>9, <1>10, <2>2 DEF JobInv, HeldStarted
  <2> QED
    BY <2>1, <2>2
<1>16. Accounted'
  <2> SUFFICES ASSUME NEW u \in submitted
               PROVE  \/ \E i \in 1 .. Len(work') : work'[i] = u
                      \/ /\ starts'[u] = 1
                         /\ ended[u] = "no" => \E v \in Workers : held'[v] = u
    BY <1>1, <1>2 DEF Accounted
  <2>1. CASE u = t
    BY <1>1, <1>8, <2>1
  <2>2. CASE u # t
    <3>1. CASE \E i \in 1 .. Len(work) : work[i] = u
      BY <1>3, <2>2, <3>1 DEF t
    <3>2. CASE starts[u] = 1 /\ (ended[u] = "no" => \E v \in Workers : held[v] = u)
      <4>1. starts'[u] = 1
        BY <1>1, <1>10, <2>2, <3>2
      <4>2. ASSUME NEW v \in Workers, held[v] = u PROVE held'[v] = u
        <5>1. u # NoTask
          BY <1>10, Marks
        <5> QED
          BY <1>1, <4>2, <5>1
      <4> QED
        BY <3>2, <4>1, <4>2
    <3> QED
      BY <3>1, <3>2 DEF JobInv, Accounted
  <2> QED
    BY <2>1, <2>2
<1>17. ReportedOnce'
  <2>1. /\ t \notin completed
        /\ \A i \in 1 .. Len(channel) : channel[i].task # t
    <3>1. \A i \in 1 .. Len(channel) : channel[i].result # "no"
      BY ChannelTyped DEF JobResults
    <3> QED
      BY <1>6, <3>1 DEF JobInv, CompletedOk, Reported
  <2> QED
    BY <1>1, <1>2, <2>1 DEF JobInv, ReportedOnce
<1> QED
  BY <1>11, <1>12, <1>13, <1>14, <1>15, <1>16, <1>17 DEF JobInv

\* Ending a job changes how that job, and no other, has ended.
LEMMA RunKeepsJobs ==
  ASSUME TypeOK, MessageInv, JobInv, NEW w \in Workers, RunJob(w)
  PROVE  JobInv'
<1> DEFINE t == held[w]
<1>0. HoldsJob
  BY DEF MessageInv
<1>1. /\ UNCHANGED <<work, channel, held, starts>>
      /\ pc[w] = "run" /\ pc'[w] = "send"
      /\ \A v \in Workers : v # w => pc'[v] = pc[v] /\ result'[v] = result[v]
      /\ t \in Tasks /\ t # NoTask
      /\ ended'[t] = result'[w] /\ result'[w] \in JobResults
      /\ \A x \in Tasks : x # t => ended'[x] = ended[x]
  BY <1>0, RunFacts
<1>2. UNCHANGED <<submitted, completed, batch>>
  BY WorkerFrame DEF Worker
<1>3. t \in submitted /\ starts[t] = 1 /\ ended[t] = "no"
  BY <1>1 DEF JobInv, HeldStarted
<1>4. \A v \in Workers : held[v] = t => v = w
  BY <1>1 DEF JobInv, HeldOnce
<1>5. /\ t \notin completed
      /\ \A i \in 1 .. Len(channel) : channel[i].task # t
  BY <1>1 DEF JobInv, ReportedOnce
<1>6. submitted \subseteq Tasks /\ completed \subseteq Tasks
  BY DEF TypeOK
<1> HIDE DEF t
<1>7. Unsubmitted' /\ QueuedFresh' /\ QueuedOnce' /\ HeldOnce'
  BY <1>1, <1>2, <1>3, <1>6 DEF JobInv, Unsubmitted, QueuedFresh, QueuedOnce, HeldOnce
<1>8. HeldStarted'
  <2> SUFFICES ASSUME NEW v \in Workers, held[v] # NoTask
               PROVE  /\ held[v] \in submitted
                      /\ starts[held[v]] = 1
                      /\ ended'[held[v]] = IF pc'[v] = "run" THEN "no" ELSE result'[v]
    BY <1>1, <1>2 DEF HeldStarted
  <2>1. CASE v = w
    BY <1>1, <1>3, <2>1 DEF t
  <2>2. CASE v # w
    BY <1>1, <1>4, <1>6, <2>2 DEF JobInv, HeldStarted
  <2> QED
    BY <2>1, <2>2
<1>9. Accounted'
  <2>1. \A u \in submitted : ended'[u] = "no" => ended[u] = "no"
    BY <1>1, <1>3, <1>6
  <2> QED
    BY <1>1, <1>2, <2>1 DEF JobInv, Accounted
<1>10. Reported'
  BY <1>1, <1>2, <1>5, <1>6 DEF JobInv, Reported
<1>11. ReportedOnce' /\ BatchReady' /\ SubmittedReady'
  BY <1>1, <1>2 DEF JobInv, ReportedOnce, BatchReady, SubmittedReady, Dependencies
<1>12. CompletedOk'
  BY <1>1, <1>2, <1>5, <1>6 DEF JobInv, CompletedOk
<1> QED
  BY <1>7, <1>8, <1>9, <1>10, <1>11, <1>12 DEF JobInv

\* Reporting a job takes it out of the worker's hands and into the channel.
LEMMA SendKeepsJobs ==
  ASSUME TypeOK, MessageInv, JobInv, NEW w \in Workers, SendCompletion(w)
  PROVE  JobInv'
<1> DEFINE t == held[w]
           c == [task |-> t, result |-> result[w]]
<1>0. HoldsJob
  BY DEF MessageInv
<1>1. /\ pc[w] = "send" /\ t # NoTask /\ t \in Tasks
      /\ held'[w] = NoTask
      /\ \A v \in Workers : v # w => /\ held'[v] = held[v] /\ pc'[v] = pc[v]
                                     /\ result'[v] = result[v]
      /\ UNCHANGED <<starts, ended, work>>
      /\ c \in Completions /\ channel' = Append(channel, c)
  BY <1>0, SendFacts
<1>2. UNCHANGED <<submitted, completed, batch>>
  BY WorkerFrame DEF Worker
<1>3. t \in submitted /\ ended[t] = result[w]
  BY <1>1 DEF JobInv, HeldStarted
<1>4. c.task = t /\ c.result = result[w]
  OBVIOUS
<1>5. \A v \in Workers : held[v] = t => v = w
  BY <1>1 DEF JobInv, HeldOnce
<1>6. /\ t \notin completed
      /\ \A i \in 1 .. Len(channel) : channel[i].task # t
  BY <1>1 DEF JobInv, ReportedOnce
<1>7. ended[t] # "no"
  BY <1>3 DEF TypeOK, JobResults
<1> HIDE DEF t, c
<1>8. \A i \in 1 .. Len(channel') :
         \/ i \in 1 .. Len(channel) /\ channel'[i] = channel[i]
         \/ i = Len(channel') /\ channel'[i] = c
  BY <1>1, ChannelTyped, AppendFacts
<1>9. Unsubmitted' /\ QueuedFresh' /\ QueuedOnce' /\ CompletedOk' /\ BatchReady' /\ SubmittedReady'
  BY <1>1, <1>2 DEF JobInv, Unsubmitted, QueuedFresh, QueuedOnce, CompletedOk,
                    BatchReady, SubmittedReady, Dependencies
<1>10. HeldOnce' /\ HeldStarted'
  BY <1>1, <1>2 DEF JobInv, HeldOnce, HeldStarted
<1>11. Accounted'
  <2> SUFFICES ASSUME NEW u \in submitted
               PROVE  \/ \E i \in 1 .. Len(work) : work[i] = u
                      \/ /\ starts[u] = 1
                         /\ ended[u] = "no" => \E v \in Workers : held'[v] = u
    BY <1>1, <1>2 DEF Accounted
  <2>1. ASSUME NEW v \in Workers, held[v] = u, ended[u] = "no" PROVE held'[v] = u
    BY <1>1, <1>7, <2>1 DEF t
  <2> QED
    BY <2>1 DEF JobInv, Accounted
<1>12. Reported'
  BY <1>1, <1>2, <1>3, <1>4, <1>8 DEF JobInv, Reported
<1>13. ReportedOnce'
  <2>1. /\ \A i, j \in 1 .. Len(channel) : channel[i].task = channel[j].task => i = j
        /\ \A i \in 1 .. Len(channel) : channel[i].task \notin completed
        /\ \A v \in Workers : held[v] # NoTask =>
             /\ held[v] \notin completed
             /\ \A i \in 1 .. Len(channel) : channel[i].task # held[v]
    BY DEF JobInv, ReportedOnce
  <2>2. \A i, j \in 1 .. Len(channel') : channel'[i].task = channel'[j].task => i = j
    BY <1>4, <1>6, <1>8, <2>1
  <2>3. \A i \in 1 .. Len(channel') : channel'[i].task \notin completed'
    BY <1>2, <1>4, <1>6, <1>8, <2>1
  <2>4. \A v \in Workers : held'[v] # NoTask =>
          /\ held'[v] \notin completed'
          /\ \A i \in 1 .. Len(channel') : channel'[i].task # held'[v]
    <3> SUFFICES ASSUME NEW v \in Workers, held'[v] # NoTask
                 PROVE  /\ held'[v] \notin completed
                        /\ \A i \in 1 .. Len(channel') : channel'[i].task # held'[v]
      BY <1>2
    <3>1. v # w /\ held'[v] = held[v]
      BY <1>1
    <3> QED
      BY <1>4, <1>5, <1>8, <2>1, <3>1
  <2> QED
    BY <2>2, <2>3, <2>4 DEF ReportedOnce
<1> QED
  BY <1>9, <1>10, <1>11, <1>12, <1>13 DEF JobInv

\* Layer 2 holds in every state.
LEMMA JobInvariant == Spec => []JobInv
<1>1. Init => JobInv
  <2> SUFFICES ASSUME Init PROVE JobInv
    OBVIOUS
  <2>1. Unsubmitted /\ QueuedFresh /\ QueuedOnce /\ HeldOnce /\ HeldStarted /\ Accounted
    BY DEF Init, Unsubmitted, QueuedFresh, QueuedOnce, HeldOnce, HeldStarted, Accounted
  <2>2. Reported /\ ReportedOnce /\ CompletedOk /\ BatchReady /\ SubmittedReady
    BY DEF Init, Reported, ReportedOnce, CompletedOk, BatchReady, SubmittedReady
  <2> QED
    BY <2>1, <2>2 DEF JobInv
<1>2. TypeOK /\ MessageInv /\ JobInv /\ [Next]_vars => JobInv'
  <2> SUFFICES ASSUME TypeOK, MessageInv, JobInv, [Next]_vars PROVE JobInv'
    OBVIOUS
  <2>1. ASSUME NEW w \in Workers, LockReceiver(w) \/ TakeShutdown(w) PROVE JobInv'
    <3>1. UNCHANGED <<submitted, completed, batch>>
      BY <2>1, WorkerFrame DEF Worker
    <3>2. UNCHANGED <<held, result, starts, ended, channel>>
      BY <2>1, LockFacts, TakeShutdownFacts
    <3>3. \A v \in Workers : held[v] # NoTask => pc'[v] = pc[v]
      BY <2>1, LockFacts, TakeShutdownFacts DEF MessageInv, HoldsJob
    <3>4. BatchReady'
      BY <3>1 DEF JobInv, BatchReady, Dependencies
    <3>5. CASE LockReceiver(w)
      <4>1. work' = work
        BY <3>5, LockFacts
      <4>2. SameJobs(0)
        BY <4>1, ChannelTyped DEF SameJobs
      <4> QED
        BY <3>1, <3>2, <3>3, <3>4, <4>2, QuietStep
    <3>6. CASE TakeShutdown(w)
      <4>1. work # << >> /\ work[1] = Shutdown /\ work' = Tail(work)
        BY <3>6, TakesGoodbye DEF MessageInv
      <4>2. /\ \A i \in 1 .. Len(work') : i + 1 \in 1 .. Len(work) /\ work'[i] = work[i + 1]
            /\ \A i \in 1 .. Len(work) :
                  i = 1 \/ (i - 1 \in 1 .. Len(work') /\ work'[i - 1] = work[i])
        BY <4>1, ChannelTyped, TailFacts
      <4>3. \A i, j \in 1 .. Len(work') : i + 1 = j + 1 => i = j
        OBVIOUS
      <4>4. SameJobs(1)
        BY <4>1, <4>2, <4>3 DEF SameJobs
      <4> QED
        BY <3>1, <3>2, <3>3, <3>4, <4>4, QuietStep
    <3> QED
      BY <2>1, <3>5, <3>6
  <2>2. ASSUME NEW w \in Workers, Worker(w) PROVE JobInv'
    BY <2>1, <2>2, TakeJobKeepsJobs, RunKeepsJobs, SendKeepsJobs DEF Worker
  <2>3. CASE UNCHANGED vars
    <3>1. UNCHANGED <<submitted, completed, batch, work, pc, held, result, starts,
                      ended, channel>>
      BY <2>3 DEF vars, coordVars, workerVars, history
    <3>2. SameJobs(0)
      BY <3>1, ChannelTyped DEF SameJobs
    <3>3. BatchReady'
      BY <3>1 DEF JobInv, BatchReady, Dependencies
    <3> QED
      BY <3>1, <3>2, <3>3, QuietStep
  <2> QED
    BY NextCases, <2>2, <2>3, DecideKeepsJobs, DispatchKeepsJobs, ReceiveKeepsJobs
<1> QED
  BY <1>1, <1>2, TypeCorrect, MessageInvariant, PTL DEF Spec

-----------------------------------------------------------------------------
(* Layer 3: what the coordinator may conclude.                             *)

\* In a finite graph without cycles some task is ready unless all are done:
\* one of least rank among those that are not.
LEMMA SomeTaskReady ==
  ASSUME NEW done \in SUBSET Tasks, done # Tasks
  PROVE  ReadyTasks(Tasks, Edges, done) # {}
<1>1. PICK rank \in [Tasks -> 0 .. Cardinality(Tasks)] :
             \A e \in Edges : rank[e[1]] < rank[e[2]]
  BY AcyclicAssumption
<1>2. Cardinality(Tasks) \in Nat
  BY TasksAssumption, FS_CardinalityType
<1> DEFINE Ranks == { rank[t] : t \in Tasks \ done }
<1>3. Ranks \subseteq Nat /\ Ranks # {}
  BY <1>1, <1>2
<1>4. \E r \in Ranks : \A s \in Ranks : ~(<<s, r>> \in OpToRel(<, Nat))
  BY <1>3, WFMin, NatLessThanWellFounded, Zenon
<1>5. \E r \in Ranks : \A s \in Ranks : ~(s < r)
  BY <1>3, <1>4, Zenon DEF OpToRel
<1>6. PICK t \in Tasks \ done : \A u \in Tasks \ done : ~(rank[u] < rank[t])
  BY <1>5
<1>7. \A d \in DependenciesOf(Tasks, Edges, t) : d \in Tasks /\ rank[d] < rank[t]
  BY <1>1 DEF DependenciesOf
<1>8. DependenciesOf(Tasks, Edges, t) \subseteq done
  BY <1>6, <1>7
<1> QED
  BY <1>6, <1>8 DEF ReadyTasks

\* submitted \ completed is finite, so counting it is meaningful.
LEMMA OpenFinite ==
  ASSUME TypeOK
  PROVE  IsFiniteSet(submitted \ completed)
<1>1. (submitted \ completed) \in SUBSET Tasks
  BY DEF TypeOK
<1> QED
  BY <1>1, TasksAssumption, FS_Subset

\* What was not handed out is still in the map of jobs.
LEMMA JobsLeftStep ==
  ASSUME TypeOK, TypeOK', MessageInv, JobInv, JobsLeft, [Next]_vars
  PROVE  JobsLeft'
<1> USE DEF JobsLeft
<1>0. LoopEnded
  BY DEF MessageInv
<1>1. CASE Validate
  BY <1>1 DEF Validate
<1>2. CASE Scan \/ CheckDone \/ SendShutdown \/ DropSender \/ Join
  <2>1. /\ phase \notin {"validate", "refused"} /\ phase' \notin {"validate", "refused"}
        /\ UNCHANGED <<jobs, submitted>>
    BY <1>2 DEF Scan, CheckDone, SendShutdown, DropSender, Join
  <2> QED
    BY <2>1
<1>3. CASE Dispatch
  <2>1. /\ phase = "dispatch" /\ phase' = phase
        /\ \E t \in batch : submitted' = submitted \cup {t} /\ jobs' = jobs \ {t}
    BY <1>0, <1>3, DispatchFacts
  <2> QED
    BY <2>1
<1>4. CASE Receive
  <2>1. /\ phase = "receive" /\ phase' \in {"scan", "shutdown"}
        /\ UNCHANGED <<jobs, submitted>>
    BY <1>0, <1>4, ReceiveFacts
  <2> QED
    BY <2>1
<1>5. ASSUME NEW w \in Workers, Worker(w) PROVE JobsLeft'
  BY <1>5, WorkerFrame
<1>6. CASE UNCHANGED vars
  BY <1>6 DEF vars, coordVars
<1> QED
  BY NextCases, <1>1, <1>2, <1>3, <1>4, <1>5, <1>6 DEF Deciding

Hands == { w \in Workers : held[w] # NoTask }

\* The workers with a job in hand are finitely many.
LEMMA HandsFinite == IsFiniteSet(Hands) /\ Cardinality(Hands) \in Nat
<1>1. 0 \in Int /\ N - 1 \in Int
  BY NAssumption
<1>2. IsFiniteSet(Workers)
  BY <1>1, FS_Interval DEF Workers
<1>3. Hands \in SUBSET Workers
  BY DEF Hands
<1>4. IsFiniteSet(Hands)
  BY <1>2, <1>3, FS_Subset
<1> QED
  BY <1>4, FS_CardinalityType

\* InFlightBounded with the counting operators.
LEMMA InFlightSum ==
  ASSUME TypeOK
  PROVE  InFlightBounded <=>
           /\ running = Cardinality(Where(work, Tasks)) + Cardinality(Hands) + Len(channel)
           /\ running <= N
<1>1. DOMAIN work = 1 .. Len(work)
  BY ChannelTyped
<1>2. { i \in DOMAIN work : work[i] # Shutdown } = Where(work, Tasks)
  BY <1>1, ChannelTyped, Marks DEF Where
<1> QED
  BY <1>2 DEF InFlightBounded, Hands

\* Every step moves a job from one place to the next: handed out, entered,
\* reported, booked; a job is only handed out when there is room.
LEMMA InFlightStep ==
  ASSUME TypeOK, TypeOK', MessageInv, InFlightBounded, [Next]_vars
  PROVE  InFlightBounded'
<1> DEFINE Q == Cardinality(Where(work, Tasks))
           H == Cardinality(Hands)
           C == Len(channel)
<1>0. LoopEnded /\ HoldsJob /\ GoodbyeCount
  BY DEF MessageInv
<1>I. /\ Q \in Nat /\ H \in Nat /\ C \in Nat /\ N \in Nat /\ running \in Int
      /\ running = Q + H + C /\ running <= N
  BY InFlightSum, WhereFinite, ChannelTyped, HandsFinite, NAssumption DEF TypeOK
<1>S. (running = Q + H + C /\ running <= N)' => InFlightBounded'
  BY InFlightSum, PTL
<1>1. CASE UNCHANGED <<running, work, held, channel>>
  <2>1. Hands' = Hands
    BY <1>1 DEF Hands
  <2> QED
    BY <1>I, <1>S, <1>1, <2>1
<1>2. CASE Deciding
  <2>1. UNCHANGED <<running, held, channel>>
    BY <1>2, DecideFacts
  <2>2. CASE work' = Append(work, Shutdown)
    <3>1. Hands' = Hands
      BY <2>1 DEF Hands
    <3>2. Cardinality(Where(work', Tasks)) = Q
      BY <1>I, <2>2, ChannelTyped, WhereAppend, Marks
    <3> QED
      BY <1>I, <1>S, <2>1, <3>1, <3>2
  <2> QED
    BY <1>1, <1>2, <2>1, <2>2, DecideFacts
<1>3. CASE Dispatch
  <2>1. /\ UNCHANGED <<held, channel>> /\ running' = running + 1 /\ running < N
        /\ \E t \in Tasks : work' = Append(work, t)
    BY <1>0, <1>3, DispatchFacts
  <2>2. PICK t \in Tasks : work' = Append(work, t)
    BY <2>1
  <2>3. Cardinality(Where(work', Tasks)) = Q + 1
    BY <2>2, ChannelTyped, WhereAppend
  <2>4. Hands' = Hands
    BY <2>1 DEF Hands
  <2> QED
    BY <1>I, <1>S, <2>1, <2>3, <2>4
<1>4. CASE Receive
  <2>1. /\ UNCHANGED <<held, work>> /\ running' = running - 1
        /\ channel # << >> /\ channel' = Tail(channel)
    BY <1>0, <1>4, ReceiveFacts
  <2>2. Len(channel') = C - 1
    BY <2>1, ChannelTyped, TailFacts
  <2>3. Hands' = Hands
    BY <2>1 DEF Hands
  <2> QED
    BY <1>I, <1>S, <2>1, <2>2, <2>3
<1>5. ASSUME NEW w \in Workers, Worker(w) PROVE InFlightBounded'
  <2>1. running' = running
    BY <1>5, WorkerFrame
  <2>2. CASE LockReceiver(w) \/ RunJob(w)
    BY <1>0, <1>1, <2>1, <2>2, LockFacts, RunFacts
  <2>3. CASE TakeJob(w)
    <3>1. /\ work # << >> /\ work' = Tail(work) /\ work[1] \in Tasks
          /\ held[w] = NoTask /\ held'[w] = work[1] /\ channel' = channel
          /\ \A v \in Workers : v # w => held'[v] = held[v]
      BY <1>0, <2>3, TakeJobFacts
    <3>2. Cardinality(Where(work', Tasks)) = Q - 1
      BY <3>1, ChannelTyped, WhereTail
    <3>3. Hands' = Hands \cup {w} /\ w \notin Hands
      BY <3>1, Marks DEF Hands
    <3>4. Cardinality(Hands \cup {w}) = H + 1
      BY <3>3, HandsFinite, FS_AddElement
    <3> QED
      BY <1>I, <1>S, <2>1, <3>1, <3>2, <3>3, <3>4
  <2>4. CASE TakeShutdown(w)
    <3>1. /\ work # << >> /\ work[1] = Shutdown /\ work' = Tail(work)
          /\ UNCHANGED <<held, channel>>
      BY <1>0, <2>4, TakesGoodbye, TakeShutdownFacts
    <3>2. Cardinality(Where(work', Tasks)) = Q
      BY <1>I, <3>1, ChannelTyped, WhereTail, Marks
    <3>3. Hands' = Hands
      BY <3>1 DEF Hands
    <3> QED
      BY <1>I, <1>S, <2>1, <3>1, <3>2, <3>3
  <2>5. CASE SendCompletion(w)
    <3> DEFINE c == [task |-> held[w], result |-> result[w]]
    <3>1. /\ held[w] # NoTask /\ held'[w] = NoTask /\ work' = work
          /\ \A v \in Workers : v # w => held'[v] = held[v]
          /\ c \in Completions /\ channel' = Append(channel, c)
      BY <1>0, <2>5, SendFacts
    <3>2. Len(channel') = C + 1
      BY <3>1, ChannelTyped, AppendFacts
    <3>3. Hands' = Hands \ {w} /\ w \in Hands
      BY <3>1 DEF Hands
    <3>4. Cardinality(Hands \ {w}) = H - 1
      BY <3>3, HandsFinite, FS_RemoveElement
    <3> QED
      BY <1>I, <1>S, <2>1, <3>1, <3>2, <3>3, <3>4
  <2> QED
    BY <1>5, <2>2, <2>3, <2>4, <2>5 DEF Worker
<1>6. CASE UNCHANGED vars
  BY <1>1, <1>6 DEF vars, coordVars, workerVars
<1> QED
  BY NextCases, <1>2, <1>3, <1>4, <1>5, <1>6

\* `running` counts what was handed out and not yet received.
LEMMA RunningCountStep ==
  ASSUME TypeOK, MessageInv, JobInv, RunningCount, [Next]_vars
  PROVE  RunningCount'
<1>0. LoopEnded
  BY DEF MessageInv
<1>1. CASE Deciding
  <2>1. UNCHANGED <<submitted, completed, running>>
    BY <1>1, DecideFacts
  <2>2. phase' \in {"validate", "scan", "dispatch", "receive"} =>
           phase \in {"validate", "scan", "dispatch", "receive"}
    BY <1>1 DEF Deciding, Validate, Scan, CheckDone, SendShutdown, DropSender, Join
  <2> QED
    BY <2>1, <2>2 DEF RunningCount
<1>2. CASE Dispatch
  <2>1. PICK t \in batch : /\ submitted' = submitted \cup {t}
                           /\ completed' = completed /\ running' = running + 1
                           /\ phase = "dispatch"
    BY <1>0, <1>2, DispatchFacts
  <2>2. t \notin submitted /\ completed \subseteq submitted
    BY <2>1 DEF JobInv, BatchReady, CompletedOk
  <2>3. submitted' \ completed' = (submitted \ completed) \cup {t}
    BY <2>1, <2>2
  <2>4. Cardinality((submitted \ completed) \cup {t})
          = Cardinality(submitted \ completed) + 1
    BY <2>2, OpenFinite, FS_AddElement
  <2> QED
    BY <2>1, <2>3, <2>4 DEF RunningCount
<1>3. CASE Receive
  <2> DEFINE t == channel[1].task
  <2>1. 1 \in 1 .. Len(channel)
    BY <1>0, <1>3, ReceiveFacts, ChannelTyped
  <2>2. t \in submitted \ completed
    BY <2>1 DEF JobInv, Reported, ReportedOnce
  <2>3. CASE phase' = "shutdown"
    BY <2>3 DEF RunningCount
  <2>4. CASE phase' = "scan"
    <3>1. /\ submitted' = submitted /\ completed' = completed \cup {t}
          /\ running' = running - 1 /\ phase = "receive"
      BY <1>0, <1>3, <2>4, ReceiveFacts
    <3>2. submitted' \ completed' = (submitted \ completed) \ {t}
      BY <3>1
    <3>3. Cardinality((submitted \ completed) \ {t})
            = Cardinality(submitted \ completed) - 1
      BY <2>2, OpenFinite, FS_RemoveElement
    <3> QED
      BY <3>1, <3>2, <3>3 DEF RunningCount
  <2> QED
    BY <1>0, <1>3, <2>3, <2>4, ReceiveFacts
<1>4. ASSUME NEW w \in Workers, Worker(w) PROVE RunningCount'
  BY <1>4, WorkerFrame DEF RunningCount
<1>5. CASE UNCHANGED vars
  BY <1>5 DEF vars, coordVars, RunningCount
<1> QED
  BY NextCases, <1>1, <1>2, <1>3, <1>4, <1>5

\* While a batch is handed out nothing that is ready is forgotten.
LEMMA DispatchCompleteStep ==
  ASSUME TypeOK, MessageInv, DispatchComplete, [Next]_vars
  PROVE  DispatchComplete'
<1> USE DEF DispatchComplete
<1>0. LoopEnded
  BY DEF MessageInv
<1>1. CASE Scan
  <2>1. /\ batch' = ReadyTasks(Tasks, Edges, completed) \ submitted
        /\ UNCHANGED <<completed, submitted>>
    BY <1>1 DEF Scan
  <2> QED
    BY <2>1
<1>2. CASE Dispatch
  <2>1. /\ phase = "dispatch" /\ completed' = completed
        /\ \E t \in batch : submitted' = submitted \cup {t} /\ batch' = batch \ {t}
    BY <1>0, <1>2, DispatchFacts
  <2> QED
    BY <2>1
<1>3. CASE Validate \/ CheckDone \/ Receive \/ SendShutdown \/ DropSender \/ Join
  BY <1>3 DEF Validate, CheckDone, Receive, SendShutdown, DropSender, Join
<1>4. ASSUME NEW w \in Workers, Worker(w) PROVE DispatchComplete'
  BY <1>4, WorkerFrame
<1>5. CASE UNCHANGED vars
  BY <1>5 DEF vars, coordVars
<1> QED
  BY NextCases, <1>1, <1>2, <1>3, <1>4, <1>5 DEF Deciding

\* The loop of execute never finds nothing running with tasks left over: if
\* it stopped for want of room, N jobs are running.
LEMMA NeverStuck ==
  ASSUME TypeOK, RunningCount, DispatchComplete, phase = "dispatch",
         batch = {} \/ ~Room, completed # Tasks
  PROVE  running # 0
<1> SUFFICES ASSUME running = 0 PROVE FALSE
  OBVIOUS
<1>0. batch = {}
  BY NAssumption DEF Room
<1>1. Cardinality(submitted \ completed) = 0
  BY DEF RunningCount
<1>2. submitted \ completed = {}
  BY <1>1, OpenFinite, FS_EmptySet
<1>3. PICK t : t \in ReadyTasks(Tasks, Edges, completed)
  BY SomeTaskReady DEF TypeOK
<1>4. t \in submitted
  BY <1>0, <1>3 DEF DispatchComplete
<1> QED
  BY <1>2, <1>3, <1>4 DEF ReadyTasks

\* The coordinator blocks only when all workers are busy or nothing ready is
\* left to hand out.
LEMMA WorkConservingStep ==
  ASSUME TypeOK, MessageInv, InFlightBounded, DispatchComplete, WorkConserving,
         [Next]_vars
  PROVE  WorkConserving'
<1> USE DEF WorkConserving
<1>0. LoopEnded
  BY DEF MessageInv
<1>1. CASE CheckDone
  <2>1. /\ phase = "dispatch" /\ (batch = {} \/ ~Room)
        /\ UNCHANGED <<running, completed, submitted>>
    BY <1>1 DEF CheckDone
  <2>2. ~Room => running = N
    BY InFlightSum, NAssumption DEF Room, TypeOK
  <2>3. batch = {} => ReadyTasks(Tasks, Edges, completed) \subseteq submitted
    BY <2>1 DEF DispatchComplete
  <2> QED
    BY <2>1, <2>2, <2>3
<1>2. CASE Validate \/ Scan \/ SendShutdown \/ DropSender \/ Join
  BY <1>2 DEF Validate, Scan, SendShutdown, DropSender, Join
<1>3. CASE Dispatch \/ Receive
  BY <1>0, <1>3, DispatchFacts, ReceiveFacts
<1>4. ASSUME NEW w \in Workers, Worker(w) PROVE WorkConserving'
  BY <1>4, WorkerFrame
<1>5. CASE UNCHANGED vars
  BY <1>5 DEF vars, coordVars
<1> QED
  BY NextCases, <1>1, <1>2, <1>3, <1>4, <1>5 DEF Deciding

\* The answers are told apart by their kind, and failures by their task.
LEMMA AnswersDiffer ==
  /\ Success # Pending /\ ChannelClosed # Pending /\ Success # ChannelClosed
  /\ Pending \notin Mismatches /\ Success \notin Mismatches
  /\ ChannelClosed \notin Mismatches
  /\ \A t : /\ TaskFailed(t) # Pending /\ TaskFailed(t) # Success
            /\ TaskFailed(t) # ChannelClosed /\ TaskFailed(t) \notin Mismatches
  /\ \A s, t : TaskFailed(s) = TaskFailed(t) => s = t
  /\ \A m, x : /\ JobSetMismatch(m, x) # Pending /\ JobSetMismatch(m, x) # Success
               /\ JobSetMismatch(m, x) # ChannelClosed
               /\ \A t : JobSetMismatch(m, x) # TaskFailed(t)
<1>1. /\ Pending.kind = "Pending" /\ Success.kind = "Ok"
      /\ ChannelClosed.kind = "WorkerChannelClosed"
      /\ \A t : TaskFailed(t).kind = "TaskFailed" /\ TaskFailed(t).task = t
      /\ \A m, x : JobSetMismatch(m, x).kind = "JobSetMismatch"
      /\ \A o \in Mismatches : o.kind = "JobSetMismatch"
  BY DEF Pending, Success, ChannelClosed, TaskFailed, JobSetMismatch, Mismatches
<1>2. /\ Success # Pending /\ ChannelClosed # Pending /\ Success # ChannelClosed
      /\ Pending \notin Mismatches /\ Success \notin Mismatches
      /\ ChannelClosed \notin Mismatches
  BY <1>1
<1>3. \A t : /\ TaskFailed(t) # Pending /\ TaskFailed(t) # Success
             /\ TaskFailed(t) # ChannelClosed /\ TaskFailed(t) \notin Mismatches
  BY <1>1
<1>4. \A s, t : TaskFailed(s) = TaskFailed(t) => s = t
  BY <1>1
<1>5. \A m, x : /\ JobSetMismatch(m, x) # Pending /\ JobSetMismatch(m, x) # Success
                /\ JobSetMismatch(m, x) # ChannelClosed
                /\ \A t : JobSetMismatch(m, x) # TaskFailed(t)
  BY <1>1
<1> QED
  BY <1>2, <1>3, <1>4, <1>5

\* The outcome the coordinator settled on is true of the jobs.
LEMMA OutcomeTrueStep ==
  ASSUME TypeOK, MessageInv, JobInv, RunningCount, DispatchComplete,
         OutcomeTrue, [Next]_vars
  PROVE  OutcomeTrue'
<1> USE DEF OutcomeTrue
<1>0. LoopEnded /\ HoldsJob
  BY DEF MessageInv
<1>1. CASE Deciding
  <2>1. ended' = ended /\ completed' = completed
    BY <1>1, DecideFacts
  <2>2. CASE Validate
    <3>1. phase = "validate" /\ jobs' = jobs /\ outcome = Pending
      BY <2>2 DEF Validate
    <3>2. CASE jobs = Tasks
      <4>1. phase' = "scan" /\ outcome' = outcome
        BY <2>2, <3>2 DEF Validate
      <4> QED
        BY <2>1, <3>1, <4>1, AnswersDiffer
    <3>3. CASE jobs # Tasks
      <4>1. phase' = "refused" /\ outcome' = JobSetMismatch(Tasks \ jobs, jobs \ Tasks)
        BY <2>2, <3>3 DEF Validate
      <4> QED
        BY <2>1, <3>1, <3>3, <4>1, AnswersDiffer
    <3> QED
      BY <3>2, <3>3
  <2>3. CASE CheckDone
    <3>1. phase = "dispatch" /\ (batch = {} \/ ~Room)
      BY <2>3 DEF CheckDone
    <3>2. CASE completed = Tasks
      <4>1. phase' = "shutdown" /\ outcome' = Success
        BY <2>3, <3>2 DEF CheckDone, AllCompleted
      <4> QED
        BY <2>1, <3>2, <4>1, AnswersDiffer
    <3>3. CASE completed # Tasks
      <4>1. running # 0
        BY <3>1, <3>3, NeverStuck
      <4>2. phase' = "receive" /\ outcome' = outcome
        BY <2>3, <3>3, <4>1 DEF CheckDone, AllCompleted
      <4> QED
        BY <2>1, <3>1, <4>2, AnswersDiffer
    <3> QED
      BY <3>2, <3>3
  <2>4. CASE Scan \/ SendShutdown \/ DropSender \/ Join
    <3>1. /\ outcome' = outcome /\ phase' # "refused" /\ phase # "refused"
          /\ jobs' = jobs
          /\ phase' \in {"validate", "scan", "dispatch", "receive"}
               <=> phase \in {"validate", "scan", "dispatch", "receive"}
      BY <2>4 DEF Scan, SendShutdown, DropSender, Join
    <3> QED
      BY <2>1, <3>1
  <2> QED
    BY <1>1, <2>2, <2>3, <2>4 DEF Deciding
<1>2. CASE Dispatch
  <2>1. phase = "dispatch" /\ UNCHANGED <<phase, outcome, completed, ended>>
    BY <1>0, <1>2, DispatchFacts
  <2> QED
    BY <2>1
<1>3. CASE Receive
  <2>1. /\ phase = "receive" /\ outcome = Pending /\ ended' = ended
        /\ 1 \in 1 .. Len(channel)
    BY <1>0, <1>3, ReceiveFacts, ChannelTyped
  <2>2. CASE phase' = "shutdown"
    <3>1. /\ channel[1].result = "Panicked" /\ channel[1].task \in Tasks
          /\ outcome' = TaskFailed(channel[1].task)
      BY <1>0, <1>3, <2>2, ReceiveFacts
    <3>2. ended[channel[1].task] = "Panicked"
      BY <2>1, <3>1 DEF JobInv, Reported
    <3> QED
      BY <2>1, <2>2, <3>1, <3>2, AnswersDiffer
  <2>3. CASE phase' = "scan"
    <3>1. outcome' = Pending
      BY <1>0, <1>3, <2>1, <2>3, ReceiveFacts
    <3> QED
      BY <2>1, <2>3, <3>1, AnswersDiffer
  <2> QED
    BY <1>0, <1>3, <2>2, <2>3, ReceiveFacts
<1>4. ASSUME NEW w \in Workers, Worker(w) PROVE OutcomeTrue'
  <2>1. UNCHANGED <<phase, jobs, completed, outcome>>
    BY <1>4, WorkerFrame
  <2>2. \A t \in Tasks : ended[t] = "Panicked" => ended'[t] = "Panicked"
    <3>1. CASE RunJob(w)
      <4>1. ended[held[w]] = "no" /\ \A t \in Tasks : t # held[w] => ended'[t] = ended[t]
        BY <1>0, <3>1, RunFacts DEF JobInv, HeldStarted
      <4> QED
        BY <4>1
    <3>2. CASE ~RunJob(w)
      BY <1>0, <1>4, <3>2, LockFacts, TakeJobFacts, TakeShutdownFacts, SendFacts DEF Worker
    <3> QED
      BY <3>1, <3>2
  <2> QED
    BY <2>1, <2>2
<1>5. CASE UNCHANGED vars
  BY <1>5 DEF vars, coordVars, history
<1> QED
  BY NextCases, <1>1, <1>2, <1>3, <1>4, <1>5

\* Layer 3 holds in every state.
LEMMA AnswerInvariant == Spec => []AnswerInv
<1>1. Init /\ TypeOK => AnswerInv
  <2> SUFFICES ASSUME Init, TypeOK PROVE AnswerInv
    OBVIOUS
  <2>1. JobsLeft /\ DispatchComplete /\ WorkConserving
    BY DEF Init, JobsLeft, DispatchComplete, WorkConserving
  <2>2. RunningCount
    BY FS_EmptySet DEF Init, RunningCount
  <2>3. OutcomeTrue
    BY AnswersDiffer DEF Init, OutcomeTrue
  <2>4. InFlightBounded
    <3>1. Where(work, Tasks) = {} /\ Hands = {}
      BY DEF Init, Where, Hands
    <3>2. Cardinality(Where(work, Tasks)) = 0 /\ Cardinality(Hands) = 0
      BY <3>1, FS_EmptySet
    <3>3. Len(channel) = 0 /\ running = 0 /\ N \in Nat
      BY NAssumption DEF Init
    <3> QED
      BY <3>2, <3>3, InFlightSum
  <2> QED
    BY <2>1, <2>2, <2>3, <2>4 DEF AnswerInv
<1>2. TypeOK /\ TypeOK' /\ MessageInv /\ JobInv /\ AnswerInv /\ [Next]_vars => AnswerInv'
  BY JobsLeftStep, InFlightStep, RunningCountStep, DispatchCompleteStep,
     WorkConservingStep, OutcomeTrueStep DEF AnswerInv
<1> QED
  BY <1>1, <1>2, TypeCorrect, MessageInvariant, JobInvariant, PTL DEF Spec

\* The inductive invariant of the fixed pool holds in every state.
THEOREM InductiveInvariant == Spec => []IndInv
BY TypeCorrect, MessageInvariant, JobInvariant, AnswerInvariant, PTL DEF IndInv

-----------------------------------------------------------------------------
(* The safety properties.                                                  *)

\* Never more than N jobs are in flight, whatever the graph.
THEOREM InFlightIsBounded == Spec => []InFlightBounded
<1>1. IndInv => InFlightBounded
  BY DEF IndInv, AnswerInv
<1> QED
  BY <1>1, InductiveInvariant, PTL

\* The coordinator does not block while a worker is idle and a task is ready.
THEOREM PoolIsWorkConserving == Spec => []WorkConserving
<1>1. IndInv => WorkConserving
  BY DEF IndInv, AnswerInv
<1> QED
  BY <1>1, InductiveInvariant, PTL

\* When nobody holds a job, a job that was entered has ended.
LEMMA NothingRunning ==
  ASSUME TypeOK, HoldsJob, JobInv, NEW t \in Tasks, starts[t] > 0, AllExited
  PROVE  ended[t] # "no"
<1>1. \A w \in Workers : held[w] = NoTask
  BY DEF HoldsJob, AllExited
<1>2. t # NoTask /\ t # Shutdown
  BY Marks
<1>3. t \in submitted
  BY DEF JobInv, Unsubmitted
<1>4. \A i \in 1 .. Len(work) : work[i] # t
  BY <1>2 DEF JobInv, QueuedFresh
<1> QED
  BY <1>1, <1>2, <1>3, <1>4 DEF JobInv, Accounted

\* When execute returns, the channel is empty: the last goodbye was taken by
\* the last worker, and the jobs before it were run.
LEMMA ChannelDrained ==
  ASSUME TypeOK, MessageInv, AllExited
  PROVE  work = << >>
<1> DEFINE k == Cardinality(Where(work, {Shutdown}))
<1>1. /\ k \in Nat /\ N \in Nat /\ goodbyes \in Nat
      /\ k + goodbyes + Cardinality(Exited) = N
  BY GoodbyeSum, WhereFinite, ChannelTyped, NAssumption DEF TypeOK, MessageInv
<1>2. Cardinality(Exited) = N
  BY ExitedCount
<1>3. k = 0
  BY <1>1, <1>2
<1>4. Where(work, {Shutdown}) = {}
  <2>1. IsFiniteSet(Where(work, {Shutdown}))
    BY WhereFinite, ChannelTyped
  <2> QED
    BY <1>3, <2>1, FS_EmptySet
<1>5. \A i \in 1 .. Len(work) : work[i] = Shutdown
  BY Marks DEF AllExited, MessageInv, ExitedAfterJobs
<1>6. 1 \notin 1 .. Len(work)
  BY <1>4, <1>5 DEF Where
<1> QED
  BY <1>6, ChannelTyped

\* When execute returns, also after a failure, every job that was handed out
\* was entered once and has ended.
THEOREM NothingIsDropped == Spec => []NothingDropped
<1>1. IndInv => NothingDropped
  <2> SUFFICES ASSUME IndInv, phase = "returned" PROVE NothingDropped
    BY DEF NothingDropped
  <2>0. TypeOK /\ MessageInv /\ JobInv /\ HoldsJob /\ AllExited
    BY DEF IndInv, MessageInv, LoopEnded
  <2>1. work = << >>
    BY <2>0, ChannelDrained
  <2>2. ASSUME NEW t \in Tasks
        PROVE  /\ starts[t] = IF t \in submitted THEN 1 ELSE 0
               /\ ended[t] = "no" <=> t \notin submitted
    <3>1. CASE t \in submitted
      <4>1. starts[t] = 1
        BY <2>0, <2>1, <3>1 DEF JobInv, Accounted
      <4>2. ended[t] # "no"
        BY <2>0, <4>1, NothingRunning
      <4> QED
        BY <3>1, <4>1, <4>2
    <3>2. CASE t \notin submitted
      BY <2>0, <3>2 DEF JobInv, Unsubmitted
    <3> QED
      BY <3>1, <3>2
  <2> QED
    BY <2>1, <2>2 DEF NothingDropped
<1> QED
  BY <1>1, InductiveInvariant, PTL

-----------------------------------------------------------------------------
(* Refinement of TaskExecution.                                            *)

\* An edge relates two tasks of the graph, and makes its source one of the
\* dependencies of its target.
LEMMA EdgeDependency ==
  ASSUME NEW e \in Edges
  PROVE  e[1] \in Tasks /\ e[2] \in Tasks /\ e[1] \in Dependencies(e[2])
BY DEF Edges, GraphEdges, ExplicitEdges, ConflictEdges, Dependencies,
       DependenciesOf

\* What execute may answer once it asked for shutdown.
LEMMA ShutdownAnswer ==
  ASSUME TypeOK, OutcomeTrue, phase \in {"shutdown", "join", "returned"}
  PROVE  \/ outcome = Success /\ completed = Tasks
         \/ \E t \in Tasks : outcome = TaskFailed(t) /\ ended[t] = "Panicked"
<1>1. outcome # Pending /\ outcome # ChannelClosed /\ outcome \notin Mismatches
  BY DEF OutcomeTrue
<1>2. outcome = Success \/ \E t \in Tasks : outcome = TaskFailed(t)
  BY <1>1 DEF TypeOK, Outcomes
<1> QED
  BY <1>2 DEF OutcomeTrue

\* A step that changes neither the jobs' histories, nor the map of jobs and
\* what was taken from it, nor whether execute returned is invisible.
LEMMA InvisibleStep ==
  ASSUME UNCHANGED <<starts, ended, outcome>>,
         jobs' \cup submitted' = jobs \cup submitted, Over' = Over
  PROVE  UNCHANGED Execution!vars
BY DEF Execution!vars

\* Each step of the pool is a step of the abstract execution or invisible.
LEMMA ExecutionStep ==
  ASSUME IndInv, IndInv', [Next]_vars
  PROVE  Execution!Next \/ UNCHANGED Execution!vars
<1>0. /\ TypeOK /\ HoldsJob /\ Spawned /\ LoopEnded /\ JobInv /\ JobsLeft
      /\ OutcomeTrue /\ BatchReady /\ SubmittedReady /\ CompletedOk /\ HeldStarted
  BY DEF IndInv, MessageInv, AnswerInv, JobInv
<1>1. CASE Validate
  <2>1. /\ phase = "validate" /\ UNCHANGED <<jobs, submitted, starts, ended>>
        /\ submitted = {} /\ ~Over
    BY <1>0, <1>1 DEF Validate, JobsLeft, history, Over
  <2>2. CASE jobs = Tasks
    <3>1. phase' = "scan" /\ outcome' = outcome
      BY <1>1, <2>2 DEF Validate
    <3>2. Over' = Over
      BY <2>1, <3>1 DEF Over
    <3> QED
      BY <2>1, <3>1, <3>2, InvisibleStep
  <2>3. CASE jobs # Tasks
    <3>1. Over' /\ outcome' = JobSetMismatch(Tasks \ jobs, jobs \ Tasks)
      BY <1>1, <2>3 DEF Validate, Over
    <3>2. Execution!Refuse
      BY <2>1, <2>3, <3>1
         DEF Execution!Refuse, Execution!Pending, Pending,
             Execution!JobSetMismatch, JobSetMismatch
    <3> QED
      BY <3>2 DEF Execution!Next
  <2> QED
    BY <2>2, <2>3
<1>2. CASE Scan \/ CheckDone \/ SendShutdown \/ DropSender
  <2>1. UNCHANGED <<jobs, submitted, starts, ended>> /\ ~Over /\ ~Over'
    BY <1>2 DEF Scan, CheckDone, SendShutdown, DropSender, history, Over
  <2> QED
    BY <2>1 DEF Execution!vars
<1>3. CASE Join
  <2>1. /\ phase = "join" /\ ~Over /\ Over' /\ outcome' = outcome
        /\ UNCHANGED <<jobs, submitted, starts, ended>>
        /\ AllExited
    BY <1>3 DEF Join, history, Over
  <2>2. jobs \cup submitted = Tasks
    BY <1>0, <2>1 DEF JobsLeft, TypeOK
  <2>3. CASE outcome = Success /\ completed = Tasks
    <3>1. \A t \in Tasks : ended[t] = "Ok"
      BY <1>0, <2>3 DEF CompletedOk
    <3>2. { t \in Tasks : ended[t] = "Ok" } = Tasks
      BY <3>1
    <3>3. Execution!ReturnOk
      BY <2>1, <2>2, <2>3, <3>2
         DEF Execution!ReturnOk, Execution!Pending, Pending,
             Execution!Success, Success
    <3> QED
      BY <3>3 DEF Execution!Next
  <2>4. ASSUME NEW t \in Tasks, outcome = TaskFailed(t), ended[t] = "Panicked"
        PROVE  Execution!Next
    <3>1. \A s \in Tasks : starts[s] > 0 => ended[s] # "no"
      BY <1>0, <2>1, NothingRunning
    <3>2. Execution!Running = {}
      BY <1>0, <3>1 DEF Execution!Running, TypeOK, JobResults
    <3>3. Execution!ReturnFailed(t)
      BY <2>1, <2>4, <3>2
         DEF Execution!ReturnFailed, Execution!Pending, Pending,
             Execution!TaskFailed, TaskFailed
    <3> QED
      BY <3>3 DEF Execution!Next
  <2> QED
    BY <1>0, <2>1, <2>3, <2>4, ShutdownAnswer
<1>4. CASE Dispatch
  <2>1. PICK t \in batch :
           /\ submitted' = submitted \cup {t} /\ jobs' = jobs \ {t}
           /\ phase = "dispatch"
           /\ UNCHANGED <<phase, outcome, starts, ended>>
    BY <1>0, <1>4, DispatchFacts
  <2>2. t \in jobs
    BY <1>0, <2>1 DEF JobsLeft, BatchReady, TypeOK
  <2>3. jobs' \cup submitted' = jobs \cup submitted /\ Over' = Over
    BY <2>1, <2>2 DEF Over
  <2> QED
    BY <2>1, <2>3, InvisibleStep
<1>5. CASE Receive
  <2>1. /\ UNCHANGED <<jobs, submitted, starts, ended>>
        /\ phase = "receive" /\ phase' \in {"scan", "shutdown"}
    BY <1>5 DEF Receive, history
  <2>2. ~Over /\ ~Over'
    BY <2>1 DEF Over
  <2> QED
    BY <2>1, <2>2 DEF Execution!vars
<1>6. ASSUME NEW w \in Workers, Worker(w)
      PROVE  Execution!Next \/ UNCHANGED Execution!vars
  <2>1. UNCHANGED <<phase, jobs, submitted, outcome>>
    BY <1>6, WorkerFrame
  <2>2. Over' = Over
    BY <2>1 DEF Over
  <2>3. CASE LockReceiver(w) \/ TakeShutdown(w) \/ SendCompletion(w)
    <3>1. UNCHANGED <<starts, ended>>
      BY <1>0, <2>3, LockFacts, TakeShutdownFacts, SendFacts
    <3> QED
      BY <2>1, <2>2, <3>1, InvisibleStep
  <2>4. CASE TakeJob(w) \/ RunJob(w)
    <3>1. pc[w] \notin {"unspawned", "exited"}
      BY <2>4 DEF TakeJob, RunJob
    <3>2. ~Over /\ phase # "validate"
      BY <1>0, <3>1 DEF Over, Spawned, LoopEnded, AllExited
    <3>3. jobs \cup submitted = Tasks
      BY <1>0, <3>2 DEF JobsLeft, TypeOK, Over
    <3>4. CASE TakeJob(w)
      <4>1. PICK t \in Tasks :
               /\ t \in submitted /\ starts[t] = 0 /\ starts'[t] = 1
               /\ \A s \in Tasks : s # t => starts'[s] = starts[s]
               /\ ended' = ended
        <5>1. /\ work # << >> /\ work[1] \in Tasks
              /\ starts'[work[1]] = starts[work[1]] + 1
              /\ \A s \in Tasks : s # work[1] => starts'[s] = starts[s]
              /\ ended' = ended
          BY <1>0, <3>4, TakeJobFacts
        <5>2. 1 \in 1 .. Len(work) /\ work[1] # Shutdown
          BY <1>0, <5>1, ChannelTyped, Marks
        <5>3. work[1] \in submitted /\ starts[work[1]] = 0
          BY <1>0, <5>2 DEF JobInv, QueuedFresh
        <5> QED
          BY <5>1, <5>3
      <4>2. { s \in Tasks : starts'[s] > 0 } = { s \in Tasks : starts[s] > 0 } \cup {t}
        BY <4>1
      <4>3. t \in Tasks \ { s \in Tasks : starts[s] > 0 }
        BY <4>1
      <4>4. \A e \in Edges : e[2] = t => e[1] \in { s \in Tasks : ended[s] = "Ok" }
        BY <1>0, <4>1, EdgeDependency DEF SubmittedReady, CompletedOk
      <4>5. Execution!Begin(t)
        BY <2>1, <2>2, <3>2, <3>3, <4>1, <4>2, <4>3, <4>4
           DEF Execution!Begin, Execution!Pending, Pending
      <4> QED
        BY <4>5 DEF Execution!Next
    <3>5. CASE RunJob(w)
      <4>1. /\ starts' = starts /\ pc[w] = "run" /\ held[w] \in Tasks
            /\ held[w] # NoTask
            /\ ended'[held[w]] \in JobResults
            /\ \A t \in Tasks : t # held[w] => ended'[t] = ended[t]
        BY <1>0, <3>5, RunFacts
      <4>2. PICK t \in Tasks : t = held[w]
        BY <4>1
      <4>3. starts[t] = 1 /\ ended[t] = "no"
        BY <1>0, <4>1, <4>2 DEF HeldStarted
      <4>4. t \in Execution!Running
        BY <4>3 DEF Execution!Running
      <4>5. CASE ended'[t] = "Ok"
        <5>1. { s \in Tasks : ended'[s] = "Ok" }
                = { s \in Tasks : ended[s] = "Ok" } \cup {t}
          BY <4>1, <4>2, <4>5
        <5>2. { s \in Tasks : ended'[s] = "Panicked" }
                = { s \in Tasks : ended[s] = "Panicked" }
          BY <4>1, <4>2, <4>3, <4>5
        <5>3. Execution!Succeed(t)
          BY <2>1, <2>2, <4>1, <4>4, <5>1, <5>2 DEF Execution!Succeed
        <5> QED
          BY <5>3 DEF Execution!Next
      <4>6. CASE ended'[t] = "Panicked"
        <5>1. { s \in Tasks : ended'[s] = "Panicked" }
                = { s \in Tasks : ended[s] = "Panicked" } \cup {t}
          BY <4>1, <4>2, <4>6
        <5>2. { s \in Tasks : ended'[s] = "Ok" }
                = { s \in Tasks : ended[s] = "Ok" }
          BY <4>1, <4>2, <4>3, <4>6
        <5>3. Execution!Panic(t)
          BY <2>1, <2>2, <4>1, <4>4, <5>1, <5>2 DEF Execution!Panic
        <5> QED
          BY <5>3 DEF Execution!Next
      <4> QED
        BY <4>1, <4>2, <4>5, <4>6 DEF JobResults
    <3> QED
      BY <2>4, <3>4, <3>5
  <2> QED
    BY <1>6, <2>3, <2>4 DEF Worker
<1>7. CASE UNCHANGED vars
  <2>1. UNCHANGED <<jobs, submitted, starts, ended, outcome, phase>>
    BY <1>7 DEF vars, coordVars, history
  <2>2. Over' = Over
    BY <2>1 DEF Over
  <2> QED
    BY <2>1, <2>2, InvisibleStep
<1> QED
  BY NextCases, <1>1, <1>2, <1>3, <1>4, <1>5, <1>6, <1>7 DEF Deciding

\* The safety half of RefinesExecution: the fixed pool begins, ends and
\* answers for jobs only as an execution scope may.
THEOREM PoolRefinesExecution == Spec => Execution!SafeSpec
<1>1. Init => Execution!Init
  <2> SUFFICES ASSUME Init PROVE Execution!Init
    OBVIOUS
  <2>1. /\ { t \in Tasks : starts[t] > 0 } = {}
        /\ { t \in Tasks : ended[t] = "Ok" } = {}
        /\ { t \in Tasks : ended[t] = "Panicked" } = {}
    BY DEF Init
  <2>2. jobs \cup submitted \in JobSets /\ outcome = Pending
    BY DEF Init
  <2> QED
    BY <2>1, <2>2 DEF Execution!Init, Execution!Pending, Pending
<1>2. IndInv /\ IndInv' /\ [Next]_vars => [Execution!Next]_(Execution!vars)
  BY ExecutionStep
<1> QED
  BY <1>1, <1>2, InductiveInvariant, PTL DEF Spec, Execution!SafeSpec

-----------------------------------------------------------------------------
(* Two schedulers, one graph.                                              *)

\* The order lists every task once.
LEMMA OrderLists ==
  /\ Cardinality(Tasks) \in Nat /\ Len(Order) = Cardinality(Tasks)
  /\ Order \in [1 .. Cardinality(Tasks) -> Tasks]
  /\ \A i, j \in 1 .. Cardinality(Tasks) : i # j => Order[i] # Order[j]
  /\ \A t \in Tasks : \E i \in 1 .. Cardinality(Tasks) : Order[i] = t
<1> DEFINE Size == Cardinality(Tasks)
<1>1. Size \in Nat
  BY TasksAssumption, FS_CardinalityType
<1>2. /\ Order \in [1 .. Size -> Tasks]
      /\ \A i, j \in 1 .. Size : i # j => Order[i] # Order[j]
  BY OrderAssumption DEF LinearExtensions
<1>3. Len(Order) = Size
  BY <1>1, <1>2
<1>4. Order \in Injection(1 .. Size, Tasks)
  BY <1>2 DEF Injection, IsInjective
<1>5. Cardinality(1 .. Size) = Size
  BY <1>1, FS_Interval
<1>6. Order \in Surjection(1 .. Size, Tasks)
  BY <1>4, <1>5, TasksAssumption, FS_Injection
<1> QED
  BY <1>1, <1>2, <1>3, <1>6 DEF Surjection

\* The pool takes its own steps while the reference waits or runs.
LEMMA BothStepThePool == [BothNext]_allVars => [Next]_vars
<1> SUFFICES ASSUME BothNext PROVE [Next]_vars
  BY DEF allVars
<1>1. CASE PoolCoordinator
  BY <1>1 DEF PoolCoordinator, Next
<1>2. ASSUME NEW w \in Workers, PoolWorker(w) PROVE [Next]_vars
  BY <1>2 DEF PoolWorker, Next, Worker
<1>3. CASE SequentialCaller \/ SequentialCancel \/ BothDone
  BY <1>3 DEF SequentialCaller, SequentialCancel, BothDone, allVars
<1> QED
  BY <1>1, <1>2, <1>3 DEF BothNext

\* Whatever is true of the pool is true of it here.
LEMMA BothRunThePool == BothSpec => Spec
<1>1. BothInit => Init
  BY DEF BothInit
<1> QED
  BY <1>1, BothStepThePool, PTL DEF BothSpec, Spec

\* The jobs a call was given are the ones left in its map and the ones it
\* handed out; a call that is over stays over.
LEMMA GivenKept ==
  ASSUME IndInv, IndInv', [Next]_vars
  PROVE  /\ jobs' \cup submitted' = jobs \cup submitted
         /\ Over => Over'
<1> USE DEF coordVars, workerVars, history
<1>1. JobsLeft /\ JobsLeft' /\ submitted \subseteq Tasks /\ submitted' \subseteq Tasks
  BY DEF IndInv, AnswerInv, TypeOK
<1>2. CASE Coordinator
  <2>1. ~Over
    BY <1>2 DEF Coordinator, Validate, Scan, Dispatch, CheckDone, Receive,
                SendShutdown, DropSender, Join, Over
  <2>2. CASE phase = "validate"
    BY <1>2, <2>1, <2>2 DEF Coordinator, Validate, Scan, Dispatch, CheckDone, Receive,
                SendShutdown, DropSender, Join
  <2>3. CASE phase # "validate"
    <3>1. phase \notin {"validate", "refused"} /\ phase' \notin {"validate", "refused"}
      BY <1>2, <2>1, <2>3 DEF Coordinator, Validate, Scan, Dispatch, CheckDone, Receive,
                SendShutdown, DropSender, Join, Over
    <3> QED
      BY <1>1, <2>1, <3>1 DEF JobsLeft
  <2> QED
    BY <2>2, <2>3
<1>3. CASE \E w \in Workers : Worker(w)
  BY <1>3 DEF Worker, LockReceiver, TakeJob, TakeShutdown, RunJob, SendCompletion, Over
<1>4. CASE UNCHANGED vars
  BY <1>4 DEF vars, Over
<1> QED
  BY <1>2, <1>3, <1>4 DEF Next, Returned

\* Only RunJob ends a body, and it panics when the body is faulty.
LEMMA FaultyPanicsStep ==
  ASSUME IndInv, FaultyPanics, [BothNext]_allVars
  PROVE  FaultyPanics'
<1> USE DEF coordVars, workerVars, history
<1>1. CASE ended' = ended /\ faulty' = faulty
  BY <1>1 DEF FaultyPanics
<1>2. ASSUME NEW w \in Workers, RunJob(w),
             result'[w] = "Panicked" <=> held[w] \in faulty, faulty' = faulty
      PROVE  FaultyPanics'
  <2>1. /\ result \in [Workers -> JobResults]
        /\ ended \in [Tasks -> JobResults \cup {"no"}]
    BY DEF IndInv, TypeOK
  <2>2. PICK r \in JobResults : /\ result' = [result EXCEPT ![w] = r]
                                /\ ended' = [ended EXCEPT ![held[w]] = r]
    BY <1>2 DEF RunJob
  <2>3. result'[w] = r
    BY <2>1, <2>2
  <2>4. ASSUME NEW t \in Tasks, ended'[t] # "no"
        PROVE  ended'[t] = "Panicked" <=> t \in faulty
    <3>1. CASE t = held[w]
      BY <1>2, <2>1, <2>2, <2>3, <3>1
    <3>2. CASE t # held[w]
      BY <2>1, <2>2, <2>4, <3>2 DEF FaultyPanics
    <3> QED
      BY <3>1, <3>2
  <2> QED
    BY <1>2, <2>4 DEF FaultyPanics
<1>3. CASE PoolCoordinator
  <2>1. ended' = ended /\ faulty' = faulty
    BY <1>3 DEF PoolCoordinator, Coordinator, Validate, Scan, Dispatch, CheckDone,
                Receive, SendShutdown, DropSender, Join
  <2> QED
    BY <1>1, <2>1
<1>4. ASSUME NEW w \in Workers, PoolWorker(w) PROVE FaultyPanics'
  <2>1. CASE RunJob(w) /\ (result'[w] = "Panicked" <=> held[w] \in faulty)
    BY <1>2, <1>4, <2>1 DEF PoolWorker
  <2>2. CASE LockReceiver(w) \/ TakeJob(w) \/ TakeShutdown(w) \/ SendCompletion(w)
    <3>1. ended' = ended /\ faulty' = faulty
      BY <1>4, <2>2 DEF PoolWorker, LockReceiver, TakeJob, TakeShutdown, SendCompletion
    <3> QED
      BY <1>1, <3>1
  <2> QED
    BY <1>4, <2>1, <2>2 DEF PoolWorker
<1>5. CASE SequentialCaller \/ SequentialCancel \/ BothDone \/ UNCHANGED allVars
  <2>1. ended' = ended /\ faulty' = faulty
    BY <1>5 DEF SequentialCaller, SequentialCancel, BothDone, allVars, vars
  <2> QED
    BY <1>1, <2>1
<1> QED
  BY <1>3, <1>4, <1>5 DEF BothNext

\* While the pool runs, nothing the reference has found changes.
LEMMA PoolKeepsReference ==
  ASSUME SequentialInv, UNCHANGED <<faulty, seqVars>>,
         jobs' \cup submitted' = jobs \cup submitted, Over => Over'
  PROVE  SequentialInv'
<1>1. /\ faulty' = faulty /\ position' = position /\ step' = step
      /\ cancelled' = cancelled /\ seqJobs' = seqJobs
      /\ seqOutcome' = seqOutcome /\ seqAnswer' = seqAnswer
  BY DEF seqVars
<1>2. SameGiven'
  BY <1>1 DEF SequentialInv, SameGiven
<1>3. RanInOrder'
  BY <1>1 DEF SequentialInv, RanInOrder
<1>4. ReferenceVerdict => ReferenceVerdict'
  BY <1>1 DEF ReferenceVerdict
<1> QED
  BY <1>1, <1>2, <1>3, <1>4 DEF SequentialInv

\* The reference stops at the first faulty task of its order.
LEMMA ReferenceStep ==
  ASSUME SequentialInv, SequentialCaller \/ SequentialCancel
  PROVE  SequentialInv'
<1> DEFINE given == jobs \cup submitted
<1>1. /\ Over /\ Over' /\ faulty' = faulty
      /\ jobs' = jobs /\ submitted' = submitted
  BY DEF SequentialCaller, SequentialCancel, vars, coordVars, Over
<1>2. Len(Order) \in Nat
  BY OrderLists
<1>3. /\ position \in 0 .. Len(Order) /\ position \in Nat
      /\ cancelled \in BOOLEAN /\ faulty \subseteq Tasks
      /\ step = "validate" => seqJobs = given
      /\ step \notin {"validate", "done"} => given = Tasks
      /\ step \in {"check", "enter", "body", "skip", "failed"} => position < Len(Order)
      /\ step = "skip" => cancelled
      /\ step = "failed" => Order[position + 1] \in faulty
      /\ ~cancelled => \A i \in 1 .. position : Order[i] \notin faulty
      /\ step = "done" => ReferenceVerdict
      /\ seqAnswer # Pending => step = "done" /\ (~cancelled => seqAnswer = seqOutcome)
  BY <1>2 DEF SequentialInv, SameGiven, RanInOrder
<1> DEFINE Goal ==
      /\ position' \in 0 .. Len(Order) /\ cancelled' \in BOOLEAN
      /\ step' = "validate" => seqJobs' = given
      /\ step' \notin {"validate", "done"} => given = Tasks
      /\ step' \in {"check", "enter", "body", "skip", "failed"} => position' < Len(Order)
      /\ step' = "skip" => cancelled'
      /\ step' = "failed" => Order[position' + 1] \in faulty
      /\ ~cancelled' => \A i \in 1 .. position' : Order[i] \notin faulty
      /\ step' = "done" => ReferenceVerdict'
      /\ seqAnswer' # Pending =>
           step' = "done" /\ (~cancelled' => seqAnswer' = seqOutcome')
<1> SUFFICES Goal
  <2>1. SameGiven'
    BY <1>1 DEF SameGiven
  <2>2. RanInOrder'
    BY <1>1 DEF RanInOrder
  <2>3. Pending' = Pending
    BY DEF Pending
  <2> QED
    BY <1>1, <1>3, <2>1, <2>2, <2>3 DEF SequentialInv
<1> HIDE DEF given
<1>4. CASE SequentialCancel
  <2>1. /\ seqAnswer = Pending /\ cancelled' = TRUE /\ position' = position
        /\ step' = step /\ seqOutcome' = seqOutcome /\ seqAnswer' = seqAnswer
        /\ seqJobs' = seqJobs
    BY <1>4 DEF SequentialCancel, Sequential!Cancel, Sequential!Pending, Pending
  <2>2. step' = "done" => ReferenceVerdict'
    BY <1>1, <1>3, <2>1 DEF ReferenceVerdict
  <2> QED
    BY <1>3, <2>1, <2>2
<1>5. ASSUME SequentialCaller, Sequential!Validate PROVE Goal
  <2>1. /\ step = "validate" /\ seqJobs = given /\ seqAnswer' = seqAnswer
        /\ seqAnswer = Pending
        /\ position' = position /\ cancelled' = cancelled
    BY <1>1, <1>3, <1>5 DEF Sequential!Validate
  <2>2. CASE given = Tasks
    BY <1>1, <1>3, <1>5, <2>1, <2>2 DEF Sequential!Validate
  <2>3. CASE given # Tasks
    <3>1. step' = "done" /\ seqOutcome' = JobSetMismatch(Tasks \ given, given \ Tasks)
      BY <1>1, <1>3, <1>5, <2>1, <2>3
         DEF Sequential!Validate, Sequential!JobSetMismatch, JobSetMismatch
    <3>2. ReferenceVerdict'
      BY <1>1, <1>3, <2>3, <3>1 DEF ReferenceVerdict, given
    <3> QED
      BY <1>1, <1>3, <2>1, <3>1, <3>2
  <2> QED
    BY <1>1, <1>3, <2>2, <2>3
<1>6. ASSUME SequentialCaller,
             Sequential!StartJob \/ Sequential!CheckToken \/ Sequential!EnterBody
      PROVE  Goal
  <2>1. /\ position' = position /\ cancelled' = cancelled /\ seqAnswer' = seqAnswer
        /\ step \in {"next", "check", "enter"}
        /\ step' \in {"check", "enter", "skip", "body"}
        /\ step' = "skip" => cancelled
        /\ position < Len(Order)
    BY <1>1, <1>3, <1>6 DEF Sequential!StartJob, Sequential!CheckToken, Sequential!EnterBody
  <2> QED
    BY <1>1, <1>3, <2>1
<1>7. ASSUME SequentialCaller, Sequential!FinishJob PROVE Goal
  <2>1. /\ step \in {"body", "skip"} /\ step' = "next" /\ position' = position + 1
        /\ cancelled' = cancelled /\ seqAnswer' = seqAnswer
        /\ position < Len(Order)
    BY <1>1, <1>3, <1>7 DEF Sequential!FinishJob
  <2>2. ~cancelled => Order[position + 1] \notin faulty
    BY <1>1, <1>3, <1>7, <2>1 DEF SequentialCaller, Sequential!Current
  <2>3. ~cancelled => \A i \in 1 .. position + 1 : Order[i] \notin faulty
    <3>1. \A i \in 1 .. position + 1 : i \in 1 .. position \/ i = position + 1
      BY <1>1, <1>3
    <3> QED
      BY <1>1, <1>3, <2>2, <3>1
  <2>4. position + 1 \in 0 .. Len(Order)
    BY <1>1, <1>2, <1>3, <2>1
  <2> QED
    BY <1>1, <1>3, <2>1, <2>3, <2>4
<1>8. ASSUME SequentialCaller, Sequential!PanicJob PROVE Goal
  <2>1. /\ step = "body" /\ step' = "failed" /\ position' = position
        /\ cancelled' = cancelled /\ seqAnswer' = seqAnswer
        /\ position < Len(Order)
    BY <1>1, <1>3, <1>8 DEF Sequential!PanicJob
  <2>2. Order[position + 1] \in faulty
    BY <1>1, <1>3, <1>8, <2>1 DEF SequentialCaller, Sequential!Current
  <2> QED
    BY <1>1, <1>3, <2>1, <2>2
<1>9. ASSUME SequentialCaller, Sequential!Fail PROVE Goal
  <2>1. /\ step = "failed" /\ step' = "done" /\ position' = position
        /\ cancelled' = cancelled /\ seqAnswer' = seqAnswer
        /\ position < Len(Order)
        /\ seqOutcome' = TaskFailed(Order[position + 1])
    BY <1>1, <1>3, <1>9 DEF Sequential!Fail, Sequential!FailedTask, Sequential!Current,
                Sequential!TaskFailed, TaskFailed
  <2>2. ReferenceVerdict'
    BY <1>1, <1>3, <2>1 DEF ReferenceVerdict, given
  <2> QED
    BY <1>1, <1>3, <2>1, <2>2
<1>10. ASSUME SequentialCaller, Sequential!Finish PROVE Goal
  <2>1. /\ step = "next" /\ step' = "done" /\ position' = position
        /\ cancelled' = cancelled /\ seqAnswer' = seqAnswer
        /\ position = Len(Order) /\ seqOutcome' = Success
    BY <1>1, <1>3, <1>10 DEF Sequential!Finish, Sequential!Success, Success
  <2>2. ReferenceVerdict'
    BY <1>1, <1>3, <2>1 DEF ReferenceVerdict, given
  <2> QED
    BY <1>1, <1>3, <2>1, <2>2
<1>11. ASSUME SequentialCaller, Sequential!Answer PROVE Goal
  <2>1. /\ step = "done" /\ step' = step /\ position' = position
        /\ cancelled' = cancelled /\ seqOutcome' = seqOutcome
        /\ ~cancelled => seqAnswer' = seqOutcome
    BY <1>1, <1>3, <1>11 DEF Sequential!Answer, Sequential!ScopeResult
  <2>2. ReferenceVerdict'
    BY <1>1, <1>3, <2>1 DEF ReferenceVerdict
  <2> QED
    BY <1>1, <1>3, <2>1, <2>2
<1> QED
  BY <1>4, <1>5, <1>6, <1>7, <1>8, <1>9, <1>10, <1>11
     DEF SequentialCaller, Sequential!Caller

\* The invariant of the two executions: the pool's own, which bodies have
\* panicked, and how far the reference has come.
THEOREM AgreementInvariant == BothSpec => [](IndInv /\ BothInv)
<1>1. BothInit => BothInv
  <2> SUFFICES ASSUME BothInit PROVE BothInv
    OBVIOUS
  <2>1. /\ ended = [t \in Tasks |-> "no"] /\ submitted = {}
        /\ step = "validate" /\ position = 0 /\ cancelled = FALSE
        /\ seqAnswer = Pending /\ seqJobs = jobs /\ faulty \subseteq Tasks
    BY DEF BothInit, Init, Sequential!Init, Sequential!Pending, Pending
  <2>2. Len(Order) \in Nat
    BY OrderLists
  <2>3. FaultyPanics
    BY <2>1 DEF FaultyPanics
  <2>4. RanInOrder
    BY <2>1, <2>2 DEF RanInOrder
  <2>5. SameGiven
    BY <2>1 DEF SameGiven
  <2> QED
    BY <2>1, <2>3, <2>4, <2>5 DEF BothInv, SequentialInv
<1>2. IndInv /\ IndInv' /\ BothInv /\ [BothNext]_allVars => BothInv'
  <2> SUFFICES ASSUME IndInv, IndInv', BothInv, [BothNext]_allVars PROVE BothInv'
    OBVIOUS
  <2>1. FaultyPanics'
    BY FaultyPanicsStep DEF BothInv
  <2>2. SequentialInv'
    <3>1. CASE SequentialCaller \/ SequentialCancel
      BY <3>1, ReferenceStep DEF BothInv
    <3>2. CASE ~(SequentialCaller \/ SequentialCancel)
      <4>1. UNCHANGED <<faulty, seqVars>>
        BY <3>2 DEF BothNext, PoolCoordinator, PoolWorker, BothDone, allVars
      <4> QED
        BY <4>1, GivenKept, BothStepThePool, PoolKeepsReference DEF BothInv
    <3> QED
      BY <3>1, <3>2
  <2> QED
    BY <2>1, <2>2 DEF BothInv
<1> QED
  BY <1>1, <1>2, BothRunThePool, InductiveInvariant, PTL DEF BothSpec

\* Whatever the interleaving on the pool, the two schedulers reach the same
\* verdict on a graph.
THEOREM VerdictsAgree == BothSpec => []SameVerdict
<1>1. IndInv /\ BothInv => SameVerdict
  <2> SUFFICES ASSUME IndInv, BothInv, Over, seqAnswer # Pending, ~cancelled
               PROVE  /\ outcome.kind = seqAnswer.kind
                      /\ outcome.kind = "JobSetMismatch" => outcome = seqAnswer
                      /\ outcome.kind = "Ok" => faulty = {} /\ completed = Tasks
                      /\ outcome.kind = "TaskFailed" =>
                           /\ outcome.task \in faulty
                           /\ \A t \in faulty : Rank(seqAnswer.task) <= Rank(t)
    BY DEF SameVerdict
  <2> DEFINE given == jobs \cup submitted
             Size == Cardinality(Tasks)
  <2>1. /\ seqAnswer = seqOutcome /\ ReferenceVerdict
        /\ faulty \subseteq Tasks
        /\ position \in 0 .. Len(Order)
        /\ \A i \in 1 .. position : Order[i] \notin faulty
    BY DEF BothInv, SequentialInv, RanInOrder
  <2>2. /\ Size \in Nat /\ Order \in [1 .. Size -> Tasks]
        /\ \A i, j \in 1 .. Size : i # j => Order[i] # Order[j]
        /\ Len(Order) = Size
    BY OrderLists
  <2>3. \A t \in Tasks : \E i \in 1 .. Size : Order[i] = t
    BY OrderLists
  <2>4. \A i \in 1 .. Size : Rank(Order[i]) = i
    <3> SUFFICES ASSUME NEW i \in 1 .. Size PROVE Rank(Order[i]) = i
      OBVIOUS
    <3>1. DOMAIN Order = 1 .. Size
      BY <2>2
    <3> HIDE DEF Size
    <3>2. Rank(Order[i]) \in 1 .. Size /\ Order[Rank(Order[i])] = Order[i]
      BY <3>1, Zenon DEF Rank
    <3> QED
      BY <2>2, <3>2
  <2>5. /\ JobsLeft /\ OutcomeTrue /\ outcome \in Outcomes /\ CompletedOk
        /\ submitted \subseteq Tasks
    BY DEF IndInv, AnswerInv, JobInv, TypeOK
  <2>6. CASE phase = "refused"
    <3>1. submitted = {} /\ given = jobs /\ jobs # Tasks
          /\ outcome = JobSetMismatch(Tasks \ jobs, jobs \ Tasks)
      BY <2>5, <2>6 DEF JobsLeft, OutcomeTrue
    <3>2. seqAnswer = outcome
      BY <2>1, <3>1 DEF ReferenceVerdict
    <3> QED
      BY <3>1, <3>2 DEF JobSetMismatch
  <2>7. CASE phase = "returned"
    <3>1. given = Tasks
      BY <2>5, <2>7 DEF JobsLeft
    <3>2. outcome = Success \/ \E t \in Tasks : outcome = TaskFailed(t)
      BY <2>5, <2>7 DEF OutcomeTrue, Outcomes
    <3>3. CASE outcome = Success
      <4>1. completed = Tasks /\ \A t \in Tasks : ended[t] = "Ok"
        BY <2>5, <3>3 DEF OutcomeTrue, CompletedOk
      <4>2. faulty = {}
        BY <2>1, <4>1 DEF BothInv, FaultyPanics
      <4>3. seqAnswer = Success
        BY <2>1, <3>1, <4>2 DEF ReferenceVerdict
      <4> QED
        BY <3>3, <4>1, <4>2, <4>3 DEF Success
    <3>4. ASSUME NEW u \in Tasks, outcome = TaskFailed(u)
          PROVE  /\ outcome.kind = "TaskFailed" /\ outcome.kind = seqAnswer.kind
                 /\ outcome.task \in faulty
                 /\ \A t \in faulty : Rank(seqAnswer.task) <= Rank(t)
      <4>1. ended[u] = "Panicked" /\ outcome.task = u /\ outcome.kind = "TaskFailed"
        BY <2>5, <3>4 DEF OutcomeTrue, TaskFailed
      <4>2. u \in faulty
        BY <4>1 DEF BothInv, FaultyPanics
      <4>3. position # Len(Order)
        BY <2>1, <2>2, <2>3, <4>2
      <4>4. position < Len(Order) /\ seqAnswer = TaskFailed(Order[position + 1])
        BY <2>1, <3>1, <4>3 DEF ReferenceVerdict
      <4>5. seqAnswer.kind = "TaskFailed" /\ seqAnswer.task = Order[position + 1]
        BY <4>4 DEF TaskFailed
      <4>6. ASSUME NEW t \in faulty PROVE Rank(seqAnswer.task) <= Rank(t)
        <5>1. PICK i \in 1 .. Size : Order[i] = t
          BY <2>1, <2>3
        <5>2. position + 1 \in 1 .. Size /\ position + 1 <= i
          BY <2>1, <2>2, <4>4, <5>1
        <5> QED
          BY <2>4, <4>5, <5>1, <5>2
      <4> QED
        BY <4>1, <4>2, <4>5, <4>6
    <3> QED
      BY <3>2, <3>3, <3>4
  <2> QED
    BY <2>6, <2>7 DEF Over
<1> QED
  BY <1>1, AgreementInvariant, PTL
-----------------------------------------------------------------------------
(* The deterministic scheduler implements TaskExecution.                   *)

\* The scheduler is inside the wrapped job of the task at its position.
InsideJob == step \in {"check", "enter", "body", "skip", "failed"}

\* Where the deterministic scheduler is in its order: what lies before its
\* position succeeded, nothing after it was started, and only the task at the
\* position can have panicked.
ReferenceInv ==
  /\ position \in 0 .. Len(Order)
  /\ InsideJob => position < Len(Order)
  /\ step = "validate" => position = 0
  /\ step \notin {"validate", "done"} => seqJobs \cup seqStarted = Tasks
  /\ step # "done" =>
       /\ seqSucceeded = {Order[i] : i \in 1 .. position}
       /\ seqStarted = {Order[i] : i \in 1 .. IF InsideJob THEN position + 1 ELSE position}
       /\ seqPanicked = IF step = "failed" THEN {Order[position + 1]} ELSE {}

\* The reference takes its own steps or waits for the pool.
LEMMA BothStepTheReference ==
  [BothNext]_allVars => [Sequential!Next]_(Sequential!vars)
<1> SUFFICES ASSUME BothNext, ~(UNCHANGED seqVars) PROVE Sequential!Next
  BY DEF allVars, seqVars, Sequential!vars
<1>1. SequentialCaller \/ SequentialCancel
  BY DEF BothNext, PoolCoordinator, PoolWorker, BothDone, allVars, seqVars
<1> QED
  BY <1>1 DEF SequentialCaller, SequentialCancel, Sequential!Next

\* The place after the next one of the order.
LEMMA OneFurther ==
  ASSUME NEW p \in 0 .. Len(Order), p < Len(Order)
  PROVE  /\ p \in Nat /\ p + 1 \in 0 .. Len(Order) /\ Order[p + 1] \in Tasks
         /\ {Order[i] : i \in 1 .. p + 1} = {Order[i] : i \in 1 .. p} \cup {Order[p + 1]}
         /\ Order[p + 1] \notin {Order[i] : i \in 1 .. p}
         /\ \A e \in Edges : e[2] = Order[p + 1] => e[1] \in {Order[i] : i \in 1 .. p}
<1>1. /\ Len(Order) \in Nat /\ p \in Nat /\ p + 1 \in 1 .. Len(Order)
      /\ p + 1 \in 0 .. Len(Order)
  BY OrderLists
<1>2. /\ Order \in [1 .. Len(Order) -> Tasks]
      /\ \A i, j \in 1 .. Len(Order) : i # j => Order[i] # Order[j]
      /\ \A t \in Tasks : \E i \in 1 .. Len(Order) : Order[i] = t
  BY OrderLists
<1>3. \A i \in 1 .. p : i \in 1 .. Len(Order) /\ i # p + 1 /\ i \in 1 .. p + 1
  BY <1>1
<1>4. \A i \in 1 .. p + 1 : i \in 1 .. p \/ i = p + 1
  BY <1>1
<1>5. p + 1 \in 1 .. p + 1
  BY <1>1
<1>6. ASSUME NEW e \in Edges, e[2] = Order[p + 1]
      PROVE  \E i \in 1 .. p : e[1] = Order[i]
  <2>1. e[1] \in Tasks /\ e = <<e[1], e[2]>>
    BY DependsOnAssumption DEF Edges, GraphEdges, ExplicitEdges, ConflictEdges
  <2>2. PICK i \in 1 .. Len(Order) : Order[i] = e[1]
    BY <1>2, <2>1
  <2>3. DOMAIN Order = 1 .. Len(Order)
    BY <1>2
  <2>4. i < p + 1
    BY <1>1, <1>6, <2>1, <2>2, <2>3, OrderAssumption DEF LinearExtensions
  <2>5. i \in 1 .. p
    BY <1>1, <2>2, <2>4
  <2> QED
    BY <2>2, <2>5
<1>7. {Order[i] : i \in 1 .. p + 1} = {Order[i] : i \in 1 .. p} \cup {Order[p + 1]}
  BY <1>3, <1>4, <1>5
<1>8. Order[p + 1] \notin {Order[i] : i \in 1 .. p}
  BY <1>1, <1>2, <1>3
<1>9. Order[p + 1] \in Tasks
  BY <1>1, <1>2
<1>10. \A e \in Edges : e[2] = Order[p + 1] => e[1] \in {Order[i] : i \in 1 .. p}
  BY <1>6
<1> QED
  BY <1>1, <1>7, <1>8, <1>9, <1>10

\* Every step of the scheduler keeps it where its invariant says.
LEMMA ReferenceInvStep ==
  ASSUME ReferenceInv, [Sequential!Next]_(Sequential!vars)
  PROVE  ReferenceInv'
<1> DEFINE Before(p) == {Order[i] : i \in 1 .. p}
<1>1. Len(Order) \in Nat /\ position \in Nat /\ position \in 0 .. Len(Order)
  BY OrderLists DEF ReferenceInv
<1>2. position < Len(Order) =>
        /\ position + 1 \in 0 .. Len(Order) /\ Order[position + 1] \in Tasks
        /\ Before(position + 1) = Before(position) \cup {Order[position + 1]}
  BY <1>1, OneFurther
<1>3. /\ InsideJob => position < Len(Order)
      /\ step = "validate" => position = 0
      /\ step \notin {"validate", "done"} => seqJobs \cup seqStarted = Tasks
      /\ step # "done" =>
           /\ seqSucceeded = Before(position)
           /\ InsideJob => seqStarted = Before(position + 1)
           /\ ~InsideJob => seqStarted = Before(position)
           /\ step = "failed" => seqPanicked = {Order[position + 1]}
           /\ step # "failed" => seqPanicked = {}
  BY DEF ReferenceInv
<1>4. Before(0) = {}
  OBVIOUS
<1> DEFINE Goal ==
      /\ position' \in 0 .. Len(Order)
      /\ InsideJob' => position' < Len(Order)
      /\ step' = "validate" => position' = 0
      /\ step' \notin {"validate", "done"} => seqJobs' \cup seqStarted' = Tasks
      /\ step' # "done" =>
           /\ seqSucceeded' = Before(position')
           /\ InsideJob' => seqStarted' = Before(position' + 1)
           /\ ~InsideJob' => seqStarted' = Before(position')
           /\ step' = "failed" => seqPanicked' = {Order[position' + 1]}
           /\ step' # "failed" => seqPanicked' = {}
<1> SUFFICES Goal
  BY DEF ReferenceInv
<1> HIDE DEF Before
<1> USE DEF InsideJob
<1>5. CASE Sequential!Validate
  BY <1>1, <1>3, <1>4, <1>5 DEF Sequential!Validate
<1>6. CASE Sequential!StartJob
  BY <1>1, <1>2, <1>3, <1>6 DEF Sequential!StartJob, Sequential!Current
<1>7. CASE Sequential!FinishJob
  BY <1>1, <1>2, <1>3, <1>7 DEF Sequential!FinishJob, Sequential!Current
<1>8. CASE Sequential!PanicJob
  BY <1>1, <1>3, <1>8 DEF Sequential!PanicJob, Sequential!Current
<1>9. CASE Sequential!CheckToken \/ Sequential!EnterBody
  BY <1>1, <1>3, <1>9 DEF Sequential!CheckToken, Sequential!EnterBody
<1>10. CASE Sequential!Fail \/ Sequential!Finish
  BY <1>1, <1>3, <1>10 DEF Sequential!Fail, Sequential!Finish
<1>11. CASE Sequential!Cancel \/ Sequential!Answer \/ UNCHANGED Sequential!vars
  BY <1>1, <1>3, <1>11 DEF Sequential!Cancel, Sequential!Answer, Sequential!vars
<1> QED
  BY <1>5, <1>6, <1>7, <1>8, <1>9, <1>10, <1>11
     DEF Sequential!Next, Sequential!Caller, Sequential!Answered

\* Under the mapping every step of the scheduler is one of an execution scope.
LEMMA ReferenceExecutes ==
  ASSUME ReferenceInv, [Sequential!Next]_(Sequential!vars)
  PROVE  [Sequential!Execution!Next]_(Sequential!Execution!vars)
<1> DEFINE Before(p) == {Order[i] : i \in 1 .. p}
           t == Order[position + 1]
<1>1. Len(Order) \in Nat /\ position \in Nat /\ position \in 0 .. Len(Order)
  BY OrderLists DEF ReferenceInv
<1>2. position < Len(Order) =>
        /\ t \in Tasks /\ t \notin Before(position)
        /\ Before(position + 1) = Before(position) \cup {t}
        /\ \A e \in Edges : e[2] = t => e[1] \in Before(position)
  BY <1>1, OneFurther
<1>3. /\ InsideJob => position < Len(Order)
      /\ step = "validate" => position = 0
      /\ step \notin {"validate", "done"} => seqJobs \cup seqStarted = Tasks
      /\ step # "done" =>
           /\ seqSucceeded = Before(position)
           /\ InsideJob => seqStarted = Before(position + 1)
           /\ ~InsideJob => seqStarted = Before(position)
           /\ step = "failed" => seqPanicked = {t}
           /\ step # "failed" => seqPanicked = {}
  BY DEF ReferenceInv
<1>4. Before(0) = {} /\ Before(Len(Order)) = Tasks
  BY OrderLists
<1>5. Sequential!Execution!Pending = Sequential!Pending
  BY DEF Sequential!Execution!Pending, Sequential!Pending
<1> HIDE DEF Before, t
<1> USE DEF InsideJob
<1>6. CASE Sequential!Validate
  <2>1. seqStarted = {} /\ seqJobs \cup seqStarted = seqJobs
    BY <1>3, <1>4, <1>6 DEF Sequential!Validate
  <2>2. CASE seqJobs = Tasks
    BY <1>6, <2>2 DEF Sequential!Validate, Sequential!Execution!vars
  <2>3. CASE seqJobs # Tasks
    <3>1. Sequential!Execution!Refuse
      BY <1>5, <1>6, <2>1, <2>3
         DEF Sequential!Validate, Sequential!Execution!Refuse,
             Sequential!JobSetMismatch, Sequential!Execution!JobSetMismatch
    <3> QED
      BY <3>1 DEF Sequential!Execution!Next
  <2> QED
    BY <2>2, <2>3
<1>7. CASE Sequential!StartJob
  <2>1. /\ step = "next" /\ position < Len(Order) /\ step' = "check"
        /\ seqJobs' = seqJobs \ {t} /\ seqStarted' = seqStarted \cup {t}
        /\ UNCHANGED <<seqSucceeded, seqPanicked>>
    BY <1>7 DEF Sequential!StartJob, Sequential!Current, t
  <2>2. /\ seqStarted = Before(position) /\ seqSucceeded = Before(position)
        /\ seqJobs \cup seqStarted = Tasks
    BY <1>3, <2>1
  <2>3. seqJobs' \cup seqStarted' = Tasks
    BY <1>2, <2>1, <2>2
  <2>4. Sequential!Execution!Begin(t)
    BY <1>2, <1>5, <2>1, <2>2, <2>3 DEF Sequential!Execution!Begin
  <2> QED
    BY <1>2, <2>1, <2>4 DEF Sequential!Execution!Next
<1>8. CASE Sequential!FinishJob
  <2>1. /\ step \in {"body", "skip"} /\ step' = "next"
        /\ seqSucceeded' = seqSucceeded \cup {t}
        /\ UNCHANGED <<seqJobs, seqStarted, seqPanicked>>
    BY <1>8 DEF Sequential!FinishJob, Sequential!Current, t
  <2>2. t \in seqStarted \ (seqSucceeded \cup seqPanicked) /\ t \in Tasks
    BY <1>2, <1>3, <2>1
  <2>3. Sequential!Execution!Succeed(t)
    BY <2>1, <2>2 DEF Sequential!Execution!Succeed, Sequential!Execution!Running
  <2> QED
    BY <2>2, <2>3 DEF Sequential!Execution!Next
<1>9. CASE Sequential!PanicJob
  <2>1. /\ step = "body" /\ step' = "failed"
        /\ seqPanicked' = seqPanicked \cup {t}
        /\ UNCHANGED <<seqJobs, seqStarted, seqSucceeded>>
    BY <1>9 DEF Sequential!PanicJob, Sequential!Current, t
  <2>2. t \in seqStarted \ (seqSucceeded \cup seqPanicked) /\ t \in Tasks
    BY <1>2, <1>3, <2>1
  <2>3. Sequential!Execution!Panic(t)
    BY <2>1, <2>2 DEF Sequential!Execution!Panic, Sequential!Execution!Running
  <2> QED
    BY <2>2, <2>3 DEF Sequential!Execution!Next
<1>10. CASE Sequential!Fail
  <2>1. /\ step = "failed" /\ step' = "done"
        /\ seqOutcome' = Sequential!TaskFailed(t)
        /\ UNCHANGED <<seqJobs, seqStarted, seqSucceeded, seqPanicked>>
    BY <1>10 DEF Sequential!Fail, Sequential!FailedTask, Sequential!Current, t
  <2>2. /\ seqStarted \ (seqSucceeded \cup seqPanicked) = {}
        /\ t \in seqPanicked /\ t \in Tasks
    BY <1>2, <1>3, <2>1
  <2>3. Sequential!Execution!ReturnFailed(t)
    BY <1>5, <2>1, <2>2
       DEF Sequential!Execution!ReturnFailed, Sequential!Execution!Running,
           Sequential!TaskFailed, Sequential!Execution!TaskFailed
  <2> QED
    BY <2>2, <2>3 DEF Sequential!Execution!Next
<1>11. CASE Sequential!Finish
  <2>1. /\ step = "next" /\ step' = "done" /\ position = Len(Order)
        /\ seqOutcome' = Sequential!Success
        /\ UNCHANGED <<seqJobs, seqStarted, seqSucceeded, seqPanicked>>
    BY <1>11 DEF Sequential!Finish
  <2>2. seqJobs \cup seqStarted = Tasks /\ seqSucceeded = Tasks
    BY <1>3, <1>4, <2>1
  <2>3. Sequential!Execution!ReturnOk
    BY <1>5, <2>1, <2>2
       DEF Sequential!Execution!ReturnOk, Sequential!Success, Sequential!Execution!Success
  <2> QED
    BY <2>3 DEF Sequential!Execution!Next
<1>12. CASE Sequential!CheckToken \/ Sequential!EnterBody
  <2>1. /\ step # "done" /\ step' # "done"
        /\ UNCHANGED <<seqJobs, seqStarted, seqSucceeded, seqPanicked>>
    BY <1>12 DEF Sequential!CheckToken, Sequential!EnterBody
  <2> QED
    BY <2>1 DEF Sequential!Execution!vars
<1>13. CASE Sequential!Cancel \/ Sequential!Answer \/ UNCHANGED Sequential!vars
  <2>1. UNCHANGED <<step, seqOutcome, seqJobs, seqStarted, seqSucceeded, seqPanicked>>
    BY <1>13 DEF Sequential!Cancel, Sequential!Answer, Sequential!vars
  <2> QED
    BY <2>1 DEF Sequential!Execution!vars
<1> QED
  BY <1>6, <1>7, <1>8, <1>9, <1>10, <1>11, <1>12, <1>13
     DEF Sequential!Next, Sequential!Caller, Sequential!Answered

\* The safety half of SequentialRefinesExecution: the deterministic scheduler
\* begins, ends and answers for jobs only as an execution scope may, whatever
\* bodies panic and whenever its scope is cancelled.
THEOREM ReferenceRefinesExecution == BothSpec => Sequential!Execution!SafeSpec
<1>1. BothInit => Sequential!Execution!Init /\ ReferenceInv
  <2> SUFFICES ASSUME BothInit PROVE Sequential!Execution!Init /\ ReferenceInv
    OBVIOUS
  <2>1. /\ seqJobs \in JobSets /\ position = 0 /\ step = "validate"
        /\ seqStarted = {} /\ seqSucceeded = {} /\ seqPanicked = {}
    BY DEF BothInit, Sequential!Init
  <2>2. Len(Order) \in Nat /\ {Order[i] : i \in 1 .. 0} = {}
    BY OrderLists
  <2>3. ReferenceInv
    BY <2>1, <2>2 DEF ReferenceInv, InsideJob
  <2>4. seqJobs \cup seqStarted \in JobSets
    BY <2>1
  <2> QED
    BY <2>1, <2>3, <2>4
       DEF Sequential!Execution!Init, Sequential!Execution!Pending, Sequential!Pending
<1>2. ReferenceInv /\ [BothNext]_allVars => ReferenceInv'
  BY BothStepTheReference, ReferenceInvStep
<1>3. ReferenceInv /\ [BothNext]_allVars
        => [Sequential!Execution!Next]_(Sequential!Execution!vars)
  BY BothStepTheReference, ReferenceExecutes
<1> QED
  BY <1>1, <1>2, <1>3, PTL DEF BothSpec, Sequential!Execution!SafeSpec
=============================================================================
