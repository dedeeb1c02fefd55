------------------------- MODULE ParallelChunks_proofs -------------------------
(***************************************************************************)
(* Proofs about ParallelChunks, for every width of usize and every set of  *)
(* requests: the chunks the loop plans cover the range and are disjoint,   *)
(* so a call that answers Ok has visited every index once, and the partial *)
(* values, each in its own slot, are combined in ascending order.          *)
(***************************************************************************)
EXTENDS ParallelChunks, SequenceTheorems, TLAPS

-----------------------------------------------------------------------------
(* Arithmetic.                                                             *)

\* Division with remainder.
LEMMA DivMod ==
  ASSUME NEW n \in Nat, NEW s \in Nat, s > 0
  PROVE  /\ n \div s \in Nat /\ n % s \in Nat /\ n % s < s
         /\ n = (n \div s) * s + (n % s)
OBVIOUS

\* Multiplication is monotone.
LEMMA Monotone ==
  ASSUME NEW a \in Nat, NEW b \in Nat, NEW s \in Nat, a <= b
  PROVE  a * s \in Nat /\ b * s \in Nat /\ a * s <= b * s
OBVIOUS

\* One more and one less of a product.
LEMMA Distribute ==
  ASSUME NEW a \in Int, NEW s \in Int
  PROVE  /\ (a + 1) * s = a * s + s
         /\ (a - 1) * s = a * s - s
         /\ a * (s + 1) = a * s + a
OBVIOUS

-----------------------------------------------------------------------------
(* The chunks of a request.                                                *)

\* What a request holds.
LEMMA RequestTyped ==
  ASSUME request \in Requests
  PROVE  /\ request.iterations \in Nat /\ request.chunkSize \in Nat
         /\ request.iterations < 2^W /\ 2^W \in Nat
         /\ request.op \in {"for", "reduce"}
         /\ \A i \in Nat : i < request.iterations => i \in Usize
<1>1. 2^W \in Nat
  BY WAssumption
<1> QED
  BY <1>1, RequestsAssumption DEF Usize

\* The chunks are as many as it takes to cover the range, and no more.
LEMMA ChunkCount ==
  ASSUME request \in Requests, request.chunkSize > 0
  PROVE  /\ Chunks \in Nat
         /\ Chunks * request.chunkSize \in Nat
         /\ request.iterations <= Chunks * request.chunkSize
         /\ \A c \in 0 .. Chunks - 1 : /\ c * request.chunkSize \in Nat
                                       /\ c * request.chunkSize < request.iterations
<1> DEFINE n == request.iterations
           s == request.chunkSize
           q == n \div s
           m == n % s
           k == Chunks
<1>1. n \in Nat /\ s \in Nat /\ s > 0
  BY RequestTyped
<1>3. k = q + (IF m = 0 THEN 0 ELSE 1)
  BY DEF Chunks
<1> SUFFICES /\ k \in Nat /\ k * s \in Nat /\ n <= k * s
             /\ \A c \in 0 .. k - 1 : c * s \in Nat /\ c * s < n
  OBVIOUS
<1> HIDE DEF n, s, k
<1>2. q \in Nat /\ m \in Nat /\ m < s /\ n = q * s + m /\ q * s \in Nat
  <2>1. q \in Nat /\ m \in Nat /\ m < s /\ n = q * s + m
    BY <1>1, DivMod
  <2> HIDE DEF q, m
  <2> QED
    BY <1>1, <2>1
<1> HIDE DEF q, m
<1>4. (q + 1) * s = q * s + s
  BY <1>1, <1>2, Distribute
<1>5. CASE m = 0
  <2>1. k = q
    BY <1>2, <1>3, <1>5
  <2>2. ASSUME NEW c \in 0 .. k - 1
        PROVE  c * s \in Nat /\ c * s < n
    <3>1. c \in Nat /\ c + 1 \in Nat /\ c + 1 <= q
      BY <1>2, <2>1
    <3>2. (c + 1) * s <= q * s /\ c * s \in Nat
      BY <1>1, <1>2, <3>1, Monotone
    <3>3. (c + 1) * s = c * s + s
      BY <1>1, <3>1, Distribute
    <3> QED
      BY <1>1, <1>2, <1>5, <3>2, <3>3
  <2> QED
    BY <1>2, <1>5, <2>1, <2>2
<1>6. CASE m # 0
  <2>1. k = q + 1
    BY <1>2, <1>3, <1>6
  <2>2. ASSUME NEW c \in 0 .. k - 1
        PROVE  c * s \in Nat /\ c * s < n
    <3>1. c \in Nat /\ c <= q
      BY <1>2, <2>1
    <3>2. c * s <= q * s /\ c * s \in Nat
      BY <1>1, <1>2, <3>1, Monotone
    <3> QED
      BY <1>1, <1>2, <1>6, <3>2
  <2>3. k \in Nat /\ k * s \in Nat /\ n <= k * s
    BY <1>1, <1>2, <1>4, <2>1
  <2> QED
    BY <2>2, <2>3
<1> QED
  BY <1>5, <1>6

\* An index is in one chunk at most, and that chunk is found by division.
LEMMA OneChunk ==
  ASSUME request \in Requests, request.chunkSize > 0,
         NEW i \in Nat, NEW c \in Nat, InChunk(i, c)
  PROVE  c = i \div request.chunkSize /\ i < request.iterations
<1> DEFINE s == request.chunkSize
           d == i \div s
<1>1. s \in Nat /\ s > 0 /\ request.iterations \in Nat
  BY RequestTyped
<1>2. c * s \in Nat /\ c * s <= i /\ i < c * s + s /\ i < request.iterations
  BY <1>1 DEF InChunk, Planned, MinOf
<1> SUFFICES c = d
  BY <1>2
<1> HIDE DEF s
<1>3. d \in Nat /\ i % s \in Nat /\ i % s < s /\ i = d * s + (i % s) /\ d * s \in Nat
  <2>1. d \in Nat /\ i % s \in Nat /\ i % s < s /\ i = d * s + (i % s)
    BY <1>1, DivMod
  <2> HIDE DEF d
  <2> QED
    BY <1>1, <2>1
<1> HIDE DEF d
<1>4. ~ (c < d)
  <2> SUFFICES ASSUME c < d PROVE FALSE
    OBVIOUS
  <2>1. (c + 1) * s <= d * s
    BY <1>1, <1>3, Monotone
  <2> QED
    BY <1>1, <1>2, <1>3, <2>1, Distribute
<1>5. ~ (d < c)
  <2> SUFFICES ASSUME d < c PROVE FALSE
    OBVIOUS
  <2>1. (d + 1) * s <= c * s
    BY <1>1, <1>3, Monotone
  <2> QED
    BY <1>1, <1>2, <1>3, <2>1, Distribute
<1> QED
  BY <1>3, <1>4, <1>5

\* Every index of the range is in the chunk that division finds.
LEMMA SomeChunk ==
  ASSUME request \in Requests, request.chunkSize > 0,
         NEW i \in Nat, i < request.iterations
  PROVE  /\ i \div request.chunkSize \in 0 .. Chunks - 1
         /\ InChunk(i, i \div request.chunkSize)
<1> DEFINE s == request.chunkSize
           d == i \div s
           k == Chunks
<1>1. s \in Nat /\ s > 0 /\ request.iterations \in Nat
  BY RequestTyped
<1>4. k \in Nat /\ k * s \in Nat /\ request.iterations <= k * s
  BY <1>1, ChunkCount
<1> HIDE DEF s
<1>2. d \in Nat /\ i % s \in Nat /\ i % s < s /\ i = d * s + (i % s) /\ d * s \in Nat
  <2>1. d \in Nat /\ i % s \in Nat /\ i % s < s /\ i = d * s + (i % s)
    BY <1>1, DivMod
  <2> HIDE DEF d
  <2> QED
    BY <1>1, <2>1
<1> HIDE DEF d, k
<1>3. InChunk(i, d)
  <2>1. d * s <= i /\ i < d * s + s
    BY <1>1, <1>2
  <2> QED
    BY <1>1, <1>2, <2>1 DEF InChunk, Planned, MinOf, s
<1>5. d < k
  <2> SUFFICES ASSUME k <= d PROVE FALSE
    BY <1>2, <1>4
  <2>1. k * s <= d * s
    BY <1>1, <1>2, <1>4, Monotone
  <2> QED
    BY <1>1, <1>2, <1>4, <2>1
<1>6. d \in 0 .. k - 1
  BY <1>2, <1>4, <1>5
<1> QED
  BY <1>3, <1>6 DEF s, d, k

\* The end of a chunk that does not overflow is the one meant.
LEMMA EndMeant ==
  ASSUME NoWrap, request \in Requests, request.chunkSize > 0,
         chunk \in 0 .. Chunks - 1, ~(Overflows /\ OverflowChecks)
  PROVE  [start |-> chunk * request.chunkSize, end |-> ChunkEnd] = Planned(chunk)
<1>1. /\ request.chunkSize \in Nat /\ request.iterations \in Nat /\ 2^W \in Nat
      /\ chunk * request.chunkSize \in Nat
      /\ chunk * request.chunkSize < request.iterations
  BY RequestTyped, ChunkCount
<1>2. RawEnd \in Nat /\ RawEnd = chunk * request.chunkSize + request.chunkSize
  BY <1>1 DEF RawEnd
<1>3. RawEnd < 2^W
  <2>1. CASE OverflowChecks
    BY <1>1, <1>2, <2>1 DEF Overflows
  <2>2. CASE request.iterations + request.chunkSize <= 2^W
    BY <1>1, <1>2, <2>2
  <2> QED
    BY <2>1, <2>2 DEF NoWrap
<1>4. RawEnd % 2^W = RawEnd
  BY <1>1, <1>2, <1>3
<1> QED
  BY <1>2, <1>4 DEF ChunkEnd, Planned

-----------------------------------------------------------------------------
(* The steps.                                                              *)

\* The plan of a request does not change during the call.
LEMMA Same ==
  ASSUME request' = request
  PROVE  /\ Chunks' = Chunks
         /\ \A c : Planned(c)' = Planned(c)
         /\ \A i, c : InChunk(i, c)' <=> InChunk(i, c)
<1>1. Chunks' = Chunks
  BY DEF Chunks
<1>2. \A c : Planned(c)' = Planned(c)
  BY DEF Planned
<1>3. \A i, c : InChunk(i, c)' <=> InChunk(i, c)
  BY <1>2 DEF InChunk
<1> QED
  BY <1>1, <1>2, <1>3

\* Indices are numbers.
LEMMA UsizeNat == ASSUME NEW i \in Usize PROVE i \in Nat
BY WAssumption DEF Usize

\* When every chunk's job has returned, every index was visited once.
LEMMA AllVisited ==
  ASSUME ChunksInv, phase \in Ready, ran = 0 .. Chunks - 1
  PROVE  \A i \in Usize : executed[i] = IF i < request.iterations THEN 1 ELSE 0
<1>1. /\ request \in Requests /\ request.chunkSize > 0 /\ phase # "returned"
      /\ ran \cup panicked \subseteq 0 .. Chunks - 1 /\ Chunks \in Nat
      /\ \A i \in Usize :
           /\ \A c \in ran : InChunk(i, c) => executed[i] = 1
           /\ (\A c \in ran \cup panicked : ~InChunk(i, c)) => executed[i] = 0
  <2>1. TypeOK /\ PlanInv /\ ExecuteInv /\ phase # "returned"
    BY DEF ChunksInv, Ready
  <2>2. request \in Requests /\ request.chunkSize > 0
    BY <2>1 DEF TypeOK, PlanInv
  <2> QED
    BY <2>1, <2>2, ChunkCount DEF ExecuteInv
<1> TAKE i \in Usize
<1>2. i \in Nat /\ request.iterations \in Nat
  BY <1>1, UsizeNat, RequestTyped
<1>3. CASE i < request.iterations
  BY <1>1, <1>2, <1>3, SomeChunk
<1>4. CASE ~(i < request.iterations)
  <2>1. \A c \in ran \cup panicked : c \in Nat /\ ~InChunk(i, c)
    BY <1>1, <1>2, <1>4, OneChunk
  <2> QED
    BY <1>1, <1>4, <2>1
<1> QED
  BY <1>3, <1>4

\* The call answers with an error.
LEMMA ErrorStep ==
  ASSUME ChunksInv, UNCHANGED <<request, ran, panicked, value, executed>>,
         chunk' \in Nat, phase' = "returned", answer' # "Ok", answer' # "MissingChunk"
  PROVE  ChunksInv'
BY DEF ChunksInv, TypeOK, PlanInv, ExecuteInv, CombineInv, EveryIterationOnce,
       ReduceInOrder, Ready

\* The request is accepted.
LEMMA StartStep ==
  ASSUME ChunksInv, Start
  PROVE  ChunksInv'
<1>1. /\ phase = "start" /\ answer = "Pending"
      /\ UNCHANGED <<request, chunk, jobs, ran, panicked, value, executed>>
      /\ chunk = 0 /\ ran = {} /\ panicked = {} /\ value = <<Mark>>
      /\ TypeOK
      /\ \A i \in Usize : executed[i] = 0
  BY DEF ChunksInv, Start, PlanInv, ExecuteInv, CombineInv
<1>2. CASE phase' = "returned"
  <2>1. answer' \in {"InvalidChunkSize", "TooManyChunks"}
    BY <1>1, <1>2 DEF Start
  <2> QED
    BY <1>1, <2>1, <1>2, ErrorStep DEF TypeOK
<1>3. CASE phase' # "returned"
  <2>1. /\ phase' = "plan" /\ answer' = "Pending" /\ request.chunkSize # 0
        /\ ~(Chunks > MaxTaskId)
    BY <1>1, <1>3 DEF Start
  <2>2. /\ request \in Requests /\ request.chunkSize > 0 /\ Chunks' = Chunks
        /\ Chunks \in Nat /\ Chunks <= MaxTaskId
    <3>1. request \in Requests /\ request.chunkSize \in Nat /\ request.chunkSize > 0
      BY <1>1, <2>1, RequestTyped DEF TypeOK
    <3>2. MaxTaskId \in Nat
      BY MaxTaskIdAssumption, WAssumption
    <3> QED
      BY <1>1, <2>1, <3>1, <3>2, Same, ChunkCount
  <2>3. TypeOK'
    BY <1>1, <2>1 DEF TypeOK
  <2>4. PlanInv'
    BY <1>1, <2>1, <2>2 DEF PlanInv, Ready
  <2>5. ExecuteInv'
    BY <1>1, <2>1 DEF ExecuteInv, Ready
  <2>p. request.op = "reduce" => DOMAIN partials' = 0 .. Chunks - 1
    BY <1>1, <1>3 DEF Start
  <2>6. CombineInv' /\ EveryIterationOnce' /\ ReduceInOrder'
    BY <1>1, <2>1, <2>2, <2>p DEF CombineInv, EveryIterationOnce, ReduceInOrder, Ready
  <2> QED
    BY <2>3, <2>4, <2>5, <2>6 DEF ChunksInv
<1> QED
  BY <1>2, <1>3

\* One more chunk is planned, or the arithmetic panics.
LEMMA PlanStep ==
  ASSUME NoWrap, ChunksInv, PlanChunk
  PROVE  ChunksInv'
<1>1. /\ phase = "plan" /\ answer = "Pending" /\ chunk < Chunks
      /\ UNCHANGED <<request, ran, panicked, partials, value, executed>>
      /\ request \in Requests /\ request.chunkSize > 0 /\ chunk \in Nat
      /\ Chunks <= MaxTaskId
      /\ ran = {} /\ panicked = {} /\ value = <<Mark>> /\ TypeOK
      /\ \A i \in Usize : executed[i] = 0
      /\ \A c \in 0 .. chunk - 1 : jobs[c] = Planned(c)
  BY DEF ChunksInv, PlanChunk, TypeOK, PlanInv, ExecuteInv, CombineInv
<1>2. Chunks \in Nat /\ chunk \in 0 .. Chunks - 1
  BY <1>1, ChunkCount
<1>3. CASE Overflows /\ OverflowChecks
  BY <1>1, <1>3, ErrorStep DEF PlanChunk
<1>4. CASE ~(Overflows /\ OverflowChecks)
  <2>1. /\ chunk' = chunk + 1 /\ phase' = "plan" /\ answer' = "Pending"
        /\ jobs' = [ c \in 0 .. chunk |->
                       IF c = chunk
                       THEN [start |-> chunk * request.chunkSize, end |-> ChunkEnd]
                       ELSE jobs[c] ]
    BY <1>1, <1>4 DEF PlanChunk
  <2>2. [start |-> chunk * request.chunkSize, end |-> ChunkEnd] = Planned(chunk)
    BY <1>1, <1>2, <1>4, EndMeant
  <2>3. /\ Chunks' = Chunks /\ \A c : Planned(c)' = Planned(c)
    BY <1>1, Same
  <2>4. \A c \in 0 .. chunk' - 1 : jobs'[c] = Planned(c)'
    <3> TAKE c \in 0 .. chunk' - 1
    <3>1. c \in 0 .. chunk /\ (c # chunk => c \in 0 .. chunk - 1)
      BY <1>1, <2>1
    <3> QED
      BY <1>1, <2>1, <2>2, <2>3, <3>1
  <2>5. TypeOK'
    BY <1>1, <2>1 DEF TypeOK
  <2>6. PlanInv'
    BY <1>1, <1>2, <2>1, <2>3, <2>4 DEF PlanInv, Ready
  <2>7. ExecuteInv'
    BY <1>1, <2>1 DEF ExecuteInv, Ready
  <2>p. request.op = "reduce" => DOMAIN partials = 0 .. Chunks - 1
    BY <1>1 DEF ChunksInv, CombineInv
  <2>8. CombineInv' /\ EveryIterationOnce' /\ ReduceInOrder'
    BY <1>1, <2>1, <2>3, <2>p DEF CombineInv, EveryIterationOnce, ReduceInOrder, Ready
  <2> QED
    BY <2>5, <2>6, <2>7, <2>8 DEF ChunksInv
<1> QED
  BY <1>3, <1>4

\* The pool takes the jobs.
LEMMA ExecuteStep ==
  ASSUME ChunksInv, Execute
  PROVE  ChunksInv'
<1>1. /\ phase = "plan" /\ chunk = Chunks /\ phase' = "execute" /\ chunk' = 0
      /\ UNCHANGED <<request, jobs, ran, panicked, partials, value, answer, executed>>
      /\ request \in Requests /\ request.chunkSize > 0 /\ Chunks <= MaxTaskId
      /\ ran = {} /\ panicked = {} /\ value = <<Mark>> /\ answer = "Pending" /\ TypeOK
      /\ \A i \in Usize : executed[i] = 0
      /\ \A c \in 0 .. Chunks - 1 : jobs[c] = Planned(c)
      /\ request.op = "reduce" => DOMAIN partials = 0 .. Chunks - 1
  BY DEF ChunksInv, Execute, TypeOK, PlanInv, ExecuteInv, CombineInv
<1>2. Chunks' = Chunks /\ \A c : Planned(c)' = Planned(c)
  BY <1>1, Same
<1>3. TypeOK'
  BY <1>1 DEF TypeOK
<1>4. PlanInv'
  BY <1>1, <1>2 DEF PlanInv, Ready
<1>5. ExecuteInv'
  BY <1>1 DEF ExecuteInv, Ready
<1>6. CombineInv' /\ EveryIterationOnce' /\ ReduceInOrder'
  BY <1>1, <1>2 DEF CombineInv, EveryIterationOnce, ReduceInOrder, Ready
<1> QED
  BY <1>3, <1>4, <1>5, <1>6 DEF ChunksInv

\* The state in which the pool runs chunk jobs.
Executing ==
  /\ phase = "execute" /\ answer = "Pending" /\ chunk = 0 /\ value = <<Mark>>
  /\ TypeOK /\ request.chunkSize > 0 /\ Chunks <= MaxTaskId /\ Chunks \in Nat
  /\ ran \cup panicked \subseteq 0 .. Chunks - 1
  /\ \A c \in 0 .. Chunks - 1 : jobs[c] = Planned(c)
  /\ request.op = "reduce" => /\ DOMAIN partials = 0 .. Chunks - 1
                              /\ \A c \in ran : partials[c] = Partial(c)
  /\ \A i \in Usize :
       /\ \A c \in ran : InChunk(i, c) => executed[i] = 1
       /\ (\A c \in ran \cup panicked : ~InChunk(i, c)) => executed[i] = 0

\* What the invariant says in that state.
LEMMA IsExecuting ==
  ASSUME phase = "execute", ChunksInv
  PROVE  Executing
<1>1. TypeOK /\ PlanInv /\ ExecuteInv /\ CombineInv
  BY DEF ChunksInv
<1>2. request \in Requests /\ request.chunkSize > 0
  BY <1>1 DEF TypeOK, PlanInv, Ready
<1> QED
  BY <1>1, <1>2, ChunkCount DEF Executing, PlanInv, ExecuteInv, CombineInv, Ready

\* Indices of a planned chunk.
LEMMA IndicesInChunk ==
  ASSUME Executing, NEW c \in 0 .. Chunks - 1
  PROVE  /\ Indices(c, jobs[c].end) = {i \in Usize : InChunk(i, c)}
         /\ \A j \in Indices(c, jobs[c].end) :
              Indices(c, j + 1) \subseteq {i \in Usize : InChunk(i, c)}
<1>1. jobs[c] = Planned(c) /\ request \in Requests
  BY DEF Executing, TypeOK
<1>2. Indices(c, jobs[c].end) = {i \in Usize : InChunk(i, c)}
  BY <1>1 DEF Indices, InChunk
<1>3. ASSUME NEW j \in Indices(c, jobs[c].end)
      PROVE  Indices(c, j + 1) \subseteq {i \in Usize : InChunk(i, c)}
  <2>1. j \in Nat /\ j < Planned(c).end /\ \A i \in Usize : i \in Nat
    BY <1>1, <1>2, <1>3, UsizeNat DEF InChunk
  <2>2. Planned(c).end \in Int
    BY <1>1, RequestTyped, ChunkCount DEF Planned, MinOf, Executing
  <2>3. ASSUME NEW i \in Indices(c, j + 1)
        PROVE  i \in Usize /\ InChunk(i, c)
    <3>1. i \in Usize /\ Planned(c).start <= i /\ i < j + 1 /\ i \in Nat
      BY <1>1, <2>1, <2>3 DEF Indices
    <3>2. i < Planned(c).end
      BY <2>1, <2>2, <3>1
    <3> QED
      BY <3>1, <3>2 DEF InChunk
  <2> QED
    BY <2>3
<1> QED
  BY <1>2, <1>3

\* A job that calls the body for indices of its own chunk, all of them if it
\* returns, keeps the count of every index right.
LEMMA JobCounts ==
  ASSUME Executing, NEW c \in (0 .. Chunks - 1) \ (ran \cup panicked),
         NEW called \in SUBSET {i \in Usize : InChunk(i, c)},
         request' = request, executed' = CallBody(called),
         ran' \cup panicked' = ran \cup panicked \cup {c},
         \/ ran' = ran
         \/ ran' = ran \cup {c} /\ called = {i \in Usize : InChunk(i, c)}
  PROVE  /\ executed' \in [Usize -> Nat]
         /\ \A i \in Usize :
              /\ \A d \in ran' : InChunk(i, d)' => executed'[i] = 1
              /\ (\A d \in ran' \cup panicked' : ~InChunk(i, d)') => executed'[i] = 0
<1>1. /\ executed \in [Usize -> Nat] /\ request \in Requests /\ request.chunkSize > 0
      /\ ran \cup panicked \subseteq Nat /\ c \in Nat
      /\ \A i \in Usize :
           /\ \A d \in ran : InChunk(i, d) => executed[i] = 1
           /\ (\A d \in ran \cup panicked : ~InChunk(i, d)) => executed[i] = 0
  BY DEF Executing, TypeOK
<1>2. executed' = [ i \in Usize |-> IF i \in called THEN executed[i] + 1 ELSE executed[i] ]
  BY DEF CallBody
<1>3. \A i, d : InChunk(i, d)' <=> InChunk(i, d)
  BY Same
<1>4. executed' \in [Usize -> Nat]
  BY <1>1, <1>2
<1>5. ASSUME NEW i \in Usize
      PROVE  /\ \A d \in ran' : InChunk(i, d)' => executed'[i] = 1
             /\ (\A d \in ran' \cup panicked' : ~InChunk(i, d)') => executed'[i] = 0
  <2>0. i \in Nat /\ executed[i] \in Nat
    BY <1>1, <1>5, UsizeNat
  <2>1. CASE InChunk(i, c)
    <3>1. \A d \in ran \cup panicked : ~InChunk(i, d)
      BY <1>1, <2>0, <2>1, OneChunk
    <3>2. executed[i] = 0
      BY <1>1, <1>5, <3>1
    <3>3. ran' = ran \cup {c} => executed'[i] = 1
      BY <1>2, <1>5, <2>1, <3>2
    <3>4. c \in ran' \cup panicked' /\ InChunk(i, c)'
      BY <1>3, <2>1
    <3> QED
      BY <1>3, <3>1, <3>3, <3>4
  <2>2. CASE ~InChunk(i, c)
    <3>1. executed'[i] = executed[i]
      BY <1>2, <1>5, <2>2
    <3>2. \A d \in ran' : InChunk(i, d)' => d \in ran /\ InChunk(i, d)
      BY <1>3, <2>2
    <3>3. (\A d \in ran' \cup panicked' : ~InChunk(i, d)') =>
             \A d \in ran \cup panicked : ~InChunk(i, d)
      BY <1>3
    <3> QED
      BY <1>1, <1>5, <3>1, <3>2, <3>3
  <2> QED
    BY <2>1, <2>2
<1> QED
  BY <1>4, <1>5

\* A chunk's job returns.
LEMMA RunStep ==
  ASSUME ChunksInv, NEW c, RunChunk(c)
  PROVE  ChunksInv'
<1>1. Executing /\ phase = "execute"
  BY IsExecuting DEF RunChunk
<1>2. /\ c \in (0 .. Chunks - 1) \ (ran \cup panicked)
      /\ executed' = CallBody(Indices(c, jobs[c].end))
      /\ partials' = IF request.op = "for" THEN partials
                     ELSE [partials EXCEPT ![c] = Partial(c)]
      /\ ran' = ran \cup {c}
      /\ UNCHANGED <<request, phase, chunk, jobs, panicked, value, answer>>
  BY DEF RunChunk, PartialSlot
<1>3. Indices(c, jobs[c].end) = {i \in Usize : InChunk(i, c)}
  BY <1>1, <1>2, IndicesInChunk
<1>4. /\ Chunks' = Chunks /\ (\A d : Planned(d)' = Planned(d))
      /\ \A d : Partial(d)' = Partial(d)
  BY <1>2, Same DEF Partial
<1>5. /\ executed' \in [Usize -> Nat]
      /\ \A i \in Usize :
           /\ \A d \in ran' : InChunk(i, d)' => executed'[i] = 1
           /\ (\A d \in ran' \cup panicked' : ~InChunk(i, d)') => executed'[i] = 0
  <2>1. ran' \cup panicked' = ran \cup panicked \cup {c}
    BY <1>2
  <2> QED
    BY <1>1, <1>2, <1>3, <2>1, JobCounts
<1>6. request.op = "reduce" => /\ DOMAIN partials' = 0 .. Chunks - 1
                               /\ \A d \in ran' : partials'[d] = Partial(d)'
  <2> SUFFICES ASSUME request.op = "reduce"
               PROVE  /\ DOMAIN partials' = 0 .. Chunks - 1
                      /\ \A d \in ran' : partials'[d] = Partial(d)'
    OBVIOUS
  <2>1. /\ DOMAIN partials = 0 .. Chunks - 1 /\ \A d \in ran : partials[d] = Partial(d)
        /\ ran \subseteq 0 .. Chunks - 1
    BY <1>1 DEF Executing
  <2>2. partials' = [partials EXCEPT ![c] = Partial(c)]
    BY <1>2
  <2> QED
    BY <1>2, <1>4, <2>1, <2>2
<1>7. TypeOK'
  BY <1>1, <1>2, <1>5 DEF Executing, TypeOK
<1>8. Executing'
  BY <1>1, <1>2, <1>4, <1>5, <1>6, <1>7 DEF Executing
<1>9. phase' = "execute"
  BY <1>1, <1>2
<1> QED
  BY <1>8, <1>9 DEF Executing, ChunksInv, PlanInv, ExecuteInv, CombineInv,
                    EveryIterationOnce, ReduceInOrder, Ready

\* A chunk's job unwinds after some of its indices.
LEMMA PanicStep ==
  ASSUME ChunksInv, NEW c, PanicChunk(c)
  PROVE  ChunksInv'
<1>1. Executing /\ phase = "execute"
  BY IsExecuting DEF PanicChunk
<1>2. PICK j \in Indices(c, jobs[c].end) :
        /\ c \in (0 .. Chunks - 1) \ (ran \cup panicked)
        /\ executed' = CallBody(Indices(c, j + 1))
        /\ panicked' = panicked \cup {c}
        /\ UNCHANGED <<request, phase, chunk, jobs, ran, partials, value, answer>>
  BY DEF PanicChunk
<1>3. Indices(c, j + 1) \in SUBSET {i \in Usize : InChunk(i, c)}
  BY <1>1, <1>2, IndicesInChunk
<1>4. /\ Chunks' = Chunks /\ (\A d : Planned(d)' = Planned(d))
      /\ \A d : Partial(d)' = Partial(d)
  BY <1>2, Same DEF Partial
<1>5. /\ executed' \in [Usize -> Nat]
      /\ \A i \in Usize :
           /\ \A d \in ran' : InChunk(i, d)' => executed'[i] = 1
           /\ (\A d \in ran' \cup panicked' : ~InChunk(i, d)') => executed'[i] = 0
  <2>1. ran' \cup panicked' = ran \cup panicked \cup {c}
    BY <1>2
  <2> QED
    BY <1>1, <1>2, <1>3, <2>1, JobCounts
<1>7. TypeOK'
  BY <1>1, <1>2, <1>5 DEF Executing, TypeOK
<1>8. Executing'
  BY <1>1, <1>2, <1>4, <1>5, <1>7 DEF Executing
<1>9. phase' = "execute"
  BY <1>1, <1>2
<1> QED
  BY <1>8, <1>9 DEF Executing, ChunksInv, PlanInv, ExecuteInv, CombineInv,
                    EveryIterationOnce, ReduceInOrder, Ready

\* The partial value of a planned chunk: the initial value and the indices.
LEMMA PartialFacts ==
  ASSUME request \in Requests, request.chunkSize > 0,
         NEW c \in 0 .. Chunks - 1, jobs[c] = Planned(c)
  PROVE  LET p == Partial(c)
             length == Planned(c).end - Planned(c).start
         IN  /\ p \in Seq(Int) /\ p # None
             /\ length \in Nat /\ Len(p) = 1 + length
             /\ p[1] = Mark
             /\ \A j \in 1 .. length : p[j + 1] = Planned(c).start + j - 1
<1> DEFINE start == Planned(c).start
           end == Planned(c).end
           length == end - start
           tail == [j \in 1 .. length |-> start + j - 1]
           p == Partial(c)
<1>1. start \in Nat /\ end \in Nat /\ start < end
  BY RequestTyped, ChunkCount DEF Planned, MinOf
<1>2. start = Planned(c).start /\ end = Planned(c).end
  OBVIOUS
<1> HIDE DEF start, end
<1>3. length \in Nat /\ length >= 1 /\ ~(end < start)
  BY <1>1
<1>4. p = <<Mark>> \o tail
  BY <1>2, <1>3 DEF Partial
<1>5. tail \in Seq(Int) /\ Len(tail) = length /\ \A j \in 1 .. length : tail[j] = start + j - 1
  <2>1. tail \in [1 .. length -> Int]
    BY <1>1, <1>3
  <2>2. \A j \in 1 .. length : tail[j] = start + j - 1
    OBVIOUS
  <2> HIDE DEF tail, length
  <2> QED
    BY <1>3, <2>1, <2>2
<1>6. <<Mark>> \in Seq(Int) /\ Len(<<Mark>>) = 1 /\ <<Mark>>[1] = Mark
  BY DEF Mark
<1> HIDE DEF tail, length, p
<1>7. /\ p \in Seq(Int) /\ Len(p) = 1 + length
      /\ \A i \in 1 .. 1 + length :
            p[i] = IF i <= 1 THEN <<Mark>>[i] ELSE tail[i - 1]
  BY <1>4, <1>5, <1>6, ConcatProperties
<1>8. p[1] = Mark
  BY <1>3, <1>6, <1>7
<1>9. ASSUME NEW j \in 1 .. length
      PROVE  p[j + 1] = start + j - 1
  <2>1. j + 1 \in 1 .. 1 + length /\ ~(j + 1 <= 1) /\ (j + 1) - 1 = j
    BY <1>3
  <2> QED
    BY <1>5, <1>7, <2>1
<1>10. p # None
  <2>1. p[1 + 1] = start + 1 - 1
    BY <1>3, <1>9
  <2>2. p[2] >= 0
    BY <1>1, <2>1
  <2>3. None[2] = -1
    BY DEF None, Mark
  <2> QED
    BY <2>2, <2>3
<1> QED
  BY <1>2, <1>3, <1>7, <1>8, <1>9, <1>10 DEF p, length

\* The state in which the caller combines the partial values.
Combining ==
  /\ phase = "combine" /\ answer = "Pending" /\ TypeOK /\ request.op = "reduce"
  /\ request.chunkSize > 0 /\ Chunks <= MaxTaskId /\ Chunks \in Nat /\ chunk <= Chunks
  /\ ran = 0 .. Chunks - 1 /\ panicked \subseteq 0 .. Chunks - 1
  /\ DOMAIN partials = 0 .. Chunks - 1
  /\ \A c \in 0 .. Chunks - 1 : jobs[c] = Planned(c)
  /\ \A c \in chunk .. Chunks - 1 : partials[c] = Partial(c)
  /\ Ordered(chunk)
  /\ \A i \in Usize :
       /\ \A c \in ran : InChunk(i, c) => executed[i] = 1
       /\ (\A c \in ran \cup panicked : ~InChunk(i, c)) => executed[i] = 0

\* What the invariant says in that state.
LEMMA IsCombining ==
  ASSUME phase = "combine", ChunksInv
  PROVE  Combining
<1>1. TypeOK /\ PlanInv /\ ExecuteInv /\ CombineInv
  BY DEF ChunksInv
<1>2. request \in Requests /\ request.chunkSize > 0
  BY <1>1 DEF TypeOK, PlanInv, Ready
<1> QED
  BY <1>1, <1>2, ChunkCount DEF Combining, PlanInv, ExecuteInv, CombineInv, Ready

\* The pool has answered Ok.
LEMMA OkStep ==
  ASSUME ChunksInv, ExecuteOk
  PROVE  ChunksInv'
<1>1. /\ Executing /\ phase = "execute" /\ ran = 0 .. Chunks - 1
      /\ UNCHANGED <<request, chunk, jobs, ran, panicked, partials, value, executed>>
  BY IsExecuting DEF ExecuteOk
<1>2. \A i \in Usize : executed[i] = IF i < request.iterations THEN 1 ELSE 0
  BY <1>1, AllVisited DEF Ready
<1>3. /\ request \in Requests /\ request.op \in {"for", "reduce"}
      /\ request.iterations \in Nat /\ request.chunkSize \in Nat
  BY <1>1, RequestTyped DEF Executing, TypeOK
<1>4. CASE request.op = "for"
  <2>1. phase' = "returned" /\ answer' = "Ok" /\ request'.op # "reduce"
    BY <1>1, <1>4 DEF ExecuteOk
  <2>2. TypeOK'
    BY <1>1, <2>1 DEF Executing, TypeOK
  <2>3. EveryIterationOnce' /\ ReduceInOrder'
    BY <1>1, <1>2, <2>1 DEF EveryIterationOnce, ReduceInOrder
  <2> QED
    BY <2>1, <2>2, <2>3 DEF ChunksInv, PlanInv, ExecuteInv, CombineInv, Ready
<1>5. CASE request.op = "reduce"
  <2>1. phase' = "combine" /\ answer' = answer
    BY <1>1, <1>5 DEF ExecuteOk
  <2>2. TypeOK'
    BY <1>1, <2>1 DEF Executing, TypeOK
  <2>3. /\ Chunks' = Chunks /\ (\A c : Planned(c)' = Planned(c))
        /\ (\A c : Partial(c)' = Partial(c))
        /\ \A i, c : InChunk(i, c)' <=> InChunk(i, c)
    BY <1>1, Same DEF Partial
  <2>4. Ordered(0)
    <3>1. 0 * request.chunkSize = 0 /\ MinOf(0, request.iterations) = 0
      BY <1>3 DEF MinOf
    <3>2. value = <<Mark>> /\ Len(<<Mark>>) = 1 /\ <<Mark>>[1] = Mark
      BY <1>1 DEF Executing
    <3>3. 0 .. 0 - 1 = {}
      OBVIOUS
    <3> QED
      BY <3>1, <3>2, <3>3 DEF Ordered
  <2>5. Ordered(chunk)'
    BY <1>1, <2>3, <2>4 DEF Ordered, Executing
  <2>6. PlanInv'
    BY <1>1, <2>1, <2>3 DEF Executing, PlanInv, Ready
  <2>7. ExecuteInv'
    BY <1>1, <2>1, <2>3 DEF Executing, ExecuteInv, Ready
  <2>8. CombineInv'
    BY <1>1, <1>5, <2>1, <2>3, <2>5 DEF Executing, CombineInv, Ready
  <2>9. EveryIterationOnce' /\ ReduceInOrder'
    BY <1>1, <2>1 DEF Executing, EveryIterationOnce, ReduceInOrder
  <2> QED
    BY <2>2, <2>6, <2>7, <2>8, <2>9 DEF ChunksInv
<1> QED
  BY <1>3, <1>4, <1>5

\* The caller returns the combined value.
LEMMA ReturnStep ==
  ASSUME ChunksInv, ReturnOk
  PROVE  ChunksInv'
<1>1. /\ Combining /\ phase = "combine" /\ chunk = Chunks
      /\ answer' = "Ok" /\ phase' = "returned"
      /\ UNCHANGED <<request, chunk, jobs, ran, panicked, partials, value, executed>>
  BY IsCombining DEF ReturnOk
<1>2. EveryIterationOnce'
  <2>1. ran = 0 .. Chunks - 1
    BY <1>1 DEF Combining
  <2>2. \A i \in Usize : executed[i] = IF i < request.iterations THEN 1 ELSE 0
    BY <1>1, <2>1, AllVisited DEF Ready
  <2> QED
    BY <1>1, <2>2 DEF EveryIterationOnce
<1>3. ReduceInOrder'
  <2>1. /\ request \in Requests /\ request.iterations \in Nat /\ request.chunkSize > 0
        /\ Ordered(Chunks) /\ Chunks' = Chunks
    BY <1>1, Same, RequestTyped DEF Combining, TypeOK
  <2>2. MinOf(Chunks * request.chunkSize, request.iterations) = request.iterations
    <3>1. /\ Chunks * request.chunkSize \in Nat
          /\ request.iterations <= Chunks * request.chunkSize
      BY <2>1, ChunkCount
    <3> QED
      BY <2>1, <3>1 DEF MinOf
  <2>3. ASSUME NEW i \in 0 .. request.iterations - 1
        PROVE  value[i + (i \div request.chunkSize) + 3] = i
    <3>1. i \in Nat /\ i < request.iterations /\ i \in Usize
      BY <2>1, <2>3, RequestTyped
    <3>2. /\ i \div request.chunkSize \in 0 .. Chunks - 1
          /\ InChunk(i, i \div request.chunkSize)
      BY <2>1, <3>1, SomeChunk
    <3> QED
      BY <2>1, <3>1, <3>2 DEF Ordered
  <2> QED
    BY <1>1, <2>1, <2>2, <2>3 DEF ReduceInOrder, Ordered
<1>4. TypeOK'
  BY <1>1 DEF Combining, TypeOK
<1> QED
  BY <1>1, <1>2, <1>3, <1>4 DEF ChunksInv, PlanInv, ExecuteInv, CombineInv, Ready

\* Appending a chunk's value to the value of the chunks before it.
LEMMA OrderedStep ==
  ASSUME request \in Requests, request.chunkSize > 0, value \in Seq(Int),
         NEW k \in 0 .. Chunks - 1, Ordered(k), jobs[k] = Planned(k)
  PROVE  LET v == value \o Partial(k)
         IN  /\ v \in Seq(Int)
             /\ Len(v) = 1 + (k + 1)
                           + MinOf((k + 1) * request.chunkSize, request.iterations)
             /\ v[1] = Mark
             /\ \A c \in 0 .. k :
                  /\ v[c * (request.chunkSize + 1) + 2] = Mark
                  /\ \A i \in Usize : InChunk(i, c) => v[i + c + 3] = i
<1> DEFINE n == request.iterations
           s == request.chunkSize
           ks == k * s
           start == Planned(k).start
           end == Planned(k).end
           length == end - start
           p == Partial(k)
           v == value \o p
           len == Len(value)
<1>1. /\ n \in Nat /\ s \in Nat /\ s > 0 /\ k \in Nat /\ ks \in Nat /\ ks < n
      /\ Chunks \in Nat /\ \A i \in Usize : i \in Nat
  BY RequestTyped, ChunkCount, UsizeNat
<1>2. start = ks /\ end = MinOf(ks + s, n)
  BY DEF Planned
<1>3. /\ p \in Seq(Int) /\ length \in Nat /\ Len(p) = 1 + length /\ p[1] = Mark
      /\ \A j \in 1 .. length : p[j + 1] = start + j - 1
  BY PartialFacts
<1>4. len = 1 + k + ks
  BY <1>1 DEF Ordered, MinOf
<1>6. /\ v \in Seq(Int) /\ Len(v) = len + Len(p)
      /\ \A i \in 1 .. len + Len(p) : v[i] = IF i <= len THEN value[i] ELSE p[i - len]
  BY <1>3, ConcatProperties
<1>7. len \in Nat
  BY <1>1, <1>4
<1>o. /\ value[1] = Mark
      /\ \A c \in 0 .. k - 1 : /\ value[c * (s + 1) + 2] = Mark
                               /\ \A i \in Usize : InChunk(i, c) => value[i + c + 3] = i
  BY DEF Ordered
<1>i. \A i, c : InChunk(i, c) <=> c * s <= i /\ i < MinOf(c * s + s, n)
  BY DEF InChunk, Planned
<1> SUFFICES /\ v \in Seq(Int)
             /\ Len(v) = 1 + (k + 1) + MinOf((k + 1) * s, n)
             /\ v[1] = Mark
             /\ \A c \in 0 .. k : /\ v[c * (s + 1) + 2] = Mark
                                  /\ \A i \in Usize : InChunk(i, c) => v[i + c + 3] = i
  OBVIOUS
<1> HIDE DEF n, s, ks, start, end, p, v, len
<1>5. (k + 1) * s = ks + s
  BY <1>1, Distribute DEF ks
<1>8. end \in Nat
  BY <1>1, <1>2 DEF MinOf
<1>9. Len(v) = 1 + (k + 1) + MinOf((k + 1) * s, n)
  <2>1. Len(v) = (1 + k + ks) + (1 + (end - ks))
    BY <1>2, <1>3, <1>4, <1>6
  <2>2. (1 + k + ks) + (1 + (end - ks)) = 1 + (k + 1) + end
    BY <1>1, <1>8
  <2> QED
    BY <1>2, <1>5, <2>1, <2>2
<1>10. \A x \in 1 .. len : v[x] = value[x]
  BY <1>3, <1>6, <1>7
<1>11. \A j \in 1 .. 1 + length : v[len + j] = p[j]
  <2> TAKE j \in 1 .. 1 + length
  <2>1. len + j \in 1 .. len + Len(p) /\ ~(len + j <= len) /\ (len + j) - len = j
    BY <1>3, <1>7
  <2> QED
    BY <1>6, <2>1
<1>12. v[1] = Mark
  BY <1>o, <1>1, <1>4, <1>10
<1>13. ASSUME NEW c \in 0 .. k
       PROVE  /\ v[c * (s + 1) + 2] = Mark
              /\ \A i \in Usize : InChunk(i, c) => v[i + c + 3] = i
  <2>1. c \in Nat /\ c * s \in Nat /\ c * (s + 1) = c * s + c
    BY <1>1, Distribute
  <2>2. CASE c = k
    <3>1. v[len + 1] = Mark
      BY <1>3, <1>11
    <3>2. c * (s + 1) + 2 = len + 1
      BY <1>1, <1>4, <2>1, <2>2 DEF ks
    <3>3. ASSUME NEW i \in Usize, InChunk(i, c)
          PROVE  v[i + c + 3] = i
      <4>1. i \in Nat /\ ks <= i /\ i < end
        BY <1>1, <1>2, <1>i, <2>2, <3>3 DEF ks
      <4> DEFINE j == i - ks + 1
      <4>2. j \in 1 .. length /\ j + 1 \in 1 .. 1 + length
        BY <1>1, <1>2, <1>8, <4>1
      <4>3. p[j + 1] = i
        <5>1. p[j + 1] = start + j - 1
          BY <1>3, <4>2
        <5>2. start + j - 1 = i
          BY <1>1, <1>2, <4>1
        <5> QED
          BY <5>1, <5>2
      <4>4. i + c + 3 = len + (j + 1)
        BY <1>1, <1>4, <2>2, <4>1
      <4> QED
        BY <1>11, <4>2, <4>3, <4>4
    <3> QED
      BY <3>1, <3>2, <3>3
  <2>3. CASE c # k
    <3>1. c \in 0 .. k - 1 /\ c + 1 \in Nat /\ c + 1 <= k
      BY <1>1, <2>3
    <3>2. c * s + s <= ks
      <4>1. (c + 1) * s <= k * s
        BY <1>1, <3>1, Monotone
      <4>2. (c + 1) * s = c * s + s
        BY <1>1, <2>1, Distribute
      <4> QED
        BY <4>1, <4>2 DEF ks
    <3>3. c * (s + 1) + 2 \in 1 .. len
      BY <1>1, <1>4, <2>1, <3>1, <3>2
    <3>4. ASSUME NEW i \in Usize, InChunk(i, c)
          PROVE  v[i + c + 3] = i
      <4>1. i \in Nat /\ i < c * s + s
        BY <1>1, <1>i, <2>1, <3>4 DEF MinOf
      <4>2. i + c + 3 \in 1 .. len
        BY <1>1, <1>4, <2>1, <3>1, <3>2, <4>1
      <4> QED
        BY <1>o, <1>10, <3>1, <3>4, <4>2
    <3> QED
      BY <1>o, <1>10, <3>1, <3>3, <3>4
  <2> QED
    BY <2>2, <2>3
<1> QED
  BY <1>6, <1>9, <1>12, <1>13

\* One more chunk is combined.
LEMMA CombineStep ==
  ASSUME ChunksInv, Combine
  PROVE  ChunksInv'
<1>1. /\ Combining /\ phase = "combine" /\ chunk < Chunks
      /\ chunk' = chunk + 1 /\ partials' = [partials EXCEPT ![chunk] = None]
      /\ UNCHANGED <<request, jobs, ran, panicked, executed>>
  BY IsCombining DEF Combine
<1>2. /\ request \in Requests /\ request.chunkSize > 0 /\ value \in Seq(Int)
      /\ Chunks \in Nat /\ chunk \in 0 .. Chunks - 1 /\ Ordered(chunk)
      /\ jobs[chunk] = Planned(chunk) /\ partials[chunk] = Partial(chunk)
  BY <1>1 DEF Combining, TypeOK
<1>3. Partial(chunk) # None
  BY <1>2, PartialFacts
<1>4. value' = value \o Partial(chunk) /\ phase' = "combine" /\ answer' = "Pending"
  BY <1>1, <1>2, <1>3 DEF Combine, Combining
<1>5. /\ Chunks' = Chunks /\ (\A c : Planned(c)' = Planned(c))
      /\ (\A c : Partial(c)' = Partial(c))
      /\ \A i, c : InChunk(i, c)' <=> InChunk(i, c)
  BY <1>1, Same DEF Partial
<1>6. /\ value' \in Seq(Int)
      /\ Len(value') = 1 + (chunk + 1)
                         + MinOf((chunk + 1) * request.chunkSize, request.iterations)
      /\ value'[1] = Mark
      /\ \A c \in 0 .. chunk :
           /\ value'[c * (request.chunkSize + 1) + 2] = Mark
           /\ \A i \in Usize : InChunk(i, c) => value'[i + c + 3] = i
  BY <1>2, <1>4, OrderedStep
<1>7. Ordered(chunk)'
  <2>1. chunk' - 1 = chunk /\ chunk' \in Nat
    BY <1>1, <1>2
  <2> QED
    BY <1>1, <1>5, <1>6, <2>1 DEF Ordered
<1>8. TypeOK'
  BY <1>1, <1>2, <1>4, <1>6 DEF Combining, TypeOK
<1>9. PlanInv'
  BY <1>1, <1>2, <1>4, <1>5 DEF Combining, PlanInv, Ready
<1>10. ExecuteInv'
  BY <1>1, <1>4, <1>5 DEF Combining, ExecuteInv, Ready
<1>11. CombineInv'
  <2>1. \A c \in chunk' .. Chunks - 1 : partials'[c] = Partial(c)'
    <3> TAKE c \in chunk' .. Chunks - 1
    <3>1. c \in chunk .. Chunks - 1 /\ c # chunk /\ c \in 0 .. Chunks - 1
      BY <1>1, <1>2
    <3> QED
      BY <1>1, <1>5, <3>1 DEF Combining
  <2>2. DOMAIN partials' = 0 .. Chunks - 1
    BY <1>1 DEF Combining
  <2> QED
    BY <1>1, <1>4, <1>5, <1>7, <2>1, <2>2 DEF Combining, CombineInv, Ready
<1>12. EveryIterationOnce' /\ ReduceInOrder'
  BY <1>4 DEF EveryIterationOnce, ReduceInOrder
<1> QED
  BY <1>8, <1>9, <1>10, <1>11, <1>12 DEF ChunksInv

-----------------------------------------------------------------------------
(* The theorems.                                                           *)

\* Every reachable state satisfies the invariant.
THEOREM ChunksInvariant ==
  ASSUME NoWrap
  PROVE  Spec => []ChunksInv
<1>1. Init => ChunksInv
  <2> SUFFICES ASSUME Init PROVE ChunksInv
    OBVIOUS
  <2>1. TypeOK
    BY DEF Init, TypeOK, Mark
  <2> QED
    BY <2>1 DEF Init, ChunksInv, PlanInv, ExecuteInv, CombineInv, EveryIterationOnce,
                ReduceInOrder, Ready
<1>2. ChunksInv /\ [Next]_vars => ChunksInv'
  <2> SUFFICES ASSUME ChunksInv, [Next]_vars PROVE ChunksInv'
    OBVIOUS
  <2>0. chunk \in Nat
    BY DEF ChunksInv, TypeOK
  <2>1. CASE Start
    BY <2>1, StartStep
  <2>2. CASE PlanChunk
    BY <2>2, PlanStep
  <2>3. CASE Execute
    BY <2>3, ExecuteStep
  <2>4. CASE ExecuteFailed
    BY <2>0, <2>4, ErrorStep DEF ExecuteFailed
  <2>5. CASE ExecuteOk
    BY <2>5, OkStep
  <2>6. CASE Combine
    BY <2>6, CombineStep
  <2>7. CASE CombinePanics
    BY <2>0, <2>7, ErrorStep DEF CombinePanics
  <2>8. CASE ReturnOk
    BY <2>8, ReturnStep
  <2>9. ASSUME NEW c \in 0 .. MaxTaskId - 1, RunChunk(c)
        PROVE  ChunksInv'
    BY <2>9, RunStep
  <2>10. ASSUME NEW c \in 0 .. MaxTaskId - 1, PanicChunk(c)
         PROVE  ChunksInv'
    BY <2>10, PanicStep
  <2>11. CASE UNCHANGED vars
    <3>1. /\ Chunks' = Chunks /\ (\A c : Planned(c)' = Planned(c))
          /\ (\A c : Partial(c)' = Partial(c))
          /\ \A i, c : InChunk(i, c)' <=> InChunk(i, c)
      BY <2>11, Same DEF vars, Partial
    <3>2. TypeOK' /\ PlanInv' /\ EveryIterationOnce' /\ ReduceInOrder'
      BY <2>11, <3>1 DEF vars, ChunksInv, TypeOK, PlanInv, EveryIterationOnce,
                         ReduceInOrder, Ready
    <3>3. ExecuteInv' /\ CombineInv'
      BY <2>11, <3>1 DEF vars, ChunksInv, ExecuteInv, CombineInv, Ordered, Ready
    <3> QED
      BY <3>2, <3>3 DEF ChunksInv
  <2> QED
    BY <2>1, <2>2, <2>3, <2>4, <2>5, <2>6, <2>7, <2>8, <2>9, <2>10, <2>11
       DEF Next, Returned
<1> QED
  BY <1>1, <1>2, PTL DEF Spec

\* For any width of usize, any range and any chunk size: parallel_for that
\* answers Ok has called the body once for every index of the range and for no
\* other, in a build with overflow checks and, without them, wherever
\* iterations + chunk_size is at most 2^W.
THEOREM IteratesOnce ==
  ASSUME NoWrap
  PROVE  Spec => []EveryIterationOnce
<1>1. ChunksInv => EveryIterationOnce
  BY DEF ChunksInv
<1> QED
  BY <1>1, ChunksInvariant, PTL

\* parallel_reduce combines every index in ascending order, whatever the order
\* in which the chunk jobs end, and never misses a chunk.
THEOREM ReducesInOrder ==
  ASSUME NoWrap
  PROVE  Spec => []ReduceInOrder
<1>1. ChunksInv => ReduceInOrder
  BY DEF ChunksInv
<1> QED
  BY <1>1, ChunksInvariant, PTL
================================================================================
