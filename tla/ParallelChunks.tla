---------------------------- MODULE ParallelChunks ----------------------------
(***************************************************************************)
(* WorkStealingPool::parallel_for and parallel_reduce: the arithmetic that *)
(* cuts 0..iterations into chunk jobs, the jobs, and the combination of    *)
(* the partial values in chunk order.  usize has W bits.  The chunk jobs   *)
(* are the tasks of a graph without edges; what the pool does with them is *)
(* the promise of TaskExecution: each runs once, in any order, and after a *)
(* panic any of the others may be missing.  A call is "for" or "reduce":   *)
(* both plan the same chunks, only the second has partial values.          *)
(*                                                                         *)
(* Values to reduce are sequences: map(i) is <<i>>, reduce concatenates    *)
(* and the initial value is the mark <<Mark>>, so that a value shows which *)
(* indices were combined in which order.                                   *)
(***************************************************************************)
EXTENDS Integers, Sequences, FiniteSets

CONSTANTS W,               \* bits of usize
          MaxTaskId,       \* u32::MAX, the largest TaskId
          OverflowChecks,  \* TRUE: arithmetic panics on overflow (debug build)
          Requests         \* calls: [op, iterations, chunkSize]

ASSUME WAssumption == W \in Nat \ {0} /\ 2^W \in Nat
ASSUME MaxTaskIdAssumption == MaxTaskId \in 1 .. 2^W - 1
ASSUME RequestsAssumption ==
  Requests \subseteq [op : {"for", "reduce"}, iterations : 0 .. 2^W - 1,
                      chunkSize : 0 .. 2^W - 1]

Usize == 0 .. 2^W - 1
Mark == -1

VARIABLES request, phase,
          chunk,       \* index of the loop that plans, then of the one that combines
          jobs,        \* planned ranges: chunk id -> [start, end]
          ran,         \* chunks whose job returned
          panicked,    \* chunks whose job unwound
          partials,    \* chunk -> partial value or None
          value,
          answer,
          executed     \* history: calls of the body per index

vars == <<request, phase, chunk, jobs, ran, panicked, partials, value, answer,
          executed>>

None == <<Mark, Mark, Mark>>
MinOf(a, b) == IF a <= b THEN a ELSE b

Init ==
  /\ request \in Requests
  /\ phase = "start" /\ chunk = 0 /\ jobs = << >>
  /\ ran = {} /\ panicked = {} /\ partials = << >>
  /\ value = <<Mark>> /\ answer = "Pending"
  /\ executed = [i \in Usize |-> 0]

-----------------------------------------------------------------------------
\* Fault: a remainder gets no chunk.
ChunksRoundedDown == request.iterations \div request.chunkSize

\* iterations / chunk_size + usize::from(!iterations.is_multiple_of(chunk_size))
Chunks ==
  request.iterations \div request.chunkSize
  + IF request.iterations % request.chunkSize = 0 THEN 0 ELSE 1

\* ParallelForConfig::new refuses zero, the call refuses too many chunks.
Start ==
  /\ phase = "start"
  /\ IF request.chunkSize = 0
     THEN answer' = "InvalidChunkSize" /\ phase' = "returned" /\ UNCHANGED partials
     ELSE IF Chunks > MaxTaskId
     THEN answer' = "TooManyChunks" /\ phase' = "returned" /\ UNCHANGED partials
     ELSE /\ phase' = "plan" /\ UNCHANGED answer
          /\ partials' = IF request.op = "for" THEN << >>
                         ELSE [c \in 0 .. Chunks - 1 |-> None]
  /\ UNCHANGED <<request, chunk, jobs, ran, panicked, value, executed>>

\* start + chunk_size, before it is brought back into usize.
\* The start itself is below iterations and fits.
RawEnd == chunk * request.chunkSize + request.chunkSize

Overflows == RawEnd >= 2^W

\* (start + chunk_size).min(iterations)
ChunkEnd == MinOf(RawEnd % 2^W, request.iterations)

PlanChunk ==
  /\ phase = "plan"
  /\ chunk < Chunks
  /\ IF Overflows /\ OverflowChecks
     THEN /\ phase' = "returned" /\ answer' = "Unwound"
          /\ UNCHANGED <<chunk, jobs>>
     ELSE /\ chunk' = chunk + 1
          /\ jobs' = [ c \in 0 .. chunk |->
                         IF c = chunk
                         THEN [start |-> chunk * request.chunkSize, end |-> ChunkEnd]
                         ELSE jobs[c] ]
          /\ UNCHANGED <<phase, answer>>
  /\ UNCHANGED <<request, ran, panicked, partials, value, executed>>

\* self.execute(&graph, jobs) begins.
Execute ==
  /\ phase = "plan"
  /\ chunk = Chunks
  /\ phase' = "execute"
  /\ chunk' = 0
  /\ UNCHANGED <<request, jobs, ran, panicked, partials, value, answer, executed>>

-----------------------------------------------------------------------------
Indices(c, last) == { i \in Usize : jobs[c].start <= i /\ i < last }
CallBody(indices) ==
  [ i \in Usize |-> IF i \in indices THEN executed[i] + 1 ELSE executed[i] ]

\* reduce(.. reduce(reduce(initial, map(start)), map(start + 1)) ..)
Partial(c) ==
  LET start == jobs[c].start
      length == IF jobs[c].end < start THEN 0 ELSE jobs[c].end - start
  IN  <<Mark>> \o [i \in 1 .. length |-> start + i - 1]

\* Fault: the values are stored in the order in which the jobs end.
CompletionSlot(c) == Cardinality(ran)

\* partials.lock()[chunk]
PartialSlot(c) == c

RunChunk(c) ==
  /\ phase = "execute"
  /\ c \in (0 .. Chunks - 1) \ (ran \cup panicked)
  /\ executed' = CallBody(Indices(c, jobs[c].end))
  /\ partials' = IF request.op = "for" THEN partials
                 ELSE [partials EXCEPT ![PartialSlot(c)] = Partial(c)]
  /\ ran' = ran \cup {c}
  /\ UNCHANGED <<request, phase, chunk, jobs, panicked, value, answer>>

\* The body, map or reduce panics at one index of the chunk.
PanicChunk(c) ==
  /\ phase = "execute"
  /\ c \in (0 .. Chunks - 1) \ (ran \cup panicked)
  /\ \E i \in Indices(c, jobs[c].end) : executed' = CallBody(Indices(c, i + 1))
  /\ panicked' = panicked \cup {c}
  /\ UNCHANGED <<request, phase, chunk, jobs, ran, partials, value, answer>>

ExecuteFailed ==
  /\ phase = "execute"
  /\ panicked # {}
  /\ answer' = "Pool" /\ phase' = "returned"
  /\ UNCHANGED <<request, chunk, jobs, ran, panicked, partials, value, executed>>

ExecuteOk ==
  /\ phase = "execute"
  /\ ran = 0 .. Chunks - 1
  /\ IF request.op = "for"
     THEN phase' = "returned" /\ answer' = "Ok"
     ELSE phase' = "combine" /\ UNCHANGED answer
  /\ UNCHANGED <<request, chunk, jobs, ran, panicked, partials, value, executed>>

-----------------------------------------------------------------------------
\* for chunk in 0..chunks: partials[chunk].take().ok_or(MissingChunk)?
Combine ==
  /\ phase = "combine"
  /\ chunk < Chunks
  /\ chunk' = chunk + 1
  /\ partials' = [partials EXCEPT ![chunk] = None]
  /\ IF partials[chunk] = None
     THEN answer' = "MissingChunk" /\ phase' = "returned" /\ UNCHANGED value
     ELSE value' = value \o partials[chunk] /\ UNCHANGED <<answer, phase>>
  /\ UNCHANGED <<request, jobs, ran, panicked, executed>>

\* The caller's reduce panics on the caller's thread: nothing catches it here.
CombinePanics ==
  /\ phase = "combine"
  /\ chunk < Chunks
  /\ partials[chunk] # None
  /\ partials' = [partials EXCEPT ![chunk] = None]
  /\ answer' = "ReducePanicked" /\ phase' = "returned"
  /\ UNCHANGED <<request, chunk, jobs, ran, panicked, value, executed>>

ReturnOk ==
  /\ phase = "combine"
  /\ chunk = Chunks
  /\ answer' = "Ok" /\ phase' = "returned"
  /\ UNCHANGED <<request, chunk, jobs, ran, panicked, partials, value, executed>>

Returned == phase = "returned" /\ UNCHANGED vars

Next ==
  \/ Start \/ PlanChunk \/ Execute \/ ExecuteFailed \/ ExecuteOk \/ Combine
  \/ CombinePanics \/ ReturnOk \/ Returned
  \/ \E c \in 0 .. MaxTaskId - 1 : RunChunk(c) \/ PanicChunk(c)

Spec == Init /\ [][Next]_vars

-----------------------------------------------------------------------------
(* Properties.                                                             *)

\* "Runs a side-effecting body over 0..iterations": Ok means that the body
\* was called for every index of the range, once, and for no other.
EveryIterationOnce ==
  answer = "Ok" =>
    \A i \in Usize : executed[i] = IF i < request.iterations THEN 1 ELSE 0

\* The reduction combines the indices in ascending order whatever the order
\* in which chunks end, with the initial value once for the result and once
\* at the head of each chunk; no chunk's value is ever missing after Ok of the
\* pool.
ReduceInOrder ==
  /\ answer # "MissingChunk"
  /\ answer = "Ok" /\ request.op = "reduce" =>
       /\ Len(value) = 1 + Chunks + request.iterations
       /\ value[1] = Mark
       /\ \A c \in 0 .. Chunks - 1 : value[c * (request.chunkSize + 1) + 2] = Mark
       /\ \A i \in 0 .. request.iterations - 1 :
            value[i + (i \div request.chunkSize) + 3] = i

-----------------------------------------------------------------------------
(* The inductive invariant, for calls whose arithmetic does not wrap.      *)

\* Overflow panics, or no last chunk reaches beyond usize.
NoWrap ==
  \/ OverflowChecks
  \/ \A q \in Requests : q.iterations + q.chunkSize <= 2^W

\* The range of a chunk as the loop means it.
Planned(c) ==
  [ start |-> c * request.chunkSize,
    end |-> MinOf(c * request.chunkSize + request.chunkSize, request.iterations) ]

InChunk(i, c) == Planned(c).start <= i /\ i < Planned(c).end

\* The variables keep their types.
TypeOK ==
  /\ request \in Requests
  /\ phase \in {"start", "plan", "execute", "combine", "returned"}
  /\ chunk \in Nat
  /\ ran \subseteq Nat /\ panicked \subseteq Nat
  /\ value \in Seq(Int)
  /\ executed \in [Usize -> Nat]

Ready == {"execute", "combine"}

\* The chunks planned so far are the ones meant.
PlanInv ==
  /\ phase \in {"plan"} \cup Ready => request.chunkSize > 0 /\ Chunks <= MaxTaskId
  /\ phase \in {"plan", "combine"} => chunk <= Chunks
  /\ phase = "plan" => \A c \in 0 .. chunk - 1 : jobs[c] = Planned(c)
  /\ phase \in Ready => \A c \in 0 .. Chunks - 1 : jobs[c] = Planned(c)
  /\ phase \in {"start", "execute"} => chunk = 0
  /\ phase # "returned" => answer = "Pending"

\* The body was called once for the indices of chunks whose job returned, and
\* for none outside the chunks whose job was started.
ExecuteInv ==
  phase # "returned" =>
    /\ phase \in {"start", "plan"} => ran = {} /\ panicked = {}
    /\ phase \in Ready => ran \cup panicked \subseteq 0 .. Chunks - 1
    /\ \A i \in Usize :
         /\ \A c \in ran : InChunk(i, c) => executed[i] = 1
         /\ (\A c \in ran \cup panicked : ~InChunk(i, c)) => executed[i] = 0

\* The first k chunks are combined, each behind the initial value.
Ordered(k) ==
  /\ Len(value) = 1 + k + MinOf(k * request.chunkSize, request.iterations)
  /\ value[1] = Mark
  /\ \A c \in 0 .. k - 1 :
       /\ value[c * (request.chunkSize + 1) + 2] = Mark
       /\ \A i \in Usize : InChunk(i, c) => value[i + c + 3] = i

\* Partial values wait in their chunk's slot until they are combined in order.
CombineInv ==
  /\ phase \in {"plan"} \cup Ready /\ request.op = "reduce" =>
       DOMAIN partials = 0 .. Chunks - 1
  /\ phase \in {"start", "plan", "execute"} => value = <<Mark>>
  /\ phase = "execute" /\ request.op = "reduce" =>
       \A c \in ran : partials[c] = Partial(c)
  /\ phase = "combine" =>
       /\ request.op = "reduce"
       /\ ran = 0 .. Chunks - 1
       /\ \A c \in chunk .. Chunks - 1 : partials[c] = Partial(c)
       /\ Ordered(chunk)

ChunksInv ==
  TypeOK /\ PlanInv /\ ExecuteInv /\ CombineInv /\ EveryIterationOnce /\ ReduceInOrder
=============================================================================
