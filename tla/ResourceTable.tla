----------------------------- MODULE ResourceTable -----------------------------
(***************************************************************************)
(* The host-side GPU resource table (jadren-gpu-runtime): buffers, their   *)
(* residency, the access tokens of live command scopes, the resource plan  *)
(* of an artifact, and the lease that a prepared dispatch holds from the   *)
(* submission to the completion event.                                     *)
(*                                                                         *)
(* Every operation has exclusive access to the table.  The two that loop   *)
(* over the bindings of a plan and can fail half way are split into the    *)
(* table calls they make; `call' holds the one in progress and no other    *)
(* operation starts meanwhile.  Tokens can be cloned, so the host may      *)
(* present one again after it has been released; one clone at a time is    *)
(* kept, since a presented token is judged by itself.                      *)
(*                                                                         *)
(* The artifact contract, the choice of a backend and the dispatch         *)
(* geometry are decided before the table is touched and refuse a dispatch  *)
(* without changing it; they are not represented.                          *)
(***************************************************************************)
EXTENDS Naturals, Sequences

CONSTANTS Sizes,          \* the buffer sizes asked for
          Needs,          \* the byte counts dispatches require
          Artifacts,      \* the access kinds an artifact declares, by binding
          MaxId,          \* u32::MAX
          MaxGeneration   \* u64::MAX

AccessKind == {"Read", "Write", "ReadWrite"}
Residency == {"Host", "Device", "Shared"}

ASSUME LimitsAssumption ==
  /\ Sizes \subseteq Nat /\ Needs \subseteq Nat
  /\ MaxId \in Nat \ {0} /\ MaxGeneration \in Nat \ {0}
  /\ Artifacts \subseteq Seq(AccessKind)

VARIABLES next_id,    \* the next buffer identity
          size, residency, next_generation, active,  \* BufferState, by identity
          direct,     \* tokens from acquire that no release has taken back
          spent,      \* a released token of which the host keeps a clone, if any
          kept,       \* a resource plan the host keeps for later
          leases,     \* leases the host holds
          call        \* the artifact operation in progress

vars == <<next_id, size, residency, next_generation, active, direct, spent, kept,
          leases, call>>
table == <<next_id, size, residency, next_generation, active>>

Ids == 1..(MaxId - 1)
Token == [buffer : Ids, generation : 1..MaxGeneration, kind : AccessKind]
Binding == [buffer : Ids, access : AccessKind, required : Needs]

\* op: what is running; at: the binding or token the loop is at.
NoCall == [op |-> "none", plan |-> <<>>, tokens |-> <<>>, at |-> 0]

Init ==
  /\ next_id = 1
  /\ size = [b \in Ids |-> 0]
  /\ residency = [b \in Ids |-> "Host"]
  /\ next_generation = [b \in Ids |-> 1]
  /\ active = [b \in Ids |-> {}]
  /\ direct = {} /\ spent = {} /\ kept = <<>> /\ leases = {}
  /\ call = NoCall

Known(b) == b < next_id
Idle == call.op = "none"

-----------------------------------------------------------------------------
(* create_buffer: the last identity is never handed out.                   *)
CreateBuffer(n) ==
  /\ Idle
  /\ n # 0
  /\ next_id + 1 <= MaxId
  /\ next_id' = next_id + 1
  /\ size' = [size EXCEPT ![next_id] = n]
  /\ UNCHANGED <<residency, next_generation, active, direct, spent, kept, leases, call>>

(* make_resident and make_shared: a host buffer is promoted.               *)
Promote(b, r) ==
  /\ Idle
  /\ Known(b)
  /\ residency[b] = "Host"
  /\ residency' = [residency EXCEPT ![b] = r]
  /\ UNCHANGED <<next_id, size, next_generation, active, direct, spent, kept, leases, call>>

MakeResident(b) == Promote(b, "Device")
MakeShared(b) == Promote(b, "Shared")

Busy(b) == active[b] # {}

Evict(b) ==
  /\ Idle
  /\ Known(b)
  /\ ~Busy(b)
  /\ residency[b] # "Host"
  /\ residency' = [residency EXCEPT ![b] = "Host"]
  /\ UNCHANGED <<next_id, size, next_generation, active, direct, spent, kept, leases, call>>

-----------------------------------------------------------------------------
\* Fault: only two writers conflict.
BothWrite(k, l) == k # "Read" /\ l # "Read"

\* AccessKind::conflicts
Conflicts(k, l) == ~(k = "Read" /\ l = "Read")

\* The checks of acquire: residency, conflicts, and a generation to spare.
Grantable(b, k) ==
  /\ Known(b)
  /\ residency[b] # "Host"
  /\ \A a \in active[b] : ~Conflicts(a.kind, k)
  /\ next_generation[b] + 1 <= MaxGeneration

\* Fault: the generation of a released access is used again.
GenerationReused(b) == next_generation[b]

GenerationAfter(b) == next_generation[b] + 1

Granted(b, k) == [buffer |-> b, generation |-> next_generation[b], kind |-> k]

Grant(b, k) ==
  /\ next_generation' = [next_generation EXCEPT ![b] = GenerationAfter(b)]
  /\ active' = [active EXCEPT ![b] = @ \cup {[generation |-> next_generation[b], kind |-> k]}]
  /\ UNCHANGED <<next_id, size, residency>>

Acquire(b, k) ==
  /\ Idle
  /\ Grantable(b, k)
  /\ Grant(b, k)
  /\ direct' = direct \cup {Granted(b, k)}
  /\ UNCHANGED <<spent, kept, leases, call>>

\* release finds the access by generation and kind; without it the token is
\* stale and nothing changes.
AccessOf(t) == [generation |-> t.generation, kind |-> t.kind]
Live(t) == AccessOf(t) \in active[t.buffer]

Withdraw(t) ==
  /\ active' = [active EXCEPT ![t.buffer] = @ \ {AccessOf(t)}]
  /\ UNCHANGED <<next_id, size, residency, next_generation>>

Release(t) ==
  /\ Idle
  /\ t \in direct \cup spent
  /\ Live(t)
  /\ Withdraw(t)
  /\ direct' = direct \ {t}
  /\ spent' \in {spent, {t}}
  /\ UNCHANGED <<kept, leases, call>>

-----------------------------------------------------------------------------
(* plan_artifact_resources: one request per binding, each for a known      *)
(* buffer that is large enough; a binding is compared with the first       *)
(* earlier binding of the same buffer.                                     *)
\* Fault: a binding is compared with the one before it only.
AdjacentAlias(bs, i) ==
  i > 1 /\ bs[i - 1].buffer = bs[i].buffer /\ Conflicts(bs[i - 1].access, bs[i].access)

ConflictingAlias(bs, i) ==
  \E j \in 1..(i - 1) :
    /\ bs[j].buffer = bs[i].buffer
    /\ \A h \in 1..(j - 1) : bs[h].buffer # bs[i].buffer
    /\ Conflicts(bs[j].access, bs[i].access)

PlanAccepted(bs) ==
  \A i \in 1..Len(bs) :
    /\ bs[i].required # 0
    /\ Known(bs[i].buffer)
    /\ size[bs[i].buffer] >= bs[i].required
    /\ ~ConflictingAlias(bs, i)

\* The bindings an artifact gets from requests, a buffer and a byte count each.
Bindings(artifact, requests) ==
  [i \in 1..Len(artifact) |->
     [buffer |-> requests[i].buffer, access |-> artifact[i],
      required |-> requests[i].required]]

Requests(artifact) == [1..Len(artifact) -> [buffer : Ids, required : Needs]]

PlanArtifactResources(artifact, requests) ==
  /\ Idle
  /\ PlanAccepted(Bindings(artifact, requests))
  /\ kept' = Bindings(artifact, requests)
  /\ UNCHANGED <<table, direct, spent, leases, call>>

-----------------------------------------------------------------------------
(* acquire_artifact_resources on the plan kept from earlier, and           *)
(* prepare_artifact_dispatch, which makes its plan and acquires at once.   *)
BeginAcquire(bs) ==
  /\ call' = [op |-> "acquire", plan |-> bs, tokens |-> <<>>, at |-> 1]
  /\ UNCHANGED <<table, direct, spent, kept, leases>>

AcquireArtifactResources == Idle /\ BeginAcquire(kept)

PrepareArtifactDispatch(artifact, requests) ==
  /\ Idle
  /\ PlanAccepted(Bindings(artifact, requests))
  /\ BeginAcquire(Bindings(artifact, requests))

Acquiring == call.op = "acquire" /\ call.at <= Len(call.plan)
Wanted == call.plan[call.at]

AcquireNext ==
  /\ Acquiring
  /\ Grantable(Wanted.buffer, Wanted.access)
  /\ Grant(Wanted.buffer, Wanted.access)
  /\ call' = [call EXCEPT !.tokens = Append(@, Granted(Wanted.buffer, Wanted.access)),
                          !.at = @ + 1]
  /\ UNCHANGED <<direct, spent, kept, leases>>

\* Fault: the token acquired last is not given back.
RollbackBeforeLast == IF call.at = 1 THEN 0 ELSE call.at - 2

\* The tokens acquired so far, released in reverse order.
RollbackFrom == call.at - 1

AcquireFails ==
  /\ Acquiring
  /\ ~Grantable(Wanted.buffer, Wanted.access)
  /\ call' = [call EXCEPT !.op = "rollback", !.at = RollbackFrom]
  /\ UNCHANGED <<table, direct, spent, kept, leases>>

Rollback ==
  /\ call.op = "rollback"
  /\ call.at > 0
  /\ IF Live(call.tokens[call.at]) THEN Withdraw(call.tokens[call.at]) ELSE UNCHANGED table
  /\ call' = [call EXCEPT !.at = @ - 1]
  /\ UNCHANGED <<direct, spent, kept, leases>>

RollbackDone ==
  /\ call.op = "rollback" /\ call.at = 0
  /\ call' = NoCall
  /\ UNCHANGED <<table, direct, spent, kept, leases>>

AcquireDone ==
  /\ call.op = "acquire" /\ call.at > Len(call.plan)
  /\ leases' = leases \cup {[plan |-> call.plan, tokens |-> call.tokens]}
  /\ call' = NoCall
  /\ UNCHANGED <<table, direct, spent, kept>>

-----------------------------------------------------------------------------
(* release_artifact_resources and release_prepared_artifact_dispatch: the  *)
(* lease is consumed, its tokens are released in order, and the first      *)
(* stale one ends the call with the others still live.                     *)
ReleaseArtifactResources(l) ==
  /\ Idle
  /\ l \in leases
  /\ leases' = leases \ {l}
  /\ call' = [op |-> "release", plan |-> l.plan, tokens |-> l.tokens, at |-> 1]
  /\ UNCHANGED <<table, direct, spent, kept>>

ReleaseNext ==
  /\ call.op = "release" /\ call.at <= Len(call.tokens)
  /\ Live(call.tokens[call.at])
  /\ Withdraw(call.tokens[call.at])
  /\ call' = [call EXCEPT !.at = @ + 1]
  /\ UNCHANGED <<direct, spent, kept, leases>>

ReleaseEnds ==
  /\ call.op = "release"
  /\ call.at <= Len(call.tokens) => ~Live(call.tokens[call.at])
  /\ call' = NoCall
  /\ UNCHANGED <<table, direct, spent, kept, leases>>

-----------------------------------------------------------------------------
Next ==
  \/ \E n \in Sizes : CreateBuffer(n)
  \/ \E b \in Ids : MakeResident(b) \/ MakeShared(b) \/ Evict(b)
  \/ \E b \in Ids, k \in AccessKind : Acquire(b, k)
  \/ \E t \in direct \cup spent : Release(t)
  \/ \E artifact \in Artifacts : \E requests \in Requests(artifact) :
       \/ PlanArtifactResources(artifact, requests)
       \/ PrepareArtifactDispatch(artifact, requests)
  \/ AcquireArtifactResources \/ AcquireNext \/ AcquireFails \/ AcquireDone
  \/ Rollback \/ RollbackDone
  \/ \E l \in leases : ReleaseArtifactResources(l)
  \/ ReleaseNext \/ ReleaseEnds

Spec == Init /\ [][Next]_vars

-----------------------------------------------------------------------------
TypeOK ==
  /\ next_id \in 1..MaxId
  /\ size \in [Ids -> Nat]
  /\ residency \in [Ids -> Residency]
  /\ next_generation \in [Ids -> 1..MaxGeneration]
  /\ active \in [Ids -> SUBSET [generation : 1..MaxGeneration, kind : AccessKind]]
  /\ direct \subseteq Token /\ spent \subseteq Token
  /\ kept \in Seq(Binding)
  /\ \A l \in leases : l \in [plan : Seq(Binding), tokens : Seq(Token)]
  /\ call \in [op : {"none", "acquire", "rollback", "release"}, plan : Seq(Binding),
               tokens : Seq(Token), at : Nat]

\* The tokens of a sequence from position i to position j.
TokensIn(ts, i, j) == {ts[h] : h \in i..j}

\* The tokens the operation in progress still has to answer for.
HeldByCall ==
  CASE call.op = "acquire" -> TokensIn(call.tokens, 1, Len(call.tokens))
    [] call.op = "rollback" -> TokensIn(call.tokens, 1, call.at)
    [] call.op = "release" -> TokensIn(call.tokens, call.at, Len(call.tokens))
    [] OTHER -> {}

HeldByLeases == UNION {TokensIn(l.tokens, 1, Len(l.tokens)) : l \in leases}

(* "no partial lease is retained": the accesses a buffer counts as live    *)
(* are exactly those somebody can still release, a scope of the host's, a  *)
(* lease, or the artifact operation in progress; also after an acquisition *)
(* that failed at a later binding.                                         *)
AccessesHaveHolders ==
  \A b \in Ids :
    active[b] = {AccessOf(t) : t \in {u \in direct \cup HeldByLeases \cup HeldByCall :
                                        u.buffer = b}}

(* AccessKind::conflicts over whole histories: two live accesses of a      *)
(* buffer are both reads, whichever scopes and leases they belong to.      *)
WritersExclusive ==
  \A b \in Ids : \A x, y \in active[b] : x # y => x.kind = "Read" /\ y.kind = "Read"

(* evict, "only after all command scopes released it": a buffer with a     *)
(* live access is resident.                                                *)
HeldIsResident == \A b \in Ids : active[b] # {} => residency[b] # "Host"

(* A lease is whole until it is released: each of its tokens is live and   *)
(* is the access its plan declares at that binding, so that releasing it   *)
(* cannot stop half way at a stale token.  A clone of an older token never *)
(* takes one of them away.                                                 *)
LeaseWhole ==
  \A l \in leases :
    /\ Len(l.tokens) = Len(l.plan)
    /\ \A i \in 1..Len(l.tokens) :
         /\ Live(l.tokens[i])
         /\ l.tokens[i].buffer = l.plan[i].buffer
         /\ l.tokens[i].kind = l.plan[i].access

(* plan_artifact_resources checks each binding against one earlier binding *)
(* only, and residency not at all; still an accepted plan, however late it *)
(* is acquired, has buffers that exist and are large enough, and no two of *)
(* its own bindings conflict.                                              *)
PlansStayAcquirable ==
  \A i \in 1..Len(kept) :
    /\ Known(kept[i].buffer)
    /\ kept[i].required <= size[kept[i].buffer]
    /\ \A j \in 1..Len(kept) :
         (i # j /\ kept[i].buffer = kept[j].buffer) => ~Conflicts(kept[i].access, kept[j].access)
=============================================================================
