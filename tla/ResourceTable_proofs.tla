------------------------- MODULE ResourceTable_proofs -------------------------
(***************************************************************************)
(* Proofs about ResourceTable, for every set of artifacts, sizes and byte  *)
(* counts and for every limit on identities and generations.               *)
(***************************************************************************)
EXTENDS ResourceTable, TLAPS, WellFoundedInduction

Access == [generation : 1..MaxGeneration, kind : AccessKind]
Lease == [plan : Seq(Binding), tokens : Seq(Token)]
Calls == [op : {"none", "acquire", "rollback", "release"}, plan : Seq(Binding),
          tokens : Seq(Token), at : Nat]

\* An access in use, or released, was given its generation earlier.
Generations ==
  /\ \A b \in Ids : \A a \in active[b] : a.generation < next_generation[b]
  /\ \A t \in spent : t.generation < next_generation[t.buffer] /\ ~Live(t)

Distinct(ts) == \A i, j \in 1..Len(ts) : ts[i] = ts[j] => i = j

\* The tokens of a lease are the accesses its plan declares, as far as they
\* have been acquired.
Match(ts, plan) ==
  /\ Len(ts) <= Len(plan)
  /\ \A i \in 1..Len(ts) : ts[i].buffer = plan[i].buffer /\ ts[i].kind = plan[i].access

LeaseInv ==
  /\ \A l \in leases :
       Len(l.tokens) = Len(l.plan) /\ Match(l.tokens, l.plan) /\ Distinct(l.tokens)
  /\ \A l, m \in leases : l # m =>
       \A i \in 1..Len(l.tokens), j \in 1..Len(m.tokens) : l.tokens[i] # m.tokens[j]

CallInv ==
  /\ Distinct(call.tokens)
  /\ call.op = "acquire" => /\ call.at = Len(call.tokens) + 1
                            /\ Match(call.tokens, call.plan)
  /\ call.op = "rollback" => call.at <= Len(call.tokens)
  /\ call.op = "release" => call.at >= 1

\* Each live access has one holder: the host, a lease, or the running call.
Holders ==
  /\ \A t \in Token : Live(t) <=> (t \in direct \/ t \in HeldByLeases \/ t \in HeldByCall)
  /\ \A t \in direct : t \notin HeldByLeases /\ t \notin HeldByCall
  /\ \A t \in HeldByLeases : t \notin HeldByCall

IInv ==
  /\ TypeOK /\ Generations /\ WritersExclusive /\ HeldIsResident /\ PlansStayAcquirable
  /\ LeaseInv /\ CallInv /\ Holders

-----------------------------------------------------------------------------
\* A token is its buffer and the access in it.
LEMMA TokenIsAccess ==
  ASSUME NEW t \in Token, NEW u \in Token
  PROVE  /\ AccessOf(t) \in Access /\ t.buffer \in Ids
         /\ (t.buffer = u.buffer /\ AccessOf(t) = AccessOf(u)) => t = u
  BY DEF Token, AccessOf, Access

LEMMA IdsAreNat == Ids \subseteq Nat /\ \A b \in Nat : (1 <= b /\ b < MaxId) => b \in Ids
  BY LimitsAssumption DEF Ids

\* What acquire does to the table.
LEMMA GrantStep ==
  ASSUME TypeOK, Generations, WritersExclusive, HeldIsResident,
         NEW b \in Ids, NEW k \in AccessKind, Grantable(b, k), Grant(b, k)
  PROVE  /\ Granted(b, k) \in Token /\ ~Live(Granted(b, k)) /\ Granted(b, k) \notin spent
         /\ \A t \in Token : Live(t)' <=> (Live(t) \/ t = Granted(b, k))
         /\ next_generation' \in [Ids -> 1..MaxGeneration] /\ active' \in [Ids -> SUBSET Access]
         /\ \A a \in Ids : next_generation'[a] >= next_generation[a]
         /\ \A c \in Ids : \A a \in active'[c] : a.generation < next_generation'[c]
         /\ WritersExclusive' /\ HeldIsResident'
<1> DEFINE new == [generation |-> next_generation[b], kind |-> k]
<1>1. /\ next_generation \in [Ids -> 1..MaxGeneration]
      /\ active \in [Ids -> SUBSET Access]
      /\ residency \in [Ids -> Residency] /\ MaxGeneration \in Nat
      /\ spent \subseteq Token
  BY LimitsAssumption DEF TypeOK, Access
<1>2. /\ next_generation' = [next_generation EXCEPT ![b] = next_generation[b] + 1]
      /\ active' = [active EXCEPT ![b] = active[b] \cup {new}]
      /\ residency' = residency
      /\ next_generation[b] + 1 <= MaxGeneration
  BY DEF Grant, Grantable, GenerationAfter
<1>3. new \in Access
  BY <1>1 DEF Access
<1>4. Granted(b, k) \in Token /\ AccessOf(Granted(b, k)) = new /\ Granted(b, k).buffer = b
      /\ Granted(b, k).generation = next_generation[b]
  BY <1>1 DEF Granted, Token, AccessOf
<1>5. new \notin active[b]
  BY <1>1 DEF Generations
<1>6. active' \in [Ids -> SUBSET Access]
  BY <1>1, <1>2, <1>3
<1>7. next_generation' \in [Ids -> 1..MaxGeneration]
  BY <1>1, <1>2
<1>8. \A t \in Token : Live(t)' <=> (Live(t) \/ t = Granted(b, k))
  <2> SUFFICES ASSUME NEW t \in Token PROVE Live(t)' <=> (Live(t) \/ t = Granted(b, k))
    OBVIOUS
  <2>1. AccessOf(t) \in Access /\ t.buffer \in Ids /\ AccessOf(t)' = AccessOf(t)
    BY TokenIsAccess DEF AccessOf
  <2>2. (t.buffer = b /\ AccessOf(t) = new) <=> t = Granted(b, k)
    BY <1>4, TokenIsAccess
  <2>3. AccessOf(t) \in active'[t.buffer] <=>
          (AccessOf(t) \in active[t.buffer] \/ (t.buffer = b /\ AccessOf(t) = new))
    BY <1>1, <1>2, <2>1
  <2> QED BY <2>2, <2>3 DEF Live, AccessOf
<1>9. \A a \in Ids : next_generation'[a] >= next_generation[a]
  BY <1>1, <1>2
<1>10. \A c \in Ids : \A a \in active'[c] : a.generation < next_generation'[c]
  <2> SUFFICES ASSUME NEW c \in Ids, NEW a \in active'[c]
               PROVE  a.generation < next_generation'[c]
    OBVIOUS
  <2>1. CASE a \in active[c]
    <3>1. a.generation < next_generation[c] /\ a.generation \in Nat
      BY <1>1, <2>1 DEF Generations, Access
    <3> QED BY <1>1, <1>2, <3>1
  <2>2. CASE a \notin active[c]
    BY <1>1, <1>2, <2>2
  <2> QED BY <2>1, <2>2
<1>11. WritersExclusive'
  <2> SUFFICES ASSUME NEW c \in Ids, NEW x \in active'[c], NEW y \in active'[c], x # y
               PROVE  x.kind = "Read" /\ y.kind = "Read"
    BY DEF WritersExclusive
  <2>1. CASE c # b \/ (x \in active[c] /\ y \in active[c])
    BY <1>1, <1>2, <2>1 DEF WritersExclusive
  <2>2. CASE c = b /\ x = new /\ y \in active[b]
    BY <2>2 DEF Grantable, Conflicts
  <2>3. CASE c = b /\ y = new /\ x \in active[b]
    BY <2>3 DEF Grantable, Conflicts
  <2> QED BY <1>1, <1>2, <2>1, <2>2, <2>3
<1>12. HeldIsResident'
  BY <1>1, <1>2 DEF HeldIsResident, Grantable
<1>13. ~Live(Granted(b, k)) /\ Granted(b, k) \notin spent
  <2>1. ~Live(Granted(b, k))
    BY <1>4, <1>5 DEF Live
  <2>2. Granted(b, k) \notin spent
    BY <1>1, <1>4 DEF Generations
  <2> QED BY <2>1, <2>2
<1> QED BY <1>4, <1>6, <1>7, <1>8, <1>9, <1>10, <1>11, <1>12, <1>13

\* What release does to the table.
LEMMA WithdrawStep ==
  ASSUME TypeOK, Generations, WritersExclusive, HeldIsResident,
         NEW t \in Token, Withdraw(t)
  PROVE  /\ \A u \in Token : Live(u)' <=> (Live(u) /\ u # t)
         /\ active' \in [Ids -> SUBSET Access]
         /\ \A c \in Ids : \A a \in active'[c] : a.generation < next_generation[c]
         /\ WritersExclusive' /\ HeldIsResident'
<1>1. /\ active \in [Ids -> SUBSET Access] /\ residency \in [Ids -> Residency]
  BY DEF TypeOK, Access
<1>2. /\ active' = [active EXCEPT ![t.buffer] = active[t.buffer] \ {AccessOf(t)}]
      /\ residency' = residency /\ t.buffer \in Ids
  BY TokenIsAccess DEF Withdraw
<1>3. active' \in [Ids -> SUBSET Access] /\ \A c \in Ids : active'[c] \subseteq active[c]
  BY <1>1, <1>2
<1>4. \A u \in Token : Live(u)' <=> (Live(u) /\ u # t)
  <2> SUFFICES ASSUME NEW u \in Token PROVE Live(u)' <=> (Live(u) /\ u # t)
    OBVIOUS
  <2>1. u.buffer \in Ids /\ AccessOf(u)' = AccessOf(u)
    BY TokenIsAccess DEF AccessOf
  <2>2. (u.buffer = t.buffer /\ AccessOf(u) = AccessOf(t)) <=> u = t
    BY TokenIsAccess
  <2>3. AccessOf(u) \in active'[u.buffer] <=>
          (AccessOf(u) \in active[u.buffer]
             /\ ~(u.buffer = t.buffer /\ AccessOf(u) = AccessOf(t)))
    BY <1>1, <1>2, <2>1
  <2> QED BY <2>2, <2>3 DEF Live, AccessOf
<1>5. WritersExclusive' /\ HeldIsResident'
  BY <1>2, <1>3 DEF WritersExclusive, HeldIsResident
<1>6. \A c \in Ids : \A a \in active'[c] : a.generation < next_generation[c]
  BY <1>3 DEF Generations
<1> QED BY <1>3, <1>4, <1>5, <1>6

-----------------------------------------------------------------------------
\* Who holds a token, position by position.
HeldPositions ==
  /\ \A t : t \in HeldByLeases <=> \E l \in leases : \E i \in 1..Len(l.tokens) : t = l.tokens[i]
  /\ call.op = "acquire" =>
       \A t : t \in HeldByCall <=> \E i \in 1..Len(call.tokens) : t = call.tokens[i]
  /\ call.op = "rollback" =>
       \A t : t \in HeldByCall <=> \E i \in 1..call.at : t = call.tokens[i]
  /\ call.op = "release" =>
       \A t : t \in HeldByCall <=> \E i \in call.at..Len(call.tokens) : t = call.tokens[i]
  /\ call.op = "none" => HeldByCall = {}

LEMMA Positions == HeldPositions
<1>1. \A t : t \in HeldByLeases <=> \E l \in leases : \E i \in 1..Len(l.tokens) : t = l.tokens[i]
  BY DEF HeldByLeases, TokensIn
<1>2. /\ call.op = "acquire" => HeldByCall = TokensIn(call.tokens, 1, Len(call.tokens))
      /\ call.op = "rollback" => HeldByCall = TokensIn(call.tokens, 1, call.at)
      /\ call.op = "release" => HeldByCall = TokensIn(call.tokens, call.at, Len(call.tokens))
      /\ call.op = "none" => HeldByCall = {}
  BY DEF HeldByCall
<1> QED BY <1>1, <1>2 DEF HeldPositions, TokensIn

LEMMA PositionsAfter == HeldPositions'
  BY Positions, PTL

\* The fields of the bindings of a plan.
LEMMA BindingFields ==
  ASSUME NEW bs \in Seq(Binding)
  PROVE  /\ Len(bs) \in Nat
         /\ \A i \in 1..Len(bs) : /\ bs[i].buffer \in Ids /\ bs[i].access \in AccessKind
                                  /\ bs[i].required \in Nat
<1>1. Len(bs) \in Nat /\ \A i \in 1..Len(bs) : bs[i] \in Binding
  OBVIOUS
<1>2. \A x \in Binding : x.buffer \in Ids /\ x.access \in AccessKind /\ x.required \in Nat
  BY LimitsAssumption DEF Binding
<1> QED BY <1>1, <1>2

\* The bindings of an artifact are a plan.
LEMMA BindingsType ==
  ASSUME NEW artifact \in Artifacts, NEW requests \in Requests(artifact)
  PROVE  Bindings(artifact, requests) \in Seq(Binding)
<1>1. artifact \in Seq(AccessKind) /\ Len(artifact) \in Nat
  BY LimitsAssumption
<1>2. \A i \in 1..Len(artifact) : artifact[i] \in AccessKind /\ requests[i].buffer \in Ids
                                  /\ requests[i].required \in Needs
  BY <1>1 DEF Requests
<1>3. Bindings(artifact, requests) \in [1..Len(artifact) -> Binding]
  BY <1>1, <1>2 DEF Bindings, Binding
<1> QED BY <1>1, <1>3

\* Among the bindings of one buffer there is a first.
LEMMA FirstBinding ==
  ASSUME NEW bs, NEW n \in Nat, NEW i \in 1..n
  PROVE  \E j \in 1..n : /\ bs[j].buffer = bs[i].buffer /\ j <= i
                         /\ \A h \in 1..(j - 1) : bs[h].buffer # bs[i].buffer
<1> DEFINE S == {j \in 1..n : bs[j].buffer = bs[i].buffer}
<1>1. S \subseteq Nat /\ S # {}
  OBVIOUS
<1>2. \E j \in S : \A h \in S : ~(<<h, j>> \in OpToRel(<, Nat))
  BY <1>1, WFMin, NatLessThanWellFounded, Zenon
<1>3. PICK j \in S : \A h \in S : ~(h < j)
  BY <1>1, <1>2, Zenon DEF OpToRel
<1>4. j \in 1..n /\ bs[j].buffer = bs[i].buffer /\ j <= i
  BY <1>3
<1>5. \A h \in 1..(j - 1) : bs[h].buffer # bs[i].buffer
  BY <1>3, <1>4
<1> QED BY <1>4, <1>5

\* plan_artifact_resources compares a binding with the first one of its
\* buffer only, which is enough.
LEMMA PlanCompatible ==
  ASSUME NEW bs, Len(bs) \in Nat, PlanAccepted(bs), NEW i \in 1..Len(bs), NEW j \in 1..Len(bs),
         i # j, bs[i].buffer = bs[j].buffer
  PROVE  ~Conflicts(bs[i].access, bs[j].access)
<1>1. PICK f \in 1..Len(bs) : /\ bs[f].buffer = bs[i].buffer /\ f <= i
                              /\ \A h \in 1..(f - 1) : bs[h].buffer # bs[i].buffer
  <2>1. \A n \in Nat : \A g \in 1..n :
          \E f \in 1..n : /\ bs[f].buffer = bs[g].buffer /\ f <= g
                          /\ \A h \in 1..(f - 1) : bs[h].buffer # bs[g].buffer
    BY FirstBinding
  <2> QED BY <2>1
<1>2. f <= j
  BY <1>1
<1>3. \A g \in 1..Len(bs) : (bs[g].buffer = bs[f].buffer /\ f < g) =>
         bs[f].access = "Read" /\ bs[g].access = "Read"
  <2> SUFFICES ASSUME NEW g \in 1..Len(bs), bs[g].buffer = bs[f].buffer, f < g
               PROVE  ~Conflicts(bs[f].access, bs[g].access)
    BY DEF Conflicts
  <2>1. ~ConflictingAlias(bs, g)
    BY DEF PlanAccepted
  <2>2. f \in 1..(g - 1) /\ \A h \in 1..(f - 1) : bs[h].buffer # bs[g].buffer
    BY <1>1
  <2> QED BY <2>1, <2>2 DEF ConflictingAlias
<1> QED BY <1>1, <1>2, <1>3 DEF Conflicts

-----------------------------------------------------------------------------
LEMMA InitIInv == Init => IInv
<1> SUFFICES ASSUME Init PROVE IInv
  OBVIOUS
<1>1. TypeOK
  <2>1. 1 \in 1..MaxId /\ 1 \in 1..MaxGeneration
    BY LimitsAssumption
  <2>2. NoCall \in Calls
    BY DEF NoCall, Calls
  <2> QED BY <2>1, <2>2 DEF Init, TypeOK, Residency, Calls
<1>2. \A b \in Ids : active[b] = {}
  BY DEF Init
<1>3. Generations /\ WritersExclusive /\ HeldIsResident
  BY <1>2 DEF Init, Generations, WritersExclusive, HeldIsResident
<1>4. PlansStayAcquirable /\ LeaseInv
  BY DEF Init, PlansStayAcquirable, LeaseInv
<1>5. CallInv
  BY DEF Init, CallInv, NoCall, Distinct
<1>6. HeldByLeases = {} /\ HeldByCall = {}
  BY Positions DEF HeldPositions, Init, NoCall
<1>7. Holders
  BY <1>2, <1>6, TokenIsAccess DEF Init, Holders, Live
<1> QED BY <1>1, <1>3, <1>4, <1>5, <1>7 DEF IInv

\* Steps on the table that grant and withdraw nothing.
LEMMA TableSteps ==
  ASSUME IInv, UNCHANGED <<next_generation, active, direct, spent, kept, leases, call>>,
         next_id' \in 1..MaxId, size' \in [Ids -> Nat], residency' \in [Ids -> Residency],
         next_id' >= next_id, \A b \in Ids : Known(b) => size'[b] = size[b],
         HeldIsResident'
  PROVE  IInv'
<1>1. TypeOK'
  BY DEF IInv, TypeOK
<1>2. Generations' /\ WritersExclusive' /\ LeaseInv' /\ CallInv'
  BY DEF IInv, Generations, WritersExclusive, LeaseInv, CallInv, Live, Match, Distinct
<1>3. HeldByLeases' = HeldByLeases /\ HeldByCall' = HeldByCall
  BY DEF HeldByLeases, HeldByCall
<1>4. Holders'
  BY <1>3 DEF IInv, Holders, Live
<1>5. PlansStayAcquirable'
  <2>1. \A i \in 1..Len(kept) : kept[i].buffer \in Ids /\ Known(kept[i].buffer)
    <3>1. kept \in Seq(Binding)
      BY DEF IInv, TypeOK
    <3> QED BY <3>1, BindingFields DEF IInv, PlansStayAcquirable
  <2>2. \A b \in Ids : Known(b) => Known(b)'
    BY IdsAreNat DEF IInv, TypeOK, Known
  <2> QED BY <2>1, <2>2 DEF IInv, PlansStayAcquirable
<1> QED BY <1>1, <1>2, <1>4, <1>5 DEF IInv

\* Steps of a call that leave the table and the host's own tokens alone.
LEMMA CallSteps ==
  ASSUME IInv, UNCHANGED <<table, direct, spent, kept>>,
         \A l \in leases' : l \in Lease, call' \in Calls,
         LeaseInv', CallInv',
         \A t \in Token : (t \in HeldByLeases' \/ t \in HeldByCall') <=>
                          (t \in HeldByLeases \/ t \in HeldByCall),
         \A t \in HeldByLeases' : t \notin HeldByCall'
  PROVE  IInv'
<1>1. TypeOK'
  BY DEF IInv, TypeOK, table, Lease, Calls
<1>2. Generations' /\ WritersExclusive' /\ HeldIsResident' /\ PlansStayAcquirable'
  BY DEF IInv, Generations, WritersExclusive, HeldIsResident, PlansStayAcquirable, table, Live, Known
<1>3. \A t \in direct : t \in Token
  BY DEF IInv, TypeOK
<1>4. Holders'
  BY <1>3 DEF IInv, Holders, table, Live
<1> QED BY <1>1, <1>2, <1>4 DEF IInv

-----------------------------------------------------------------------------
LEMMA StepIInv ==
  ASSUME IInv, [Next]_vars
  PROVE  IInv'
<1> USE DEF Idle
<1>1. /\ TypeOK /\ Generations /\ WritersExclusive /\ HeldIsResident /\ PlansStayAcquirable
      /\ LeaseInv /\ CallInv /\ Holders
  BY DEF IInv
<1>2. /\ next_id \in 1..MaxId /\ MaxId \in Nat /\ size \in [Ids -> Nat]
      /\ residency \in [Ids -> Residency] /\ kept \in Seq(Binding)
      /\ \A l \in leases : l \in Lease /\ l.plan \in Seq(Binding) /\ l.tokens \in Seq(Token)
      /\ call \in Calls /\ direct \subseteq Token /\ spent \subseteq Token
      /\ call.plan \in Seq(Binding) /\ call.tokens \in Seq(Token) /\ call.at \in Nat
  BY <1>1, LimitsAssumption DEF TypeOK, Lease, Calls
<1>3. CASE UNCHANGED vars
  <2>1. UNCHANGED <<next_id, size, residency, next_generation, active, direct, spent, kept,
                    leases, call>>
    BY <1>3 DEF vars
  <2>2. HeldIsResident'
    BY <1>1, <2>1 DEF HeldIsResident
  <2> QED BY <1>2, <2>1, <2>2, TableSteps
<1>4. ASSUME NEW n \in Sizes, CreateBuffer(n)
      PROVE  IInv'
  <2>1. /\ UNCHANGED <<residency, next_generation, active, direct, spent, kept, leases, call>>
        /\ next_id' = next_id + 1 /\ next_id + 1 <= MaxId /\ n \in Nat
        /\ size' = [size EXCEPT ![next_id] = n]
    BY <1>4, LimitsAssumption DEF CreateBuffer
  <2>2. size' \in [Ids -> Nat] /\ \A b \in Ids : Known(b) => size'[b] = size[b]
    BY <1>2, <2>1, IdsAreNat DEF Known
  <2>3. HeldIsResident'
    BY <1>1, <2>1 DEF HeldIsResident
  <2>4. next_id' \in 1..MaxId /\ next_id' >= next_id
    BY <1>2, <2>1
  <2> QED BY <1>2, <2>1, <2>2, <2>3, <2>4, TableSteps
<1>5. ASSUME NEW b \in Ids, MakeResident(b) \/ MakeShared(b) \/ Evict(b)
      PROVE  IInv'
  <2>1. /\ UNCHANGED <<next_id, size, next_generation, active, direct, spent, kept, leases, call>>
        /\ \E r \in Residency : residency' = [residency EXCEPT ![b] = r]
                                /\ (r = "Host" => active[b] = {})
    BY <1>5 DEF MakeResident, MakeShared, Promote, Evict, Busy, Residency
  <2>2. residency' \in [Ids -> Residency]
    BY <1>2, <2>1
  <2>3. HeldIsResident'
    BY <1>1, <1>2, <2>1 DEF HeldIsResident
  <2>4. next_id' >= next_id
    BY <1>2, <2>1
  <2> QED BY <1>2, <2>1, <2>2, <2>3, <2>4, TableSteps
<1>6. ASSUME NEW b \in Ids, NEW k \in AccessKind, Acquire(b, k)
      PROVE  IInv'
  <2>1. /\ Grantable(b, k) /\ Grant(b, k)
        /\ direct' = direct \cup {Granted(b, k)}
        /\ UNCHANGED <<next_id, size, residency, spent, kept, leases, call>>
    BY <1>6 DEF Acquire, Grant
  <2>2. /\ Granted(b, k) \in Token /\ ~Live(Granted(b, k)) /\ Granted(b, k) \notin spent
        /\ \A t \in Token : Live(t)' <=> (Live(t) \/ t = Granted(b, k))
        /\ next_generation' \in [Ids -> 1..MaxGeneration] /\ active' \in [Ids -> SUBSET Access]
        /\ \A a \in Ids : next_generation'[a] >= next_generation[a]
        /\ \A c \in Ids : \A a \in active'[c] : a.generation < next_generation'[c]
        /\ WritersExclusive' /\ HeldIsResident'
    BY <1>1, <2>1, GrantStep
  <2>3. TypeOK'
    BY <1>1, <2>1, <2>2 DEF TypeOK, Access
  <2>4. Generations'
    <3>1. \A t \in spent : t.generation \in Nat /\ t.buffer \in Ids /\ t \in Token
      BY <1>2 DEF Token
    <3>2. \A c \in Ids : next_generation[c] \in Nat /\ next_generation'[c] \in Nat
      BY <1>1, <2>2 DEF TypeOK
    <3> QED BY <1>1, <2>1, <2>2, <3>1, <3>2 DEF Generations
  <2>5. PlansStayAcquirable' /\ LeaseInv' /\ CallInv'
    BY <1>1, <2>1 DEF PlansStayAcquirable, LeaseInv, CallInv, Known, Match, Distinct
  <2>6. HeldByLeases' = HeldByLeases /\ HeldByCall' = HeldByCall
    BY <2>1 DEF HeldByLeases, HeldByCall
  <2>7. Holders'
    BY <1>1, <2>1, <2>2, <2>6 DEF Holders
  <2> QED BY <2>2, <2>3, <2>4, <2>5, <2>7 DEF IInv
<1>7. ASSUME NEW t \in direct \cup spent, Release(t)
      PROVE  IInv'
  <2>1. /\ Live(t) /\ Withdraw(t) /\ direct' = direct \ {t} /\ (spent' = spent \/ spent' = {t})
        /\ UNCHANGED <<next_id, size, residency, next_generation, kept, leases, call>>
        /\ t \in Token
    BY <1>2, <1>7 DEF Release, Withdraw
  <2>2. t \in direct
    BY <1>1, <1>7, <2>1 DEF Generations
  <2>3. /\ \A u \in Token : Live(u)' <=> (Live(u) /\ u # t)
        /\ active' \in [Ids -> SUBSET Access]
        /\ \A c \in Ids : \A a \in active'[c] : a.generation < next_generation[c]
        /\ WritersExclusive' /\ HeldIsResident'
    BY <1>1, <2>1, WithdrawStep
  <2>4. TypeOK'
    BY <1>1, <2>1, <2>3 DEF TypeOK, Access
  <2>5. Generations'
    <3>1. t.generation < next_generation[t.buffer]
      <4>1. AccessOf(t).generation = t.generation /\ AccessOf(t) \in active[t.buffer]
            /\ t.buffer \in Ids
        BY <2>1, TokenIsAccess DEF Live, AccessOf
      <4> QED BY <1>1, <4>1 DEF Generations
    <3> QED BY <1>1, <1>2, <2>1, <2>3, <3>1 DEF Generations
  <2>6. PlansStayAcquirable' /\ LeaseInv' /\ CallInv'
    BY <1>1, <2>1 DEF PlansStayAcquirable, LeaseInv, CallInv, Known, Match, Distinct
  <2>7. HeldByLeases' = HeldByLeases /\ HeldByCall' = HeldByCall
    BY <2>1 DEF HeldByLeases, HeldByCall
  <2>8. Holders'
    BY <1>1, <2>1, <2>2, <2>3, <2>7 DEF Holders
  <2> QED BY <2>3, <2>4, <2>5, <2>6, <2>8 DEF IInv
<1>8. ASSUME NEW artifact \in Artifacts, NEW requests \in Requests(artifact),
             PlanArtifactResources(artifact, requests)
      PROVE  IInv'
  <2> DEFINE bs == Bindings(artifact, requests)
  <2>1. /\ PlanAccepted(bs) /\ kept' = bs /\ bs \in Seq(Binding)
        /\ UNCHANGED <<next_id, size, residency, next_generation, active, direct, spent,
                       leases, call>>
    BY <1>8, BindingsType DEF PlanArtifactResources, table
  <2>2. TypeOK'
    BY <1>1, <2>1 DEF TypeOK
  <2>3. Generations' /\ WritersExclusive' /\ HeldIsResident' /\ LeaseInv' /\ CallInv'
    BY <1>1, <2>1 DEF Generations, WritersExclusive, HeldIsResident, LeaseInv, CallInv, Live,
       Match, Distinct
  <2>4. HeldByLeases' = HeldByLeases /\ HeldByCall' = HeldByCall
    BY <2>1 DEF HeldByLeases, HeldByCall
  <2>5. Holders'
    BY <1>1, <2>1, <2>4 DEF Holders, Live
  <2>6. PlansStayAcquirable'
    <3>1. Len(bs) \in Nat /\ \A i \in 1..Len(bs) :
            /\ Known(bs[i].buffer) /\ bs[i].required <= size[bs[i].buffer]
      <4>1. \A i \in 1..Len(bs) : bs[i].required \in Nat /\ bs[i].buffer \in Ids
        BY <2>1, BindingFields
      <4>2. Len(bs) \in Nat
        BY <2>1, BindingFields
      <4> HIDE DEF bs
      <4> QED BY <1>2, <2>1, <4>1, <4>2 DEF PlanAccepted
    <3>2. \A i, j \in 1..Len(bs) : (i # j /\ bs[i].buffer = bs[j].buffer) =>
             ~Conflicts(bs[i].access, bs[j].access)
      BY <2>1, <3>1, PlanCompatible
    <3>3. kept' = bs /\ \A b : Known(b)' <=> Known(b)
      BY <2>1 DEF Known
    <3> HIDE DEF bs
    <3> QED BY <2>1, <3>1, <3>2, <3>3 DEF PlansStayAcquirable
  <2> QED BY <2>2, <2>3, <2>5, <2>6 DEF IInv
<1>9. ASSUME NEW bs \in Seq(Binding), Idle, BeginAcquire(bs)
      PROVE  IInv'
  <2>1. /\ UNCHANGED <<table, direct, spent, kept, leases>>
        /\ call' = [op |-> "acquire", plan |-> bs, tokens |-> <<>>, at |-> 1]
    BY <1>9 DEF BeginAcquire
  <2>2. /\ call'.op = "acquire" /\ call'.plan = bs /\ call'.tokens = <<>> /\ call'.at = 1
        /\ call' \in Calls
    BY <2>1 DEF Calls
  <2>3. CallInv'
    BY <2>2 DEF CallInv, Distinct, Match
  <2>4. HeldByLeases' = HeldByLeases /\ HeldByCall = {} /\ HeldByCall' = {}
    <3>1. HeldByLeases' = HeldByLeases
      BY <2>1 DEF HeldByLeases
    <3>2. HeldByCall = {}
      BY <1>9, Positions DEF HeldPositions
    <3>3. HeldByCall' = {}
      BY <2>2, PositionsAfter DEF HeldPositions
    <3> QED BY <3>1, <3>2, <3>3
  <2>5. LeaseInv'
    BY <1>1, <2>1 DEF LeaseInv, Match, Distinct
  <2> QED BY <1>2, <2>1, <2>2, <2>3, <2>4, <2>5, CallSteps
<1>10. ASSUME AcquireNext
       PROVE  IInv'
  <2> DEFINE b == Wanted.buffer
             k == Wanted.access
             new == Granted(b, k)
  <2>1. /\ call.op = "acquire" /\ call.at <= Len(call.plan)
        /\ Grantable(b, k) /\ Grant(b, k)
        /\ call' = [call EXCEPT !.tokens = Append(call.tokens, new), !.at = call.at + 1]
        /\ UNCHANGED <<next_id, size, residency, direct, spent, kept, leases>>
    BY <1>10 DEF AcquireNext, Acquiring, Grant
  <2>2. call.at \in 1..Len(call.plan) /\ call.at = Len(call.tokens) + 1
    BY <1>1, <1>2, <2>1 DEF CallInv
  <2>3. b \in Ids /\ k \in AccessKind
    BY <1>2, <2>2, BindingFields DEF Wanted
  <2> HIDE DEF b, k
  <2>4. /\ new \in Token /\ ~Live(new) /\ new \notin spent
        /\ \A t \in Token : Live(t)' <=> (Live(t) \/ t = new)
        /\ next_generation' \in [Ids -> 1..MaxGeneration] /\ active' \in [Ids -> SUBSET Access]
        /\ \A a \in Ids : next_generation'[a] >= next_generation[a]
        /\ \A c \in Ids : \A a \in active'[c] : a.generation < next_generation'[c]
        /\ WritersExclusive' /\ HeldIsResident'
    BY <1>1, <2>1, <2>3, GrantStep
  <2>5. new.buffer = b /\ new.kind = k
    BY DEF Granted
  <2> HIDE DEF new
  <2>6. /\ call'.op = "acquire" /\ call'.plan = call.plan /\ call'.at = call.at + 1
        /\ call'.tokens = Append(call.tokens, new) /\ call' \in Calls
    <3> DEFINE ts == Append(call.tokens, new)
    <3>1. ts \in Seq(Token) /\ call.at + 1 \in Nat
      BY <1>2, <2>4
    <3>2. call' = [call EXCEPT !.tokens = ts, !.at = call.at + 1]
      BY <2>1
    <3> HIDE DEF ts
    <3>3. /\ call'.op = "acquire" /\ call'.plan = call.plan /\ call'.at = call.at + 1
          /\ call'.tokens = ts /\ call' \in Calls
      BY <1>2, <2>1, <3>1, <3>2 DEF Calls
    <3> QED BY <3>3 DEF ts
  <2>7. /\ Len(call'.tokens) = Len(call.tokens) + 1
        /\ \A i \in 1..Len(call'.tokens) :
             call'.tokens[i] = IF i = Len(call.tokens) + 1 THEN new ELSE call.tokens[i]
    BY <1>2, <2>4, <2>6
  <2>8. TypeOK'
    BY <1>1, <2>1, <2>4, <2>6 DEF TypeOK, Access, Calls
  <2>9. Generations'
    <3>1. \A t \in spent : t.generation \in Nat /\ t.buffer \in Ids /\ t \in Token
      BY <1>2 DEF Token
    <3>2. \A c \in Ids : next_generation[c] \in Nat /\ next_generation'[c] \in Nat
      BY <1>1, <2>4 DEF TypeOK
    <3> QED BY <1>1, <2>1, <2>4, <3>1, <3>2 DEF Generations
  <2>10. PlansStayAcquirable' /\ LeaseInv'
    BY <1>1, <2>1 DEF PlansStayAcquirable, LeaseInv, Known, Match, Distinct
  <2>11. \A i \in 1..Len(call.tokens) : call.tokens[i] \in Token /\ Live(call.tokens[i])
                                          /\ call.tokens[i] # new
    <3>1. \A i \in 1..Len(call.tokens) : call.tokens[i] \in Token
      BY <1>2
    <3>2. \A i \in 1..Len(call.tokens) : call.tokens[i] \in HeldByCall
      BY <2>1, Positions DEF HeldPositions
    <3> QED BY <1>1, <2>4, <3>1, <3>2 DEF Holders
  <2>12. CallInv'
    <3>1. Distinct(call.tokens) /\ Match(call.tokens, call.plan)
      BY <1>1, <2>1 DEF CallInv
    <3>2. Distinct(call'.tokens)
      BY <1>2, <2>7, <2>11, <3>1 DEF Distinct
    <3>3. new.buffer = call.plan[call.at].buffer /\ new.kind = call.plan[call.at].access
      BY <2>5 DEF b, k, Wanted
    <3>4. Match(call'.tokens, call'.plan)
      BY <1>2, <2>2, <2>6, <2>7, <3>1, <3>3 DEF Match
    <3> QED BY <1>2, <2>2, <2>6, <2>7, <3>2, <3>4 DEF CallInv, Match, Distinct
  <2>13. /\ HeldByLeases' = HeldByLeases
         /\ \A t : t \in HeldByCall' <=> (t \in HeldByCall \/ t = new)
    <3>1. HeldByLeases' = HeldByLeases
      BY <2>1 DEF HeldByLeases
    <3>2. \A t : t \in HeldByCall <=> \E i \in 1..Len(call.tokens) : t = call.tokens[i]
      BY <2>1, Positions DEF HeldPositions
    <3>3. \A t : t \in HeldByCall' <=> \E i \in 1..Len(call'.tokens) : t = call'.tokens[i]
      BY <2>6, PositionsAfter DEF HeldPositions
    <3>4. Len(call.tokens) \in Nat
      BY <1>2
    <3>5. ASSUME NEW t, t \in HeldByCall' PROVE t \in HeldByCall \/ t = new
      <4>1. PICK i \in 1..Len(call'.tokens) : t = call'.tokens[i]
        BY <3>3, <3>5
      <4>2. CASE i = Len(call.tokens) + 1
        BY <2>7, <4>1, <4>2
      <4>3. CASE i # Len(call.tokens) + 1
        <5>1. i \in 1..Len(call.tokens) /\ t = call.tokens[i]
          BY <2>7, <3>4, <4>1, <4>3
        <5> QED BY <3>2, <5>1
      <4> QED BY <4>2, <4>3
    <3>6. ASSUME NEW t, t \in HeldByCall PROVE t \in HeldByCall'
      <4>1. PICK i \in 1..Len(call.tokens) : t = call.tokens[i]
        BY <3>2, <3>6
      <4>2. i \in 1..Len(call'.tokens) /\ t = call'.tokens[i]
        BY <2>7, <3>4, <4>1
      <4> QED BY <3>3, <4>2
    <3>7. new \in HeldByCall'
      <4>1. Len(call.tokens) + 1 \in 1..Len(call'.tokens)
            /\ call'.tokens[Len(call.tokens) + 1] = new
        BY <2>7, <3>4
      <4> QED BY <3>3, <4>1
    <3> QED BY <3>1, <3>5, <3>6, <3>7
  <2>14. Holders'
    <3>1. \A t \in Token : ~Live(t) => t \notin direct /\ t \notin HeldByLeases
      BY <1>1 DEF Holders
    <3> QED BY <1>1, <2>1, <2>4, <2>13, <3>1 DEF Holders
  <2> QED BY <2>4, <2>8, <2>9, <2>10, <2>12, <2>14 DEF IInv
<1>11. ASSUME NEW t \in Token, t \in HeldByCall, Withdraw(t),
              UNCHANGED <<direct, spent, kept, leases>>, call' \in Calls, CallInv',
              \A u : u \in HeldByCall' <=> (u \in HeldByCall /\ u # t)
       PROVE  IInv'
  <2>1. UNCHANGED <<next_id, size, residency, next_generation, direct, spent, kept, leases>>
    BY <1>11 DEF Withdraw
  <2>2. /\ \A u \in Token : Live(u)' <=> (Live(u) /\ u # t)
        /\ active' \in [Ids -> SUBSET Access]
        /\ \A c \in Ids : \A a \in active'[c] : a.generation < next_generation[c]
        /\ WritersExclusive' /\ HeldIsResident'
    BY <1>1, <1>11, WithdrawStep
  <2>3. TypeOK'
    BY <1>1, <1>11, <2>1, <2>2 DEF TypeOK, Access, Calls
  <2>4. Generations'
    BY <1>1, <1>2, <2>1, <2>2 DEF Generations
  <2>5. PlansStayAcquirable' /\ LeaseInv'
    BY <1>1, <2>1 DEF PlansStayAcquirable, LeaseInv, Known, Match, Distinct
  <2>6. HeldByLeases' = HeldByLeases
    BY <2>1 DEF HeldByLeases
  <2>7. Holders'
    BY <1>1, <1>11, <2>1, <2>2, <2>6 DEF Holders
  <2> QED BY <1>11, <2>2, <2>3, <2>4, <2>5, <2>7 DEF IInv
<1>12. ASSUME AcquireFails
       PROVE  IInv'
  <2>1. /\ call.op = "acquire" /\ call' = [call EXCEPT !.op = "rollback", !.at = call.at - 1]
        /\ UNCHANGED <<table, direct, spent, kept, leases>>
    BY <1>12 DEF AcquireFails, Acquiring, RollbackFrom
  <2>2. call.at = Len(call.tokens) + 1 /\ Len(call.tokens) \in Nat
    BY <1>1, <1>2, <2>1 DEF CallInv
  <2>3. /\ call'.op = "rollback" /\ call'.at = Len(call.tokens)
        /\ call'.tokens = call.tokens /\ call' \in Calls
    <3>1. call' = [call EXCEPT !.op = "rollback", !.at = Len(call.tokens)]
      BY <2>1, <2>2
    <3>2. call \in Calls /\ Len(call.tokens) \in Nat
      BY <1>2, <2>2
    <3> QED BY <3>1, <3>2 DEF Calls
  <2>4. CallInv' /\ LeaseInv'
    BY <1>1, <2>1, <2>2, <2>3 DEF CallInv, LeaseInv, Distinct, Match
  <2>5. HeldByLeases' = HeldByLeases
    BY <2>1 DEF HeldByLeases
  <2>6. \A t : t \in HeldByCall' <=> t \in HeldByCall
    BY <2>1, <2>3, Positions, PositionsAfter DEF HeldPositions
  <2>7. \A t \in HeldByLeases' : t \notin HeldByCall'
    BY <1>1, <2>5, <2>6 DEF Holders
  <2>8. \A l \in leases' : l \in Lease
    BY <1>2, <2>1
  <2> QED BY <2>1, <2>3, <2>4, <2>5, <2>6, <2>7, <2>8, CallSteps
<1>13. ASSUME HeldByCall = {}, call' = NoCall, UNCHANGED <<table, direct, spent, kept, leases>>
       PROVE  IInv'
  <2>1. call'.op = "none" /\ call'.tokens = <<>> /\ call' \in Calls
    BY <1>13 DEF NoCall, Calls
  <2>2. CallInv' /\ LeaseInv'
    BY <1>1, <1>13, <2>1 DEF CallInv, LeaseInv, Distinct, Match
  <2>3. HeldByLeases' = HeldByLeases
    BY <1>13 DEF HeldByLeases
  <2>4. HeldByCall' = {}
    BY <2>1, PositionsAfter DEF HeldPositions
  <2>5. \A l \in leases' : l \in Lease
    BY <1>2, <1>13
  <2> QED BY <1>13, <2>1, <2>2, <2>3, <2>4, <2>5, CallSteps
<1>14. ASSUME RollbackDone
       PROVE  IInv'
  <2>1. HeldByCall = {}
    BY <1>14, Positions DEF HeldPositions, RollbackDone
  <2> QED BY <1>13, <1>14, <2>1 DEF RollbackDone
<1>15. ASSUME ReleaseEnds
       PROVE  IInv'
  <2>1. call.op = "release" /\ call.at >= 1
    BY <1>1, <1>15 DEF ReleaseEnds, CallInv
  <2>2. ~(call.at <= Len(call.tokens))
    <3> SUFFICES ASSUME call.at <= Len(call.tokens) PROVE FALSE
      OBVIOUS
    <3>1. call.at \in call.at..Len(call.tokens) /\ call.at \in 1..Len(call.tokens)
      BY <1>2, <2>1
    <3>2. call.tokens[call.at] \in HeldByCall /\ call.tokens[call.at] \in Token
      BY <1>2, <2>1, <3>1, Positions DEF HeldPositions
    <3> QED BY <1>1, <1>15, <3>2 DEF Holders, ReleaseEnds
  <2>3. HeldByCall = {}
    <3>1. call.at..Len(call.tokens) = {}
      BY <1>2, <2>2
    <3> QED BY <2>1, <3>1, Positions DEF HeldPositions
  <2> QED BY <1>13, <1>15, <2>3 DEF ReleaseEnds
<1>16. ASSUME Rollback
       PROVE  IInv'
  <2> DEFINE t == call.tokens[call.at]
  <2>1. /\ call.op = "rollback" /\ call.at \in 1..Len(call.tokens) /\ Len(call.tokens) \in Nat
    BY <1>1, <1>2, <1>16 DEF Rollback, CallInv
  <2>2. t \in Token /\ t \in HeldByCall /\ Distinct(call.tokens)
    BY <1>1, <1>2, <2>1, Positions DEF HeldPositions, CallInv
  <2>3. Live(t)
    BY <1>1, <2>2 DEF Holders
  <2>4. /\ Withdraw(t) /\ call' = [call EXCEPT !.at = call.at - 1]
        /\ UNCHANGED <<direct, spent, kept, leases>>
    BY <1>16, <2>3 DEF Rollback
  <2>5. /\ call'.op = "rollback" /\ call'.at = call.at - 1 /\ call'.tokens = call.tokens
        /\ call' \in Calls
    BY <1>2, <2>1, <2>4 DEF Calls
  <2>6. CallInv'
    BY <1>1, <2>1, <2>5 DEF CallInv, Distinct
  <2>7. \A u : u \in HeldByCall <=> \E i \in 1..call.at : u = call.tokens[i]
    BY <2>1, Positions DEF HeldPositions
  <2>8. \A u : u \in HeldByCall' <=> \E i \in 1..(call.at - 1) : u = call.tokens[i]
    BY <2>5, PositionsAfter DEF HeldPositions
  <2>9. \A i \in 1..(call.at - 1) : i \in 1..call.at /\ call.tokens[i] # t
    BY <2>1, <2>2 DEF Distinct
  <2>10. \A i \in 1..call.at : i = call.at \/ i \in 1..(call.at - 1)
    BY <2>1
  <2> HIDE DEF t
  <2>11. \A u : u \in HeldByCall' <=> (u \in HeldByCall /\ u # t)
    BY <2>7, <2>8, <2>9, <2>10 DEF t
  <2> QED BY <1>11, <2>2, <2>4, <2>5, <2>6, <2>11
<1>17. ASSUME ReleaseNext
       PROVE  IInv'
  <2> DEFINE t == call.tokens[call.at]
  <2>1. /\ call.op = "release" /\ call.at \in 1..Len(call.tokens) /\ Len(call.tokens) \in Nat
    BY <1>1, <1>2, <1>17 DEF ReleaseNext, CallInv
  <2>2. t \in Token /\ t \in HeldByCall /\ Distinct(call.tokens)
    <3>1. call.at \in call.at..Len(call.tokens)
      BY <2>1
    <3> QED BY <1>1, <1>2, <2>1, <3>1, Positions DEF HeldPositions, CallInv
  <2>3. /\ Withdraw(t) /\ call' = [call EXCEPT !.at = call.at + 1]
        /\ UNCHANGED <<direct, spent, kept, leases>>
    BY <1>17 DEF ReleaseNext
  <2>4. /\ call'.op = "release" /\ call'.at = call.at + 1 /\ call'.tokens = call.tokens
        /\ call' \in Calls
    <3>1. call.at + 1 \in Nat /\ call \in Calls
      BY <1>2
    <3>2. call' = [call EXCEPT !.at = call.at + 1]
      BY <2>3
    <3> QED BY <2>1, <3>1, <3>2 DEF Calls
  <2>5. CallInv'
    BY <1>1, <2>1, <2>4 DEF CallInv, Distinct
  <2>6. \A u : u \in HeldByCall <=> \E i \in call.at..Len(call.tokens) : u = call.tokens[i]
    BY <2>1, Positions DEF HeldPositions
  <2>7. \A u : u \in HeldByCall' <=> \E i \in (call.at + 1)..Len(call.tokens) : u = call.tokens[i]
    BY <2>4, PositionsAfter DEF HeldPositions
  <2>8. \A i \in (call.at + 1)..Len(call.tokens) :
          i \in call.at..Len(call.tokens) /\ call.tokens[i] # t
    BY <2>1, <2>2 DEF Distinct
  <2>9. \A i \in call.at..Len(call.tokens) :
          i = call.at \/ i \in (call.at + 1)..Len(call.tokens)
    BY <2>1
  <2>10. \A u : u \in HeldByCall' <=> (u \in HeldByCall /\ u # t)
    BY <2>6, <2>7, <2>8, <2>9
  <2> QED BY <1>11, <2>2, <2>3, <2>4, <2>5, <2>10
<1>18. ASSUME AcquireDone
       PROVE  IInv'
  <2> DEFINE new == [plan |-> call.plan, tokens |-> call.tokens]
  <2>1. /\ call.op = "acquire" /\ call.at > Len(call.plan) /\ call' = NoCall
        /\ leases' = leases \cup {new} /\ UNCHANGED <<table, direct, spent, kept>>
    BY <1>18 DEF AcquireDone
  <2>2. /\ new \in Lease /\ new.plan = call.plan /\ new.tokens = call.tokens
        /\ Match(call.tokens, call.plan) /\ Distinct(call.tokens)
        /\ Len(call.tokens) = Len(call.plan)
    BY <1>1, <1>2, <2>1 DEF Lease, CallInv, Match
  <2> HIDE DEF new
  <2>3. call'.op = "none" /\ call'.tokens = <<>> /\ call' \in Calls
    BY <2>1 DEF NoCall, Calls
  <2>4. CallInv'
    BY <2>3 DEF CallInv, Distinct
  <2>5. \A t : t \in HeldByCall <=> \E i \in 1..Len(new.tokens) : t = new.tokens[i]
    BY <2>1, <2>2, Positions DEF HeldPositions
  <2>6. \A t : t \in HeldByLeases <=> \E l \in leases : \E i \in 1..Len(l.tokens) : t = l.tokens[i]
    BY Positions DEF HeldPositions
  <2>7. \A t : t \in HeldByLeases' <=>
              \E l \in leases' : \E i \in 1..Len(l.tokens) : t = l.tokens[i]
    BY PositionsAfter DEF HeldPositions
  <2>8. \A t : t \in HeldByLeases' <=> (t \in HeldByLeases \/ t \in HeldByCall)
    BY <2>1, <2>5, <2>6, <2>7
  <2>9. LeaseInv'
    <3>1. \A l \in leases, i \in 1..Len(new.tokens) : \A j \in 1..Len(l.tokens) :
             l.tokens[j] # new.tokens[i]
      BY <1>1, <2>5, <2>6 DEF Holders
    <3>2. \A l, m \in leases' : l # m =>
            \A i \in 1..Len(l.tokens), j \in 1..Len(m.tokens) : l.tokens[i] # m.tokens[j]
      BY <1>1, <2>1, <3>1 DEF LeaseInv
    <3>3. \A l \in leases' :
            Len(l.tokens) = Len(l.plan) /\ Match(l.tokens, l.plan) /\ Distinct(l.tokens)
      BY <1>1, <2>1, <2>2 DEF LeaseInv
    <3> QED BY <3>2, <3>3 DEF LeaseInv, Match, Distinct
  <2>10. HeldByCall' = {}
    BY <2>3, PositionsAfter DEF HeldPositions
  <2>11. \A l \in leases' : l \in Lease
    BY <1>2, <2>1, <2>2
  <2> QED BY <2>1, <2>3, <2>4, <2>8, <2>9, <2>10, <2>11, CallSteps
<1>19. ASSUME NEW l \in leases, ReleaseArtifactResources(l)
       PROVE  IInv'
  <2>1. /\ call.op = "none" /\ leases' = leases \ {l}
        /\ call' = [op |-> "release", plan |-> l.plan, tokens |-> l.tokens, at |-> 1]
        /\ UNCHANGED <<table, direct, spent, kept>>
    BY <1>19 DEF ReleaseArtifactResources
  <2>2. /\ call'.op = "release" /\ call'.tokens = l.tokens /\ call'.at = 1 /\ call' \in Calls
    BY <1>2, <2>1 DEF Calls
  <2>3. CallInv'
    BY <1>1, <2>2 DEF CallInv, LeaseInv, Distinct
  <2>4. LeaseInv'
    BY <1>1, <2>1 DEF LeaseInv, Match, Distinct
  <2>5. HeldByCall = {}
    BY <2>1, Positions DEF HeldPositions
  <2>6. \A t : t \in HeldByCall' <=> \E i \in 1..Len(l.tokens) : t = l.tokens[i]
    BY <2>2, PositionsAfter DEF HeldPositions
  <2>7. \A t : t \in HeldByLeases <=> \E m \in leases : \E i \in 1..Len(m.tokens) : t = m.tokens[i]
    BY Positions DEF HeldPositions
  <2>8. \A t : t \in HeldByLeases' <=>
              \E m \in leases \ {l} : \E i \in 1..Len(m.tokens) : t = m.tokens[i]
    BY <2>1, PositionsAfter DEF HeldPositions
  <2>9. \A t : (t \in HeldByLeases' \/ t \in HeldByCall') <=> t \in HeldByLeases
    BY <2>6, <2>7, <2>8
  <2>10. \A t \in HeldByLeases' : t \notin HeldByCall'
    BY <1>1, <2>6, <2>8 DEF LeaseInv
  <2>11. \A m \in leases' : m \in Lease
    BY <1>2, <2>1
  <2> QED BY <2>1, <2>2, <2>3, <2>4, <2>5, <2>9, <2>10, <2>11, CallSteps
<1>20. ASSUME NEW artifact \in Artifacts, NEW requests \in Requests(artifact),
              PrepareArtifactDispatch(artifact, requests)
       PROVE  IInv'
  BY <1>9, <1>20, BindingsType DEF PrepareArtifactDispatch
<1>21. ASSUME AcquireArtifactResources
       PROVE  IInv'
  BY <1>2, <1>9, <1>21 DEF AcquireArtifactResources
<1> QED
  BY <1>3, <1>4, <1>5, <1>6, <1>7, <1>8, <1>10, <1>12, <1>14, <1>15, <1>16, <1>17, <1>18,
     <1>19, <1>20, <1>21 DEF Next

-----------------------------------------------------------------------------
LEMMA InvariantHolds == Spec => []IInv
<1>1. Init => IInv
  BY InitIInv
<1>2. IInv /\ [Next]_vars => IInv'
  BY StepIInv
<1> QED BY <1>1, <1>2, PTL DEF Spec

(* acquire, release, evict and the artifact operations: the accesses a     *)
(* buffer counts as live are exactly those somebody can still release,     *)
(* after an acquisition that failed at a later binding too.                *)
THEOREM HoldersKnown == Spec => []AccessesHaveHolders
<1>1. IInv => AccessesHaveHolders
  <2> SUFFICES ASSUME IInv, NEW b \in Ids
               PROVE  active[b] = {AccessOf(t) : t \in
                        {u \in direct \cup HeldByLeases \cup HeldByCall : u.buffer = b}}
    BY DEF AccessesHaveHolders
  <2> DEFINE Held == direct \cup HeldByLeases \cup HeldByCall
  <2>1. Held \subseteq Token
    <3>1. direct \subseteq Token
      BY DEF IInv, TypeOK
    <3>2. HeldByLeases \subseteq Token
      <4>1. \A l \in leases : l.tokens \in Seq(Token)
        BY DEF IInv, TypeOK
      <4>2. \A l \in leases : \A i \in 1..Len(l.tokens) : l.tokens[i] \in Token
        BY <4>1
      <4> QED BY <4>2, Positions DEF HeldPositions
    <3>3. HeldByCall \subseteq Token
      <4>1. call.tokens \in Seq(Token) /\ Len(call.tokens) \in Nat /\ call.at \in Nat
            /\ call.op \in {"none", "acquire", "rollback", "release"}
        BY DEF IInv, TypeOK
      <4>2. \A i \in 1..Len(call.tokens) : call.tokens[i] \in Token
        BY <4>1
      <4>3. call.op = "rollback" => \A i \in 1..call.at : i \in 1..Len(call.tokens)
        BY <4>1 DEF IInv, CallInv
      <4>4. call.op = "release" => \A i \in call.at..Len(call.tokens) : i \in 1..Len(call.tokens)
        BY <4>1 DEF IInv, CallInv
      <4> QED BY <4>1, <4>2, <4>3, <4>4, Positions DEF HeldPositions
    <3> QED BY <3>1, <3>2, <3>3
  <2>2. ASSUME NEW a \in active[b]
        PROVE  \E t \in Held : t.buffer = b /\ AccessOf(t) = a
    <3> DEFINE t == [buffer |-> b, generation |-> a.generation, kind |-> a.kind]
    <3>1. a \in Access
      BY <2>2 DEF IInv, TypeOK, Access
    <3>2. t \in Token /\ t.buffer = b /\ AccessOf(t) = a
      BY <3>1 DEF Access, Token, AccessOf
    <3>3. t \in Held
      BY <2>2, <3>2 DEF IInv, Holders, Live
    <3> QED BY <3>2, <3>3
  <2>3. ASSUME NEW t \in Held, t.buffer = b
        PROVE  AccessOf(t) \in active[b]
    BY <2>1, <2>3 DEF IInv, Holders, Live
  <2> QED BY <2>2, <2>3
<1> QED BY <1>1, InvariantHolds, PTL

(* AccessKind::conflicts over whole histories: whichever scopes and leases *)
(* they belong to, two live accesses of a buffer are both reads.           *)
THEOREM WritersAreExclusive == Spec => []WritersExclusive
<1>1. IInv => WritersExclusive
  BY DEF IInv
<1> QED BY <1>1, InvariantHolds, PTL

(* evict: a buffer with a live access is resident.                         *)
THEOREM HeldStaysResident == Spec => []HeldIsResident
<1>1. IInv => HeldIsResident
  BY DEF IInv
<1> QED BY <1>1, InvariantHolds, PTL

(* release_artifact_resources: until it is released a lease holds exactly  *)
(* the live accesses its plan declares, so that no stale token can stop    *)
(* its release half way.                                                   *)
THEOREM LeasesAreWhole == Spec => []LeaseWhole
<1>1. IInv => LeaseWhole
  <2> SUFFICES ASSUME IInv, NEW l \in leases, NEW i \in 1..Len(l.tokens)
               PROVE  Live(l.tokens[i])
    BY DEF IInv, LeaseInv, LeaseWhole, Match
  <2>1. l.tokens[i] \in HeldByLeases
    BY Positions DEF HeldPositions
  <2>2. l.tokens \in Seq(Token)
    BY DEF IInv, TypeOK
  <2>3. l.tokens[i] \in Token
    BY <2>2
  <2> QED BY <2>1, <2>3 DEF IInv, Holders
<1> QED BY <1>1, InvariantHolds, PTL

(* plan_artifact_resources: comparing each binding with the first one of   *)
(* its buffer is enough, and an accepted plan stays acquirable against     *)
(* itself however late it is acquired.                                     *)
THEOREM PlansStay == Spec => []PlansStayAcquirable
<1>1. IInv => PlansStayAcquirable
  BY DEF IInv
<1> QED BY <1>1, InvariantHolds, PTL
=============================================================================
