-------------------------- MODULE HostRuntime_proofs --------------------------
(***************************************************************************)
(* Proofs about the host runtime (jadren-runtime): the owning buffers and  *)
(* regions of OwnedBuffers, for any heap, any buffers and variables and    *)
(* any capacity, and the callback table of RuntimeCallbacks, for any       *)
(* number of dispatching threads and registrations and one registering     *)
(* thread, as the documentation of set_callbacks asks of the host.         *)
(***************************************************************************)
EXTENDS OwnedBuffers, RuntimeCallbacks, FiniteSetTheorems, FunctionTheorems,
        SequenceTheorems, TLAPS

-----------------------------------------------------------------------------
(* The inductive invariant of the owning buffers.  A place is an element of *)
(* a buffer or a variable; each holds the allocations its element owns, and *)
(* the places and the region divide the leaves of the heap among them.     *)

Element(p) ==
  [tag : {0, 1}, plain : {Plain(p)}, cells : [1..Width(p) -> Addr \cup {Null}]]

Slot(p) == Element(p) \cup {Uninitialized}

NoAlias(el) ==
  \A c, k \in ActiveCells(el) : el.cells[c] = el.cells[k] /\ el.cells[c] # Null => c = k

Proper(p) == {el \in Element(p) : NoAlias(el)}

HeapOK ==
  /\ heap = [a \in Addr |-> heap[a]]
  /\ \A a \in Addr : \/ heap[a] = Free
                     \/ heap[a].kind = "leaf" /\ heap[a] = Leaf(heap[a].data)
                     \/ heap[a].kind = "slots" /\ heap[a] = Block(heap[a].slots)

BufferOK(o) ==
  /\ header[o] \in [pointer : Addr \cup {Null}, length : 0..MaxCapacity, capacity : 0..MaxCapacity]
  /\ header[o].pointer = Null => header[o] = EMPTY
  /\ header[o].pointer # Null =>
       /\ heap[header[o].pointer].kind = "slots"
       /\ Slots(o) \in [1..header[o].capacity -> Slot(o)]
       /\ Length(o) <= header[o].capacity
       /\ \A j \in 1..Length(o) : Slots(o)[j] \in Proper(o)

BuffersOK == header = [o \in Buffers |-> header[o]] /\ \A o \in Buffers : BufferOK(o)
ValuesOK == value = [v \in Variables |-> value[v]] /\ \A v \in Variables : value[v] \in Proper(v)
RegionOK == /\ region \in [handle : Addr \cup {Null}, blocks : SUBSET Addr]
            /\ region.handle = Null => region = NoRegion

OwnPointers ==
  /\ \A o, p \in Buffers : header[o].pointer = header[p].pointer /\ header[o].pointer # Null => o = p
  /\ \A a \in Addr : heap[a].kind = "slots" => \E o \in Buffers : header[o].pointer = a

Places == (Buffers \X (1..MaxCapacity)) \cup (Variables \X {0})
OwnedAt(q) == IF q[1] \in Variables THEN Owned(value[q[1]])
              ELSE IF q[2] <= Length(q[1]) THEN Owned(Slots(q[1])[q[2]]) ELSE {}
Holdings == [q \in Places |-> OwnedAt(q)]
RegionSet == region.blocks \cup ({region.handle} \ {Null})
Leaves == {a \in Addr : heap[a].kind = "leaf"}

Partition(W, R, L) ==
  /\ \A p, q \in Places : p # q => W[p] \cap W[q] = {}
  /\ \A p \in Places : W[p] \cap R = {}
  /\ \A a \in L : a \in R \/ \E p \in Places : a \in W[p]
  /\ R \subseteq L
  /\ \A p \in Places : W[p] \subseteq L

IInv == /\ HeapOK /\ BuffersOK /\ ValuesOK /\ RegionOK /\ OwnPointers
        /\ Partition(Holdings, RegionSet, Leaves)

-----------------------------------------------------------------------------
LEMMA TypesAgree ==
  ASSUME NEW o \in Buffers, NEW v \in VariablesOf(o)
  PROVE  /\ v \in Variables /\ v # o
         /\ Width(v) = Width(o) /\ Plain(v) = Plain(o)
  BY NamesAssumption DEF Buffers, Variables, VariablesOf, Width, Plain

LEMMA SameType ==
  ASSUME NEW o \in Buffers, NEW v \in VariablesOf(o)
  PROVE  Zero(v) = Zero(o) /\ Element(v) = Element(o) /\ Proper(v) = Proper(o) /\ Slot(v) = Slot(o)
  BY TypesAgree DEF Zero, Element, Proper, Slot

LEMMA WidthPlain ==
  ASSUME NEW p
  PROVE  Width(p) \in 1..2 /\ Plain(p) \in 0..1
  BY DEF Width, Plain

LEMMA CellCount ==
  ASSUME NEW p, NEW el \in Element(p)
  PROVE  Len(el.cells) = Width(p) /\ el.plain = Plain(p) /\ el.tag \in {0, 1}
         /\ ActiveCells(el) = {c \in 1..Width(p) : c <= Plain(p) \/ el.tag = 1}
         /\ ActiveCells(el) \subseteq 1..2
         /\ \A c \in ActiveCells(el) : el.cells[c] \in Addr \cup {Null}
<1>1. el.cells \in [1..Width(p) -> Addr \cup {Null}] /\ el.plain = Plain(p) /\ el.tag \in {0, 1}
  BY DEF Element
<1>2. Len(el.cells) = Width(p)
  BY <1>1, WidthPlain
<1> QED BY <1>1, <1>2, WidthPlain DEF ActiveCells

LEMMA OwnedAddresses ==
  ASSUME NEW p, NEW el \in Element(p)
  PROVE  Owned(el) \subseteq Addr
  BY CellCount, HeapAssumption DEF Owned

LEMMA ZeroOwnsNothing ==
  ASSUME NEW p
  PROVE  Zero(p) \in Proper(p) /\ Zero(p) \in Slot(p) /\ Owned(Zero(p)) = {}
<1>1. Zero(p) \in Element(p)
  BY DEF Zero, Element
<1>2. \A c \in ActiveCells(Zero(p)) : Zero(p).cells[c] = Null
  BY <1>1, CellCount DEF Zero
<1> QED BY <1>1, <1>2 DEF Proper, NoAlias, Owned, Slot

LEMMA EmptyPartition ==
  ASSUME NEW W, \A p \in Places : W[p] = {}
  PROVE  Partition(W, {}, {})
  BY DEF Partition

\* Places that lose what they own.
LEMMA Dropped ==
  ASSUME NEW W, NEW R, NEW L, NEW W2, NEW Q \in SUBSET Places, Partition(W, R, L),
         \A p \in Places : W2[p] = IF p \in Q THEN {} ELSE W[p]
  PROVE  Partition(W2, R, L \ UNION {W[q] : q \in Q})
  BY DEF Partition

\* Values that change places.
LEMMA Rearranged ==
  ASSUME NEW W, NEW R, NEW L, NEW W2, NEW m \in [Places -> Places], Partition(W, R, L),
         \A p \in Places : W2[p] = {} \/ W2[p] = W[m[p]],
         \A p, q \in Places : W2[p] # {} /\ W2[q] # {} /\ m[p] = m[q] => p = q,
         \A q \in Places : W[q] = {} \/ \E p \in Places : W2[p] = W[q]
  PROVE  Partition(W2, R, L)
<1>1. ASSUME NEW p \in Places, NEW q \in Places, p # q PROVE W2[p] \cap W2[q] = {}
  BY <1>1 DEF Partition
<1>2. \A p \in Places : W2[p] \cap R = {} /\ W2[p] \subseteq L
  BY DEF Partition
<1>3. \A a \in L : a \in R \/ \E p \in Places : a \in W2[p]
  BY DEF Partition
<1> QED BY <1>1, <1>2, <1>3 DEF Partition

\* A place that held nothing receives new leaves.
LEMMA Received ==
  ASSUME NEW W, NEW R, NEW L, NEW W2, NEW q \in Places, NEW X, Partition(W, R, L),
         W[q] = {}, W2[q] = X, X \cap L = {},
         \A p \in Places : p # q => W2[p] = W[p]
  PROVE  Partition(W2, R, L \cup X)
  BY DEF Partition

LEMMA SamePartition ==
  ASSUME NEW W, NEW R, NEW L, NEW W2, Partition(W, R, L), \A p \in Places : W2[p] = W[p]
  PROVE  Partition(W2, R, L)
  BY DEF Partition

LEMMA RegionGrows ==
  ASSUME NEW W, NEW R, NEW L, NEW X, Partition(W, R, L), X \cap L = {}
  PROVE  Partition(W, R \cup X, L \cup X)
  BY DEF Partition

LEMMA RegionGone ==
  ASSUME NEW W, NEW R, NEW L, Partition(W, R, L)
  PROVE  Partition(W, {}, L \ R)
  BY DEF Partition

-----------------------------------------------------------------------------
(* How a step of one buffer changes the heap and what is owned.            *)

LEMMA HeapKinds ==
  ASSUME HeapOK
  PROVE  /\ DOMAIN heap = Addr
         /\ \A a \in Addr : heap[a].kind \in {"free", "leaf", "slots"}
         /\ \A a \in Addr : heap[a] = Free <=> heap[a].kind = "free"
         /\ \A a \in Addr : heap[a].kind = "slots" => heap[a] = Block(heap[a].slots)
         /\ \A a \in Addr : heap[a].kind = "leaf" => heap[a] = Leaf(heap[a].data)
  BY DEF HeapOK, Free, Leaf, Block

LEMMA Kinds ==
  /\ Free.kind = "free"
  /\ \A d : Leaf(d).kind = "leaf" /\ Leaf(d) = [kind |-> "leaf", data |-> d]
  /\ \A s : Block(s).kind = "slots" /\ Block(s).slots = s
  BY DEF Free, Leaf, Block

LEMMA PlaceCases ==
  ASSUME NEW q \in Places
  PROVE  \/ q[1] \in Variables /\ q[1] \notin Buffers /\ q[2] = 0 /\ q = <<q[1], 0>>
         \/ q[1] \in Buffers /\ q[1] \notin Variables /\ q[2] \in 1..MaxCapacity
            /\ q = <<q[1], q[2]>>
  BY NamesAssumption DEF Places

LEMMA HoldingOf ==
  /\ \A o \in Buffers, j \in 1..MaxCapacity :
       /\ <<o, j>> \in Places
       /\ Holdings[<<o, j>>] = IF j <= Length(o) THEN Owned(Slots(o)[j]) ELSE {}
  /\ \A v \in Variables : <<v, 0>> \in Places /\ Holdings[<<v, 0>>] = Owned(value[v])
  BY NamesAssumption DEF Holdings, OwnedAt, Places

LEMMA HoldingNext ==
  /\ \A o \in Buffers, j \in 1..MaxCapacity :
       Holdings'[<<o, j>>] = IF j <= Length(o)' THEN Owned(Slots(o)[j])' ELSE {}
  /\ \A v \in Variables : Holdings'[<<v, 0>>] = Owned(value'[v])
  BY NamesAssumption DEF Holdings, OwnedAt, Places

LEMMA BufferFrame ==
  ASSUME NEW o \in Buffers, BufferOK(o), header'[o] = header[o],
         header[o].pointer # Null => heap'[header[o].pointer] = heap[header[o].pointer]
  PROVE  /\ BufferOK(o)'
         /\ \A j \in 1..MaxCapacity : Holdings'[<<o, j>>] = Holdings[<<o, j>>]
<1>1. Length(o)' = Length(o)
  BY DEF Length
<1>2. header[o].pointer # Null => Slots(o)' = Slots(o)
  BY DEF Slots
<1>3. header[o].pointer = Null => Length(o) = 0
  BY DEF BufferOK, Length, EMPTY
<1>4. BufferOK(o)'
  BY <1>1, <1>2 DEF BufferOK
<1>5. ASSUME NEW j \in 1..MaxCapacity PROVE Holdings'[<<o, j>>] = Holdings[<<o, j>>]
  BY <1>1, <1>2, <1>3, HoldingOf, HoldingNext DEF BufferOK
<1> QED BY <1>4, <1>5

\* Steps that change no block and no header.
LEMMA LeafChange ==
  ASSUME IInv, HeapOK', header' = header,
         \A a \in Addr : heap[a].kind = "slots" => heap'[a] = heap[a],
         \A a \in Addr : heap'[a].kind = "slots" => heap'[a] = heap[a]
  PROVE  /\ BuffersOK' /\ OwnPointers'
         /\ \A o \in Buffers, j \in 1..MaxCapacity : Holdings'[<<o, j>>] = Holdings[<<o, j>>]
<1>1. ASSUME NEW o \in Buffers
      PROVE  /\ BufferOK(o) /\ header'[o] = header[o]
             /\ header[o].pointer # Null => heap'[header[o].pointer] = heap[header[o].pointer]
  BY DEF IInv, BuffersOK, BufferOK
<1>2. BuffersOK'
  BY <1>1, BufferFrame DEF IInv, BuffersOK
<1>3. OwnPointers'
  BY DEF IInv, OwnPointers
<1> QED BY <1>1, <1>2, <1>3, BufferFrame

\* A step that leaves buffer o with a block at a, which has c slots s of which
\* the first n are elements, and that releases the leaves X.
Rewritten(o, a, s, n, c, X) ==
  /\ a \in Addr /\ (a = header[o].pointer \/ heap[a] = Free)
  /\ n \in Nat /\ c \in 0..MaxCapacity /\ n <= c
  /\ s \in [1..c -> Slot(o)] /\ \A j \in 1..n : s[j] \in Proper(o)
  /\ X \subseteq Leaves
  /\ header' = [header EXCEPT ![o] = [pointer |-> a, length |-> n, capacity |-> c]]
  /\ heap' = [b \in Addr |-> IF b = a THEN Block(s)
                             ELSE IF b \in X \/ b = header[o].pointer THEN Free ELSE heap[b]]

\* What such a step does to what is owned through buffers.
BuffersHold(o, s, n) ==
  /\ \A p \in Buffers, j \in 1..MaxCapacity : p # o => Holdings'[<<p, j>>] = Holdings[<<p, j>>]
  /\ \A j \in 1..MaxCapacity : Holdings'[<<o, j>>] = IF j <= n THEN Owned(s[j]) ELSE {}

LEMMA BufferChange ==
  ASSUME IInv, NEW o \in Buffers, NEW a, NEW s, NEW n, NEW c, NEW X, Rewritten(o, a, s, n, c, X)
  PROVE  /\ HeapOK' /\ BuffersOK' /\ OwnPointers' /\ Leaves' = Leaves \ X
         /\ BuffersHold(o, s, n)
         /\ Length(o)' = n /\ Slots(o)' = s
<1> USE DEF Rewritten
<1>0. HeapOK /\ OwnPointers /\ header = [p \in Buffers |-> header[p]] /\ \A p \in Buffers : BufferOK(p)
  BY DEF IInv, BuffersOK
<1>1. HeapOK'
  BY <1>0, Kinds DEF HeapOK
<1>2. header'[o] = [pointer |-> a, length |-> n, capacity |-> c]
      /\ header' = [p \in Buffers |-> header'[p]]
      /\ \A p \in Buffers : p # o => header'[p] = header[p]
  BY <1>0
<1>3. \A p \in Buffers : header[p].pointer # Null =>
        header[p].pointer \in Addr /\ heap[header[p].pointer].kind = "slots"
  BY <1>0 DEF BufferOK
<1>4. ASSUME NEW p \in Buffers, p # o, header[p].pointer # Null
      PROVE  heap'[header[p].pointer] = heap[header[p].pointer]
  <2>1. header[p].pointer # header[o].pointer
    BY <1>0, <1>4 DEF OwnPointers
  <2>2. header[p].pointer # a /\ header[p].pointer \notin X
    BY <1>3, <1>4, <2>1, Kinds DEF Leaves
  <2> QED BY <1>3, <1>4, <2>1, <2>2
<1>5. Length(o)' = n /\ Slots(o)' = s /\ heap'[a] = Block(s)
  BY <1>2, Kinds DEF Length, Slots
<1>6. BufferOK(o)'
  BY <1>2, <1>5, Kinds, HeapAssumption DEF BufferOK
<1>7. BuffersOK'
  BY <1>0, <1>2, <1>4, <1>6, BufferFrame DEF BuffersOK
<1>8. OwnPointers'
  <2>1. ASSUME NEW p \in Buffers, NEW q \in Buffers, header'[p].pointer = header'[q].pointer,
               header'[p].pointer # Null
        PROVE  p = q
    <3>1. \A w \in Buffers : w # o => header[w].pointer # a
      BY <1>0, <1>3, Kinds, HeapAssumption DEF OwnPointers
    <3> QED BY <1>0, <1>2, <2>1, <3>1 DEF OwnPointers
  <2>2. ASSUME NEW b \in Addr, heap'[b].kind = "slots"
        PROVE  \E p \in Buffers : header'[p].pointer = b
    <3>1. CASE b = a
      BY <1>2, <3>1
    <3>2. CASE b # a
      <4>1. b \notin X /\ b # header[o].pointer /\ heap[b].kind = "slots"
        BY <2>2, <3>2, Kinds
      <4> QED BY <1>0, <1>2, <4>1 DEF OwnPointers
    <3> QED BY <3>1, <3>2
  <2> QED BY <2>1, <2>2 DEF OwnPointers
<1>9. Leaves' = Leaves \ X
  <2>1. a \notin Leaves /\ header[o].pointer \notin Leaves
    BY <1>3, Kinds, HeapAssumption DEF Leaves
  <2> QED BY <2>1, Kinds DEF Leaves
<1>10. \A p \in Buffers, j \in 1..MaxCapacity : p # o => Holdings'[<<p, j>>] = Holdings[<<p, j>>]
  BY <1>0, <1>2, <1>4, BufferFrame
<1>11. \A j \in 1..MaxCapacity : Holdings'[<<o, j>>] = IF j <= n THEN Owned(s[j]) ELSE {}
  BY <1>5, HoldingNext
<1> QED BY <1>1, <1>2, <1>5, <1>7, <1>8, <1>9, <1>10, <1>11 DEF BuffersHold

LEMMA InitIInv == Init => IInv
<1> SUFFICES ASSUME Init PROVE IInv
  OBVIOUS
<1>1. HeapOK
  BY DEF Init, HeapOK
<1>2. \A o \in Buffers : header[o] = EMPTY
  BY DEF Init
<1>3. \A o \in Buffers : BufferOK(o)
  BY <1>2, HeapAssumption DEF BufferOK, EMPTY
<1>4. BuffersOK
  BY <1>3 DEF Init, BuffersOK
<1>5. ValuesOK
  BY ZeroOwnsNothing DEF Init, ValuesOK
<1>6. RegionOK /\ RegionSet = {}
  BY DEF Init, RegionOK, RegionSet, NoRegion
<1>7. OwnPointers
  BY <1>2, Kinds DEF Init, OwnPointers, EMPTY
<1>8. Leaves = {}
  BY Kinds DEF Init, Leaves
<1>9. \A q \in Places : Holdings[q] = {}
  <2> TAKE q \in Places
  <2>1. CASE q[1] \in Variables
    BY <2>1, ZeroOwnsNothing DEF Init, Holdings, OwnedAt
  <2>2. CASE q[1] \in Buffers /\ q[1] \notin Variables /\ q[2] \in 1..MaxCapacity
    BY <2>2, <1>2 DEF Holdings, OwnedAt, Length, EMPTY
  <2> QED BY <2>1, <2>2, PlaceCases
<1> QED BY <1>1, <1>4, <1>5, <1>6, <1>7, <1>8, <1>9, EmptyPartition DEF IInv

\* What a variable holds is replaced, and nothing but leaves change.
LEMMA VariableChange ==
  ASSUME IInv, NEW v \in Variables, NEW el \in Proper(v),
         value' = [value EXCEPT ![v] = el], header' = header, region' = region,
         HeapOK',
         \A a \in Addr : heap[a].kind = "slots" => heap'[a] = heap[a],
         \A a \in Addr : heap'[a].kind = "slots" => heap'[a] = heap[a],
         \/ Holdings[<<v, 0>>] = {} /\ Owned(el) \cap Leaves = {} /\ Leaves' = Leaves \cup Owned(el)
         \/ Owned(el) = {} /\ Leaves' = Leaves \ Holdings[<<v, 0>>]
  PROVE  IInv'
<1>1. BuffersOK' /\ OwnPointers'
      /\ \A o \in Buffers, j \in 1..MaxCapacity : Holdings'[<<o, j>>] = Holdings[<<o, j>>]
  BY LeafChange
<1>2. value'[v] = el /\ \A w \in Variables : w # v => value'[w] = value[w]
  BY DEF IInv, ValuesOK
<1>3. ValuesOK'
  BY <1>2 DEF IInv, ValuesOK
<1>4. RegionOK' /\ RegionSet' = RegionSet
  BY DEF IInv, RegionOK, RegionSet
<1>5. <<v, 0>> \in Places /\ Holdings'[<<v, 0>>] = Owned(el)
  BY <1>2, HoldingOf, HoldingNext
<1>6. \A q \in Places : q # <<v, 0>> => Holdings'[q] = Holdings[q]
  <2> TAKE q \in Places
  <2> HAVE q # <<v, 0>>
  <2>1. CASE q[1] \in Variables /\ q = <<q[1], 0>>
    BY <1>2, <2>1, HoldingOf, HoldingNext
  <2>2. CASE q[1] \in Buffers /\ q[2] \in 1..MaxCapacity /\ q = <<q[1], q[2]>>
    BY <1>1, <2>2
  <2> QED BY <2>1, <2>2, PlaceCases
<1>7. Partition(Holdings, RegionSet, Leaves)
  BY DEF IInv
<1>8. Partition(Holdings', RegionSet', Leaves')
  <2>1. CASE Holdings[<<v, 0>>] = {} /\ Owned(el) \cap Leaves = {} /\ Leaves' = Leaves \cup Owned(el)
    BY <1>4, <1>5, <1>6, <1>7, <2>1, Received
  <2>2. CASE Owned(el) = {} /\ Leaves' = Leaves \ Holdings[<<v, 0>>]
    <3> DEFINE Q == {<<v, 0>>}
    <3>1. \A q \in Places : Holdings'[q] = IF q \in Q THEN {} ELSE Holdings[q]
      BY <1>5, <1>6, <2>2
    <3>2. Q \in SUBSET Places /\ UNION {Holdings[q] : q \in Q} = Holdings[<<v, 0>>]
      BY <1>5
    <3> HIDE DEF Q
    <3>3. Partition(Holdings', RegionSet, Leaves \ UNION {Holdings[q] : q \in Q})
      BY <1>7, <3>1, <3>2, Dropped
    <3> QED BY <1>4, <2>2, <3>2, <3>3
  <2> QED BY <2>1, <2>2
<1> QED BY <1>1, <1>3, <1>4, <1>8 DEF IInv

\* What holds of a variable's element, for the lemmas below.
LEMMA ValueFacts ==
  ASSUME IInv, NEW v \in Variables
  PROVE  /\ value = [w \in Variables |-> value[w]]
         /\ value[v] \in Proper(v) /\ value[v] \in Element(v)
         /\ Owned(value[v]) \subseteq Leaves
         /\ Owned(value[v]) = Holdings[<<v, 0>>]
         /\ value[v] = [tag |-> value[v].tag, plain |-> Plain(v), cells |-> value[v].cells]
  BY HoldingOf DEF IInv, ValuesOK, Proper, Element, Partition

LEMMA OneCell ==
  ASSUME NEW v, Width(v) = 1, NEW tag \in {0, 1}, NEW a \in Addr
  PROVE  LET el == [tag |-> tag, plain |-> Plain(v), cells |-> <<a>>]
         IN  /\ el \in Proper(v)
             /\ Owned(el) = IF Plain(v) = 1 \/ tag = 1 THEN {a} ELSE {}
<1> DEFINE el == [tag |-> tag, plain |-> Plain(v), cells |-> <<a>>]
<1>1. el \in Element(v)
  BY DEF Element
<1>2. ActiveCells(el) = {c \in 1..1 : c <= Plain(v) \/ tag = 1} /\ el.cells[1] = a
  BY <1>1, CellCount
<1>3. ActiveCells(el) = IF Plain(v) = 1 \/ tag = 1 THEN {1} ELSE {}
  BY <1>2, WidthPlain
<1>4. el \in Proper(v)
  BY <1>1, <1>3 DEF Proper, NoAlias
<1>5. Owned(el) = IF Plain(v) = 1 \/ tag = 1 THEN {a} ELSE {}
  BY <1>2, <1>3, HeapAssumption DEF Owned
<1> QED BY <1>4, <1>5

LEMMA TwoCells ==
  ASSUME NEW v, Width(v) = 2, Plain(v) = 1, NEW tag \in {0, 1}, NEW a \in Addr, NEW b \in Addr,
         tag = 1 => a # b
  PROVE  LET el == [tag |-> tag, plain |-> Plain(v), cells |-> <<a, b>>]
         IN  /\ el \in Proper(v)
             /\ Owned(el) = IF tag = 1 THEN {a, b} ELSE {a}
<1> DEFINE el == [tag |-> tag, plain |-> Plain(v), cells |-> <<a, b>>]
<1>1. el \in Element(v)
  BY DEF Element
<1>2. ActiveCells(el) = {c \in 1..2 : c <= 1 \/ tag = 1} /\ el.cells[1] = a /\ el.cells[2] = b
  BY <1>1, CellCount
<1>3. ActiveCells(el) = IF tag = 1 THEN {1, 2} ELSE {1}
  BY <1>2
<1>4. el \in Proper(v)
  BY <1>1, <1>2, <1>3 DEF Proper, NoAlias
<1>5. Owned(el) = IF tag = 1 THEN {a, b} ELSE {a}
  BY <1>2, <1>3, HeapAssumption DEF Owned
<1> QED BY <1>4, <1>5

-----------------------------------------------------------------------------
(* The program's variables, and regions.                                   *)

\* Free addresses become leaves.
LEMMA NewLeaves ==
  ASSUME HeapOK, NEW X \in SUBSET FreeAddr, NEW d,
         heap' = [a \in Addr |-> IF a \in X THEN Leaf(d) ELSE heap[a]]
  PROVE  /\ HeapOK'
         /\ \A a \in Addr : heap[a].kind = "slots" => heap'[a] = heap[a]
         /\ \A a \in Addr : heap'[a].kind = "slots" => heap'[a] = heap[a]
         /\ X \cap Leaves = {} /\ Leaves' = Leaves \cup X
<1>1. \A a \in X : a \in Addr /\ heap[a].kind = "free"
  BY Kinds DEF FreeAddr
<1>2. HeapOK'
  BY Kinds DEF HeapOK
<1>3. X \cap Leaves = {} /\ Leaves' = Leaves \cup X
  BY <1>1, Kinds DEF Leaves
<1>4. \A a \in Addr : heap[a].kind = "slots" => heap'[a] = heap[a]
  BY <1>1
<1>5. \A a \in Addr : heap'[a].kind = "slots" => heap'[a] = heap[a]
  BY Kinds
<1> QED BY <1>2, <1>3, <1>4, <1>5

\* Leaves are released.
LEMMA LeavesReleased ==
  ASSUME HeapOK, NEW X \in SUBSET Leaves, heap' = Released(heap, X)
  PROVE  /\ HeapOK'
         /\ \A a \in Addr : heap[a].kind = "slots" => heap'[a] = heap[a]
         /\ \A a \in Addr : heap'[a].kind = "slots" => heap'[a] = heap[a]
         /\ Leaves' = Leaves \ X
<1>1. heap' = [a \in Addr |-> IF a \in X THEN Free ELSE heap[a]]
  BY DEF Released
<1>2. HeapOK'
  BY <1>1, Kinds DEF HeapOK
<1>3. Leaves' = Leaves \ X
  BY <1>1, Kinds DEF Leaves
<1>4. \A a \in Addr : heap[a].kind = "slots" => heap'[a] = heap[a]
  BY <1>1 DEF Leaves
<1>5. \A a \in Addr : heap'[a].kind = "slots" => heap'[a] = heap[a]
  BY <1>1, Kinds
<1> QED BY <1>2, <1>3, <1>4, <1>5

LEMMA VariableShape ==
  /\ \A v \in NestedVar \cup StringVar : v \in Variables /\ Width(v) = 1 /\ Plain(v) = 1
  /\ \A v \in CarrierVar : v \in Variables /\ Width(v) = 1 /\ Plain(v) = 0
  /\ \A v \in RecordVar : v \in Variables /\ Width(v) = 2 /\ Plain(v) = 1
  BY NamesAssumption DEF Variables, Width, Plain

LEMMA BuildLeafStep ==
  ASSUME IInv, NEW v \in Variables, NEW a \in FreeAddr, NEW d, BuildLeaf(v, a, d)
  PROVE  IInv'
<1> DEFINE el == [tag |-> 0, plain |-> Plain(v), cells |-> <<a>>]
<1>1. Width(v) = 1 /\ Plain(v) = 1 /\ a \in Addr
  BY VariableShape DEF BuildLeaf, FreeAddr
<1>2. el \in Proper(v) /\ Owned(el) = {a}
  BY <1>1, OneCell
<1>3. value' = [value EXCEPT ![v] = el]
  <2>1. value[v] = [tag |-> 0, plain |-> Plain(v), cells |-> [c \in 1..1 |-> Null]]
    BY <1>1 DEF BuildLeaf, Zero
  <2>2. [[c \in 1..1 |-> Null] EXCEPT ![1] = a] = <<a>>
    OBVIOUS
  <2>3. [value[v] EXCEPT !.cells[1] = a] = el
    BY <2>1, <2>2
  <2> QED BY <2>3 DEF BuildLeaf
<1>4. heap' = [b \in Addr |-> IF b \in {a} THEN Leaf(d) ELSE heap[b]]
  BY <1>1 DEF BuildLeaf, IInv, HeapOK
<1>5. Holdings[<<v, 0>>] = {}
  BY ValueFacts, ZeroOwnsNothing DEF BuildLeaf
<1>6. HeapOK /\ {a} \in SUBSET FreeAddr
  BY DEF IInv
<1> HIDE DEF el
<1>7. /\ HeapOK'
      /\ \A b \in Addr : heap[b].kind = "slots" => heap'[b] = heap[b]
      /\ \A b \in Addr : heap'[b].kind = "slots" => heap'[b] = heap[b]
      /\ {a} \cap Leaves = {} /\ Leaves' = Leaves \cup {a}
  BY <1>4, <1>6, NewLeaves
<1> QED BY <1>2, <1>3, <1>5, <1>7, VariableChange DEF BuildLeaf

LEMMA BuildCarrierStep ==
  ASSUME IInv, NEW v \in Variables, NEW tag \in {0, 1}, NEW bits \in Addr, NEW d,
         BuildCarrier(v, tag, bits, d)
  PROVE  IInv'
<1> DEFINE el == [tag |-> tag, plain |-> Plain(v), cells |-> <<bits>>]
           X == IF tag = 1 THEN {bits} ELSE {}
<1>1. Width(v) = 1 /\ Plain(v) = 0
  BY VariableShape DEF BuildCarrier
<1>2. el \in Proper(v) /\ Owned(el) = X
  BY <1>1, OneCell
<1>3. value' = [value EXCEPT ![v] = el]
  <2>1. [value[v] EXCEPT !.tag = tag, !.cells = <<bits>>] = el
    <3>1. PICK k : value[v] = [tag |-> 0, plain |-> Plain(v), cells |-> k]
      BY DEF BuildCarrier, Zero
    <3> DEFINE e == [value[v] EXCEPT !.tag = tag]
    <3>2. [value[v] EXCEPT !.tag = tag, !.cells = <<bits>>] = [e EXCEPT !.cells = <<bits>>]
      OBVIOUS
    <3>3. e = [tag |-> tag, plain |-> Plain(v), cells |-> k]
      BY <3>1
    <3> HIDE DEF e
    <3> QED BY <3>2, <3>3
  <2>2. value' = [value EXCEPT ![v] = [value[v] EXCEPT !.tag = tag, !.cells = <<bits>>]]
    BY ValueFacts DEF BuildCarrier
  <2> QED BY <2>1, <2>2
<1>4. heap' = [b \in Addr |-> IF b \in X THEN Leaf(d) ELSE heap[b]]
  BY DEF BuildCarrier, IInv, HeapOK
<1>5. Holdings[<<v, 0>>] = {}
  BY ValueFacts, ZeroOwnsNothing DEF BuildCarrier
<1>6. HeapOK /\ X \in SUBSET FreeAddr
  BY DEF IInv, BuildCarrier, Payload
<1> HIDE DEF el, X
<1>7. /\ HeapOK'
      /\ \A b \in Addr : heap[b].kind = "slots" => heap'[b] = heap[b]
      /\ \A b \in Addr : heap'[b].kind = "slots" => heap'[b] = heap[b]
      /\ X \cap Leaves = {} /\ Leaves' = Leaves \cup X
  BY <1>4, <1>6, NewLeaves
<1>8. header' = header /\ region' = region
  BY DEF BuildCarrier
<1>9. Owned(el) \cap Leaves = {} /\ Leaves' = Leaves \cup Owned(el)
  BY <1>2, <1>7
<1> QED BY <1>2, <1>3, <1>5, <1>7, <1>8, <1>9, VariableChange

LEMMA BuildRecordStep ==
  ASSUME IInv, NEW v \in Variables, NEW tag \in {0, 1}, NEW first \in FreeAddr, NEW bits \in Addr,
         NEW d, BuildRecord(v, tag, first, bits, d)
  PROVE  IInv'
<1> DEFINE el == [tag |-> tag, plain |-> Plain(v), cells |-> <<first, bits>>]
           X == IF tag = 1 THEN {first, bits} ELSE {first}
<1>1. Width(v) = 2 /\ Plain(v) = 1 /\ first \in Addr /\ (tag = 1 => bits # first)
  BY VariableShape DEF BuildRecord, FreeAddr
<1>2. el \in Proper(v) /\ Owned(el) = X
  BY <1>1, TwoCells
<1>3. value' = [value EXCEPT ![v] = el]
  <2>1. [value[v] EXCEPT !.tag = tag, !.cells = <<first, bits>>] = el
    <3>1. PICK k : value[v] = [tag |-> 0, plain |-> Plain(v), cells |-> k]
      BY DEF BuildRecord, Zero
    <3> DEFINE e == [value[v] EXCEPT !.tag = tag]
    <3>2. [value[v] EXCEPT !.tag = tag, !.cells = <<first, bits>>] = [e EXCEPT !.cells = <<first, bits>>]
      OBVIOUS
    <3>3. e = [tag |-> tag, plain |-> Plain(v), cells |-> k]
      BY <3>1
    <3> HIDE DEF e
    <3> QED BY <3>2, <3>3
  <2>2. value' = [value EXCEPT ![v] = [value[v] EXCEPT !.tag = tag, !.cells = <<first, bits>>]]
    BY ValueFacts DEF BuildRecord
  <2> QED BY <2>1, <2>2
<1>4. heap' = [b \in Addr |-> IF b \in X THEN Leaf(d) ELSE heap[b]]
  BY DEF BuildRecord, IInv, HeapOK
<1>5. Holdings[<<v, 0>>] = {}
  BY ValueFacts, ZeroOwnsNothing DEF BuildRecord
<1>6. HeapOK /\ X \in SUBSET FreeAddr
  BY DEF IInv, BuildRecord, Payload
<1> HIDE DEF el, X
<1>7. /\ HeapOK'
      /\ \A b \in Addr : heap[b].kind = "slots" => heap'[b] = heap[b]
      /\ \A b \in Addr : heap'[b].kind = "slots" => heap'[b] = heap[b]
      /\ X \cap Leaves = {} /\ Leaves' = Leaves \cup X
  BY <1>4, <1>6, NewLeaves
<1> QED BY <1>2, <1>3, <1>5, <1>7, VariableChange DEF BuildRecord

LEMMA DropVariableStep ==
  ASSUME IInv, NEW v \in Variables, DropVariable(v)
  PROVE  IInv'
<1>1. Owned(value[v]) \in SUBSET Leaves /\ Owned(value[v]) = Holdings[<<v, 0>>] /\ HeapOK
  BY ValueFacts DEF IInv
<1>2. /\ HeapOK'
      /\ \A a \in Addr : heap[a].kind = "slots" => heap'[a] = heap[a]
      /\ \A a \in Addr : heap'[a].kind = "slots" => heap'[a] = heap[a]
      /\ Leaves' = Leaves \ Holdings[<<v, 0>>]
  BY <1>1, LeavesReleased DEF DropVariable
<1>3. Zero(v) \in Proper(v) /\ Owned(Zero(v)) = {}
  BY ZeroOwnsNothing
<1> QED BY <1>2, <1>3, VariableChange DEF DropVariable

-----------------------------------------------------------------------------
LEMMA RegionFrame ==
  ASSUME IInv, header' = header, value' = value, HeapOK', RegionOK',
         \A a \in Addr : heap[a].kind = "slots" => heap'[a] = heap[a],
         \A a \in Addr : heap'[a].kind = "slots" => heap'[a] = heap[a],
         Partition(Holdings, RegionSet', Leaves')
  PROVE  IInv'
<1>1. BuffersOK' /\ OwnPointers'
      /\ \A o \in Buffers, j \in 1..MaxCapacity : Holdings'[<<o, j>>] = Holdings[<<o, j>>]
  BY LeafChange
<1>2. ValuesOK'
  BY DEF IInv, ValuesOK
<1>3. \A q \in Places : Holdings'[q] = Holdings[q]
  <2> TAKE q \in Places
  <2>1. CASE q[1] \in Variables /\ q = <<q[1], 0>>
    BY <2>1, HoldingOf, HoldingNext
  <2>2. CASE q[1] \in Buffers /\ q[2] \in 1..MaxCapacity /\ q = <<q[1], q[2]>>
    BY <1>1, <2>2
  <2> QED BY <2>1, <2>2, PlaceCases
<1>4. Partition(Holdings', RegionSet', Leaves')
  BY <1>3, SamePartition
<1> QED BY <1>1, <1>2, <1>4 DEF IInv

LEMMA RegionCreateStep ==
  ASSUME IInv, NEW a \in FreeAddr, RegionCreate(a)
  PROVE  IInv'
<1>1. heap' = [b \in Addr |-> IF b \in {a} THEN Leaf("region") ELSE heap[b]] /\ a \in Addr
  BY DEF RegionCreate, IInv, HeapOK, FreeAddr
<1>2. HeapOK /\ {a} \in SUBSET FreeAddr
  BY DEF IInv
<1>3. RegionSet = {} /\ RegionSet' = {a} /\ RegionOK'
  BY <1>1, HeapAssumption DEF RegionCreate, RegionSet, NoRegion, RegionOK
<1>6. /\ HeapOK'
      /\ \A b \in Addr : heap[b].kind = "slots" => heap'[b] = heap[b]
      /\ \A b \in Addr : heap'[b].kind = "slots" => heap'[b] = heap[b]
      /\ {a} \cap Leaves = {} /\ Leaves' = Leaves \cup {a}
  BY <1>1, <1>2, NewLeaves
<1>4. Partition(Holdings, RegionSet \cup {a}, Leaves \cup {a})
  BY <1>6, RegionGrows DEF IInv
<1>5. RegionSet \cup {a} = RegionSet'
  BY <1>3
<1> QED BY <1>1, <1>2, <1>3, <1>4, <1>5, <1>6, RegionFrame DEF RegionCreate

LEMMA RegionAllocateStep ==
  ASSUME IInv, NEW a \in FreeAddr, NEW reserved \in BOOLEAN, RegionAllocate(a, reserved)
  PROVE  IInv'
<1> DEFINE X == IF reserved THEN {a} ELSE {}
<1>0. a \in Addr
  BY DEF FreeAddr
<1>1. heap' = [b \in Addr |-> IF b \in X THEN Leaf("block") ELSE heap[b]]
  BY <1>0 DEF RegionAllocate, IInv, HeapOK
<1>2. HeapOK /\ X \in SUBSET FreeAddr
  BY DEF IInv
<1>3. RegionSet' = RegionSet \cup X /\ RegionOK'
  <2>1. RegionOK /\ region.handle # Null
    BY DEF RegionAllocate, IInv, RegionOK
  <2>2. region'.handle = region.handle /\ region'.blocks = region.blocks \cup X
        /\ region' \in [handle : Addr \cup {Null}, blocks : SUBSET Addr]
    BY <1>0, <2>1 DEF RegionAllocate, RegionOK
  <2> QED BY <2>1, <2>2 DEF RegionSet, RegionOK
<1> HIDE DEF X
<1>6. /\ HeapOK'
      /\ \A b \in Addr : heap[b].kind = "slots" => heap'[b] = heap[b]
      /\ \A b \in Addr : heap'[b].kind = "slots" => heap'[b] = heap[b]
      /\ X \cap Leaves = {} /\ Leaves' = Leaves \cup X
  BY <1>1, <1>2, NewLeaves
<1>4. Partition(Holdings, RegionSet \cup X, Leaves \cup X)
  BY <1>6, RegionGrows DEF IInv
<1> QED BY <1>1, <1>2, <1>3, <1>4, <1>6, RegionFrame DEF RegionAllocate

LEMMA RegionDestroyStep ==
  ASSUME IInv, RegionDestroy
  PROVE  IInv'
<1>1. RegionOK /\ region.handle # Null /\ HeapOK /\ Partition(Holdings, RegionSet, Leaves)
  BY DEF RegionDestroy, IInv, RegionOK
<1>2. region.blocks \cup {region.handle} = RegionSet /\ RegionSet \in SUBSET Leaves
  BY <1>1 DEF RegionSet, Partition
<1>3. heap' = Released(heap, RegionSet)
  BY <1>2 DEF RegionDestroy
<1>4. RegionSet' = {} /\ RegionOK'
  BY DEF RegionDestroy, RegionSet, RegionOK, NoRegion
<1>5. Partition(Holdings, {}, Leaves \ RegionSet)
  BY <1>1, RegionGone
<1> QED BY <1>1, <1>2, <1>3, <1>4, <1>5, LeavesReleased, RegionFrame DEF RegionDestroy

-----------------------------------------------------------------------------
(* Reserving: where the block is afterwards, or that nothing happened.     *)

LEMMA BufferFacts ==
  ASSUME IInv, NEW o \in Buffers
  PROVE  /\ header = [p \in Buffers |-> header[p]]
         /\ header[o] = [pointer |-> header[o].pointer, length |-> Length(o),
                         capacity |-> header[o].capacity]
         /\ Length(o) \in 0..MaxCapacity /\ header[o].capacity \in 0..MaxCapacity
         /\ Length(o) <= header[o].capacity
         /\ header[o].pointer \in Addr \cup {Null}
         /\ header[o].pointer = Null => Length(o) = 0 /\ header[o].capacity = 0 /\ header[o] = EMPTY
         /\ header[o].pointer # Null =>
              /\ heap[header[o].pointer] = Block(Slots(o))
              /\ Slots(o) \in [1..header[o].capacity -> Slot(o)]
              /\ Len(Slots(o)) = header[o].capacity
         /\ \A j \in 1..Length(o) : /\ Slots(o)[j] \in Proper(o) /\ Slots(o)[j] \in Slot(o)
                                    /\ Holdings[<<o, j>>] = Owned(Slots(o)[j])
                                    /\ Owned(Slots(o)[j]) \subseteq Leaves
         /\ \A j \in 1..MaxCapacity : j > Length(o) => Holdings[<<o, j>>] = {}
<1>1. BufferOK(o) /\ header = [p \in Buffers |-> header[p]] /\ HeapOK
  BY DEF IInv, BuffersOK
<1>2. header[o] \in [pointer : Addr \cup {Null}, length : 0..MaxCapacity, capacity : 0..MaxCapacity]
  BY <1>1 DEF BufferOK
<1>3. header[o].pointer = Null => Length(o) = 0 /\ header[o].capacity = 0 /\ header[o] = EMPTY
  BY <1>1 DEF BufferOK, EMPTY, Length
<1>4. /\ header[o] = [pointer |-> header[o].pointer, length |-> Length(o),
                      capacity |-> header[o].capacity]
      /\ Length(o) \in 0..MaxCapacity /\ header[o].capacity \in 0..MaxCapacity
      /\ header[o].pointer \in Addr \cup {Null}
  BY <1>2 DEF Length
<1>5. Length(o) <= header[o].capacity
  BY <1>1, <1>3, <1>4 DEF BufferOK
<1>6. ASSUME header[o].pointer # Null
      PROVE  /\ heap[header[o].pointer] = Block(Slots(o))
             /\ Slots(o) \in [1..header[o].capacity -> Slot(o)]
             /\ Len(Slots(o)) = header[o].capacity
  <2>1. heap[header[o].pointer].kind = "slots" /\ Slots(o) \in [1..header[o].capacity -> Slot(o)]
    BY <1>1, <1>6 DEF BufferOK
  <2>2. heap[header[o].pointer] = Block(Slots(o))
    BY <1>1, <1>4, <1>6, <2>1, HeapKinds DEF Slots
  <2>3. Len(Slots(o)) = header[o].capacity
    BY <1>4, <2>1, HeapAssumption
  <2> QED BY <2>1, <2>2, <2>3
<1>7. ASSUME NEW j \in 1..Length(o)
      PROVE  /\ Slots(o)[j] \in Proper(o) /\ Slots(o)[j] \in Slot(o)
             /\ Holdings[<<o, j>>] = Owned(Slots(o)[j])
             /\ Owned(Slots(o)[j]) \subseteq Leaves
  <2>1. header[o].pointer # Null /\ j \in 1..MaxCapacity /\ j <= Length(o)
    BY <1>3, <1>4, HeapAssumption
  <2>2. Slots(o)[j] \in Proper(o)
    BY <1>1, <2>1 DEF BufferOK
  <2>3. <<o, j>> \in Places /\ Holdings[<<o, j>>] = Owned(Slots(o)[j])
    BY <2>1, HoldingOf
  <2> QED BY <2>2, <2>3 DEF Proper, Slot, IInv, Partition
<1>8. \A j \in 1..MaxCapacity : j > Length(o) => Holdings[<<o, j>>] = {}
  BY <1>4, HoldingOf, HeapAssumption
<1> QED BY <1>1, <1>3, <1>4, <1>5, <1>6, <1>7, <1>8

LEMMA HeaderFacts ==
  ASSUME IInv, NEW o \in Buffers
  PROVE  /\ header = [p \in Buffers |-> header[p]]
         /\ MaxCapacity \in Nat /\ Length(o) \in Nat /\ header[o].capacity \in Nat
         /\ Length(o) <= header[o].capacity /\ header[o].capacity <= MaxCapacity
         /\ header[o].pointer \in Addr \cup {Null}
         /\ header[o].pointer = Null => Length(o) = 0 /\ header[o].capacity = 0
         /\ \E p, c : header[o] = [pointer |-> p, length |-> Length(o), capacity |-> c]
<1>1. header = [p \in Buffers |-> header[p]] /\ header[o].pointer \in Addr \cup {Null}
      /\ header[o] = [pointer |-> header[o].pointer, length |-> Length(o), capacity |-> header[o].capacity]
      /\ (header[o].pointer = Null => Length(o) = 0 /\ header[o].capacity = 0)
  BY BufferFacts
<1>2. Length(o) \in 0..MaxCapacity /\ header[o].capacity \in 0..MaxCapacity
      /\ Length(o) <= header[o].capacity
  BY BufferFacts
<1>3. MaxCapacity \in Nat
  BY HeapAssumption
<1>4. Length(o) \in Nat /\ header[o].capacity \in Nat /\ header[o].capacity <= MaxCapacity
  BY <1>2, <1>3
<1> QED BY <1>1, <1>2, <1>3, <1>4

\* What a successful reservation leaves: a block with room for n elements,
\* the old one or a new one, with the elements where they were.
ReservedBlock(o, n, r, a, s, c) ==
  /\ a \in Addr /\ (a = header[o].pointer \/ heap[a] = Free)
  /\ c \in 0..MaxCapacity /\ n <= c /\ Length(o) <= c
  /\ s \in [1..c -> Slot(o)]
  /\ \A j \in 1..Length(o) : s[j] = Slots(o)[j]
  /\ r.header = [header EXCEPT ![o] = [pointer |-> a, length |-> Length(o), capacity |-> c]]
  /\ r.heap = [b \in Addr |-> IF b = a THEN Block(s) ELSE IF b = header[o].pointer THEN Free
                              ELSE heap[b]]

LEMMA ReserveOutcome ==
  ASSUME IInv, NEW o \in Buffers, NEW n \in 1..MaxCapacity, NEW r \in Reserve(o, n)
  PROVE  \/ r.ok = FALSE /\ r.heap = heap /\ r.header = header
         \/ r.ok = TRUE /\ \E a, s, c : ReservedBlock(o, n, r, a, s, c)
<1> DEFINE old == header[o].pointer
           cap == header[o].capacity
<1>1. MaxCapacity \in Nat /\ n \in Nat /\ Length(o) \in Nat /\ cap \in Nat
      /\ Length(o) <= cap /\ (old = Null => Length(o) = 0 /\ cap = 0)
  BY HeaderFacts
<1>2. CASE n <= cap
  <2>1. r = Unchanged(TRUE)
    BY <1>2 DEF Reserve
  <2>2. old # Null
    BY <1>1, <1>2
  <2>3. old \in Addr /\ heap[old] = Block(Slots(o)) /\ Slots(o) \in [1..cap -> Slot(o)]
    BY <2>2, BufferFacts
  <2>4. header = [header EXCEPT ![o] = [pointer |-> old, length |-> Length(o), capacity |-> cap]]
    BY BufferFacts
  <2>5. heap = [b \in Addr |-> IF b = old THEN Block(Slots(o)) ELSE IF b = header[o].pointer THEN Free
                               ELSE heap[b]]
    BY <2>3 DEF IInv, HeapOK
  <2>6. ReservedBlock(o, n, r, old, Slots(o), cap)
    BY <1>2, <2>1, <2>3, <2>4, <2>5, BufferFacts DEF Unchanged, ReservedBlock
  <2> QED BY <2>1, <2>6 DEF Unchanged
<1>3. CASE ~(n <= cap) /\ r = Unchanged(FALSE)
  BY <1>3 DEF Unchanged
<1>4. CASE ~(n <= cap) /\ r # Unchanged(FALSE)
  <2>1. PICK a \in FreeAddr \cup ({old} \ {Null}) : r = Moved(o, a, n)
    BY <1>4 DEF Reserve
  <2> DEFINE s == IF old = Null THEN <<>> ELSE Slots(o)
             t == Extended(s, n)
  <2>2. a \in Addr /\ (a = old \/ heap[a] = Free)
    BY BufferFacts DEF FreeAddr
  <2>3. Len(s) = cap /\ \A j \in 1..cap : s[j] \in Slot(o)
    <3>1. CASE old = Null
      BY <1>1, <3>1
    <3>2. CASE old # Null
      BY <3>2, BufferFacts
    <3> QED BY <3>1, <3>2
  <2>4. t \in [1..n -> Slot(o)]
    BY <1>1, <2>3 DEF Extended, Slot
  <2>5. \A j \in 1..Length(o) : t[j] = Slots(o)[j]
    <3> TAKE j \in 1..Length(o)
    <3>1. j \in 1..n /\ j <= cap /\ old # Null
      BY <1>1, <1>4
    <3> QED BY <2>3, <3>1 DEF Extended
  <2>6. r.heap = [b \in Addr |-> IF b = a THEN Block(t) ELSE IF b = header[o].pointer THEN Free
                                 ELSE heap[b]]
    BY <2>1, <2>2 DEF Moved, Released
  <2>7. r.header = [header EXCEPT ![o] = [pointer |-> a, length |-> Length(o), capacity |-> n]]
    <3> DEFINE e == [header[o] EXCEPT !.pointer = a]
    <3>1. header = [p \in Buffers |-> header[p]]
      BY HeaderFacts
    <3>2. PICK x, c : header[o] = [pointer |-> x, length |-> Length(o), capacity |-> c]
      BY HeaderFacts
    <3>3. r.header = [header EXCEPT ![o] = [header[o] EXCEPT !.pointer = a, !.capacity = n]]
      BY <2>1, <3>1 DEF Moved
    <3>4. [header[o] EXCEPT !.pointer = a, !.capacity = n] = [e EXCEPT !.capacity = n]
      OBVIOUS
    <3>5. e = [pointer |-> a, length |-> Length(o), capacity |-> c]
      BY <3>2
    <3> HIDE DEF e
    <3>6. [e EXCEPT !.capacity = n] = [pointer |-> a, length |-> Length(o), capacity |-> n]
      BY <3>5
    <3> QED BY <3>3, <3>4, <3>6
  <2>8. Length(o) <= n
    BY <1>1, <1>4
  <2> HIDE DEF t
  <2>9. ReservedBlock(o, n, r, a, t, n)
    BY <1>1, <2>2, <2>4, <2>5, <2>6, <2>7, <2>8 DEF ReservedBlock
  <2> QED BY <2>1, <2>9 DEF Moved
<1> QED BY <1>2, <1>3, <1>4

\* A step of one buffer that leaves variables and regions alone.
LEMMA BufferOnly ==
  ASSUME IInv, HeapOK', BuffersOK', OwnPointers', value' = value, region' = region,
         Partition(Holdings', RegionSet, Leaves')
  PROVE  IInv'
  BY DEF IInv, ValuesOK, RegionOK, RegionSet

LEMMA VariableHoldings ==
  ASSUME value' = value
  PROVE  \A v \in Variables : Holdings'[<<v, 0>>] = Holdings[<<v, 0>>]
  BY HoldingOf, HoldingNext

\* The elements below the length stay where they are, and new ones own nothing.
LEMMA KeptHoldings ==
  ASSUME IInv, NEW o \in Buffers, NEW s, NEW n \in Nat, value' = value,
         BuffersHold(o, s, n),
         \A j \in 1..n : IF j <= Length(o) THEN s[j] = Slots(o)[j] ELSE s[j] = Zero(o),
         Length(o) <= n
  PROVE  Partition(Holdings', RegionSet, Leaves)
<1>1. ASSUME NEW j \in 1..MaxCapacity PROVE Holdings'[<<o, j>>] = Holdings[<<o, j>>]
  <2>1. Length(o) \in Nat /\ MaxCapacity \in Nat
    BY HeaderFacts
  <2>2. CASE j <= Length(o)
    BY <2>1, <2>2, HoldingOf DEF BuffersHold
  <2>3. CASE ~(j <= Length(o)) /\ j <= n
    <3>1. s[j] = Zero(o)
      BY <2>1, <2>3
    <3>2. Holdings[<<o, j>>] = {}
      BY <2>3, HoldingOf
    <3> QED BY <2>3, <3>1, <3>2, ZeroOwnsNothing DEF BuffersHold
  <2>4. CASE ~(j <= n)
    BY <2>1, <2>4, HoldingOf DEF BuffersHold
  <2> QED BY <2>2, <2>3, <2>4
<1>2. \A q \in Places : Holdings'[q] = Holdings[q]
  <2> TAKE q \in Places
  <2>1. CASE q[1] \in Variables /\ q = <<q[1], 0>>
    BY <2>1, VariableHoldings
  <2>2. CASE q[1] \in Buffers /\ q[2] \in 1..MaxCapacity /\ q = <<q[1], q[2]>>
    BY <1>1, <2>2 DEF BuffersHold
  <2> QED BY <2>1, <2>2, PlaceCases
<1> QED BY <1>2, SamePartition DEF IInv

\* A step that keeps the elements below the length and adds zeros above it.
LEMMA KeptStep ==
  ASSUME IInv, NEW o \in Buffers, NEW a, NEW s, NEW n, NEW c, Rewritten(o, a, s, n, c, {}),
         value' = value, region' = region, Length(o) <= n,
         \A j \in 1..n : IF j <= Length(o) THEN s[j] = Slots(o)[j] ELSE s[j] = Zero(o)
  PROVE  IInv'
<1>1. n \in Nat
  BY DEF Rewritten
<1>2. HeapOK' /\ BuffersOK' /\ OwnPointers' /\ Leaves' = Leaves \ {} /\ BuffersHold(o, s, n)
  BY BufferChange
<1>3. Partition(Holdings', RegionSet, Leaves)
  BY <1>1, <1>2, KeptHoldings
<1>4. Leaves' = Leaves
  BY <1>2
<1> QED BY <1>2, <1>3, <1>4, BufferOnly

\* Nothing happens.
LEMMA StutterStep ==
  ASSUME IInv, UNCHANGED <<heap, header, value, region>>
  PROVE  IInv'
<1>1. HeapOK' /\ Leaves' = Leaves
  BY DEF IInv, HeapOK, Leaves
<1>2. RegionOK' /\ RegionSet' = RegionSet
  BY DEF IInv, RegionOK, RegionSet
<1> QED BY <1>1, <1>2, RegionFrame DEF IInv

LEMMA CreateForm ==
  ASSUME IInv, NEW o \in Buffers, NEW c \in 1..MaxCapacity, NEW a \in FreeAddr, BufferCreate(o,
         c, a)
  PROVE  Length(o) = 0 /\ \E s : Rewritten(o, a, s, 0, c, {})
<1> DEFINE s == [j \in 1..c |-> Uninitialized]
<1>1. a \in Addr /\ heap[a] = Free /\ header[o].pointer = Null /\ Length(o) = 0
  BY DEF FreeAddr, BufferCreate, EMPTY, Length
<1>2. c \in 0..MaxCapacity /\ s \in [1..c -> Slot(o)]
  BY HeapAssumption DEF Slot
<1>3. header' = [header EXCEPT ![o] = [pointer |-> a, length |-> 0, capacity |-> c]]
  BY DEF BufferCreate
<1>4. heap' = [b \in Addr |-> IF b = a THEN Block(s)
                              ELSE IF b \in {} \/ b = header[o].pointer THEN Free ELSE heap[b]]
  BY <1>1, HeapAssumption DEF BufferCreate, IInv, HeapOK
<1> HIDE DEF s
<1>5. Rewritten(o, a, s, 0, c, {})
  BY <1>1, <1>2, <1>3, <1>4 DEF Rewritten
<1> QED BY <1>1, <1>5

LEMMA BufferCreateStep ==
  ASSUME IInv, NEW o \in Buffers, NEW c \in 1..MaxCapacity, NEW a \in FreeAddr, BufferCreate(o,
         c, a)
  PROVE  IInv'
<1>1. PICK s : Rewritten(o, a, s, 0, c, {})
  BY CreateForm
<1>2. Length(o) <= 0 /\ \A j \in 1..0 : FALSE
  BY CreateForm
<1> QED BY <1>1, <1>2, KeptStep DEF BufferCreate

LEMMA ReserveForm ==
  ASSUME IInv, NEW o \in Buffers, NEW n \in 1..MaxCapacity, BufferReserve(o, n)
  PROVE  \/ UNCHANGED <<heap, header>>
         \/ \E a, s, c : /\ Rewritten(o, a, s, Length(o), c, {})
                         /\ \A j \in 1..Length(o) : s[j] = Slots(o)[j]
<1>1. PICK r \in Reserve(o, n) : heap' = r.heap /\ header' = r.header
  BY DEF BufferReserve
<1>2. ASSUME NEW a, NEW s, NEW c, ReservedBlock(o, n, r, a, s, c)
      PROVE  /\ Rewritten(o, a, s, Length(o), c, {})
             /\ \A j \in 1..Length(o) : s[j] = Slots(o)[j]
  <2>1. /\ a \in Addr /\ (a = header[o].pointer \/ heap[a] = Free) /\ c \in 0..MaxCapacity
        /\ Length(o) <= c /\ s \in [1..c -> Slot(o)] /\ \A j \in 1..Length(o) : s[j] = Slots(o)[j]
        /\ header' = [header EXCEPT ![o] = [pointer |-> a, length |-> Length(o), capacity |-> c]]
    BY <1>1, <1>2 DEF ReservedBlock
  <2>2. heap' = [b \in Addr |-> IF b = a THEN Block(s)
                                ELSE IF b \in {} \/ b = header[o].pointer THEN Free ELSE heap[b]]
    BY <1>1, <1>2 DEF ReservedBlock
  <2>3. Length(o) \in Nat /\ \A j \in 1..Length(o) : s[j] \in Proper(o)
    BY <2>1, HeaderFacts, BufferFacts
  <2> QED BY <2>1, <2>2, <2>3 DEF Rewritten
<1>3. CASE r.heap = heap /\ r.header = header
  BY <1>1, <1>3
<1>4. CASE \E a, s, c : ReservedBlock(o, n, r, a, s, c)
  BY <1>2, <1>4
<1> QED BY <1>3, <1>4, ReserveOutcome

LEMMA BufferReserveStep ==
  ASSUME IInv, NEW o \in Buffers, NEW n \in 1..MaxCapacity, BufferReserve(o, n)
  PROVE  IInv'
<1>0. value' = value /\ region' = region
  BY DEF BufferReserve
<1>1. CASE UNCHANGED <<heap, header>>
  BY <1>0, <1>1, StutterStep
<1>2. ASSUME NEW a, NEW s, NEW c, Rewritten(o, a, s, Length(o), c, {}),
             \A j \in 1..Length(o) : s[j] = Slots(o)[j]
      PROVE  IInv'
  <2>1. Length(o) \in Nat
    BY HeaderFacts
  <2>2. Length(o) <= Length(o)
        /\ \A j \in 1..Length(o) : IF j <= Length(o) THEN s[j] = Slots(o)[j] ELSE s[j] = Zero(o)
    BY <1>2, <2>1
  <2> QED BY <1>0, <1>2, <2>2, KeptStep
<1> QED BY <1>1, <1>2, ReserveForm

\* A successful reservation of which the block's slots and the length are
\* then rewritten, as growth and insertion do.
LEMMA ReservedThen ==
  ASSUME IInv, NEW o \in Buffers, NEW n, NEW r, NEW a, NEW s, NEW c, ReservedBlock(o, n, r, a, s, c)
  PROVE  /\ r.header[o] = [pointer |-> a, length |-> Length(o), capacity |-> c]
         /\ r.header = [p \in Buffers |-> r.header[p]]
         /\ \A p \in Buffers : p # o => r.header[p] = header[p]
         /\ r.heap[a] = Block(s) /\ Len(s) = c /\ c \in Nat
<1>1. c \in 0..MaxCapacity /\ s \in [1..c -> Slot(o)] /\ MaxCapacity \in Nat
  BY HeaderFacts DEF ReservedBlock
<1>2. Len(s) = c /\ c \in Nat
  BY <1>1
<1> QED BY <1>2, HeaderFacts DEF ReservedBlock

LEMMA GrowForm ==
  ASSUME IInv, NEW o \in Buffers, NEW n \in 0..MaxCapacity, Grow(o, n)
  PROVE  /\ Length(o) <= n
         /\ \/ UNCHANGED <<heap, header>> /\ call' = Answer("resize", <<o, n>>, FALSE)
            \/ /\ call' = Answer("resize", <<o, n>>, TRUE)
               /\ \E a, t, c :
                    /\ Rewritten(o, a, t, n, c, {})
                    /\ \A j \in 1..n : IF j <= Length(o) THEN t[j] = Slots(o)[j] ELSE t[j] = Zero(o)
<1>0. n \in 1..MaxCapacity /\ n > Length(o) /\ Length(o) \in Nat /\ MaxCapacity \in Nat
  BY HeaderFacts DEF Grow
<1>1. PICK r \in Reserve(o, n) :
        /\ IF r.ok
           THEN /\ heap' = [r.heap EXCEPT ![r.header[o].pointer].slots = ZeroedTail(o, @, n)]
                /\ header' = [r.header EXCEPT ![o].length = n]
           ELSE UNCHANGED <<heap, header>>
        /\ call' = Answer("resize", <<o, n>>, r.ok)
  BY DEF Grow
<1>2. CASE r.ok = FALSE
  <2>1. UNCHANGED <<heap, header>>
    BY <1>1, <1>2
  <2>2. call' = Answer("resize", <<o, n>>, FALSE)
    BY <1>1, <1>2
  <2>3. Length(o) <= n
    BY <1>0
  <2> QED BY <2>1, <2>2, <2>3
<1>3. ASSUME NEW a, NEW s, NEW c, ReservedBlock(o, n, r, a, s, c), r.ok = TRUE
      PROVE  \E t : /\ Rewritten(o, a, t, n, c, {})
                    /\ \A j \in 1..n : IF j <= Length(o) THEN t[j] = Slots(o)[j] ELSE t[j] = Zero(o)
  <2> DEFINE t == ZeroedTail(o, s, n)
  <2>1. /\ a \in Addr /\ (a = header[o].pointer \/ heap[a] = Free) /\ c \in 0..MaxCapacity
        /\ n <= c /\ s \in [1..c -> Slot(o)] /\ \A j \in 1..Length(o) : s[j] = Slots(o)[j]
    BY <1>3 DEF ReservedBlock
  <2>2. /\ r.header[o] = [pointer |-> a, length |-> Length(o), capacity |-> c]
        /\ r.header = [p \in Buffers |-> r.header[p]]
        /\ \A p \in Buffers : p # o => r.header[p] = header[p]
        /\ r.heap[a] = Block(s) /\ Len(s) = c
    BY <1>3, ReservedThen
  <2>3. header' = [header EXCEPT ![o] = [pointer |-> a, length |-> n, capacity |-> c]]
    <3>1. header' = [r.header EXCEPT ![o] = [r.header[o] EXCEPT !.length = n]]
      BY <1>1, <1>3
    <3>2. [r.header[o] EXCEPT !.length = n] = [pointer |-> a, length |-> n, capacity |-> c]
      BY <2>2
    <3> QED BY <2>2, <3>1, <3>2, HeaderFacts
  <2>4. heap' = [b \in Addr |-> IF b = a THEN Block(t)
                                ELSE IF b \in {} \/ b = header[o].pointer THEN Free ELSE heap[b]]
    <3>1. r.heap = [b \in Addr |-> IF b = a THEN Block(s) ELSE IF b = header[o].pointer THEN Free
                                   ELSE heap[b]]
      BY <1>3 DEF ReservedBlock
    <3>3. heap' = [r.heap EXCEPT ![a].slots = ZeroedTail(o, r.heap[a].slots, n)]
      BY <1>1, <1>3, <2>2
    <3>4. r.heap[a].slots = s
      BY <2>2, Kinds
    <3> HIDE DEF t
    <3>5. heap' = [r.heap EXCEPT ![a] = [r.heap[a] EXCEPT !.slots = t]]
      BY <3>3, <3>4 DEF t
    <3>6. [r.heap[a] EXCEPT !.slots = t] = Block(t)
      BY <2>2 DEF Block
    <3> QED BY <2>1, <3>1, <3>5, <3>6
  <2>6. /\ t \in [1..c -> Slot(o)]
        /\ \A j \in 1..n : IF j <= Length(o) THEN t[j] = Slots(o)[j] ELSE t[j] = Zero(o)
        /\ \A j \in 1..n : t[j] \in Proper(o)
    <3>1. t \in [1..c -> Slot(o)]
      BY <1>0, <2>1, <2>2, ZeroOwnsNothing DEF ZeroedTail
    <3>2. \A j \in 1..n : IF j <= Length(o) THEN t[j] = Slots(o)[j] ELSE t[j] = Zero(o)
      BY <1>0, <2>1, <2>2 DEF ZeroedTail
    <3>3. \A j \in 1..n : t[j] \in Proper(o)
      <4> TAKE j \in 1..n
      <4>1. CASE j \in 1..Length(o)
        <5>1. t[j] = Slots(o)[j]
          BY <1>0, <3>2, <4>1
        <5> HIDE DEF t
        <5> QED BY <4>1, <5>1, BufferFacts
      <4>2. CASE ~(j <= Length(o))
        BY <3>2, <4>2, ZeroOwnsNothing
      <4> QED BY <1>0, <4>1, <4>2
    <3> QED BY <3>1, <3>2, <3>3
  <2>7. n \in Nat
    BY <1>0
  <2> HIDE DEF t
  <2>8. Rewritten(o, a, t, n, c, {})
    BY <2>1, <2>3, <2>4, <2>6, <2>7 DEF Rewritten
  <2> QED BY <2>6, <2>8
<1>4. Length(o) <= n
  BY <1>0
<1>5. CASE r.ok = TRUE /\ \E a, s, c : ReservedBlock(o, n, r, a, s, c)
  <2>1. call' = Answer("resize", <<o, n>>, TRUE)
    BY <1>1, <1>5
  <2> QED BY <1>3, <1>4, <1>5, <2>1
<1> QED BY <1>0, <1>2, <1>5, ReserveOutcome

LEMMA GrowStep ==
  ASSUME IInv, NEW o \in Buffers, NEW n \in 0..MaxCapacity, Grow(o, n)
  PROVE  IInv'
<1>0. value' = value /\ region' = region
  BY DEF Grow
<1>1. CASE UNCHANGED <<heap, header>>
  BY <1>0, <1>1, StutterStep
<1>2. ASSUME NEW a, NEW t, NEW c, Rewritten(o, a, t, n, c, {}),
             \A j \in 1..n : IF j <= Length(o) THEN t[j] = Slots(o)[j] ELSE t[j] = Zero(o)
      PROVE  IInv'
  <2>1. Length(o) <= n
    BY GrowForm
  <2> QED BY <1>0, <1>2, <2>1, KeptStep
<1> QED BY <1>1, <1>2, GrowForm

-----------------------------------------------------------------------------
(* Opening and closing a gap in a buffer moves what is owned along.        *)

\* A value moves from place z into a gap at i of a buffer with k elements.
LEMMA OpenedPartition ==
  ASSUME NEW W, NEW W2, NEW R, NEW L, Partition(W, R, L),
         NEW o \in Buffers, NEW v \in Variables, NEW k \in Nat, k + 1 <= MaxCapacity,
         NEW i \in 1..(k + 1),
         \A j \in 1..MaxCapacity : j > k => W[<<o, j>>] = {},
         \A j \in 1..MaxCapacity :
           W2[<<o, j>>] = IF j < i THEN W[<<o, j>>]
                          ELSE IF j = i THEN W[<<v, 0>>]
                          ELSE IF j <= k + 1 THEN W[<<o, j - 1>>] ELSE {},
         W2[<<v, 0>>] = {},
         \A q \in Places : q[1] # o /\ q # <<v, 0>> => W2[q] = W[q]
  PROVE  Partition(W2, R, L)
<1> DEFINE from(q) == IF q[1] = o
                      THEN IF q[2] = i THEN <<v, 0>> ELSE IF q[2] > i THEN <<o, q[2] - 1>> ELSE q
                      ELSE q
           m == [q \in Places |-> from(q)]
<1>1. MaxCapacity \in Nat /\ o \notin Variables
  BY HeapAssumption, NamesAssumption
<1>2. \A q \in Places : \/ q = <<o, q[2]>> /\ q[1] = o /\ q[2] \in 1..MaxCapacity
                        \/ q[1] # o /\ q = <<v, 0>>
                        \/ q[1] # o /\ q # <<v, 0>>
  BY <1>1, PlaceCases
<1>3. <<v, 0>> \in Places /\ \A j \in 1..MaxCapacity : <<o, j>> \in Places
  BY HoldingOf
<1>4. \A j \in 1..MaxCapacity : from(<<o, j>>) = IF j = i THEN <<v, 0>>
                                                ELSE IF j > i THEN <<o, j - 1>> ELSE <<o, j>>
  BY <1>1
<1>5. \A q \in Places : q[1] # o => from(q) = q
  OBVIOUS
<1>6. m \in [Places -> Places]
  <2>1. ASSUME NEW q \in Places PROVE from(q) \in Places
    <3>1. CASE q = <<o, q[2]>> /\ q[1] = o /\ q[2] \in 1..MaxCapacity
      <4>1. q[2] > i => q[2] - 1 \in 1..MaxCapacity
        BY <1>1, <3>1
      <4> QED BY <1>3, <3>1, <4>1
    <3> QED BY <1>2, <1>5, <3>1
  <2> QED BY <2>1
<1>7. \A q \in Places : m[q] = from(q)
  OBVIOUS
<1>11. \A j \in 1..MaxCapacity : m[<<o, j>>] = IF j = i THEN <<v, 0>>
                                               ELSE IF j > i THEN <<o, j - 1>> ELSE <<o, j>>
  BY <1>3, <1>4, <1>7
<1>12. \A q \in Places : q[1] = o => \E j \in 1..MaxCapacity : q = <<o, j>>
  BY <1>2
<1> HIDE DEF m, from
<1>8. \A p \in Places : W2[p] = {} \/ W2[p] = W[m[p]]
  <2> TAKE p \in Places
  <2>1. ASSUME NEW j \in 1..MaxCapacity, p = <<o, j>> PROVE W2[p] = {} \/ W2[p] = W[m[p]]
    <3>1. CASE j < i
      <4>1. ~(j = i) /\ ~(j > i)
        BY <1>1, <3>1
      <4>2. m[<<o, j>>] = <<o, j>>
        BY <1>11, <4>1
      <4>3. W2[<<o, j>>] = W[<<o, j>>]
        BY <3>1
      <4> QED BY <2>1, <4>2, <4>3
    <3>2. CASE j = i
      <4>1. ~(j < i)
        BY <1>1, <3>2
      <4>2. m[<<o, j>>] = <<v, 0>>
        BY <1>11, <3>2
      <4>3. W2[<<o, j>>] = W[<<v, 0>>]
        BY <3>2, <4>1
      <4> QED BY <2>1, <4>2, <4>3
    <3>3. CASE j > i
      <4>1. m[<<o, j>>] = <<o, j - 1>> /\ (W2[<<o, j>>] = {} \/ W2[<<o, j>>] = W[<<o, j - 1>>])
        BY <1>1, <1>11, <3>3
      <4> QED BY <2>1, <4>1
    <3> QED BY <1>1, <3>1, <3>2, <3>3
  <2> QED BY <1>2, <1>5, <1>7, <1>12, <2>1
<1>9. ASSUME NEW p \in Places, NEW q \in Places, W2[p] # {}, W2[q] # {}, m[p] = m[q]
      PROVE  p = q
  <2>1. CASE p[1] = o /\ q[1] = o
    <3>1. PICK j \in 1..MaxCapacity, l \in 1..MaxCapacity : p = <<o, j>> /\ q = <<o, l>>
      BY <1>12, <2>1
    <3>2. m[<<o, j>>] = m[<<o, l>>]
      BY <1>9, <3>1
    <3>3. \A x, y : <<v, 0>> # <<o, x>> /\ (<<o, x>> = <<o, y>> => x = y)
      BY <1>1
    <3>5. ASSUME NEW x \in 1..MaxCapacity, x # i
          PROVE  \E y \in Int : /\ m[<<o, x>>] = <<o, y>>
                                /\ (x < i /\ y = x) \/ (x > i /\ y = x - 1)
      <4>1. CASE x < i
        <5>1. ~(x = i) /\ ~(x > i) /\ x \in Int
          BY <1>1, <4>1
        <5>2. m[<<o, x>>] = <<o, x>>
          BY <1>11, <5>1
        <5> QED BY <4>1, <5>1, <5>2
      <4>2. CASE x > i
        <5>1. x - 1 \in Int
          BY <1>1
        <5>2. m[<<o, x>>] = <<o, x - 1>>
          BY <1>11, <3>5, <4>2
        <5> QED BY <4>2, <5>1, <5>2
      <4> QED BY <1>1, <3>5, <4>1, <4>2
    <3>6. m[<<o, i>>] = <<v, 0>>
      <4>1. i \in 1..MaxCapacity
        BY <1>1
      <4> QED BY <1>11, <4>1
    <3>4. j = l
      <4>1. CASE j # i /\ l # i
        <5>1. PICK y \in Int : /\ m[<<o, j>>] = <<o, y>>
                               /\ (j < i /\ y = j) \/ (j > i /\ y = j - 1)
          BY <3>5, <4>1
        <5>2. PICK z \in Int : /\ m[<<o, l>>] = <<o, z>>
                               /\ (l < i /\ z = l) \/ (l > i /\ z = l - 1)
          BY <3>5, <4>1
        <5>3. <<o, y>> = <<o, z>>
          BY <3>2, <5>1, <5>2
        <5>4. y = z
          BY <5>3
        <5> QED BY <1>1, <5>1, <5>2, <5>4
      <4>2. CASE j # i /\ l = i
        BY <3>2, <3>3, <3>5, <3>6, <4>2
      <4>3. CASE j = i /\ l # i
        BY <3>2, <3>3, <3>5, <3>6, <4>3
      <4> QED BY <4>1, <4>2, <4>3
    <3> QED BY <3>1, <3>4
  <2>2. CASE p[1] = o /\ q[1] # o
    <3>1. p = <<o, p[2]>> /\ p[2] \in 1..MaxCapacity /\ m[q] = q /\ q # <<v, 0>>
      BY <1>2, <1>5, <1>7, <1>9, <2>2
    <3>2. m[p] = <<v, 0>> \/ m[p][1] = o
      <4>1. PICK j \in 1..MaxCapacity : p = <<o, j>>
        BY <3>1
      <4>2. m[<<o, j>>] = <<v, 0>> \/ m[<<o, j>>] = <<o, j - 1>> \/ m[<<o, j>>] = <<o, j>>
        BY <1>11
      <4> QED BY <4>1, <4>2
    <3> QED BY <1>9, <2>2, <3>1, <3>2
  <2>3. CASE p[1] # o /\ q[1] = o
    <3>1. q = <<o, q[2]>> /\ q[2] \in 1..MaxCapacity /\ m[p] = p /\ p # <<v, 0>>
      BY <1>2, <1>5, <1>7, <1>9, <2>3
    <3>2. m[q] = <<v, 0>> \/ m[q][1] = o
      <4>1. PICK j \in 1..MaxCapacity : q = <<o, j>>
        BY <3>1
      <4>2. m[<<o, j>>] = <<v, 0>> \/ m[<<o, j>>] = <<o, j - 1>> \/ m[<<o, j>>] = <<o, j>>
        BY <1>11
      <4> QED BY <4>1, <4>2
    <3> QED BY <1>9, <2>3, <3>1, <3>2
  <2>4. CASE p[1] # o /\ q[1] # o
    BY <1>5, <1>7, <1>9, <2>4
  <2> QED BY <2>1, <2>2, <2>3, <2>4
<1>10. ASSUME NEW q \in Places PROVE W[q] = {} \/ \E p \in Places : W2[p] = W[q]
  <2>1. CASE q = <<v, 0>>
    <3>1. i \in 1..MaxCapacity /\ ~(i < i)
      BY <1>1
    <3>2. W2[<<o, i>>] = W[<<v, 0>>]
      BY <3>1
    <3> QED BY <1>3, <2>1, <3>1, <3>2
  <2>2. CASE q = <<o, q[2]>> /\ q[2] \in 1..MaxCapacity
    <3>1. CASE q[2] < i
      <4>1. W2[<<o, q[2]>>] = W[<<o, q[2]>>]
        BY <2>2, <3>1
      <4> QED BY <2>2, <4>1
    <3>2. CASE q[2] >= i /\ q[2] <= k
      <4>1. q[2] + 1 \in 1..MaxCapacity /\ W2[<<o, q[2] + 1>>] = W[<<o, q[2]>>]
        BY <1>1, <2>2, <3>2
      <4> QED BY <1>3, <2>2, <4>1
    <3>3. CASE q[2] > k
      BY <2>2, <3>3
    <3> QED BY <1>1, <2>2, <3>1, <3>2, <3>3
  <2>3. CASE q[1] # o /\ q # <<v, 0>>
    BY <2>3
  <2> QED BY <1>2, <2>1, <2>2, <2>3
<1> QED BY <1>6, <1>8, <1>9, <1>10, Rearranged

\* The element at i of a buffer with k elements was empty or has gone to
\* place z, and the later ones close the gap.
ClosedUp(W, W2, o, i, k) ==
  /\ \A j \in 1..MaxCapacity : j > k => W[<<o, j>>] = {}
  /\ \A j \in 1..MaxCapacity :
       W2[<<o, j>>] = IF j < i THEN W[<<o, j>>] ELSE IF j < k THEN W[<<o, j + 1>>] ELSE {}

LEMMA ClosedPartition ==
  ASSUME NEW W, NEW W2, NEW R, NEW L, Partition(W, R, L),
         NEW o \in Buffers, NEW k \in Nat, k <= MaxCapacity, NEW i \in 1..k, NEW z,
         ClosedUp(W, W2, o, i, k),
         z \in Places => z[1] # o /\ W[z] = {} /\ W2[z] = W[<<o, i>>],
         z \notin Places => W[<<o, i>>] = {},
         \A q \in Places : q[1] # o /\ q # z => W2[q] = W[q]
  PROVE  Partition(W2, R, L)
<1> USE DEF ClosedUp
<1> DEFINE from(q) == IF q[1] = o
                      THEN IF q[2] >= i /\ q[2] < k THEN <<o, q[2] + 1>> ELSE q
                      ELSE IF q = z THEN <<o, i>> ELSE q
           m == [q \in Places |-> from(q)]
<1>1. MaxCapacity \in Nat /\ o \notin Variables /\ i \in 1..MaxCapacity
  BY HeapAssumption, NamesAssumption
<1>2. \A q \in Places : \/ q = <<o, q[2]>> /\ q[1] = o /\ q[2] \in 1..MaxCapacity
                        \/ q[1] # o /\ q = z /\ z \in Places
                        \/ q[1] # o /\ q # z
  BY <1>1, PlaceCases
<1>3. \A j \in 1..MaxCapacity : <<o, j>> \in Places
  BY <1>1, HoldingOf
<1>4. \A j \in 1..MaxCapacity : from(<<o, j>>) = IF j >= i /\ j < k THEN <<o, j + 1>> ELSE <<o, j>>
  BY <1>1
<1>5. (z \in Places => from(z) = <<o, i>>) /\ \A q \in Places : q[1] # o /\ q # z => from(q) = q
  BY <1>3
<1>6. m \in [Places -> Places]
  <2>1. ASSUME NEW q \in Places PROVE from(q) \in Places
    <3>1. CASE q = <<o, q[2]>> /\ q[1] = o /\ q[2] \in 1..MaxCapacity
      <4>1. q[2] < k => q[2] + 1 \in 1..MaxCapacity
        BY <1>1, <3>1
      <4> QED BY <1>3, <3>1, <4>1
    <3> QED BY <1>1, <1>2, <1>3, <1>5, <3>1
  <2> QED BY <2>1
<1>7. \A q \in Places : m[q] = from(q)
  OBVIOUS
<1>11. \A j \in 1..MaxCapacity : m[<<o, j>>] = IF j >= i /\ j < k THEN <<o, j + 1>> ELSE <<o, j>>
  BY <1>3, <1>4, <1>7
<1>12. \A q \in Places : q[1] = o => \E j \in 1..MaxCapacity : q = <<o, j>>
  BY <1>2
<1> HIDE DEF m, from
<1>8. \A p \in Places : W2[p] = {} \/ W2[p] = W[m[p]]
  <2> TAKE p \in Places
  <2>1. ASSUME NEW j \in 1..MaxCapacity, p = <<o, j>> PROVE W2[p] = {} \/ W2[p] = W[m[p]]
    <3>1. CASE j >= i /\ j < k
      <4>1. m[<<o, j>>] = <<o, j + 1>> /\ W2[<<o, j>>] = W[<<o, j + 1>>]
        BY <1>1, <1>11, <3>1
      <4> QED BY <2>1, <4>1
    <3>2. CASE ~(j >= i /\ j < k)
      <4>1. m[<<o, j>>] = <<o, j>>
        BY <1>11, <3>2
      <4>2. j < i \/ (~(j < i) /\ ~(j < k))
        BY <1>1, <3>2
      <4>3. W2[<<o, j>>] = {} \/ W2[<<o, j>>] = W[<<o, j>>]
        BY <4>2
      <4> QED BY <2>1, <4>1, <4>3
    <3> QED BY <3>1, <3>2
  <2> QED BY <1>2, <1>5, <1>7, <1>12, <2>1
<1>9. ASSUME NEW p \in Places, NEW q \in Places, W2[p] # {}, W2[q] # {}, m[p] = m[q]
      PROVE  p = q
  <2>0. ASSUME NEW w \in Places, W2[w] # {}, w[1] = o
        PROVE  \E j \in 1..MaxCapacity :
                 w = <<o, j>> /\ m[w] = <<o, IF j >= i THEN j + 1 ELSE j>>
    <3>1. PICK j \in 1..MaxCapacity : w = <<o, j>>
      BY <1>12, <2>0
    <3>2. j < i \/ j < k
      BY <1>1, <2>0, <3>1
    <3>3. j < k
      BY <1>1, <3>2
    <3> QED BY <1>1, <1>11, <3>1, <3>3
  <2>1. CASE p[1] = o /\ q[1] = o
    <3>1. PICK j \in 1..MaxCapacity, l \in 1..MaxCapacity :
            /\ p = <<o, j>> /\ m[p] = <<o, IF j >= i THEN j + 1 ELSE j>>
            /\ q = <<o, l>> /\ m[q] = <<o, IF l >= i THEN l + 1 ELSE l>>
      BY <1>9, <2>0, <2>1
    <3>2. (IF j >= i THEN j + 1 ELSE j) = (IF l >= i THEN l + 1 ELSE l)
      BY <1>9, <3>1
    <3> QED BY <1>1, <3>1, <3>2
  <2>2. CASE p[1] = o /\ q[1] # o
    <3>1. m[p] # <<o, i>> /\ m[p][1] = o
      BY <1>1, <1>9, <2>0, <2>2
    <3> QED BY <1>2, <1>5, <1>7, <1>9, <2>2, <3>1
  <2>3. CASE p[1] # o /\ q[1] = o
    <3>1. m[q] # <<o, i>> /\ m[q][1] = o
      BY <1>1, <1>9, <2>0, <2>3
    <3> QED BY <1>2, <1>5, <1>7, <1>9, <2>3, <3>1
  <2>4. CASE p[1] # o /\ q[1] # o
    <3>1. \A w \in Places : w[1] # o => m[w] = IF w = z THEN <<o, i>> ELSE w
      BY <1>5, <1>7
    <3>2. \A w \in Places : w[1] # o => w # <<o, i>>
      OBVIOUS
    <3> QED BY <1>9, <2>4, <3>1, <3>2
  <2> QED BY <2>1, <2>2, <2>3, <2>4
<1>10. ASSUME NEW q \in Places PROVE W[q] = {} \/ \E p \in Places : W2[p] = W[q]
  <2>2. CASE q = <<o, q[2]>> /\ q[2] \in 1..MaxCapacity
    <3>1. CASE q[2] < i
      BY <1>1, <2>2, <3>1
    <3>2. CASE q[2] = i
      BY <1>3, <2>2, <3>2
    <3>3. CASE q[2] > i /\ q[2] <= k
      <4>1. q[2] - 1 \in 1..MaxCapacity /\ W2[<<o, q[2] - 1>>] = W[<<o, q[2]>>]
        BY <1>1, <2>2, <3>3
      <4> QED BY <1>3, <2>2, <4>1
    <3>4. CASE q[2] > k
      BY <2>2, <3>4
    <3> QED BY <1>1, <2>2, <3>1, <3>2, <3>3, <3>4
  <2> QED BY <1>2, <2>2
<1> QED BY <1>6, <1>8, <1>9, <1>10, Rearranged

-----------------------------------------------------------------------------
(* Shrinking, moving in, moving out, dropping and destroying.              *)

\* A buffer with elements has a block, which is not one of the leaves.
LEMMA BlockFacts ==
  ASSUME IInv, NEW o \in Buffers, header[o].pointer # Null
  PROVE  /\ header[o].pointer \in Addr /\ header[o].pointer \notin Leaves
         /\ heap[header[o].pointer] = Block(Slots(o))
         /\ Slots(o) \in [1..header[o].capacity -> Slot(o)]
         /\ Len(Slots(o)) = header[o].capacity
         /\ heap[header[o].pointer].slots = Slots(o)
<1>1. /\ header[o].pointer \in Addr
      /\ heap[header[o].pointer] = Block(Slots(o))
      /\ Slots(o) \in [1..header[o].capacity -> Slot(o)]
      /\ Len(Slots(o)) = header[o].capacity
  BY BufferFacts
<1> QED BY <1>1, Kinds DEF Leaves, Slots

\* The block is rewritten in place, and leaves are released.
LEMMA InPlace ==
  ASSUME IInv, NEW o \in Buffers, header[o].pointer # Null,
         NEW t \in [1..header[o].capacity -> Slot(o)], NEW n \in Nat, n <= header[o].capacity,
         \A j \in 1..n : t[j] \in Proper(o), NEW X \in SUBSET Leaves,
         header' = [header EXCEPT ![o].length = n],
         heap' = [a \in Addr |-> IF a = header[o].pointer THEN Block(t)
                                 ELSE IF a \in X THEN Free ELSE heap[a]]
  PROVE  Rewritten(o, header[o].pointer, t, n, header[o].capacity, X)
<1>1. header' = [header EXCEPT ![o] = [pointer |-> header[o].pointer, length |-> n,
                                       capacity |-> header[o].capacity]]
  <2>1. PICK p, c : header[o] = [pointer |-> p, length |-> Length(o), capacity |-> c]
    BY HeaderFacts
  <2>2. header' = [header EXCEPT ![o] = [header[o] EXCEPT !.length = n]]
    BY HeaderFacts
  <2>3. [header[o] EXCEPT !.length = n] = [pointer |-> p, length |-> n, capacity |-> c]
    BY <2>1
  <2>4. header[o].pointer = p /\ header[o].capacity = c
    BY <2>1
  <2> QED BY <2>2, <2>3, <2>4
<1>2. heap' = [a \in Addr |-> IF a = header[o].pointer THEN Block(t)
                              ELSE IF a \in X \/ a = header[o].pointer THEN Free ELSE heap[a]]
  OBVIOUS
<1>3. header[o].capacity \in 0..MaxCapacity /\ header[o].pointer \in Addr
  BY BufferFacts
<1> QED BY <1>1, <1>2, <1>3 DEF Rewritten

LEMMA OwnedFromLeaves ==
  ASSUME IInv, NEW o \in Buffers, NEW n \in Nat
  PROVE  /\ OwnedFrom(o, n + 1) \in SUBSET Leaves
         /\ OwnedFrom(o, n + 1) =
              UNION {Holdings[q] : q \in {<<o, j>> : j \in (n + 1)..Length(o)}}
<1>1. Length(o) \in Nat
  BY HeaderFacts
<1>2. \A j \in (n + 1)..Length(o) : /\ Owned(Slots(o)[j]) \subseteq Leaves
                                    /\ Holdings[<<o, j>>] = Owned(Slots(o)[j])
  <2> TAKE j \in (n + 1)..Length(o)
  <2>1. j \in 1..Length(o)
    BY <1>1
  <2> QED BY <2>1, BufferFacts
<1> QED BY <1>2 DEF OwnedFrom

LEMMA ShrinkForm ==
  ASSUME IInv, NEW o \in Buffers, NEW n \in 0..MaxCapacity, Shrink(o, n)
  PROVE  /\ n \in Nat /\ n < Length(o)
         /\ \E t : /\ Rewritten(o, header[o].pointer, t, n, header[o].capacity, OwnedFrom(o, n + 1))
                   /\ \A j \in 1..n : t[j] = Slots(o)[j]
<1> DEFINE p == header[o].pointer
           X == OwnedFrom(o, n + 1)
           t == [j \in 1..Len(Slots(o)) |-> IF j \in (n + 1)..Length(o) THEN Zero(o) ELSE Slots(o)[j]]
<1>1. n \in Nat /\ n < Length(o) /\ Length(o) \in Nat /\ header[o].capacity \in Nat
      /\ Length(o) <= header[o].capacity /\ p # Null
  BY HeaderFacts DEF Shrink
<1>2. X \in SUBSET Leaves
  BY <1>1, OwnedFromLeaves
<1>3. p \in Addr /\ p \notin X /\ heap[p] = Block(Slots(o)) /\ heap[p].slots = Slots(o)
      /\ Len(Slots(o)) = header[o].capacity /\ Slots(o) \in [1..header[o].capacity -> Slot(o)]
  BY <1>1, <1>2, BlockFacts
<1>4. t \in [1..header[o].capacity -> Slot(o)]
  BY <1>1, <1>3, ZeroOwnsNothing
<1>5. \A j \in 1..n : t[j] = Slots(o)[j]
  BY <1>1, <1>3
<1>6. heap' = [a \in Addr |-> IF a = p THEN Block(t) ELSE IF a \in X THEN Free ELSE heap[a]]
  <2> DEFINE h == Released(heap, X)
  <2>1. h = [a \in Addr |-> IF a \in X THEN Free ELSE heap[a]] /\ h[p] = Block(Slots(o))
    BY <1>3 DEF Released
  <2>2. h[p].slots = Slots(o)
    BY <2>1, Kinds
  <2> HIDE DEF h, X
  <2>3. heap' = [h EXCEPT ![p].slots = [j \in 1..Len(h[p].slots) |->
                   IF j \in (n + 1)..Length(o) THEN Zero(o) ELSE h[p].slots[j]]]
    BY DEF Shrink, h, X
  <2>4. heap' = [h EXCEPT ![p] = [h[p] EXCEPT !.slots = t]]
    BY <2>2, <2>3
  <2> HIDE DEF t
  <2>5. [h[p] EXCEPT !.slots = t] = Block(t)
    BY <2>1 DEF Block
  <2> QED BY <1>3, <2>1, <2>4, <2>5
<1>7. \A j \in 1..n : t[j] \in Proper(o)
  <2> HIDE DEF t
  <2> TAKE j \in 1..n
  <2>1. j \in 1..Length(o) /\ t[j] = Slots(o)[j]
    BY <1>1, <1>5
  <2> QED BY <2>1, BufferFacts
<1>8. n <= header[o].capacity
  BY <1>1
<1> HIDE DEF t, X
<1>9. Rewritten(o, p, t, n, header[o].capacity, X)
  BY <1>1, <1>2, <1>4, <1>6, <1>7, <1>8, InPlace DEF Shrink
<1> QED BY <1>1, <1>5, <1>9 DEF X

LEMMA ShrinkStep ==
  ASSUME IInv, NEW o \in Buffers, NEW n \in 0..MaxCapacity, Shrink(o, n)
  PROVE  IInv'
<1> DEFINE X == OwnedFrom(o, n + 1)
           Q == {<<o, j>> : j \in (n + 1)..Length(o)}
<1>0. n \in Nat /\ n < Length(o) /\ Length(o) \in Nat /\ Length(o) <= MaxCapacity /\ MaxCapacity \in Nat
  BY ShrinkForm, HeaderFacts
<1>1. PICK t : /\ Rewritten(o, header[o].pointer, t, n, header[o].capacity, X)
               /\ \A j \in 1..n : t[j] = Slots(o)[j]
  BY ShrinkForm
<1>2. HeapOK' /\ BuffersOK' /\ OwnPointers' /\ Leaves' = Leaves \ X /\ BuffersHold(o, t, n)
  BY <1>1, BufferChange
<1>3. Q \in SUBSET Places /\ X = UNION {Holdings[q] : q \in Q}
  <2>1. \A j \in (n + 1)..Length(o) : j \in 1..MaxCapacity
    BY <1>0
  <2>2. Q \in SUBSET Places
    BY <2>1, HoldingOf
  <2>3. X = UNION {Holdings[q] : q \in Q}
    BY <1>0, OwnedFromLeaves
  <2> QED BY <2>2, <2>3
<1>4. \A q \in Places : Holdings'[q] = IF q \in Q THEN {} ELSE Holdings[q]
  <2> TAKE q \in Places
  <2>1. CASE q[1] \in Variables /\ q = <<q[1], 0>> /\ q[1] \notin Buffers
    <3>1. q \notin Q
      BY <2>1
    <3>2. value' = value
      BY DEF Shrink
    <3> QED BY <2>1, <3>1, <3>2, VariableHoldings
  <2>2. CASE q[1] \in Buffers /\ q[1] # o /\ q[2] \in 1..MaxCapacity /\ q = <<q[1], q[2]>>
    <3>1. q \notin Q
      BY <2>2
    <3> QED BY <1>2, <2>2, <3>1 DEF BuffersHold
  <2>3. ASSUME NEW j \in 1..MaxCapacity, q = <<o, j>>
        PROVE  Holdings'[q] = IF q \in Q THEN {} ELSE Holdings[q]
    <3>0. q \in Q <=> j \in (n + 1)..Length(o)
      BY <2>3
    <3>1. CASE j <= n
      <4>1. t[j] = Slots(o)[j] /\ j <= Length(o) /\ q \notin Q
        BY <1>0, <1>1, <3>0, <3>1
      <4>2. Holdings'[<<o, j>>] = Owned(t[j]) /\ Holdings[<<o, j>>] = Owned(Slots(o)[j])
        BY <1>2, <3>1, <4>1, HoldingOf DEF BuffersHold
      <4> QED BY <2>3, <4>1, <4>2
    <3>2. CASE ~(j <= n)
      <4>1. Holdings'[<<o, j>>] = {}
        BY <1>2, <3>2 DEF BuffersHold
      <4>2. q \in Q \/ ~(j <= Length(o))
        BY <1>0, <3>0, <3>2
      <4>3. q \in Q \/ Holdings[<<o, j>>] = {}
        BY <4>2, HoldingOf
      <4> QED BY <2>3, <4>1, <4>3
    <3> QED BY <3>1, <3>2
  <2> QED BY <2>1, <2>2, <2>3, PlaceCases
<1> HIDE DEF X, Q
<1>5. Partition(Holdings', RegionSet, Leaves \ UNION {Holdings[q] : q \in Q})
  BY <1>3, <1>4, Dropped DEF IInv
<1>6. Partition(Holdings', RegionSet, Leaves')
  BY <1>2, <1>3, <1>5
<1> QED BY <1>2, <1>6, BufferOnly DEF Shrink

\* Buffer o, in its block of then, opens a gap at i and takes the value of v.
Opens(o, i, v) ==
  \E a, t, c :
    /\ Rewritten(o, a, t, Length(o) + 1, c, {})
    /\ \A j \in 1..(Length(o) + 1) :
         t[j] = IF j < i THEN Slots(o)[j]
                ELSE IF j = i THEN value[v] ELSE Slots(o)[j - 1]

LEMMA InsertForm ==
  ASSUME IInv, NEW o \in Buffers, Length(o) < MaxCapacity, NEW i \in 1..(Length(o) + 1),
         NEW v \in VariablesOf(o), InsertMoveFrom(o, i, v)
  PROVE  \/ UNCHANGED <<heap, header, value>> /\ call' = Answer("insert", <<o, i, v>>, FALSE)
         \/ /\ value' = [value EXCEPT ![v] = Zero(v)]
            /\ call' = Answer("insert", <<o, i, v>>, TRUE)
            /\ Opens(o, i, v)
<1> DEFINE k == Length(o) + 1
<1>0. k \in 1..MaxCapacity /\ Length(o) \in Nat /\ MaxCapacity \in Nat /\ i \in Nat /\ i >= 1 /\ i <= k
  BY HeaderFacts
<1>1. PICK r \in Reserve(o, k) :
        /\ value' = [value EXCEPT ![v] = SourceAfter(v, r.ok)]
        /\ IF r.ok
           THEN /\ heap' = [r.heap EXCEPT ![r.header[o].pointer].slots = Opened(@, o, i, value[v])]
                /\ header' = [r.header EXCEPT ![o].length = @ + 1]
           ELSE UNCHANGED <<heap, header>>
        /\ call' = Answer("insert", <<o, i, v>>, r.ok)
  BY DEF InsertMoveFrom
<1>2. v \in Variables /\ value = [w \in Variables |-> value[w]] /\ value[v] \in Proper(o)
  BY TypesAgree, SameType, ValueFacts
<1>3. CASE r.ok = FALSE
  BY <1>1, <1>2, <1>3 DEF SourceAfter
<1>4. ASSUME NEW a, NEW s, NEW c, ReservedBlock(o, k, r, a, s, c), r.ok = TRUE
      PROVE  \E t : /\ Rewritten(o, a, t, k, c, {})
                    /\ \A j \in 1..k : t[j] = IF j < i THEN Slots(o)[j]
                                              ELSE IF j = i THEN value[v] ELSE Slots(o)[j - 1]
  <2> DEFINE t == Opened(s, o, i, value[v])
  <2>1. /\ a \in Addr /\ (a = header[o].pointer \/ heap[a] = Free) /\ c \in 0..MaxCapacity
        /\ k <= c /\ s \in [1..c -> Slot(o)] /\ \A j \in 1..Length(o) : s[j] = Slots(o)[j]
    BY <1>4 DEF ReservedBlock
  <2>2. /\ r.header[o] = [pointer |-> a, length |-> Length(o), capacity |-> c]
        /\ r.header = [p \in Buffers |-> r.header[p]]
        /\ \A p \in Buffers : p # o => r.header[p] = header[p]
        /\ r.heap[a] = Block(s) /\ Len(s) = c /\ c \in Nat
    BY <1>4, ReservedThen
  <2>3. header' = [header EXCEPT ![o] = [pointer |-> a, length |-> k, capacity |-> c]]
    <3>1. header' = [r.header EXCEPT ![o] = [r.header[o] EXCEPT !.length = r.header[o].length + 1]]
      BY <1>1, <1>4
    <3>2. r.header[o].length + 1 = k
      BY <2>2
    <3> HIDE DEF k
    <3>3. [r.header[o] EXCEPT !.length = k] = [pointer |-> a, length |-> k, capacity |-> c]
      BY <2>2
    <3> QED BY <2>2, <3>1, <3>2, <3>3, HeaderFacts
  <2>4. heap' = [b \in Addr |-> IF b = a THEN Block(t)
                                ELSE IF b \in {} \/ b = header[o].pointer THEN Free ELSE heap[b]]
    <3>1. r.heap = [b \in Addr |-> IF b = a THEN Block(s) ELSE IF b = header[o].pointer THEN Free
                                   ELSE heap[b]]
      BY <1>4 DEF ReservedBlock
    <3>3. heap' = [r.heap EXCEPT ![a].slots = Opened(r.heap[a].slots, o, i, value[v])]
      BY <1>1, <1>4, <2>2
    <3>4. r.heap[a].slots = s
      BY <2>2, Kinds
    <3> HIDE DEF t
    <3>5. heap' = [r.heap EXCEPT ![a] = [r.heap[a] EXCEPT !.slots = t]]
      BY <3>3, <3>4 DEF t
    <3>6. [r.heap[a] EXCEPT !.slots = t] = Block(t)
      BY <2>2 DEF Block
    <3> QED BY <2>1, <3>1, <3>5, <3>6
  <2>5. t = [j \in 1..c |-> IF j = i THEN value[v]
                            ELSE IF j \in (i + 1)..k THEN s[j - 1] ELSE s[j]]
    BY <2>2 DEF Opened
  <2> HIDE DEF t
  <2>6. t \in [1..c -> Slot(o)]
    <3>1. ASSUME NEW j \in 1..c
          PROVE  (IF j = i THEN value[v] ELSE IF j \in (i + 1)..k THEN s[j - 1] ELSE s[j]) \in Slot(o)
      <4>1. value[v] \in Slot(o)
        BY <1>2 DEF Proper, Slot
      <4>2. j \in (i + 1)..k => j - 1 \in 1..c
        BY <1>0, <2>2
      <4> QED BY <2>1, <4>1, <4>2
    <3> QED BY <2>5, <3>1
  <2>7. \A j \in 1..k : t[j] = IF j < i THEN Slots(o)[j]
                               ELSE IF j = i THEN value[v] ELSE Slots(o)[j - 1]
    <3> TAKE j \in 1..k
    <3>0. j \in 1..c
      BY <1>0, <2>1, <2>2
    <3>1. CASE j < i
      <4>1. j \in 1..Length(o) /\ ~(j = i) /\ j \notin (i + 1)..k
        BY <1>0, <3>1
      <4>2. t[j] = s[j]
        BY <2>5, <3>0, <4>1
      <4> QED BY <2>1, <3>1, <4>1, <4>2
    <3>2. CASE j = i
      BY <1>0, <2>5, <3>0, <3>2
    <3>3. CASE j > i
      <4>1. j - 1 \in 1..Length(o) /\ ~(j = i) /\ ~(j < i) /\ j \in (i + 1)..k
        BY <1>0, <3>3
      <4>2. t[j] = s[j - 1]
        BY <2>5, <3>0, <4>1
      <4> QED BY <2>1, <4>1, <4>2
    <3> QED BY <1>0, <3>1, <3>2, <3>3
  <2>8. \A j \in 1..k : t[j] \in Proper(o)
    <3> TAKE j \in 1..k
    <3>1. CASE j < i
      <4>1. j \in 1..Length(o)
        BY <1>0, <3>1
      <4> QED BY <2>7, <3>1, <4>1, BufferFacts
    <3>2. CASE j = i
      BY <1>0, <1>2, <2>7, <3>2
    <3>3. CASE j > i
      <4>1. j - 1 \in 1..Length(o) /\ ~(j = i) /\ ~(j < i)
        BY <1>0, <3>3
      <4> QED BY <2>7, <4>1, BufferFacts
    <3> QED BY <1>0, <3>1, <3>2, <3>3
  <2>9. k \in Nat
    BY <1>0
  <2>10. Rewritten(o, a, t, k, c, {})
    <3> HIDE DEF k
    <3> QED BY <2>1, <2>3, <2>4, <2>6, <2>8, <2>9 DEF Rewritten
  <2> QED BY <2>7, <2>10
<1>5. CASE r.ok = TRUE /\ \E a, s, c : ReservedBlock(o, k, r, a, s, c)
  <2>1. value' = [value EXCEPT ![v] = Zero(v)] /\ call' = Answer("insert", <<o, i, v>>, TRUE)
    BY <1>1, <1>5 DEF SourceAfter
  <2>2. PICK a, s, c : ReservedBlock(o, k, r, a, s, c)
    BY <1>5
  <2> HIDE DEF k
  <2>3. \E t : /\ Rewritten(o, a, t, k, c, {})
             /\ \A j \in 1..k : t[j] = IF j < i THEN Slots(o)[j]
                                       ELSE IF j = i THEN value[v] ELSE Slots(o)[j - 1]
    BY <1>4, <1>5, <2>2
  <2>4. Opens(o, i, v)
    BY <2>3 DEF Opens, k
  <2> QED BY <2>1, <2>4
<1> QED BY <1>0, <1>3, <1>5, ReserveOutcome

LEMMA InsertStep ==
  ASSUME IInv, NEW o \in Buffers, Length(o) < MaxCapacity, NEW i \in 1..(Length(o) + 1),
         NEW v \in VariablesOf(o), InsertMoveFrom(o, i, v)
  PROVE  IInv'
<1> DEFINE k == Length(o)
<1>0. region' = region
  BY DEF InsertMoveFrom
<1>1. CASE UNCHANGED <<heap, header, value>>
  BY <1>0, <1>1, StutterStep
<1>2. ASSUME NEW a, NEW t, NEW c, Rewritten(o, a, t, k + 1, c, {}),
             value' = [value EXCEPT ![v] = Zero(v)],
             \A j \in 1..(k + 1) : t[j] = IF j < i THEN Slots(o)[j]
                                          ELSE IF j = i THEN value[v] ELSE Slots(o)[j - 1]
      PROVE  IInv'
  <2>0. k \in Nat /\ k + 1 <= MaxCapacity /\ MaxCapacity \in Nat
    BY HeaderFacts
  <2>1. HeapOK' /\ BuffersOK' /\ OwnPointers' /\ Leaves' = Leaves \ {} /\ BuffersHold(o, t, k + 1)
    BY <1>2, BufferChange
  <2>2. v \in Variables /\ v # o /\ value = [w \in Variables |-> value[w]]
    BY TypesAgree, ValueFacts
  <2>3. value'[v] = Zero(v) /\ \A w \in Variables : w # v => value'[w] = value[w]
    BY <1>2, <2>2
  <2>4. ValuesOK'
    BY <1>2, <2>2, <2>3, ZeroOwnsNothing DEF IInv, ValuesOK
  <2>5. RegionOK' /\ RegionSet' = RegionSet
    BY <1>0 DEF IInv, RegionOK, RegionSet
  <2>6. Holdings'[<<v, 0>>] = {} /\ Holdings[<<v, 0>>] = Owned(value[v])
    BY <2>2, <2>3, HoldingOf, HoldingNext, ZeroOwnsNothing
  <2>7. \A q \in Places : q[1] # o /\ q # <<v, 0>> => Holdings'[q] = Holdings[q]
    <3> TAKE q \in Places
    <3> HAVE q[1] # o /\ q # <<v, 0>>
    <3>1. CASE q[1] \in Variables /\ q = <<q[1], 0>>
      <4>1. q[1] # v
        BY <3>1
      <4> QED BY <2>3, <3>1, <4>1, HoldingOf, HoldingNext
    <3>2. CASE q[1] \in Buffers /\ q[2] \in 1..MaxCapacity /\ q = <<q[1], q[2]>>
      BY <2>1, <3>2 DEF BuffersHold
    <3> QED BY <3>1, <3>2, PlaceCases
  <2>8. \A j \in 1..MaxCapacity : j > k => Holdings[<<o, j>>] = {}
    BY BufferFacts
  <2>9. \A j \in 1..MaxCapacity :
          Holdings'[<<o, j>>] = IF j < i THEN Holdings[<<o, j>>]
                                ELSE IF j = i THEN Holdings[<<v, 0>>]
                                ELSE IF j <= k + 1 THEN Holdings[<<o, j - 1>>] ELSE {}
    <3> TAKE j \in 1..MaxCapacity
    <3>0. Holdings'[<<o, j>>] = IF j <= k + 1 THEN Owned(t[j]) ELSE {}
      BY <2>1 DEF BuffersHold
    <3>1. CASE j < i
      <4>1. j \in 1..k /\ j \in 1..(k + 1) /\ j <= k + 1
        BY <2>0, <3>1
      <4>2. Holdings[<<o, j>>] = Owned(Slots(o)[j])
        BY <4>1, BufferFacts
      <4>3. t[j] = Slots(o)[j]
        BY <1>2, <3>1, <4>1
      <4> QED BY <3>0, <3>1, <4>1, <4>2, <4>3
    <3>2. CASE j = i
      <4>1. j \in 1..(k + 1) /\ j <= k + 1 /\ ~(j < i)
        BY <2>0, <3>2
      <4>2. t[j] = value[v]
        BY <1>2, <3>2, <4>1
      <4> QED BY <2>6, <3>0, <3>2, <4>1, <4>2
    <3>3. CASE j > i /\ j <= k + 1
      <4>1. j - 1 \in 1..k /\ j \in 1..(k + 1) /\ ~(j < i) /\ ~(j = i)
        BY <2>0, <3>3
      <4>2. Holdings[<<o, j - 1>>] = Owned(Slots(o)[j - 1])
        BY <4>1, BufferFacts
      <4>3. t[j] = Slots(o)[j - 1]
        BY <1>2, <4>1
      <4> QED BY <3>0, <3>3, <4>1, <4>2, <4>3
    <3>4. CASE j > k + 1
      <4>1. ~(j <= k + 1) /\ ~(j < i) /\ ~(j = i)
        BY <2>0, <3>4
      <4> QED BY <3>0, <4>1
    <3> QED BY <2>0, <3>1, <3>2, <3>3, <3>4
  <2> HIDE DEF k
  <2>11. i \in 1..(k + 1) /\ Partition(Holdings, RegionSet, Leaves)
    BY DEF k, IInv
  <2>10. Partition(Holdings', RegionSet, Leaves)
    BY <2>0, <2>2, <2>6, <2>7, <2>8, <2>9, <2>11, OpenedPartition
  <2>12. Leaves' = Leaves
    BY <2>1
  <2> QED BY <2>1, <2>4, <2>5, <2>10, <2>12 DEF IInv
<1>3. ASSUME value' = [value EXCEPT ![v] = Zero(v)], Opens(o, i, v) PROVE IInv'
  BY <1>2, <1>3 DEF Opens
<1> QED BY <1>1, <1>3, InsertForm

\* Slot i of the block of o is closed and the leaves X are released.
Closing(o, i, last, X) ==
  /\ last \in Slot(o) /\ X \in SUBSET Leaves
  /\ heap' = [a \in Addr |-> IF a = header[o].pointer THEN Block(Closed(Slots(o), o, i, last))
                             ELSE IF a \in X THEN Free ELSE heap[a]]
  /\ header' = [header EXCEPT ![o].length = Length(o) - 1]

\* What the elements of o are after it.
ClosedSlots(o, i, t) ==
  \A j \in 1..(Length(o) - 1) : t[j] = IF j < i THEN Slots(o)[j] ELSE Slots(o)[j + 1]

LEMMA ClosedForm ==
  ASSUME IInv, NEW o \in Buffers, NEW i \in 1..Length(o), NEW last, NEW X, Closing(o, i, last, X)
  PROVE  \E t : /\ Rewritten(o, header[o].pointer, t, Length(o) - 1, header[o].capacity, X)
                /\ ClosedSlots(o, i, t)
<1> DEFINE t == Closed(Slots(o), o, i, last)
           p == header[o].pointer
<1>1. i \in Nat /\ i >= 1 /\ i <= Length(o) /\ Length(o) \in Nat /\ header[o].capacity \in Nat
      /\ Length(o) <= header[o].capacity /\ p # Null
  BY HeaderFacts
<1>3. p \in Addr /\ heap[p] = Block(Slots(o)) /\ heap[p].slots = Slots(o) /\ p \notin X
      /\ Len(Slots(o)) = header[o].capacity /\ Slots(o) \in [1..header[o].capacity -> Slot(o)]
  BY <1>1, BlockFacts DEF Closing
<1>4. t = [j \in 1..header[o].capacity |->
             IF j \in i..(Length(o) - 1) THEN Slots(o)[j + 1]
             ELSE IF j = Length(o) THEN last ELSE Slots(o)[j]]
  BY <1>3 DEF Closed
<1>5. heap' = [a \in Addr |-> IF a = p THEN Block(t) ELSE IF a \in X THEN Free ELSE heap[a]]
  BY DEF Closing
<1> HIDE DEF t
<1>6. t \in [1..header[o].capacity -> Slot(o)]
  <2>1. ASSUME NEW j \in 1..header[o].capacity
        PROVE  (IF j \in i..(Length(o) - 1) THEN Slots(o)[j + 1]
                ELSE IF j = Length(o) THEN last ELSE Slots(o)[j]) \in Slot(o)
    <3>1. j \in i..(Length(o) - 1) => j + 1 \in 1..header[o].capacity
      BY <1>1
    <3> QED BY <1>3, <3>1 DEF Closing
  <2> QED BY <1>4, <2>1
<1>7. ASSUME NEW j \in 1..(Length(o) - 1)
      PROVE  /\ t[j] = IF j < i THEN Slots(o)[j] ELSE Slots(o)[j + 1]
             /\ t[j] \in Proper(o)
  <2>0. j \in 1..header[o].capacity /\ j \in 1..Length(o) /\ j + 1 \in 1..Length(o) /\ ~(j = Length(o))
    BY <1>1
  <2>1. CASE j < i
    <3>1. j \notin i..(Length(o) - 1)
      BY <1>1, <2>1
    <3>2. t[j] = Slots(o)[j]
      BY <1>4, <2>0, <3>1
    <3> QED BY <2>0, <2>1, <3>2, BufferFacts
  <2>2. CASE ~(j < i)
    <3>1. j \in i..(Length(o) - 1)
      BY <1>1, <2>2
    <3>2. t[j] = Slots(o)[j + 1]
      BY <1>4, <2>0, <3>1
    <3> QED BY <2>0, <2>2, <3>2, BufferFacts
  <2> QED BY <2>1, <2>2
<1>8. ASSUME NEW n, n = Length(o) - 1
      PROVE  Rewritten(o, p, t, n, header[o].capacity, X)
  <2>1. n \in Nat /\ n <= header[o].capacity
    BY <1>1, <1>8
  <2>2. \A j \in 1..n : t[j] \in Proper(o)
    BY <1>7, <1>8
  <2>3. header' = [header EXCEPT ![o].length = n] /\ X \in SUBSET Leaves
    BY <1>8 DEF Closing
  <2> QED BY <1>1, <1>5, <1>6, <2>1, <2>2, <2>3, InPlace
<1>9. ClosedSlots(o, i, t)
  BY <1>7 DEF ClosedSlots
<1> QED BY <1>8, <1>9

\* The steps that move element i of o into v.
Removes(o, i, v) == RemoveMoveInto(o, i, v) \/ RemoveMove(o, i, v)

LEMMA RemoveForm ==
  ASSUME IInv, NEW o \in Buffers, NEW i \in 1..Length(o), NEW v \in VariablesOf(o), Removes(o, i, v)
  PROVE  /\ value[v] = Zero(v) /\ value' = [value EXCEPT ![v] = Slots(o)[i]] /\ region' = region
         /\ \E t : /\ Rewritten(o, header[o].pointer, t, Length(o) - 1, header[o].capacity, {})
                   /\ ClosedSlots(o, i, t)
<1>1. value[v] = Zero(v) /\ value' = [value EXCEPT ![v] = Slots(o)[i]] /\ region' = region /\ Shorten(o)
  BY DEF Removes, RemoveMoveInto, RemoveMove, Shorten
<1> DEFINE p == header[o].pointer
<1>2. p # Null
  BY HeaderFacts
<1>3. p \in Addr /\ heap[p] = Block(Slots(o)) /\ heap[p].slots = Slots(o)
  BY <1>2, BlockFacts
<1>4. PICK last \in Slot(o) : heap' = [heap EXCEPT ![p].slots = Closed(Slots(o), o, i, last)]
  <2>1. Zero(o) \in Slot(o) /\ Slots(o)[i] \in Slot(o)
    BY ZeroOwnsNothing, BufferFacts
  <2>2. CASE RemoveMoveInto(o, i, v)
    <3>1. heap' = [heap EXCEPT ![p].slots = Closed(Slots(o), o, i, Zero(o))]
      BY <1>3, <2>2 DEF RemoveMoveInto
    <3> QED BY <2>1, <3>1
  <2>3. CASE RemoveMove(o, i, v)
    <3> DEFINE last == IF i = Length(o) THEN Slots(o)[i] ELSE Zero(o)
    <3>1. heap' = [heap EXCEPT ![p].slots = Closed(Slots(o), o, i, last)]
      BY <1>3, <2>3 DEF RemoveMove
    <3>2. last \in Slot(o)
      BY <2>1
    <3> HIDE DEF last
    <3> QED BY <3>1, <3>2
  <2> QED BY <2>2, <2>3 DEF Removes
<1>5. heap' = [a \in Addr |-> IF a = p THEN Block(Closed(Slots(o), o, i, last))
                              ELSE IF a \in {} THEN Free ELSE heap[a]]
  <2> DEFINE t == Closed(Slots(o), o, i, last)
  <2>1. heap' = [heap EXCEPT ![p] = [heap[p] EXCEPT !.slots = t]]
    BY <1>4
  <2> HIDE DEF t
  <2>2. [heap[p] EXCEPT !.slots = t] = Block(t)
    BY <1>3 DEF Block
  <2>3. heap = [a \in Addr |-> heap[a]]
    BY DEF IInv, HeapOK
  <2> QED BY <1>3, <2>1, <2>2, <2>3 DEF t
<1>6. header' = [header EXCEPT ![o].length = Length(o) - 1]
  BY <1>1 DEF Shorten, Length
<1>7. Closing(o, i, last, {})
  BY <1>4, <1>5, <1>6 DEF Closing
<1> QED BY <1>1, <1>7, ClosedForm

\* What the later places of the buffer own once the gap at i is closed.
LEMMA ClosedHoldings ==
  ASSUME IInv, NEW o \in Buffers, NEW i \in 1..Length(o), NEW t, ClosedSlots(o, i, t),
         BuffersHold(o, t, Length(o) - 1)
  PROVE  \A j \in 1..MaxCapacity :
           Holdings'[<<o, j>>] = IF j < i THEN Holdings[<<o, j>>]
                                 ELSE IF j < Length(o) THEN Holdings[<<o, j + 1>>] ELSE {}
<1>0. Length(o) \in Nat /\ Length(o) <= MaxCapacity /\ MaxCapacity \in Nat
  BY HeaderFacts
<1> TAKE j \in 1..MaxCapacity
<1>1. Holdings'[<<o, j>>] = IF j <= Length(o) - 1 THEN Owned(t[j]) ELSE {}
  BY DEF BuffersHold
<1>2. CASE j < i /\ j <= Length(o) - 1
  <2>1. j \in 1..(Length(o) - 1) /\ j \in 1..Length(o)
    BY <1>0, <1>2
  <2>2. t[j] = Slots(o)[j]
    BY <1>2, <2>1 DEF ClosedSlots
  <2>3. Holdings[<<o, j>>] = Owned(Slots(o)[j])
    BY <2>1, BufferFacts
  <2> QED BY <1>1, <1>2, <2>2, <2>3
<1>3. CASE ~(j < i) /\ j < Length(o)
  <2>1. j \in 1..(Length(o) - 1) /\ j + 1 \in 1..Length(o) /\ j <= Length(o) - 1
    BY <1>0, <1>3
  <2>2. t[j] = Slots(o)[j + 1]
    BY <1>3, <2>1 DEF ClosedSlots
  <2>3. Holdings[<<o, j + 1>>] = Owned(Slots(o)[j + 1])
    BY <2>1, BufferFacts
  <2> QED BY <1>1, <1>3, <2>1, <2>2, <2>3
<1>4. CASE ~(j < i) /\ ~(j < Length(o))
  <2>1. ~(j <= Length(o) - 1)
    BY <1>0, <1>4
  <2> QED BY <1>1, <1>4, <2>1
<1> QED BY <1>0, <1>2, <1>3, <1>4

LEMMA RemoveStep ==
  ASSUME IInv, NEW o \in Buffers, NEW i \in 1..Length(o), NEW v \in VariablesOf(o), Removes(o, i, v)
  PROVE  IInv'
<1> DEFINE k == Length(o)
<1>0. k \in Nat /\ k <= MaxCapacity
  BY HeaderFacts
<1>1. PICK t : /\ Rewritten(o, header[o].pointer, t, k - 1, header[o].capacity, {})
               /\ ClosedSlots(o, i, t)
  BY RemoveForm
<1>2. value[v] = Zero(v) /\ value' = [value EXCEPT ![v] = Slots(o)[i]] /\ region' = region
  BY RemoveForm
<1>3. HeapOK' /\ BuffersOK' /\ OwnPointers' /\ Leaves' = Leaves /\ BuffersHold(o, t, k - 1)
  <2>1. Leaves' = Leaves \ {} /\ HeapOK' /\ BuffersOK' /\ OwnPointers' /\ BuffersHold(o, t, k - 1)
    BY <1>1, BufferChange
  <2> QED BY <2>1
<1>4. v \in Variables /\ v # o /\ value = [w \in Variables |-> value[w]]
  BY TypesAgree, ValueFacts
<1>5. value'[v] = Slots(o)[i] /\ \A w \in Variables : w # v => value'[w] = value[w]
  BY <1>2, <1>4
<1>6. ValuesOK'
  <2>1. Slots(o)[i] \in Proper(v)
    BY BufferFacts, SameType
  <2> QED BY <1>2, <1>4, <1>5, <2>1 DEF IInv, ValuesOK
<1>7. RegionOK' /\ RegionSet' = RegionSet
  BY <1>2 DEF IInv, RegionOK, RegionSet
<1>8. <<v, 0>> \in Places /\ <<v, 0>>[1] # o /\ Holdings[<<v, 0>>] = {}
      /\ Holdings'[<<v, 0>>] = Holdings[<<o, i>>]
  <2>1. Holdings[<<o, i>>] = Owned(Slots(o)[i])
    BY BufferFacts
  <2> QED BY <1>2, <1>4, <1>5, <2>1, HoldingOf, HoldingNext, ZeroOwnsNothing
<1>9. \A q \in Places : q[1] # o /\ q # <<v, 0>> => Holdings'[q] = Holdings[q]
  <2> TAKE q \in Places
  <2> HAVE q[1] # o /\ q # <<v, 0>>
  <2>1. CASE q[1] \in Variables /\ q = <<q[1], 0>>
    <3>1. q[1] # v
      BY <2>1
    <3> QED BY <1>5, <2>1, <3>1, HoldingOf, HoldingNext
  <2>2. CASE q[1] \in Buffers /\ q[2] \in 1..MaxCapacity /\ q = <<q[1], q[2]>>
    BY <1>3, <2>2 DEF BuffersHold
  <2> QED BY <2>1, <2>2, PlaceCases
<1>10. ClosedUp(Holdings, Holdings', o, i, k)
  <2>1. \A j \in 1..MaxCapacity : j > k => Holdings[<<o, j>>] = {}
    BY BufferFacts
  <2> QED BY <1>1, <1>3, <2>1, ClosedHoldings DEF ClosedUp
<1> HIDE DEF k
<1>11. i \in 1..k /\ Partition(Holdings, RegionSet, Leaves)
  BY DEF k, IInv
<1>12. Partition(Holdings', RegionSet, Leaves)
  <2> DEFINE z == <<v, 0>>
  <2>1. z \in Places /\ z[1] # o /\ Holdings[z] = {} /\ Holdings'[z] = Holdings[<<o, i>>]
        /\ \A q \in Places : q[1] # o /\ q # z => Holdings'[q] = Holdings[q]
    BY <1>8, <1>9
  <2> HIDE DEF z
  <2> QED BY <1>0, <1>10, <1>11, <2>1, ClosedPartition
<1> QED BY <1>3, <1>6, <1>7, <1>12 DEF IInv

LEMMA DropForm ==
  ASSUME IInv, NEW o \in Buffers, NEW i \in 1..Length(o), DropAt(o, i)
  PROVE  \E t : /\ Rewritten(o, header[o].pointer, t, Length(o) - 1, header[o].capacity,
                             Owned(Slots(o)[i]))
                /\ ClosedSlots(o, i, t)
<1> DEFINE p == header[o].pointer
           X == Owned(Slots(o)[i])
<1>1. p # Null
  BY HeaderFacts
<1>2. X \in SUBSET Leaves
  BY BufferFacts
<1>3. p \in Addr /\ heap[p] = Block(Slots(o)) /\ heap[p].slots = Slots(o) /\ p \notin X
  BY <1>1, <1>2, BlockFacts
<1>4. heap' = [a \in Addr |-> IF a = p THEN Block(Closed(Slots(o), o, i, Zero(o)))
                              ELSE IF a \in X THEN Free ELSE heap[a]]
  <2> DEFINE h == Released(heap, X)
             t == Closed(Slots(o), o, i, Zero(o))
  <2>1. h = [a \in Addr |-> IF a \in X THEN Free ELSE heap[a]] /\ h[p] = Block(Slots(o))
    BY <1>3 DEF Released
  <2>2. h[p].slots = Slots(o)
    BY <2>1, Kinds
  <2> HIDE DEF h, X
  <2>3. heap' = [h EXCEPT ![p].slots = Closed(h[p].slots, o, i, Zero(o))]
    BY DEF DropAt, h, X
  <2>4. heap' = [h EXCEPT ![p] = [h[p] EXCEPT !.slots = t]]
    BY <2>2, <2>3
  <2> HIDE DEF t
  <2>5. [h[p] EXCEPT !.slots = t] = Block(t)
    BY <2>1 DEF Block
  <2>6. heap' = [a \in Addr |-> IF a = p THEN Block(t) ELSE IF a \in X THEN Free ELSE heap[a]]
    BY <1>3, <2>1, <2>4, <2>5
  <2> QED BY <2>6 DEF t
<1>5. header' = [header EXCEPT ![o].length = Length(o) - 1]
  BY DEF DropAt, Shorten, Length
<1> HIDE DEF X
<1>6. Closing(o, i, Zero(o), X)
  BY <1>2, <1>4, <1>5, ZeroOwnsNothing DEF Closing
<1> QED BY <1>6, ClosedForm DEF X

LEMMA DropStep ==
  ASSUME IInv, NEW o \in Buffers, NEW i \in 1..Length(o), DropAt(o, i)
  PROVE  IInv'
<1> DEFINE k == Length(o)
           X == Owned(Slots(o)[i])
           W == [q \in Places |-> IF q = <<o, i>> THEN {} ELSE Holdings[q]]
           z == <<o, 0>>
<1>0. k \in Nat /\ k <= MaxCapacity /\ MaxCapacity \in Nat /\ i \in 1..MaxCapacity
  BY HeaderFacts
<1>1. PICK t : /\ Rewritten(o, header[o].pointer, t, k - 1, header[o].capacity, X)
               /\ ClosedSlots(o, i, t)
  BY DropForm
<1>2. HeapOK' /\ BuffersOK' /\ OwnPointers' /\ Leaves' = Leaves \ X /\ BuffersHold(o, t, k - 1)
  BY <1>1, BufferChange
<1>3. value' = value /\ region' = region
  BY DEF DropAt, Shorten
<1>4. <<o, i>> \in Places /\ Holdings[<<o, i>>] = X /\ z \notin Places
  <2>1. z \notin Places
    BY NamesAssumption, <1>0 DEF Places
  <2> QED BY <1>0, <2>1, HoldingOf, BufferFacts
<1>5. Partition(W, RegionSet, Leaves \ X)
  <2> DEFINE Q == {<<o, i>>}
  <2>1. Q \in SUBSET Places /\ UNION {Holdings[q] : q \in Q} = X
    BY <1>4
  <2>2. \A q \in Places : W[q] = IF q \in Q THEN {} ELSE Holdings[q]
    OBVIOUS
  <2> HIDE DEF W, Q, X
  <2>3. Partition(W, RegionSet, Leaves \ UNION {Holdings[q] : q \in Q})
    BY <2>1, <2>2, Dropped DEF IInv
  <2> QED BY <2>1, <2>3
<1>6. \A q \in Places : q[1] # o => W[q] = Holdings[q]
  OBVIOUS
<1>7. \A j \in 1..MaxCapacity : W[<<o, j>>] = IF j = i THEN {} ELSE Holdings[<<o, j>>]
  <2> TAKE j \in 1..MaxCapacity
  <2>1. <<o, j>> \in Places
    BY HoldingOf
  <2> QED BY <2>1
<1> HIDE DEF W
<1>8. \A q \in Places : q[1] # o => Holdings'[q] = W[q]
  <2> TAKE q \in Places
  <2> HAVE q[1] # o
  <2>1. CASE q[1] \in Variables /\ q = <<q[1], 0>>
    BY <1>3, <1>6, <2>1, VariableHoldings
  <2>2. CASE q[1] \in Buffers /\ q[2] \in 1..MaxCapacity /\ q = <<q[1], q[2]>>
    <3>1. Holdings'[<<q[1], q[2]>>] = Holdings[<<q[1], q[2]>>]
      BY <1>2, <2>2 DEF BuffersHold
    <3> QED BY <1>6, <2>2, <3>1
  <2> QED BY <2>1, <2>2, PlaceCases
<1>9. ClosedUp(W, Holdings', o, i, k)
  <2>1. \A j \in 1..MaxCapacity : j > k => W[<<o, j>>] = {}
    BY <1>7, BufferFacts
  <2>2. \A j \in 1..MaxCapacity :
           Holdings'[<<o, j>>] = IF j < i THEN Holdings[<<o, j>>]
                                 ELSE IF j < k THEN Holdings[<<o, j + 1>>] ELSE {}
    BY <1>1, <1>2, ClosedHoldings
  <2>3. ASSUME NEW j \in 1..MaxCapacity
        PROVE  Holdings'[<<o, j>>] = IF j < i THEN W[<<o, j>>]
                                     ELSE IF j < k THEN W[<<o, j + 1>>] ELSE {}
    <3>1. CASE j < i
      <4>1. ~(j = i)
        BY <1>0, <3>1
      <4> QED BY <1>7, <2>2, <3>1, <4>1
    <3>2. CASE ~(j < i) /\ j < k
      <4>1. j + 1 \in 1..MaxCapacity /\ ~(j + 1 = i)
        BY <1>0, <3>2
      <4>2. W[<<o, j + 1>>] = Holdings[<<o, j + 1>>]
        BY <1>7, <4>1
      <4>3. Holdings'[<<o, j>>] = Holdings[<<o, j + 1>>]
        BY <2>2, <3>2
      <4> QED BY <3>2, <4>2, <4>3
    <3>3. CASE ~(j < i) /\ ~(j < k)
      BY <2>2, <3>3
    <3> QED BY <3>1, <3>2, <3>3
  <2> QED BY <2>1, <2>3 DEF ClosedUp
<1> HIDE DEF k, z, X
<1>10. i \in 1..k /\ W[<<o, i>>] = {}
  BY <1>0, <1>7 DEF k
<1>11. \A q \in Places : q[1] # o /\ q # z => Holdings'[q] = W[q]
  BY <1>8
<1>12. Partition(Holdings', RegionSet, Leaves \ X)
  BY <1>0, <1>4, <1>5, <1>9, <1>10, <1>11, ClosedPartition
<1> QED BY <1>2, <1>3, <1>12, BufferOnly

\* A buffer that gives up its block and what its elements own.
LEMMA DestroyForm ==
  ASSUME IInv, NEW o \in Buffers, Destroy(o)
  PROVE  /\ HeapOK' /\ BuffersOK' /\ OwnPointers' /\ Leaves' = Leaves \ OwnedFrom(o, 1)
         /\ \A p \in Buffers, j \in 1..MaxCapacity :
              Holdings'[<<p, j>>] = IF p = o THEN {} ELSE Holdings[<<p, j>>]
         /\ header'[o] = EMPTY /\ \A p \in Buffers : p # o => header'[p] = header[p]
         /\ \A a \in Addr : a \notin OwnedFrom(o, 1) /\ a # header[o].pointer => heap'[a] = heap[a]
         /\ header[o].pointer \in Addr
<1> DEFINE X == OwnedFrom(o, 1)
           b == header[o].pointer
<1>0. HeapOK /\ OwnPointers /\ header = [p \in Buffers |-> header[p]] /\ \A p \in Buffers : BufferOK(p)
  BY DEF IInv, BuffersOK
<1>1. b # Null
  BY <1>0 DEF Destroy, BufferOK
<1>2. X \in SUBSET Leaves
  <2>1. OwnedFrom(o, 0 + 1) \in SUBSET Leaves
    BY OwnedFromLeaves
  <2> QED BY <2>1
<1>3. b \in Addr /\ b \notin Leaves /\ heap[b].kind = "slots"
  BY <1>1, BlockFacts, Kinds
<1>4. heap' = [a \in Addr |-> IF a \in X \cup {b} THEN Free ELSE heap[a]]
  BY DEF Destroy, Released
<1>5. header'[o] = EMPTY /\ header' = [p \in Buffers |-> header'[p]]
      /\ \A p \in Buffers : p # o => header'[p] = header[p]
  BY <1>0 DEF Destroy
<1> HIDE DEF X
<1>6. HeapOK'
  BY <1>0, <1>4 DEF HeapOK
<1>7. \A p \in Buffers : header[p].pointer # Null =>
        header[p].pointer \in Addr /\ heap[header[p].pointer].kind = "slots"
  BY <1>0 DEF BufferOK
<1>8. ASSUME NEW p \in Buffers, p # o, header[p].pointer # Null
      PROVE  heap'[header[p].pointer] = heap[header[p].pointer]
  <2>1. header[p].pointer # b
    BY <1>0, <1>8 DEF OwnPointers
  <2>2. header[p].pointer \notin X
    BY <1>2, <1>7, <1>8, Kinds DEF Leaves
  <2> QED BY <1>4, <1>7, <1>8, <2>1, <2>2
<1>9. BufferOK(o)'
  BY <1>5, HeapAssumption DEF BufferOK, EMPTY
<1>10. BuffersOK'
  BY <1>0, <1>5, <1>8, <1>9, BufferFrame DEF BuffersOK
<1>11. OwnPointers'
  <2>1. ASSUME NEW p \in Buffers, NEW q \in Buffers, header'[p].pointer = header'[q].pointer,
               header'[p].pointer # Null
        PROVE  p = q
    BY <1>0, <1>5, <2>1 DEF OwnPointers, EMPTY
  <2>2. ASSUME NEW a \in Addr, heap'[a].kind = "slots"
        PROVE  \E p \in Buffers : header'[p].pointer = a
    <3>1. a # b /\ heap[a].kind = "slots"
      BY <1>4, <2>2, Kinds
    <3> QED BY <1>0, <1>5, <3>1 DEF OwnPointers
  <2> QED BY <2>1, <2>2 DEF OwnPointers
<1>12. Leaves' = Leaves \ X
  BY <1>3, <1>4, Kinds DEF Leaves
<1>13. \A p \in Buffers, j \in 1..MaxCapacity :
         Holdings'[<<p, j>>] = IF p = o THEN {} ELSE Holdings[<<p, j>>]
  <2> TAKE p \in Buffers, j \in 1..MaxCapacity
  <2>1. CASE p = o
    <3>1. Length(o)' = 0
      BY <1>5 DEF Length, EMPTY
    <3>2. ~(j <= 0)
      BY HeapAssumption
    <3> QED BY <2>1, <3>1, <3>2, HoldingNext
  <2>2. CASE p # o
    BY <1>0, <1>5, <1>8, <2>2, BufferFrame
  <2> QED BY <2>1, <2>2
<1>14. \A a \in Addr : a \notin X /\ a # b => heap'[a] = heap[a]
  BY <1>4
<1> QED BY <1>3, <1>5, <1>6, <1>10, <1>11, <1>12, <1>13, <1>14 DEF X

LEMMA DestroyStep ==
  ASSUME IInv, NEW o \in Buffers, Destroy(o)
  PROVE  IInv'
<1> DEFINE Q == {<<o, j>> : j \in 1..Length(o)}
           X == OwnedFrom(o, 1)
<1>0. Length(o) \in Nat /\ Length(o) <= MaxCapacity /\ MaxCapacity \in Nat
  BY HeaderFacts
<1>1. HeapOK' /\ BuffersOK' /\ OwnPointers' /\ Leaves' = Leaves \ X
      /\ \A p \in Buffers, j \in 1..MaxCapacity :
           Holdings'[<<p, j>>] = IF p = o THEN {} ELSE Holdings[<<p, j>>]
  BY DestroyForm
<1>2. value' = value /\ region' = region
  BY DEF Destroy
<1>3. Q \in SUBSET Places /\ X = UNION {Holdings[q] : q \in Q}
  <2>1. OwnedFrom(o, 0 + 1) = UNION {Holdings[q] : q \in {<<o, j>> : j \in (0 + 1)..Length(o)}}
    BY OwnedFromLeaves
  <2> QED BY <1>0, <2>1, HoldingOf
<1>4. \A q \in Places : Holdings'[q] = IF q \in Q THEN {} ELSE Holdings[q]
  <2> TAKE q \in Places
  <2>1. CASE q[1] \in Variables /\ q = <<q[1], 0>> /\ q[1] \notin Buffers
    <3>1. q \notin Q
      BY <2>1
    <3> QED BY <1>2, <2>1, <3>1, VariableHoldings
  <2>2. ASSUME NEW p \in Buffers, NEW j \in 1..MaxCapacity, q = <<p, j>>
        PROVE  Holdings'[q] = IF q \in Q THEN {} ELSE Holdings[q]
    <3>1. q \in Q <=> p = o /\ j \in 1..Length(o)
      BY <2>2
    <3>2. p = o /\ j \notin 1..Length(o) => Holdings[q] = {}
      <4> SUFFICES ASSUME p = o, j \notin 1..Length(o) PROVE Holdings[<<o, j>>] = {}
        BY <2>2
      <4>1. ~(j <= Length(o))
        BY <1>0
      <4> QED BY <4>1, HoldingOf
    <3> QED BY <1>1, <2>2, <3>1, <3>2
  <2> QED BY <2>1, <2>2, PlaceCases
<1> HIDE DEF X, Q
<1>5. Partition(Holdings', RegionSet, Leaves \ UNION {Holdings[q] : q \in Q})
  BY <1>3, <1>4, Dropped DEF IInv
<1> QED BY <1>1, <1>2, <1>3, <1>5, BufferOnly

-----------------------------------------------------------------------------
(* The invariant is inductive.                                             *)

LEMMA ProgramStep ==
  ASSUME IInv, ProgramNext
  PROVE  IInv'
<1>1. CASE \E v \in Variables : DropVariable(v)
  BY <1>1, DropVariableStep
<1>2. CASE \E v \in Variables, a \in FreeAddr, d \in Data : BuildLeaf(v, a, d)
  BY <1>2, BuildLeafStep
<1>3. CASE \E v \in Variables, tag \in {0, 1}, bits \in Addr, d \in Data : BuildCarrier(v, tag, bits, d)
  BY <1>3, BuildCarrierStep
<1>4. CASE \E v \in Variables, tag \in {0, 1}, bits \in Addr, d \in Data :
             \E first \in FreeAddr : BuildRecord(v, tag, first, bits, d)
  BY <1>4, BuildRecordStep
<1>5. CASE \E a \in FreeAddr : RegionCreate(a)
  BY <1>5, RegionCreateStep
<1>6. CASE \E a \in FreeAddr : \E reserved \in BOOLEAN : RegionAllocate(a, reserved)
  BY <1>6, RegionAllocateStep
<1>7. CASE RegionDestroy
  BY <1>7, RegionDestroyStep
<1> QED BY <1>1, <1>2, <1>3, <1>4, <1>5, <1>6, <1>7 DEF ProgramNext

LEMMA BufferStep ==
  ASSUME IInv, NEW o \in Buffers, BufferNext(o)
  PROVE  IInv'
<1>0. Length(o) \in Nat /\ MaxCapacity \in Nat
  BY HeaderFacts
<1>1. CASE \E c \in 1..MaxCapacity, a \in FreeAddr : BufferCreate(o, c, a)
  BY <1>1, BufferCreateStep
<1>2. CASE \E n \in 1..MaxCapacity : BufferReserve(o, n)
  BY <1>2, BufferReserveStep
<1>3. CASE \E n \in 0..MaxCapacity :
             ResizeMove(o, n) \/ ResizeMoveOwnedString(o, n) \/ ResizeMoveRecordFields(o, n)
  BY <1>3, GrowStep, ShrinkStep DEF ResizeMove, ResizeMoveOwnedString, ResizeMoveRecordFields
<1>4. CASE ClearMove(o)
  <2>1. 0 \in 0..MaxCapacity
    BY <1>0
  <2> QED BY <1>4, <2>1, ShrinkStep DEF ClearMove
<1>5. CASE \E i \in 1..(Length(o) + 1), v \in VariablesOf(o) :
             Length(o) < MaxCapacity /\ InsertMoveFrom(o, i, v)
  BY <1>5, InsertStep
<1>6. CASE \E i \in 1..Length(o), v \in VariablesOf(o) : RemoveMoveInto(o, i, v) \/ RemoveMove(o, i, v)
  BY <1>6, RemoveStep DEF Removes
<1>7. CASE Length(o) > 0 /\ \E v \in VariablesOf(o) : Pop(o, v)
  <2>1. Length(o) \in 1..Length(o)
    BY <1>0, <1>7
  <2> QED BY <1>7, <2>1, RemoveStep DEF Pop, Removes
<1>8. CASE \E i \in 1..Length(o) : RemoveDropNestedBuffer(o, i) \/ RemoveDropOwnedString(o, i)
                                   \/ RemoveDropRecordFields(o, i)
  BY <1>8, DropStep DEF RemoveDropNestedBuffer, RemoveDropOwnedString, RemoveDropRecordFields
<1>9. CASE DestroyNestedBuffer(o) \/ DestroyOwnedString(o) \/ DestroyCarrierBuffer(o)
           \/ DestroyRecordFields(o)
  BY <1>9, DestroyStep
     DEF DestroyNestedBuffer, DestroyOwnedString, DestroyCarrierBuffer, DestroyRecordFields
<1> QED BY <1>1, <1>2, <1>3, <1>4, <1>5, <1>6, <1>7, <1>8, <1>9 DEF BufferNext

LEMMA NextIInv ==
  ASSUME IInv, [Next]_vars
  PROVE  IInv'
<1>1. CASE UNCHANGED vars
  BY <1>1, StutterStep DEF vars
<1>2. CASE Next
  BY <1>2, ProgramStep, BufferStep DEF Next
<1> QED BY <1>1, <1>2

LEMMA InvariantHolds == Spec => []IInv
  BY InitIInv, NextIInv, PTL DEF Spec

-----------------------------------------------------------------------------
(* From the invariant to one reference per allocation.                     *)

\* The element in a place.
ElementAt(q) == IF q[1] \in Variables THEN value[q[1]] ELSE Slots(q[1])[q[2]]

\* A reference of buffer o itself, of a cell of the element in place q, of
\* the region.
BlockReference(r, o) ==
  header[o].pointer # Null /\ r = <<o, 0, 0>> /\ Target(r) = header[o].pointer

CellReference(r, q, c) ==
  /\ r = <<q[1], q[2], c>> /\ NoAlias(ElementAt(q)) /\ Owned(ElementAt(q)) = Holdings[q]
  /\ Owning(ElementAt(q), c) /\ Target(r) = ElementAt(q).cells[c]

RegionReference(r, a) == a \in RegionSet /\ r = <<"region", 0, a>> /\ Target(r) = a

LEMMA ReferenceCases ==
  ASSUME IInv, NEW r \in References
  PROVE  \/ \E o \in Buffers : BlockReference(r, o)
         \/ \E q \in Places, c \in {1, 2} : CellReference(r, q, c)
         \/ \E a : RegionReference(r, a)
<1>0. MaxCapacity \in Nat
  BY HeapAssumption
<1>1. ASSUME NEW o \in Buffers, header[o].pointer # Null, r = <<o, 0, 0>>
      PROVE  BlockReference(r, o)
  BY <1>1, NamesAssumption DEF Target, BlockReference
<1>2. ASSUME r \in Buffers \X (1..MaxCapacity) \X (1..2), r[2] <= Length(r[1]),
             Owning(Slots(r[1])[r[2]], r[3])
      PROVE  \E q \in Places, c \in {1, 2} : CellReference(r, q, c)
  <2>1. PICK o \in Buffers, j \in 1..MaxCapacity, c \in 1..2 : r = <<o, j, c>>
    BY <1>2
  <2>2. j \in 1..Length(o) /\ c \in {1, 2} /\ Owning(Slots(o)[j], c) /\ j # 0
    BY <1>0, <1>2, <2>1, HeaderFacts
  <2>3. Slots(o)[j] \in Proper(o) /\ Holdings[<<o, j>>] = Owned(Slots(o)[j]) /\ <<o, j>> \in Places
    BY <2>2, BufferFacts, HoldingOf
  <2>4. Target(r) = Slots(o)[j].cells[c]
    BY <2>1, <2>2, NamesAssumption DEF Target
  <2> DEFINE q == <<o, j>>
  <2>5. q[1] = o /\ q[2] = j /\ q \in Places /\ ElementAt(q) = Slots(o)[j]
    BY <2>3, NamesAssumption DEF ElementAt
  <2>6. NoAlias(Slots(o)[j])
    BY <2>3 DEF Proper
  <2> HIDE DEF q
  <2> QED BY <2>1, <2>2, <2>3, <2>4, <2>5, <2>6 DEF q, CellReference
<1>3. ASSUME r \in Variables \X {0} \X (1..2), Owning(value[r[1]], r[3])
      PROVE  \E q \in Places, c \in {1, 2} : CellReference(r, q, c)
  <2>1. PICK v \in Variables, c \in 1..2 : r = <<v, 0, c>>
    BY <1>3
  <2>2. c \in {1, 2} /\ Owning(value[v], c)
    BY <1>3, <2>1
  <2>3. value[v] \in Proper(v) /\ Holdings[<<v, 0>>] = Owned(value[v]) /\ <<v, 0>> \in Places
    BY ValueFacts, HoldingOf
  <2>4. Target(r) = value[v].cells[c]
    BY <2>1, NamesAssumption DEF Target
  <2> DEFINE q == <<v, 0>>
  <2>5. q[1] = v /\ q[2] = 0 /\ q \in Places /\ ElementAt(q) = value[v]
    BY <2>3 DEF ElementAt
  <2>6. NoAlias(value[v])
    BY <2>3 DEF Proper
  <2> HIDE DEF q
  <2> QED BY <2>1, <2>2, <2>3, <2>4, <2>5, <2>6 DEF q, CellReference
<1>4. ASSUME NEW a \in RegionSet, r = <<"region", 0, a>> PROVE RegionReference(r, a)
  BY <1>4 DEF Target, RegionReference
<1> QED BY <1>1, <1>2, <1>3, <1>4 DEF References, RegionSet

LEMMA ReferenceTargets ==
  ASSUME IInv, NEW r
  PROVE  /\ \A o \in Buffers : BlockReference(r, o) => Target(r) \in Addr /\ heap[Target(r)].kind = "slots"
         /\ \A q \in Places, c \in {1, 2} :
              CellReference(r, q, c) => Target(r) \in Holdings[q] /\ Target(r) \in Leaves
         /\ \A a : RegionReference(r, a) => Target(r) \in RegionSet /\ Target(r) \in Leaves
<1>1. ASSUME NEW o \in Buffers, BlockReference(r, o)
      PROVE  Target(r) \in Addr /\ heap[Target(r)].kind = "slots"
  <2>1. header[o].pointer # Null /\ Target(r) = header[o].pointer
    BY <1>1 DEF BlockReference
  <2> QED BY <2>1, BlockFacts, Kinds
<1>2. ASSUME NEW q \in Places, NEW c \in {1, 2}, CellReference(r, q, c)
      PROVE  Target(r) \in Holdings[q] /\ Target(r) \in Leaves
  <2>1. Target(r) \in Owned(ElementAt(q))
    BY <1>2 DEF CellReference, Owning, Owned
  <2> QED BY <1>2, <2>1 DEF CellReference, IInv, Partition
<1>3. ASSUME NEW a, RegionReference(r, a)
      PROVE  Target(r) \in RegionSet /\ Target(r) \in Leaves
  BY <1>3 DEF RegionReference, IInv, Partition
<1> QED BY <1>1, <1>2, <1>3

LEMMA TargetInjective ==
  ASSUME IInv, NEW r \in References, NEW s \in References, Target(r) = Target(s)
  PROVE  r = s
<1>0. Partition(Holdings, RegionSet, Leaves) /\ OwnPointers
  BY DEF IInv
<1>1. ASSUME NEW o \in Buffers, BlockReference(r, o) PROVE r = s
  <2>1. Target(s) \notin Leaves /\ heap[Target(s)].kind = "slots"
    BY <1>1, ReferenceTargets DEF Leaves
  <2>2. PICK p \in Buffers : BlockReference(s, p)
    BY <2>1, ReferenceCases, ReferenceTargets
  <2> QED BY <1>0, <1>1, <2>2 DEF OwnPointers, BlockReference
<1>2. ASSUME NEW q \in Places, NEW c \in {1, 2}, CellReference(r, q, c) PROVE r = s
  <2>1. Target(s) \in Leaves /\ Target(s) \in Holdings[q]
    BY <1>2, ReferenceTargets
  <2>2. ~\E p \in Buffers : BlockReference(s, p)
    BY <2>1, ReferenceTargets DEF Leaves
  <2>3. ~\E a : RegionReference(s, a)
    BY <1>0, <2>1, ReferenceTargets DEF Partition
  <2>4. PICK p \in Places, k \in {1, 2} : CellReference(s, p, k)
    BY <2>2, <2>3, ReferenceCases
  <2>5. p = q
    <3>1. Target(s) \in Holdings[p]
      BY <2>4, ReferenceTargets
    <3> QED BY <1>0, <2>1, <3>1 DEF Partition
  <2>6. /\ Owning(ElementAt(q), c) /\ Owning(ElementAt(q), k)
        /\ ElementAt(q).cells[c] = ElementAt(q).cells[k] /\ NoAlias(ElementAt(q))
    BY <1>2, <2>4, <2>5 DEF CellReference
  <2>7. c = k
    BY <2>6 DEF NoAlias, Owning
  <2> QED BY <1>2, <2>4, <2>5, <2>7 DEF CellReference
<1>3. ASSUME NEW a, RegionReference(r, a) PROVE r = s
  <2>1. Target(s) \in Leaves /\ Target(s) \in RegionSet
    BY <1>3, ReferenceTargets
  <2>2. ~\E p \in Buffers : BlockReference(s, p)
    BY <2>1, ReferenceTargets DEF Leaves
  <2>3. ~\E q \in Places, c \in {1, 2} : CellReference(s, q, c)
    BY <1>0, <2>1, ReferenceTargets DEF Partition
  <2>4. PICK b : RegionReference(s, b)
    BY <2>2, <2>3, ReferenceCases
  <2> QED BY <1>3, <2>4 DEF RegionReference
<1> QED BY <1>1, <1>2, <1>3, ReferenceCases

\* Every allocation that is not free is some reference's target.
LEMMA AllocationReferenced ==
  ASSUME IInv, NEW a \in Addr, a \notin FreeAddr
  PROVE  \E r \in References : Target(r) = a
<1>0. HeapOK /\ OwnPointers /\ Partition(Holdings, RegionSet, Leaves)
  BY DEF IInv
<1>1. heap[a].kind = "slots" \/ a \in Leaves
  BY <1>0, HeapKinds DEF FreeAddr, Leaves
<1>2. CASE heap[a].kind = "slots"
  <2>1. PICK o \in Buffers : header[o].pointer = a
    BY <1>0, <1>2 DEF OwnPointers
  <2> DEFINE r == <<o, 0, 0>>
  <2>2. a # Null
    BY HeapAssumption
  <2>3. r \in References
    BY <2>1, <2>2 DEF References
  <2>4. Target(r) = a
    BY <2>1, NamesAssumption DEF Target
  <2> QED BY <2>3, <2>4
<1>3. CASE a \in RegionSet
  <2> DEFINE r == <<"region", 0, a>>
  <2>1. r \in References
    BY <1>3 DEF References, RegionSet
  <2>2. Target(r) = a
    BY DEF Target
  <2> QED BY <2>1, <2>2
<1>4. CASE \E q \in Places : a \in Holdings[q]
  <2>1. PICK q \in Places : a \in Holdings[q]
    BY <1>4
  <2>2. ASSUME NEW p, NEW el, el \in Proper(p), a \in Owned(el)
        PROVE  \E c \in 1..2 : Owning(el, c) /\ el.cells[c] = a
    <3>1. ActiveCells(el) \subseteq 1..2
      BY <2>2, CellCount DEF Proper
    <3> QED BY <2>2, <3>1 DEF Owned, Owning
  <2>3. ASSUME NEW v \in Variables, q = <<v, 0>> PROVE \E r \in References : Target(r) = a
    <3>1. value[v] \in Proper(v) /\ a \in Owned(value[v])
      BY <2>1, <2>3, ValueFacts
    <3>2. PICK c \in 1..2 : Owning(value[v], c) /\ value[v].cells[c] = a
      BY <2>2, <3>1
    <3> DEFINE r == <<v, 0, c>>
    <3>3. r \in Variables \X {0} \X (1..2) /\ r[1] = v /\ r[2] = 0 /\ r[3] = c
      OBVIOUS
    <3>4. r \in References
      <4> HIDE DEF r
      <4> QED BY <3>2, <3>3 DEF References
    <3>5. Target(r) = a
      <4> HIDE DEF r
      <4> QED BY <3>2, <3>3, NamesAssumption DEF Target
    <3> QED BY <3>4, <3>5
  <2>4. ASSUME NEW o \in Buffers, NEW j \in 1..MaxCapacity, q = <<o, j>>
        PROVE  \E r \in References : Target(r) = a
    <3>0. Holdings[<<o, j>>] # {} /\ Length(o) \in Nat /\ MaxCapacity \in Nat
      BY <2>1, <2>4, HeaderFacts
    <3>1. j \in 1..Length(o) /\ j <= Length(o)
      <4>1. j > Length(o) => Holdings[<<o, j>>] = {}
        BY BufferFacts
      <4> QED BY <3>0, <4>1
    <3>2. Slots(o)[j] \in Proper(o) /\ a \in Owned(Slots(o)[j])
      BY <2>1, <2>4, <3>1, BufferFacts
    <3>3. PICK c \in 1..2 : Owning(Slots(o)[j], c) /\ Slots(o)[j].cells[c] = a
      BY <2>2, <3>2
    <3> DEFINE r == <<o, j, c>>
    <3>4. r \in Buffers \X (1..MaxCapacity) \X (1..2) /\ r[1] = o /\ r[2] = j /\ r[3] = c /\ r[2] # 0
      BY <3>0
    <3>5. r \in References
      <4> HIDE DEF r
      <4> QED BY <3>1, <3>3, <3>4 DEF References
    <3>6. Target(r) = a
      <4> HIDE DEF r
      <4> QED BY <3>3, <3>4, NamesAssumption DEF Target
    <3> QED BY <3>5, <3>6
  <2> QED BY <2>1, <2>3, <2>4, PlaceCases
<1> QED BY <1>0, <1>1, <1>2, <1>3, <1>4 DEF Partition

LEMMA OwnerOfIInv == IInv => ExactlyOneOwner
<1> SUFFICES ASSUME IInv PROVE ExactlyOneOwner
  OBVIOUS
<1> DEFINE T == Addr \ FreeAddr
           f == [r \in References |-> Target(r)]
<1>1. \A r \in References : Target(r) \in T
  BY ReferenceCases, ReferenceTargets, Kinds DEF Leaves, FreeAddr
<1>2. \A a \in T : \E r \in References : Target(r) = a
  BY AllocationReferenced
<1>3. {Target(r) : r \in References} = T
  BY <1>1, <1>2
<1>4. f \in Bijection(References, T)
  <2>1. f \in [References -> T]
    BY <1>1
  <2>2. \A r, s \in References : f[r] = f[s] => r = s
    BY TargetInjective
  <2>3. \A a \in T : \E r \in References : f[r] = a
    BY <1>2
  <2> HIDE DEF f, T
  <2> QED BY <2>1, <2>2, <2>3, Fun_IsBij
<1>5. IsFiniteSet(T)
  BY HeapAssumption, FS_Difference
<1>6. Cardinality(References) = Cardinality(T)
  <2> HIDE DEF f, T
  <2>1. ExistsBijection(References, T)
    BY <1>4, Fun_ExistsBij
  <2>2. ExistsBijection(T, References)
    BY <2>1, Fun_ExistsBijSymmetric
  <2> QED BY <1>5, <2>2, FS_Bijection
<1>7. \A o \in Buffers : header[o].pointer # Null => header[o].capacity = Len(Slots(o))
  BY BufferFacts
<1> QED BY <1>3, <1>6, <1>7 DEF ExactlyOneOwner

(* "the outer drop glue retains exactly one owner for each remaining nested *)
(* allocation": whatever sequence of builds, moves, removals, resizes,       *)
(* destructors and regions a program runs, and whichever allocations fail,   *)
(* every live allocation has exactly one owning reference, every owning      *)
(* reference a live allocation, and dealloc finds the capacity of the block. *)
THEOREM OneOwner == Spec => []ExactlyOneOwner
  BY InvariantHolds, OwnerOfIInv, PTL

-----------------------------------------------------------------------------
(* The buffers implement sequences of values.                              *)

\* What an element means in a given heap, and what the variables mean.
MeaningIn(h, el) ==
  [tag |-> el.tag,
   cells |-> [c \in 1..Len(el.cells) |->
                IF c \notin ActiveCells(el) THEN "bits"
                ELSE IF el.cells[c] = Null THEN "empty" ELSE h[el.cells[c]].data]]

Meanings == [v \in Variables |-> Meaning(value[v])]

LEMMA MeaningNow ==
  /\ \A v \in Variables : Meanings[v] = MeaningIn(heap, value[v])
  /\ \A o \in Buffers : Content[o] = [j \in 1..Length(o) |-> MeaningIn(heap, Slots(o)[j])]
  /\ Content = [o \in Buffers |-> Content[o]] /\ Meanings = [v \in Variables |-> Meanings[v]]
  BY DEF Meanings, Content, Meaning, MeaningIn

LEMMA MeaningNext ==
  /\ \A v \in Variables : Meanings'[v] = MeaningIn(heap', value'[v])
  /\ \A o \in Buffers : Content'[o] = [j \in 1..Length(o)' |-> MeaningIn(heap', Slots(o)'[j])]
  /\ Content' = [o \in Buffers |-> Content'[o]] /\ Meanings' = [v \in Variables |-> Meanings'[v]]
  BY DEF Meanings, Content, Meaning, MeaningIn

\* An element keeps its meaning while the allocations it owns are kept.
LEMMA SameMeaning ==
  ASSUME NEW el, NEW h, NEW g, \A a \in Owned(el) : g[a] = h[a]
  PROVE  MeaningIn(g, el) = MeaningIn(h, el)
<1>1. \A c \in ActiveCells(el) : el.cells[c] # Null => g[el.cells[c]] = h[el.cells[c]]
  BY DEF Owned
<1> QED BY <1>1 DEF MeaningIn

LEMMA ZeroMeans ==
  ASSUME NEW p, NEW h
  PROVE  MeaningIn(h, Zero(p)) = ZeroMeaning(p)
<1>1. Zero(p) \in Element(p)
  BY ZeroOwnsNothing DEF Proper
<1>2. /\ Zero(p).tag = 0 /\ Len(Zero(p).cells) = Width(p)
      /\ ActiveCells(Zero(p)) = {c \in 1..Width(p) : c <= Plain(p)}
      /\ \A c \in 1..Width(p) : Zero(p).cells[c] = Null
  BY <1>1, CellCount DEF Zero
<1> QED BY <1>2 DEF MeaningIn, ZeroMeaning

LEMMA Instance ==
  /\ \A v : Sequences!Compute(v) <=>
       /\ Meanings[v] = ZeroMeaning(v) \/ Meanings'[v] = ZeroMeaning(v)
       /\ \A w \in Variables \ {v} : Meanings'[w] = Meanings[w]
       /\ Content' = Content
  /\ \A o, n : Sequences!Resize(o, n) <=>
       /\ Content' = [Content EXCEPT ![o] =
             [j \in 1..n |-> IF j <= Len(Content[o]) THEN Content[o][j] ELSE ZeroMeaning(o)]]
       /\ Meanings' = Meanings
  BY DEF Sequences!Compute, Sequences!Resize, Meanings

LEMMA OwnedNext ==
  ASSUME IInv'
  PROVE  /\ \A v \in Variables : Owned(value'[v]) \subseteq Leaves'
         /\ \A o \in Buffers : \A j \in 1..Length(o)' : Owned(Slots(o)'[j]) \subseteq Leaves'
         /\ \A o \in Buffers : Length(o)' \in Nat
<1>1. Partition(Holdings, RegionSet, Leaves)' /\ \A o \in Buffers : BufferOK(o)'
  BY DEF IInv, BuffersOK
<1>2. \A q \in Places : Holdings'[q] \subseteq Leaves'
  BY <1>1 DEF Partition
<1>3. \A v \in Variables : Owned(value'[v]) \subseteq Leaves'
  BY <1>2, HoldingOf, HoldingNext
<1>4. \A o \in Buffers : Length(o)' \in 0..MaxCapacity
  BY <1>1 DEF BufferOK, Length
<1>5. ASSUME NEW o \in Buffers, NEW j \in 1..Length(o)' PROVE Owned(Slots(o)'[j]) \subseteq Leaves'
  <2>1. j \in 1..MaxCapacity /\ j <= Length(o)'
    BY <1>4, HeapAssumption
  <2>2. Holdings'[<<o, j>>] = Owned(Slots(o)'[j]) /\ <<o, j>> \in Places
    BY <2>1, HoldingOf, HoldingNext
  <2> QED BY <1>2, <2>2
<1> QED BY <1>3, <1>4, <1>5, HeapAssumption

\* Steps that make no new leaf: elements mean what they meant before it.
LEMMA NoNewLeaf ==
  ASSUME IInv', \A a \in Leaves' : heap'[a] = heap[a]
  PROVE  /\ \A v \in Variables : Meanings'[v] = MeaningIn(heap, value'[v])
         /\ \A o \in Buffers :
              Content'[o] = [j \in 1..Length(o)' |-> MeaningIn(heap, Slots(o)'[j])]
<1>1. ASSUME NEW v \in Variables PROVE Meanings'[v] = MeaningIn(heap, value'[v])
  <2>1. \A a \in Owned(value'[v]) : heap'[a] = heap[a]
    BY OwnedNext
  <2>2. MeaningIn(heap', value'[v]) = MeaningIn(heap, value'[v])
    BY <2>1, SameMeaning
  <2> QED BY <2>2, MeaningNext
<1>2. ASSUME NEW o \in Buffers
      PROVE  Content'[o] = [j \in 1..Length(o)' |-> MeaningIn(heap, Slots(o)'[j])]
  <2>1. ASSUME NEW j \in 1..Length(o)'
        PROVE  MeaningIn(heap', Slots(o)'[j]) = MeaningIn(heap, Slots(o)'[j])
    <3>1. \A a \in Owned(Slots(o)'[j]) : heap'[a] = heap[a]
      BY OwnedNext
    <3> QED BY <3>1, SameMeaning
  <2>2. Content'[o] = [j \in 1..Length(o)' |-> MeaningIn(heap', Slots(o)'[j])]
    BY MeaningNext
  <2> QED BY <2>1, <2>2
<1> QED BY <1>1, <1>2

\* A buffer whose header and elements stay.
LEMMA SameContent ==
  ASSUME NEW o \in Buffers, Length(o)' = Length(o),
         \A j \in 1..Length(o) : Slots(o)'[j] = Slots(o)[j],
         Content'[o] = [j \in 1..Length(o)' |-> MeaningIn(heap, Slots(o)'[j])]
  PROVE  Content'[o] = Content[o]
  BY MeaningNow

\* A step on the block of buffer o, seen from the sequences.
LEMMA RewrittenMeaning ==
  ASSUME IInv, IInv', NEW o \in Buffers, NEW a, NEW s, NEW n, NEW c, NEW X,
         Rewritten(o, a, s, n, c, X)
  PROVE  /\ \A p \in Buffers : p # o => Content'[p] = Content[p]
         /\ Content'[o] = [j \in 1..n |-> MeaningIn(heap, s[j])]
         /\ \A v \in Variables : Meanings'[v] = MeaningIn(heap, value'[v])
<1>0. /\ a \in Addr /\ (a = header[o].pointer \/ heap[a] = Free) /\ X \subseteq Leaves
      /\ header' = [header EXCEPT ![o] = [pointer |-> a, length |-> n, capacity |-> c]]
      /\ heap' = [b \in Addr |-> IF b = a THEN Block(s)
                                 ELSE IF b \in X \/ b = header[o].pointer THEN Free ELSE heap[b]]
  BY DEF Rewritten
<1>1. Length(o)' = n /\ Slots(o)' = s /\ Leaves' = Leaves \ X
  BY BufferChange
<1>2. header[o].pointer # Null => header[o].pointer \notin Leaves
  BY BlockFacts
<1>3. a \notin Leaves /\ header[o].pointer \notin Leaves /\ Leaves \subseteq Addr
  BY <1>0, <1>2, Kinds, HeapAssumption DEF Leaves
<1>4. \A b \in Leaves' : heap'[b] = heap[b]
  BY <1>0, <1>1, <1>3
<1>5. ASSUME NEW p \in Buffers, p # o
      PROVE  Length(p)' = Length(p) /\ \A j \in 1..Length(p) : Slots(p)'[j] = Slots(p)[j]
  <2>1. header'[p] = header[p] /\ Length(p)' = Length(p)
    BY <1>0, <1>5, HeaderFacts DEF Length
  <2>2. CASE header[p].pointer = Null
    <3>1. Length(p) = 0
      BY <2>2, HeaderFacts
    <3> QED BY <2>1, <3>1
  <2>3. CASE header[p].pointer # Null
    <3>1. header[p].pointer \in Addr /\ header[p].pointer \notin Leaves /\ heap[header[p].pointer] # Free
      BY <2>3, BlockFacts, Kinds
    <3>2. header[p].pointer # header[o].pointer
      BY <1>5, <2>3 DEF IInv, OwnPointers
    <3>3. heap'[header[p].pointer] = heap[header[p].pointer]
      BY <1>0, <3>1, <3>2
    <3> QED BY <2>1, <3>3 DEF Slots
  <2> QED BY <2>2, <2>3
<1>6. /\ \A v \in Variables : Meanings'[v] = MeaningIn(heap, value'[v])
      /\ \A p \in Buffers : Content'[p] = [j \in 1..Length(p)' |-> MeaningIn(heap, Slots(p)'[j])]
  BY <1>4, NoNewLeaf
<1>7. \A p \in Buffers : p # o => Content'[p] = Content[p]
  BY <1>5, <1>6, SameContent
<1>8. Content'[o] = [j \in 1..n |-> MeaningIn(heap, s[j])]
  BY <1>1, <1>6
<1> QED BY <1>6, <1>7, <1>8

LEMMA SameVariables ==
  ASSUME value' = value, \A v \in Variables : Meanings'[v] = MeaningIn(heap, value'[v])
  PROVE  Meanings' = Meanings
  BY MeaningNow, MeaningNext

LEMMA SameBuffers ==
  ASSUME \A p \in Buffers : Content'[p] = Content[p]
  PROVE  Content' = Content
  BY MeaningNow, MeaningNext

-----------------------------------------------------------------------------
\* Sequences, element by element.
LEMMA InsertedSeq ==
  ASSUME NEW S, NEW s \in Seq(S), NEW e \in S, NEW i \in 1..(Len(s) + 1), NEW t \in Seq(S),
         Len(t) = Len(s) + 1,
         \A j \in 1..(Len(s) + 1) :
           t[j] = IF j < i THEN s[j] ELSE IF j = i THEN e ELSE s[j - 1]
  PROVE  t = SubSeq(s, 1, i - 1) \o <<e>> \o SubSeq(s, i, Len(s))
<1> DEFINE a == SubSeq(s, 1, i - 1)
           b == SubSeq(s, i, Len(s))
           ae == a \o <<e>>
<1>0. Len(s) \in Nat /\ \A j \in 1..Len(s) : s[j] \in S
  BY LenProperties
<1>1. a \in Seq(S) /\ Len(a) = i - 1 /\ \A j \in 1..(i - 1) : a[j] = s[j]
  <2>1. \A j \in 1..(i - 1) : s[j] \in S
    BY <1>0
  <2>2. a \in Seq(S) /\ Len(a) = (IF 1 <= i - 1 THEN i - 1 - 1 + 1 ELSE 0)
        /\ \A j \in 1..(i - 1 - 1 + 1) : a[j] = s[1 + j - 1]
    BY <1>0, <2>1, SubSeqProperties
  <2> QED BY <1>0, <2>2
<1>2. b \in Seq(S) /\ Len(b) = Len(s) - i + 1 /\ \A j \in 1..(Len(s) - i + 1) : b[j] = s[i + j - 1]
  <2>1. \A j \in i..Len(s) : s[j] \in S
    BY <1>0
  <2>2. b \in Seq(S) /\ Len(b) = (IF i <= Len(s) THEN Len(s) - i + 1 ELSE 0)
        /\ \A j \in 1..(Len(s) - i + 1) : b[j] = s[i + j - 1]
    BY <1>0, <2>1, SubSeqProperties
  <2> QED BY <1>0, <2>2
<1> HIDE DEF a, b
<1>3. <<e>> \in Seq(S) /\ Len(<<e>>) = 1 /\ <<e>>[1] = e
  OBVIOUS
<1>4. ae \in Seq(S) /\ Len(ae) = i /\ \A j \in 1..i : ae[j] = IF j < i THEN s[j] ELSE e
  <2>1. ae \in Seq(S) /\ Len(ae) = Len(a) + 1
        /\ \A j \in 1..(Len(a) + 1) : ae[j] = IF j <= Len(a) THEN a[j] ELSE <<e>>[j - Len(a)]
    BY <1>1, <1>3, ConcatProperties
  <2>2. ASSUME NEW j \in 1..i PROVE ae[j] = IF j < i THEN s[j] ELSE e
    <3>1. CASE j < i
      BY <1>0, <1>1, <2>1, <3>1
    <3>2. CASE j = i
      <4>1. j - Len(a) = 1 /\ ~(j <= Len(a)) /\ j \in 1..(Len(a) + 1) /\ ~(j < i)
        BY <1>0, <1>1, <3>2
      <4> QED BY <1>3, <2>1, <4>1
    <3>3. j < i \/ j = i
      BY <1>0
    <3> QED BY <3>1, <3>2, <3>3
  <2> QED BY <1>0, <1>1, <2>1, <2>2
<1> HIDE DEF ae
<1>5. ae \o b \in Seq(S) /\ Len(ae \o b) = Len(s) + 1
      /\ \A j \in 1..(Len(s) + 1) : (ae \o b)[j] = IF j <= i THEN ae[j] ELSE b[j - i]
  <2>1. ae \o b \in Seq(S) /\ Len(ae \o b) = Len(ae) + Len(b)
        /\ \A j \in 1..(Len(ae) + Len(b)) :
             (ae \o b)[j] = IF j <= Len(ae) THEN ae[j] ELSE b[j - Len(ae)]
    BY <1>2, <1>4, ConcatProperties
  <2>2. Len(ae) + Len(b) = Len(s) + 1
    BY <1>0, <1>2, <1>4
  <2> QED BY <1>4, <2>1, <2>2
<1>6. ASSUME NEW j \in 1..(Len(s) + 1) PROVE t[j] = (ae \o b)[j]
  <2>1. CASE j < i
    <3>1. j <= i /\ j \in 1..i
      BY <1>0, <2>1
    <3>2. (ae \o b)[j] = ae[j] /\ ae[j] = s[j]
      BY <1>4, <1>5, <2>1, <3>1
    <3> QED BY <2>1, <3>2
  <2>2. CASE j = i
    <3>1. j <= i /\ j \in 1..i /\ ~(j < i)
      BY <1>0, <2>2
    <3>2. (ae \o b)[j] = ae[j] /\ ae[j] = e
      BY <1>4, <1>5, <3>1
    <3> QED BY <2>2, <3>1, <3>2
  <2>3. CASE j > i
    <3>1. ~(j <= i) /\ ~(j < i) /\ ~(j = i) /\ j - i \in 1..(Len(s) - i + 1) /\ i + (j - i) - 1 = j - 1
      BY <1>0, <2>3
    <3>2. (ae \o b)[j] = b[j - i] /\ b[j - i] = s[i + (j - i) - 1]
      BY <1>2, <1>5, <3>1
    <3> QED BY <3>1, <3>2
  <2>4. j < i \/ j = i \/ j > i
    BY <1>0
  <2> QED BY <2>1, <2>2, <2>3, <2>4
<1>7. t = ae \o b
  BY <1>5, <1>6, SeqEqual
<1> QED BY <1>7 DEF ae, a, b

LEMMA RemovedSeq ==
  ASSUME NEW S, NEW s \in Seq(S), NEW i \in 1..Len(s), NEW t \in Seq(S), Len(t) = Len(s) - 1,
         \A j \in 1..(Len(s) - 1) : t[j] = IF j < i THEN s[j] ELSE s[j + 1]
  PROVE  t = SubSeq(s, 1, i - 1) \o SubSeq(s, i + 1, Len(s))
<1> DEFINE a == SubSeq(s, 1, i - 1)
           b == SubSeq(s, i + 1, Len(s))
<1>0. Len(s) \in Nat /\ \A j \in 1..Len(s) : s[j] \in S
  BY LenProperties
<1>1. a \in Seq(S) /\ Len(a) = i - 1 /\ \A j \in 1..(i - 1) : a[j] = s[j]
  <2>1. \A j \in 1..(i - 1) : s[j] \in S
    BY <1>0
  <2>2. a \in Seq(S) /\ Len(a) = (IF 1 <= i - 1 THEN i - 1 - 1 + 1 ELSE 0)
        /\ \A j \in 1..(i - 1 - 1 + 1) : a[j] = s[1 + j - 1]
    BY <1>0, <2>1, SubSeqProperties
  <2> QED BY <1>0, <2>2
<1>2. b \in Seq(S) /\ Len(b) = Len(s) - i /\ \A j \in 1..(Len(s) - i) : b[j] = s[i + j]
  <2>1. \A j \in (i + 1)..Len(s) : s[j] \in S
    BY <1>0
  <2>2. b \in Seq(S) /\ Len(b) = (IF i + 1 <= Len(s) THEN Len(s) - (i + 1) + 1 ELSE 0)
        /\ \A j \in 1..(Len(s) - (i + 1) + 1) : b[j] = s[(i + 1) + j - 1]
    BY <1>0, <2>1, SubSeqProperties
  <2>3. ASSUME NEW j \in 1..(Len(s) - i) PROVE b[j] = s[i + j]
    <3>1. j \in 1..(Len(s) - (i + 1) + 1) /\ (i + 1) + j - 1 = i + j
      BY <1>0
    <3> QED BY <2>2, <3>1
  <2> QED BY <1>0, <2>2, <2>3
<1> HIDE DEF a, b
<1>3. a \o b \in Seq(S) /\ Len(a \o b) = Len(s) - 1
      /\ \A j \in 1..(Len(s) - 1) : (a \o b)[j] = IF j < i THEN a[j] ELSE b[j - (i - 1)]
  <2>1. a \o b \in Seq(S) /\ Len(a \o b) = Len(a) + Len(b)
        /\ \A j \in 1..(Len(a) + Len(b)) : (a \o b)[j] = IF j <= Len(a) THEN a[j] ELSE b[j - Len(a)]
    BY <1>1, <1>2, ConcatProperties
  <2>2. Len(a) + Len(b) = Len(s) - 1
    BY <1>0, <1>1, <1>2
  <2>3. \A j \in 1..(Len(s) - 1) : j <= Len(a) <=> j < i
    BY <1>0, <1>1
  <2> QED BY <1>1, <2>1, <2>2, <2>3
<1>4. ASSUME NEW j \in 1..(Len(s) - 1) PROVE t[j] = (a \o b)[j]
  <2>1. CASE j < i
    <3>1. j \in 1..(i - 1)
      BY <1>0, <2>1
    <3>2. (a \o b)[j] = a[j] /\ a[j] = s[j]
      BY <1>1, <1>3, <2>1, <3>1
    <3> QED BY <2>1, <3>2
  <2>2. CASE ~(j < i)
    <3>1. j - (i - 1) \in 1..(Len(s) - i) /\ i + (j - (i - 1)) = j + 1
      BY <1>0, <2>2
    <3>2. (a \o b)[j] = b[j - (i - 1)] /\ b[j - (i - 1)] = s[i + (j - (i - 1))]
      BY <1>2, <1>3, <2>2, <3>1
    <3> QED BY <2>2, <3>1, <3>2
  <2> QED BY <2>1, <2>2
<1>5. t = a \o b
  BY <1>3, <1>4, SeqEqual
<1> QED BY <1>5 DEF a, b

\* The sequence of meanings in a buffer.
LEMMA ContentSequence ==
  ASSUME IInv, NEW o \in Buffers
  PROVE  /\ Len(Content[o]) = Length(o)
         /\ \A j \in 1..Length(o) : Content[o][j] = MeaningIn(heap, Slots(o)[j])
         /\ DOMAIN Content[o] = 1..Length(o)
<1>1. Length(o) \in Nat /\ Content[o] = [j \in 1..Length(o) |-> MeaningIn(heap, Slots(o)[j])]
  BY HeaderFacts, MeaningNow
<1> QED BY <1>1

\* The abstract step or stutter of each concrete one.
Abstract == Sequences!Next \/ UNCHANGED Sequences!vars

\* The call after which sequences and variables must be as before.
Quiet == \/ call' = call
         \/ call'.op \in {"create", "reserve", "region"}
         \/ call'.status # "Ok"

\* A call that answers Ok is one the abstract specification knows.
LEMMA AnswerOk ==
  ASSUME NEW op, NEW args
  PROVE  /\ Answer(op, args, TRUE) = Sequences!Ok(op, args)
         /\ Answer(op, args, FALSE).status # "Ok"
  BY DEF Answer, Sequences!Ok

LEMMA AbstractCases ==
  /\ \A v \in Variables :
       call' = Answer("compute", <<v>>, TRUE) /\ Sequences!Compute(v) => Abstract
  /\ Quiet /\ Content' = Content /\ Meanings' = Meanings => Abstract
  /\ \A o \in Buffers, n \in 0..MaxCapacity :
       call' = Answer("resize", <<o, n>>, TRUE) /\ Sequences!Resize(o, n) => Abstract
  /\ \A o \in Buffers :
       call' = Answer("destroy", <<o>>, TRUE) /\ Sequences!Resize(o, 0) => Abstract
<1>1. ASSUME NEW v \in Variables, call' = Answer("compute", <<v>>, TRUE), Sequences!Compute(v)
      PROVE  Abstract
  <2>1. call' = Sequences!Ok("compute", <<v>>)
    BY <1>1, AnswerOk
  <2> QED BY <1>1, <2>1 DEF Abstract, Sequences!Next
<1>2. ASSUME Quiet, Content' = Content, Meanings' = Meanings PROVE Abstract
  <2>1. CASE call' = call
    BY <1>2, <2>1 DEF Abstract, Sequences!vars, Meanings
  <2>2. CASE call'.op \in {"create", "reserve", "region"}
    <3>1. Sequences!Storage
      BY <1>2, <2>2 DEF Sequences!Storage, Meanings
    <3> QED BY <3>1 DEF Abstract, Sequences!Next
  <2>3. CASE call'.status # "Ok"
    <3>1. Sequences!Failed
      BY <1>2, <2>3 DEF Sequences!Failed, Meanings
    <3> QED BY <3>1 DEF Abstract, Sequences!Next
  <2> QED BY <1>2, <2>1, <2>2, <2>3 DEF Quiet
<1>3. ASSUME NEW o \in Buffers, NEW n \in 0..MaxCapacity,
             call' = Answer("resize", <<o, n>>, TRUE), Sequences!Resize(o, n)
      PROVE  Abstract
  <2>1. call' = Sequences!Ok("resize", <<o, n>>)
    BY <1>3, AnswerOk
  <2> QED BY <1>3, <2>1 DEF Abstract, Sequences!Next
<1>4. ASSUME NEW o \in Buffers, call' = Answer("destroy", <<o>>, TRUE), Sequences!Resize(o, 0)
      PROVE  Abstract
  <2>1. call' = Sequences!Ok("destroy", <<o>>)
    BY <1>4, AnswerOk
  <2> QED BY <1>4, <2>1 DEF Abstract, Sequences!Next
<1> QED BY <1>1, <1>2, <1>3, <1>4

\* The calls that resize a sequence to n elements.
AnswersResize(o, n) ==
  \/ call' = Answer("resize", <<o, n>>, TRUE)
  \/ n = 0 /\ call' = Answer("destroy", <<o>>, TRUE)

\* The first n elements of s are those of o, padded with zeroes.
Padded(o, n, s) == \A j \in 1..n : s[j] = IF j <= Length(o) THEN Slots(o)[j] ELSE Zero(o)

\* Grow, Shrink and Destroy resize the sequence.
LEMMA ResizeAbstract ==
  ASSUME IInv, NEW o \in Buffers, NEW n \in 0..MaxCapacity, NEW s, value' = value,
         AnswersResize(o, n), Padded(o, n, s),
         \A p \in Buffers : p # o => Content'[p] = Content[p],
         Content'[o] = [j \in 1..n |-> MeaningIn(heap, s[j])],
         \A v \in Variables : Meanings'[v] = MeaningIn(heap, value'[v])
  PROVE  Abstract
<1>1. Meanings' = Meanings
  BY SameVariables
<1>2. ASSUME NEW j \in 1..n
      PROVE  MeaningIn(heap, s[j]) =
               IF j <= Len(Content[o]) THEN Content[o][j] ELSE ZeroMeaning(o)
  <2>1. Len(Content[o]) = Length(o) /\ Length(o) \in Nat /\ j \in Nat /\ j >= 1
    BY ContentSequence, HeaderFacts
  <2>2. CASE j <= Length(o)
    <3>1. j \in 1..Length(o)
      BY <2>1, <2>2
    <3>2. s[j] = Slots(o)[j]
      BY <2>2 DEF Padded
    <3> QED BY <2>1, <2>2, <3>1, <3>2, ContentSequence
  <2>3. CASE ~(j <= Length(o))
    BY <2>1, <2>3, ZeroMeans DEF Padded
  <2> QED BY <2>2, <2>3
<1>3. Content'[o] = [j \in 1..n |-> IF j <= Len(Content[o]) THEN Content[o][j] ELSE ZeroMeaning(o)]
  BY <1>2
<1>4. Content' = [Content EXCEPT ![o] =
          [j \in 1..n |-> IF j <= Len(Content[o]) THEN Content[o][j] ELSE ZeroMeaning(o)]]
  BY <1>3, MeaningNow, MeaningNext
<1>5. Sequences!Resize(o, n)
  BY <1>1, <1>4, Instance
<1> QED BY <1>5, AbstractCases DEF AnswersResize

\* Steps that only change where a buffer keeps its elements.
LEMMA KeptAbstract ==
  ASSUME IInv, Quiet, NEW o \in Buffers, value' = value, NEW s, NEW n, n = Length(o),
         \A j \in 1..n : s[j] = Slots(o)[j],
         \A p \in Buffers : p # o => Content'[p] = Content[p],
         Content'[o] = [j \in 1..n |-> MeaningIn(heap, s[j])],
         \A v \in Variables : Meanings'[v] = MeaningIn(heap, value'[v])
  PROVE  Abstract
<1>1. Meanings' = Meanings
  BY SameVariables
<1>2. Content'[o] = Content[o]
  BY MeaningNow
<1>3. Content' = Content
  BY <1>2, SameBuffers
<1> QED BY <1>1, <1>3, AbstractCases

LEMMA StutterAbstract ==
  ASSUME IInv, Quiet, UNCHANGED <<heap, header, value>>
  PROVE  Abstract
<1>1. Meanings' = Meanings
  BY MeaningNow, MeaningNext
<1>2. \A p \in Buffers : Content'[p] = Content[p]
  <2> TAKE p \in Buffers
  <2>1. Length(p)' = Length(p) /\ Slots(p)' = Slots(p)
    BY DEF Length, Slots
  <2>2. Content'[p] = [j \in 1..Length(p)' |-> MeaningIn(heap', Slots(p)'[j])]
    BY MeaningNext
  <2>3. Content[p] = [j \in 1..Length(p) |-> MeaningIn(heap, Slots(p)[j])]
    BY MeaningNow
  <2> QED BY <2>1, <2>2, <2>3
<1> QED BY <1>1, <1>2, SameBuffers, AbstractCases

LEMMA CreateAbstract ==
  ASSUME IInv, IInv', NEW o \in Buffers, NEW c \in 1..MaxCapacity, NEW a \in FreeAddr,
         BufferCreate(o, c, a)
  PROVE  Abstract
<1>0. PICK n : n = 0
  OBVIOUS
<1>1. PICK s : Rewritten(o, a, s, n, c, {})
  BY <1>0, CreateForm
<1>2. n = Length(o) /\ \A j \in 1..n : s[j] = Slots(o)[j]
  BY <1>0, CreateForm
<1>3. /\ \A p \in Buffers : p # o => Content'[p] = Content[p]
      /\ Content'[o] = [j \in 1..n |-> MeaningIn(heap, s[j])]
      /\ \A v \in Variables : Meanings'[v] = MeaningIn(heap, value'[v])
  BY <1>1, RewrittenMeaning
<1>4. value' = value /\ Quiet
  BY DEF BufferCreate, Answer, Quiet
<1> QED BY <1>2, <1>3, <1>4, KeptAbstract

LEMMA ReserveAbstract ==
  ASSUME IInv, IInv', NEW o \in Buffers, NEW n \in 1..MaxCapacity, BufferReserve(o, n)
  PROVE  Abstract
<1>0. value' = value /\ Quiet
  BY DEF BufferReserve, Answer, Quiet
<1>1. CASE UNCHANGED <<heap, header>>
  BY <1>0, <1>1, StutterAbstract
<1>2. ASSUME NEW a, NEW s, NEW c, Rewritten(o, a, s, Length(o), c, {}),
             \A j \in 1..Length(o) : s[j] = Slots(o)[j]
      PROVE  Abstract
  <2>3. /\ \A p \in Buffers : p # o => Content'[p] = Content[p]
        /\ Content'[o] = [j \in 1..Length(o) |-> MeaningIn(heap, s[j])]
        /\ \A v \in Variables : Meanings'[v] = MeaningIn(heap, value'[v])
    BY <1>2, RewrittenMeaning
  <2> QED BY <1>0, <1>2, <2>3, KeptAbstract
<1> QED BY <1>1, <1>2, ReserveForm

LEMMA GrowAbstract ==
  ASSUME IInv, IInv', NEW o \in Buffers, NEW n \in 0..MaxCapacity, Grow(o, n)
  PROVE  Abstract
<1>0. value' = value
  BY DEF Grow
<1>1. CASE UNCHANGED <<heap, header>> /\ call' = Answer("resize", <<o, n>>, FALSE)
  <2>1. Quiet
    BY <1>1, AnswerOk DEF Quiet
  <2> QED BY <1>0, <1>1, <2>1, StutterAbstract
<1>2. ASSUME NEW a, NEW t, NEW c, Rewritten(o, a, t, n, c, {}),
             call' = Answer("resize", <<o, n>>, TRUE),
             \A j \in 1..n : IF j <= Length(o) THEN t[j] = Slots(o)[j] ELSE t[j] = Zero(o)
      PROVE  Abstract
  <2>1. /\ \A p \in Buffers : p # o => Content'[p] = Content[p]
        /\ Content'[o] = [j \in 1..n |-> MeaningIn(heap, t[j])]
        /\ \A v \in Variables : Meanings'[v] = MeaningIn(heap, value'[v])
    BY <1>2, RewrittenMeaning
  <2>2. Padded(o, n, t)
    BY <1>2 DEF Padded
  <2>3. AnswersResize(o, n)
    BY <1>2 DEF AnswersResize
  <2> QED BY <1>0, <2>1, <2>2, <2>3, ResizeAbstract
<1> QED BY <1>1, <1>2, GrowForm

LEMMA ShrinkAbstract ==
  ASSUME IInv, IInv', NEW o \in Buffers, NEW n \in 0..MaxCapacity, Shrink(o, n)
  PROVE  Abstract
<1>0. value' = value /\ call' = Answer("resize", <<o, n>>, TRUE)
  BY DEF Shrink
<1>1. PICK t : /\ Rewritten(o, header[o].pointer, t, n, header[o].capacity, OwnedFrom(o, n + 1))
               /\ \A j \in 1..n : t[j] = Slots(o)[j]
  BY ShrinkForm
<1>2. n \in Nat /\ n < Length(o) /\ Length(o) \in Nat
  BY ShrinkForm, HeaderFacts
<1>3. /\ \A p \in Buffers : p # o => Content'[p] = Content[p]
      /\ Content'[o] = [j \in 1..n |-> MeaningIn(heap, t[j])]
      /\ \A v \in Variables : Meanings'[v] = MeaningIn(heap, value'[v])
  BY <1>1, RewrittenMeaning
<1>4. Padded(o, n, t)
  <2>1. \A j \in 1..n : j <= Length(o)
    BY <1>2
  <2> QED BY <1>1, <2>1 DEF Padded
<1>5. AnswersResize(o, n)
  BY <1>0 DEF AnswersResize
<1> QED BY <1>0, <1>3, <1>4, <1>5, ResizeAbstract

LEMMA DestroyAbstract ==
  ASSUME IInv, IInv', NEW o \in Buffers, Destroy(o)
  PROVE  Abstract
<1>0. value' = value /\ call' = Answer("destroy", <<o>>, TRUE)
  BY DEF Destroy
<1>1. /\ Leaves' = Leaves \ OwnedFrom(o, 1)
      /\ header'[o] = EMPTY /\ \A p \in Buffers : p # o => header'[p] = header[p]
      /\ \A a \in Addr : a \notin OwnedFrom(o, 1) /\ a # header[o].pointer => heap'[a] = heap[a]
      /\ header[o].pointer \in Addr
  BY DestroyForm
<1>2. header[o].pointer # Null
  BY <1>1, HeapAssumption
<1>3. header[o].pointer \notin Leaves /\ OwnedFrom(o, 1) \subseteq Leaves
  <2>1. OwnedFrom(o, 0 + 1) \in SUBSET Leaves
    BY OwnedFromLeaves
  <2> QED BY <1>2, <2>1, BlockFacts
<1>4. \A a \in Leaves' : heap'[a] = heap[a]
  BY <1>1, <1>3 DEF Leaves
<1>5. /\ \A v \in Variables : Meanings'[v] = MeaningIn(heap, value'[v])
      /\ \A p \in Buffers : Content'[p] = [j \in 1..Length(p)' |-> MeaningIn(heap, Slots(p)'[j])]
  BY <1>4, NoNewLeaf
<1>6. ASSUME NEW p \in Buffers, p # o PROVE Content'[p] = Content[p]
  <2>1. header'[p] = header[p] /\ Length(p)' = Length(p)
    BY <1>1, <1>6 DEF Length
  <2>2. CASE header[p].pointer = Null
    <3>1. Length(p) = 0
      BY <2>2, HeaderFacts
    <3>2. \A j \in 1..Length(p) : Slots(p)'[j] = Slots(p)[j]
      BY <3>1
    <3> QED BY <1>5, <2>1, <3>2, SameContent
  <2>3. CASE header[p].pointer # Null
    <3>1. header[p].pointer \in Addr /\ header[p].pointer \notin Leaves
      BY <2>3, BlockFacts
    <3>2. header[p].pointer # header[o].pointer
      BY <1>6, <2>3 DEF IInv, OwnPointers
    <3>3. heap'[header[p].pointer] = heap[header[p].pointer]
      BY <1>1, <1>3, <3>1, <3>2
    <3>4. Slots(p)' = Slots(p)
      BY <2>1, <3>3 DEF Slots
    <3> QED BY <1>5, <2>1, <3>4, SameContent
  <2> QED BY <2>2, <2>3
<1>7. Content'[o] = [j \in 1..0 |-> MeaningIn(heap, Slots(o)'[j])]
  <2>1. Length(o)' = 0
    BY <1>1 DEF Length, EMPTY
  <2> QED BY <1>5, <2>1
<1>8. 0 \in 0..MaxCapacity /\ \A j \in 1..0 : FALSE
  BY HeapAssumption
<1> DEFINE s == Slots(o)'
<1>9. Content'[o] = [j \in 1..0 |-> MeaningIn(heap, s[j])]
  BY <1>7
<1> HIDE DEF s
<1>10. AnswersResize(o, 0) /\ Padded(o, 0, s)
  BY <1>0, <1>8 DEF AnswersResize, Padded
<1> QED BY <1>0, <1>5, <1>6, <1>8, <1>9, <1>10, ResizeAbstract

LEMMA MoveInstance ==
  /\ \A o, i, v : Sequences!Insert(o, i, v) <=>
       /\ Content' = [Content EXCEPT ![o] = SubSeq(Content[o], 1, i - 1) \o <<Meanings[v]>>
                                            \o SubSeq(Content[o], i, Len(Content[o]))]
       /\ Meanings' = [Meanings EXCEPT ![v] = ZeroMeaning(v)]
  /\ \A o, i, v : Sequences!Remove(o, i, v) <=>
       /\ Meanings[v] = ZeroMeaning(v)
       /\ Meanings' = [Meanings EXCEPT ![v] = Content[o][i]]
       /\ Content' = [Content EXCEPT ![o] = SubSeq(Content[o], 1, i - 1)
                                            \o SubSeq(Content[o], i + 1, Len(Content[o]))]
  /\ \A o, i : Sequences!Drop(o, i) <=>
       /\ Content' = [Content EXCEPT ![o] = SubSeq(Content[o], 1, i - 1)
                                            \o SubSeq(Content[o], i + 1, Len(Content[o]))]
       /\ Meanings' = Meanings
  BY DEF Sequences!Insert, Sequences!Remove, Sequences!Drop, Sequences!Without, Meanings

LEMMA MoveCases ==
  /\ \A o \in Buffers : \A i \in 1..(Len(Content[o]) + 1), v \in Variables :
       call' = Answer("insert", <<o, i, v>>, TRUE) /\ Sequences!Insert(o, i, v) => Abstract
  /\ \A o \in Buffers : \A i \in 1..Len(Content[o]), v \in Variables :
       call' = Answer("remove", <<o, i, v>>, TRUE) /\ Sequences!Remove(o, i, v) => Abstract
  /\ \A o \in Buffers : \A i \in 1..Len(Content[o]) :
       call' = Answer("drop", <<o, i>>, TRUE) /\ Sequences!Drop(o, i) => Abstract
<1>1. ASSUME NEW o \in Buffers, NEW i \in 1..(Len(Content[o]) + 1), NEW v \in Variables,
             call' = Answer("insert", <<o, i, v>>, TRUE), Sequences!Insert(o, i, v)
      PROVE  Abstract
  <2>1. call' = Sequences!Ok("insert", <<o, i, v>>)
    BY <1>1, AnswerOk
  <2> QED BY <1>1, <2>1 DEF Abstract, Sequences!Next
<1>2. ASSUME NEW o \in Buffers, NEW i \in 1..Len(Content[o]), NEW v \in Variables,
             call' = Answer("remove", <<o, i, v>>, TRUE), Sequences!Remove(o, i, v)
      PROVE  Abstract
  <2>1. call' = Sequences!Ok("remove", <<o, i, v>>)
    BY <1>2, AnswerOk
  <2> QED BY <1>2, <2>1 DEF Abstract, Sequences!Next
<1>3. ASSUME NEW o \in Buffers, NEW i \in 1..Len(Content[o]),
             call' = Answer("drop", <<o, i>>, TRUE), Sequences!Drop(o, i)
      PROVE  Abstract
  <2>1. call' = Sequences!Ok("drop", <<o, i>>)
    BY <1>3, AnswerOk
  <2> QED BY <1>3, <2>1 DEF Abstract, Sequences!Next
<1> QED BY <1>1, <1>2, <1>3

\* A function on 1..n is a sequence over what it takes as values.
LEMMA FunctionSequence ==
  ASSUME NEW n \in Nat, NEW f, f = [j \in 1..n |-> f[j]], NEW S, \A j \in 1..n : f[j] \in S
  PROVE  f \in Seq(S) /\ Len(f) = n
<1>1. f \in [1..n -> S]
  OBVIOUS
<1> QED BY <1>1

LEMMA InsertAbstract ==
  ASSUME IInv, IInv', NEW o \in Buffers, Length(o) < MaxCapacity, NEW i \in 1..(Length(o) + 1),
         NEW v \in VariablesOf(o), InsertMoveFrom(o, i, v)
  PROVE  Abstract
<1>0. Length(o) \in Nat /\ Len(Content[o]) = Length(o) /\ v \in Variables
      /\ value = [w \in Variables |-> value[w]]
  BY HeaderFacts, ContentSequence, TypesAgree, ValueFacts
<1>1. CASE UNCHANGED <<heap, header, value>> /\ call' = Answer("insert", <<o, i, v>>, FALSE)
  <2>1. Quiet
    BY <1>1, AnswerOk DEF Quiet
  <2> QED BY <1>1, <2>1, StutterAbstract
<1>2. ASSUME NEW a, NEW t, NEW c, NEW n, n = Length(o) + 1, Rewritten(o, a, t, n, c, {}),
             call' = Answer("insert", <<o, i, v>>, TRUE),
             value' = [value EXCEPT ![v] = Zero(v)],
             \A j \in 1..n : t[j] = IF j < i THEN Slots(o)[j]
                                    ELSE IF j = i THEN value[v] ELSE Slots(o)[j - 1]
      PROVE  Abstract
  <2> DEFINE s == Content[o]
             e == Meanings[v]
             f == Content'[o]
             S == {s[j] : j \in 1..Length(o)} \cup {e}
  <2>1. /\ \A p \in Buffers : p # o => Content'[p] = Content[p]
        /\ f = [j \in 1..n |-> MeaningIn(heap, t[j])]
        /\ \A w \in Variables : Meanings'[w] = MeaningIn(heap, value'[w])
    BY <1>2, RewrittenMeaning
  <2>2. e = MeaningIn(heap, value[v]) /\ \A j \in 1..Length(o) : s[j] = MeaningIn(heap, Slots(o)[j])
    BY <1>0, MeaningNow, ContentSequence
  <2>3. s = [j \in 1..Length(o) |-> s[j]]
    BY MeaningNow
  <2>4. n \in Nat /\ f = [j \in 1..n |-> f[j]]
    BY <1>0, <1>2, <2>1
  <2> HIDE DEF s, e, f
  <2>5. ASSUME NEW j \in 1..n
        PROVE  f[j] = IF j < i THEN s[j] ELSE IF j = i THEN e ELSE s[j - 1]
    <3>0. f[j] = MeaningIn(heap, t[j])
      BY <2>1
    <3>1. CASE j < i
      <4>1. j \in 1..Length(o)
        BY <1>0, <1>2, <3>1
      <4>2. t[j] = Slots(o)[j]
        BY <1>2, <3>1
      <4> QED BY <2>2, <3>0, <3>1, <4>1, <4>2
    <3>2. CASE j = i
      <4>1. ~(j < i)
        BY <1>0, <3>2
      <4>2. t[j] = value[v]
        BY <1>2, <3>2, <4>1
      <4> QED BY <2>2, <3>0, <3>2, <4>1, <4>2
    <3>3. CASE j > i
      <4>1. j - 1 \in 1..Length(o) /\ ~(j < i) /\ ~(j = i)
        BY <1>0, <1>2, <3>3
      <4>2. t[j] = Slots(o)[j - 1]
        BY <1>2, <4>1
      <4> QED BY <2>2, <3>0, <4>1, <4>2
    <3>4. j < i \/ j = i \/ j > i
      BY <1>0, <1>2
    <3> QED BY <3>1, <3>2, <3>3, <3>4
  <2>6. s \in Seq(S) /\ Len(s) = Length(o)
    <3>1. \A j \in 1..Length(o) : s[j] \in S
      OBVIOUS
    <3> HIDE DEF S
    <3> QED BY <1>0, <2>3, <3>1, FunctionSequence
  <2>7. f \in Seq(S) /\ Len(f) = n
    <3>1. ASSUME NEW j \in 1..n PROVE f[j] \in S
      <4>1. j < i => j \in 1..Length(o)
        BY <1>0, <1>2
      <4>2. ~(j < i) /\ ~(j = i) => j - 1 \in 1..Length(o)
        BY <1>0, <1>2
      <4> QED BY <2>5, <4>1, <4>2
    <3> HIDE DEF S
    <3> QED BY <2>4, <3>1, FunctionSequence
  <2>8. e \in S
    OBVIOUS
  <2> HIDE DEF S
  <2>9. f = SubSeq(s, 1, i - 1) \o <<e>> \o SubSeq(s, i, Len(s))
    <3>1. Len(f) = Len(s) + 1 /\ i \in 1..(Len(s) + 1)
      BY <1>2, <2>6, <2>7
    <3>2. \A j \in 1..(Len(s) + 1) : f[j] = IF j < i THEN s[j] ELSE IF j = i THEN e ELSE s[j - 1]
      BY <1>2, <2>5, <2>6
    <3> QED BY <2>6, <2>7, <2>8, <3>1, <3>2, InsertedSeq
  <2>10. Content' = [Content EXCEPT ![o] = f]
    BY <2>1, MeaningNow, MeaningNext DEF f
  <2>11. Meanings' = [Meanings EXCEPT ![v] = ZeroMeaning(v)]
    <3>1. Meanings'[v] = ZeroMeaning(v)
      BY <1>0, <1>2, <2>1, ZeroMeans
    <3>2. \A w \in Variables : w # v => Meanings'[w] = Meanings[w]
      BY <1>0, <1>2, <2>1, MeaningNow
    <3> QED BY <3>1, <3>2, MeaningNow, MeaningNext
  <2>12. Sequences!Insert(o, i, v)
    BY <2>9, <2>10, <2>11, MoveInstance DEF s, e
  <2> QED BY <1>0, <1>2, <2>12, MoveCases
<1>3. ASSUME call' = Answer("insert", <<o, i, v>>, TRUE),
             value' = [value EXCEPT ![v] = Zero(v)], Opens(o, i, v)
      PROVE  Abstract
  BY <1>2, <1>3 DEF Opens
<1> QED BY <1>1, <1>3, InsertForm

\* The sequence of o loses its element i.
LosesElement(o, i) ==
  Content' = [Content EXCEPT ![o] = SubSeq(Content[o], 1, i - 1)
                                    \o SubSeq(Content[o], i + 1, Len(Content[o]))]

LEMMA ClosedContent ==
  ASSUME IInv, NEW o \in Buffers, NEW i \in 1..Length(o), NEW t, ClosedSlots(o, i, t),
         NEW n, n = Length(o) - 1,
         \A p \in Buffers : p # o => Content'[p] = Content[p],
         Content'[o] = [j \in 1..n |-> MeaningIn(heap, t[j])]
  PROVE  LosesElement(o, i)
<1> DEFINE s == Content[o]
           f == Content'[o]
           S == {s[j] : j \in 1..Length(o)}
<1>0. Length(o) \in Nat /\ n \in Nat /\ i \in Nat /\ i >= 1 /\ i <= Length(o)
  BY HeaderFacts
<1>1. \A j \in 1..Length(o) : s[j] = MeaningIn(heap, Slots(o)[j])
  BY ContentSequence
<1>2. s = [j \in 1..Length(o) |-> s[j]]
  BY MeaningNow
<1>3. f = [j \in 1..n |-> f[j]] /\ \A j \in 1..n : f[j] = MeaningIn(heap, t[j])
  OBVIOUS
<1>4. Content' = [Content EXCEPT ![o] = f]
  BY MeaningNow, MeaningNext
<1> HIDE DEF s, f
<1>5. ASSUME NEW j \in 1..n PROVE f[j] = IF j < i THEN s[j] ELSE s[j + 1]
  <2>1. j \in 1..Length(o) /\ j + 1 \in 1..Length(o)
    BY <1>0
  <2>2. t[j] = IF j < i THEN Slots(o)[j] ELSE Slots(o)[j + 1]
    BY DEF ClosedSlots
  <2> QED BY <1>1, <1>3, <2>1, <2>2
<1>6. \A j \in 1..Length(o) : s[j] \in S
  OBVIOUS
<1>7. ASSUME NEW j \in 1..n PROVE f[j] \in S
  <2>1. j \in 1..Length(o) /\ j + 1 \in 1..Length(o)
    BY <1>0
  <2> QED BY <1>5, <1>6, <2>1
<1> HIDE DEF S
<1>8. s \in Seq(S) /\ Len(s) = Length(o)
  BY <1>0, <1>2, <1>6, FunctionSequence
<1>9. f \in Seq(S) /\ Len(f) = n
  BY <1>0, <1>3, <1>7, FunctionSequence
<1>10. f = SubSeq(s, 1, i - 1) \o SubSeq(s, i + 1, Len(s))
  <2>1. Len(f) = Len(s) - 1 /\ i \in 1..Len(s)
    BY <1>8, <1>9
  <2>2. \A j \in 1..(Len(s) - 1) : f[j] = IF j < i THEN s[j] ELSE s[j + 1]
    BY <1>5, <1>8
  <2> QED BY <1>8, <1>9, <2>1, <2>2, RemovedSeq
<1> QED BY <1>4, <1>10 DEF s, LosesElement

LEMMA RemoveAbstract ==
  ASSUME IInv, IInv', NEW o \in Buffers, NEW i \in 1..Length(o), NEW v \in VariablesOf(o),
         Removes(o, i, v)
  PROVE  Abstract
<1>0. Length(o) \in Nat /\ Len(Content[o]) = Length(o) /\ v \in Variables
      /\ value = [w \in Variables |-> value[w]]
  BY HeaderFacts, ContentSequence, TypesAgree, ValueFacts
<1>1. PICK n : n = Length(o) - 1
  OBVIOUS
<1>2. PICK t : /\ Rewritten(o, header[o].pointer, t, n, header[o].capacity, {})
               /\ ClosedSlots(o, i, t)
  BY <1>1, RemoveForm
<1>3. value[v] = Zero(v) /\ value' = [value EXCEPT ![v] = Slots(o)[i]]
  BY RemoveForm
<1>c. call' = Answer("remove", <<o, i, v>>, TRUE)
  BY DEF Removes, RemoveMoveInto, RemoveMove
<1>4. /\ \A p \in Buffers : p # o => Content'[p] = Content[p]
      /\ Content'[o] = [j \in 1..n |-> MeaningIn(heap, t[j])]
      /\ \A w \in Variables : Meanings'[w] = MeaningIn(heap, value'[w])
  BY <1>2, RewrittenMeaning
<1>5. LosesElement(o, i)
  BY <1>1, <1>2, <1>4, ClosedContent
<1>6. Meanings[v] = ZeroMeaning(v)
  BY <1>0, <1>3, MeaningNow, ZeroMeans
<1>7. Meanings' = [Meanings EXCEPT ![v] = Content[o][i]]
  <2>1. Meanings'[v] = Content[o][i]
    BY <1>0, <1>3, <1>4, ContentSequence
  <2>2. \A w \in Variables : w # v => Meanings'[w] = Meanings[w]
    BY <1>0, <1>3, <1>4, MeaningNow
  <2> QED BY <2>1, <2>2, MeaningNow, MeaningNext
<1>8. Sequences!Remove(o, i, v)
  BY <1>5, <1>6, <1>7, MoveInstance DEF LosesElement
<1> QED BY <1>0, <1>c, <1>8, MoveCases

LEMMA DropAbstract ==
  ASSUME IInv, IInv', NEW o \in Buffers, NEW i \in 1..Length(o), DropAt(o, i)
  PROVE  Abstract
<1>0. Len(Content[o]) = Length(o) /\ value' = value /\ call' = Answer("drop", <<o, i>>, TRUE)
  BY ContentSequence DEF DropAt
<1>1. PICK n : n = Length(o) - 1
  OBVIOUS
<1>2. PICK t : /\ Rewritten(o, header[o].pointer, t, n, header[o].capacity, Owned(Slots(o)[i]))
               /\ ClosedSlots(o, i, t)
  BY <1>1, DropForm
<1>3. /\ \A p \in Buffers : p # o => Content'[p] = Content[p]
      /\ Content'[o] = [j \in 1..n |-> MeaningIn(heap, t[j])]
      /\ \A w \in Variables : Meanings'[w] = MeaningIn(heap, value'[w])
  BY <1>2, RewrittenMeaning
<1>4. LosesElement(o, i)
  BY <1>1, <1>2, <1>3, ClosedContent
<1>5. Meanings' = Meanings
  BY <1>0, <1>3, SameVariables
<1>6. Sequences!Drop(o, i)
  BY <1>4, <1>5, MoveInstance DEF LosesElement
<1> QED BY <1>0, <1>6, MoveCases

-----------------------------------------------------------------------------
\* Steps outside the buffers: a set D of allocations changes that no buffer
\* block and no element of a buffer is in.
LEMMA OutsideContent ==
  ASSUME IInv, header' = header, NEW D, \A a \in Addr : a \notin D => heap'[a] = heap[a],
         \A a \in Addr : heap[a].kind = "slots" => a \notin D,
         \A o \in Buffers, j \in 1..MaxCapacity : Holdings[<<o, j>>] \cap D = {}
  PROVE  Content' = Content
<1>1. ASSUME NEW o \in Buffers PROVE Content'[o] = Content[o]
  <2>1. Length(o)' = Length(o) /\ Length(o) \in Nat /\ MaxCapacity \in Nat /\ Length(o) <= MaxCapacity
    BY HeaderFacts DEF Length
  <2>2. ASSUME NEW j \in 1..Length(o)
        PROVE  MeaningIn(heap', Slots(o)'[j]) = MeaningIn(heap, Slots(o)[j])
    <3>1. header[o].pointer # Null
      BY <2>1, HeaderFacts
    <3>2. header[o].pointer \in Addr /\ heap[header[o].pointer].kind = "slots"
      BY <3>1, BlockFacts, Kinds
    <3>3. Slots(o)' = Slots(o)
      BY <3>2 DEF Slots
    <3>4. j \in 1..MaxCapacity
      BY <2>1
    <3>5. Holdings[<<o, j>>] = Owned(Slots(o)[j]) /\ Owned(Slots(o)[j]) \subseteq Leaves
      BY BufferFacts
    <3>6. \A a \in Owned(Slots(o)[j]) : heap'[a] = heap[a]
      BY <3>4, <3>5 DEF Leaves
    <3> QED BY <3>3, <3>6, SameMeaning
  <2>3. Content'[o] = [j \in 1..Length(o)' |-> MeaningIn(heap', Slots(o)'[j])]
    BY MeaningNext
  <2>4. Content[o] = [j \in 1..Length(o) |-> MeaningIn(heap, Slots(o)[j])]
    BY MeaningNow
  <2> QED BY <2>1, <2>2, <2>3, <2>4
<1> QED BY <1>1, SameBuffers

\* The same for a variable the step leaves alone.
LEMMA OutsideVariable ==
  ASSUME IInv, NEW w \in Variables, value'[w] = value[w], NEW D,
         \A a \in Addr : a \notin D => heap'[a] = heap[a], Holdings[<<w, 0>>] \cap D = {}
  PROVE  Meanings'[w] = Meanings[w]
<1>1. Holdings[<<w, 0>>] = Owned(value[w]) /\ Owned(value[w]) \subseteq Leaves
  BY ValueFacts
<1>2. \A a \in Owned(value[w]) : heap'[a] = heap[a]
  BY <1>1 DEF Leaves
<1>3. MeaningIn(heap', value[w]) = MeaningIn(heap, value[w])
  BY <1>2, SameMeaning
<1> QED BY <1>3, MeaningNow, MeaningNext

LEMMA HoldingsAreLeaves ==
  ASSUME IInv
  PROVE  /\ \A o \in Buffers, j \in 1..MaxCapacity : Holdings[<<o, j>>] \subseteq Leaves
         /\ \A v \in Variables : Holdings[<<v, 0>>] \subseteq Leaves
         /\ \A a \in Leaves : a \in Addr /\ heap[a].kind = "leaf" /\ a \notin FreeAddr
         /\ \A a \in FreeAddr : a \in Addr /\ heap[a].kind = "free"
  BY HoldingOf, Kinds DEF IInv, Partition, Leaves, FreeAddr

\* A variable without a value is computed into, from fresh allocations.
LEMMA BuildAbstract ==
  ASSUME IInv, NEW v \in Variables, value[v] = Zero(v), NEW el, value' = [value EXCEPT ![v] = el],
         call' = Answer("compute", <<v>>, TRUE), header' = header, NEW D \in SUBSET FreeAddr, \A a \in Addr : a \notin D => heap'[a] = heap[a]
  PROVE  Abstract
<1>1. Content' = Content
  <2>1. \A a \in Addr : heap[a].kind = "slots" => a \notin D
    BY HoldingsAreLeaves
  <2>2. \A o \in Buffers, j \in 1..MaxCapacity : Holdings[<<o, j>>] \cap D = {}
    BY HoldingsAreLeaves
  <2> QED BY <2>1, <2>2, OutsideContent
<1>2. \A w \in Variables \ {v} : Meanings'[w] = Meanings[w]
  <2> TAKE w \in Variables \ {v}
  <2>1. value'[w] = value[w] /\ w \in Variables
    BY ValueFacts
  <2>2. Holdings[<<w, 0>>] \cap D = {}
    BY HoldingsAreLeaves
  <2> QED BY <2>1, <2>2, OutsideVariable
<1>3. Meanings[v] = ZeroMeaning(v)
  BY MeaningNow, ZeroMeans
<1>4. Sequences!Compute(v)
  BY <1>1, <1>2, <1>3, Instance
<1> QED BY <1>4, AbstractCases

LEMMA DropVariableAbstract ==
  ASSUME IInv, NEW v \in Variables, DropVariable(v)
  PROVE  Abstract
<1> DEFINE D == Owned(value[v])
<1>0. D = Holdings[<<v, 0>>] /\ D \subseteq Leaves /\ <<v, 0>> \in Places
      /\ value = [w \in Variables |-> value[w]]
  BY ValueFacts, HoldingOf
<1>1. \A a \in Addr : a \notin D => heap'[a] = heap[a]
  BY DEF DropVariable, Released
<1>2. value' = [value EXCEPT ![v] = Zero(v)] /\ header' = header
      /\ call' = Answer("compute", <<v>>, TRUE)
  BY DEF DropVariable
<1>3. \A q \in Places : q # <<v, 0>> => Holdings[q] \cap D = {}
  BY <1>0 DEF IInv, Partition
<1> HIDE DEF D
<1>4. Content' = Content
  <2>1. \A a \in Addr : heap[a].kind = "slots" => a \notin D
    BY <1>0, HoldingsAreLeaves
  <2>2. \A o \in Buffers, j \in 1..MaxCapacity : Holdings[<<o, j>>] \cap D = {}
    <3> TAKE o \in Buffers, j \in 1..MaxCapacity
    <3>1. <<o, j>> \in Places /\ <<o, j>> # <<v, 0>>
      BY HoldingOf, NamesAssumption
    <3> QED BY <1>3, <3>1
  <2> QED BY <1>1, <1>2, <2>1, <2>2, OutsideContent
<1>5. \A w \in Variables \ {v} : Meanings'[w] = Meanings[w]
  <2> TAKE w \in Variables \ {v}
  <2>1. value'[w] = value[w] /\ w \in Variables
    BY <1>0, <1>2
  <2>2. <<w, 0>> \in Places /\ <<w, 0>> # <<v, 0>>
    BY HoldingOf
  <2> QED BY <1>1, <1>3, <2>1, <2>2, OutsideVariable
<1>6. Meanings'[v] = ZeroMeaning(v)
  BY <1>0, <1>2, MeaningNext, ZeroMeans
<1>7. Sequences!Compute(v)
  BY <1>4, <1>5, <1>6, Instance
<1> QED BY <1>2, <1>7, AbstractCases

\* Regions: nothing that a buffer or a variable owns is touched.
LEMMA RegionAbstract ==
  ASSUME IInv, Quiet, value' = value, header' = header,
         NEW D, D \subseteq FreeAddr \/ D \subseteq RegionSet,
         \A a \in Addr : a \notin D => heap'[a] = heap[a]
  PROVE  Abstract
<1>1. \A q \in Places : Holdings[q] \cap D = {}
  BY HoldingsAreLeaves DEF IInv, Partition
<1>2. \A a \in Addr : heap[a].kind = "slots" => a \notin D
  BY HoldingsAreLeaves DEF IInv, Partition
<1>3. Content' = Content
  BY <1>1, <1>2, HoldingOf, OutsideContent
<1>4. \A w \in Variables : Meanings'[w] = Meanings[w]
  BY <1>1, HoldingOf, OutsideVariable
<1>5. Meanings' = Meanings
  BY <1>4, MeaningNow, MeaningNext
<1> QED BY <1>3, <1>5, AbstractCases

LEMMA ProgramAbstract ==
  ASSUME IInv, ProgramNext
  PROVE  Abstract
<1>0. heap = [a \in Addr |-> heap[a]] /\ \A a \in FreeAddr : a \in Addr
  BY DEF IInv, HeapOK, FreeAddr
<1>1. CASE \E v \in Variables : DropVariable(v)
  BY <1>1, DropVariableAbstract
<1>2. ASSUME NEW v \in Variables, NEW a \in FreeAddr, NEW d, BuildLeaf(v, a, d)
      PROVE  Abstract
  <2>1. \E el : value' = [value EXCEPT ![v] = el]
    BY <1>2 DEF BuildLeaf
  <2>2. {a} \in SUBSET FreeAddr /\ \A b \in Addr : b \notin {a} => heap'[b] = heap[b]
    BY <1>0, <1>2 DEF BuildLeaf
  <2>3. value[v] = Zero(v) /\ header' = header /\ call' = Answer("compute", <<v>>, TRUE)
    BY <1>2 DEF BuildLeaf
  <2> QED BY <2>1, <2>2, <2>3, BuildAbstract
<1>3. ASSUME NEW v \in Variables, NEW tag \in {0, 1}, NEW bits \in Addr, NEW d,
             BuildCarrier(v, tag, bits, d)
      PROVE  Abstract
  <2> DEFINE D == IF tag = 1 THEN {bits} ELSE {}
  <2>1. \E el : value' = [value EXCEPT ![v] = el]
    BY <1>3 DEF BuildCarrier
  <2>2. D \in SUBSET FreeAddr /\ \A b \in Addr : b \notin D => heap'[b] = heap[b]
    BY <1>0, <1>3 DEF BuildCarrier, Payload
  <2>3. value[v] = Zero(v) /\ header' = header /\ call' = Answer("compute", <<v>>, TRUE)
    BY <1>3 DEF BuildCarrier
  <2> HIDE DEF D
  <2> QED BY <2>1, <2>2, <2>3, BuildAbstract
<1>4. ASSUME NEW v \in Variables, NEW tag \in {0, 1}, NEW bits \in Addr, NEW d,
             NEW first \in FreeAddr, BuildRecord(v, tag, first, bits, d)
      PROVE  Abstract
  <2> DEFINE D == {first} \cup (IF tag = 1 THEN {bits} ELSE {})
  <2>1. \E el : value' = [value EXCEPT ![v] = el]
    BY <1>4 DEF BuildRecord
  <2>2. D \in SUBSET FreeAddr /\ \A b \in Addr : b \notin D => heap'[b] = heap[b]
    BY <1>0, <1>4 DEF BuildRecord, Payload
  <2>3. value[v] = Zero(v) /\ header' = header /\ call' = Answer("compute", <<v>>, TRUE)
    BY <1>4 DEF BuildRecord
  <2> HIDE DEF D
  <2> QED BY <2>1, <2>2, <2>3, BuildAbstract
<1>5. ASSUME NEW a \in FreeAddr, RegionCreate(a) PROVE Abstract
  <2>1. {a} \subseteq FreeAddr /\ \A b \in Addr : b \notin {a} => heap'[b] = heap[b]
    BY <1>0, <1>5 DEF RegionCreate
  <2>2. Quiet
    BY <1>5 DEF RegionCreate, Answer, Quiet
  <2> QED BY <1>5, <2>1, <2>2, RegionAbstract DEF RegionCreate
<1>6. ASSUME NEW a \in FreeAddr, NEW reserved \in BOOLEAN, RegionAllocate(a, reserved)
      PROVE  Abstract
  <2>1. {a} \subseteq FreeAddr /\ \A b \in Addr : b \notin {a} => heap'[b] = heap[b]
    BY <1>0, <1>6 DEF RegionAllocate
  <2>2. Quiet
    BY <1>6 DEF RegionAllocate, Answer, Quiet
  <2> QED BY <1>6, <2>1, <2>2, RegionAbstract DEF RegionAllocate
<1>7. CASE RegionDestroy
  <2>1. region.blocks \cup {region.handle} = RegionSet
    BY <1>7 DEF RegionDestroy, IInv, RegionOK, RegionSet
  <2>2. \A b \in Addr : b \notin RegionSet => heap'[b] = heap[b]
    BY <1>7, <2>1 DEF RegionDestroy, Released
  <2>3. Quiet
    BY <1>7 DEF RegionDestroy, Answer, Quiet
  <2> QED BY <1>7, <2>2, <2>3, RegionAbstract DEF RegionDestroy
<1> QED BY <1>1, <1>2, <1>3, <1>4, <1>5, <1>6, <1>7 DEF ProgramNext

LEMMA BufferAbstract ==
  ASSUME IInv, IInv', NEW o \in Buffers, BufferNext(o)
  PROVE  Abstract
<1>0. Length(o) \in Nat /\ MaxCapacity \in Nat
  BY HeaderFacts
<1>1. CASE \E c \in 1..MaxCapacity, a \in FreeAddr : BufferCreate(o, c, a)
  BY <1>1, CreateAbstract
<1>2. CASE \E n \in 1..MaxCapacity : BufferReserve(o, n)
  BY <1>2, ReserveAbstract
<1>3. CASE \E n \in 0..MaxCapacity :
             ResizeMove(o, n) \/ ResizeMoveOwnedString(o, n) \/ ResizeMoveRecordFields(o, n)
  BY <1>3, GrowAbstract, ShrinkAbstract DEF ResizeMove, ResizeMoveOwnedString,
     ResizeMoveRecordFields
<1>4. CASE ClearMove(o)
  <2>1. 0 \in 0..MaxCapacity
    BY <1>0
  <2> QED BY <1>4, <2>1, ShrinkAbstract DEF ClearMove
<1>5. CASE \E i \in 1..(Length(o) + 1), v \in VariablesOf(o) :
             Length(o) < MaxCapacity /\ InsertMoveFrom(o, i, v)
  BY <1>5, InsertAbstract
<1>6. CASE \E i \in 1..Length(o), v \in VariablesOf(o) : RemoveMoveInto(o, i, v) \/ RemoveMove(o, i, v)
  BY <1>6, RemoveAbstract DEF Removes
<1>7. CASE Length(o) > 0 /\ \E v \in VariablesOf(o) : Pop(o, v)
  <2>1. Length(o) \in 1..Length(o)
    BY <1>0, <1>7
  <2> QED BY <1>7, <2>1, RemoveAbstract DEF Pop, Removes
<1>8. CASE \E i \in 1..Length(o) : RemoveDropNestedBuffer(o, i) \/ RemoveDropOwnedString(o, i)
                                   \/ RemoveDropRecordFields(o, i)
  BY <1>8, DropAbstract DEF RemoveDropNestedBuffer, RemoveDropOwnedString, RemoveDropRecordFields
<1>9. CASE DestroyNestedBuffer(o) \/ DestroyOwnedString(o) \/ DestroyCarrierBuffer(o)
           \/ DestroyRecordFields(o)
  BY <1>9, DestroyAbstract
     DEF DestroyNestedBuffer, DestroyOwnedString, DestroyCarrierBuffer, DestroyRecordFields
<1> QED BY <1>1, <1>2, <1>3, <1>4, <1>5, <1>6, <1>7, <1>8, <1>9 DEF BufferNext

LEMMA InitAbstract == Init => Sequences!Init
<1> SUFFICES ASSUME Init PROVE Sequences!Init
  OBVIOUS
<1>1. \A o \in Buffers : Length(o) = 0
  BY DEF Init, Length, EMPTY
<1>2. Content = [o \in Buffers |-> <<>>]
  <2>1. \A o \in Buffers : Content[o] = <<>>
    BY <1>1, MeaningNow
  <2> QED BY <2>1, MeaningNow
<1>3. [v \in Variables |-> Meaning(value[v])] = [v \in Variables |-> ZeroMeaning(v)]
  <2>1. \A v \in Variables : Meaning(value[v]) = ZeroMeaning(v)
    BY ZeroMeans DEF Init, Meaning, MeaningIn
  <2> QED BY <2>1
<1>4. call = Sequences!Ok("none", <<>>)
  BY AnswerOk DEF Init
<1> QED BY <1>2, <1>3, <1>4 DEF Sequences!Init

LEMMA StepAbstract ==
  ASSUME IInv, [Next]_vars
  PROVE  [Sequences!Next]_(Sequences!vars)
<1>1. CASE UNCHANGED vars
  BY <1>1, StutterAbstract DEF vars, Abstract, Quiet
<1>2. CASE Next
  <2>1. IInv'
    BY NextIInv
  <2> QED BY <1>2, <2>1, ProgramAbstract, BufferAbstract DEF Next, Abstract
<1> QED BY <1>1, <1>2

(* Every call on a buffer of owning values that answers Ok is the operation  *)
(* on a sequence of values that its name and arguments say: a move transfers *)
(* one element and keeps the order of the others.  Reservations and calls    *)
(* that answer OutOfMemory change no sequence and no variable, and no        *)
(* operation on one owner changes what another one means.                    *)
THEOREM BuffersAreSequences == Spec => RefinesSequences
<1>1. IInv /\ [Next]_vars => [Sequences!Next]_(Sequences!vars)
  BY StepAbstract
<1> QED BY <1>1, InvariantHolds, InitAbstract, PTL DEF Spec, RefinesSequences, Sequences!Spec

-----------------------------------------------------------------------------
(* The callback table.                                                     *)

\* Where the registering thread is.
RegistrarInv ==
  \A t \in Registrars :
    \/ registrar[t] = NotRegistering
    \/ registrar[t].r = Len(tables) /\ registrar[t].r > 0 /\ registrar[t].step \in 1..9

\* The addresses that were disabled before the context is replaced.
Disabled(k) ==
  /\ k > 1 => address["log"] = 0
  /\ k > 2 => address["begin"] = 0
  /\ k > 3 => address["end"] = 0
  /\ k > 4 => address["counter"] = 0

\* The context against the progress of the registration.
ContextInv ==
  \A t \in Registrars :
    /\ registrar[t] = NotRegistering => context = Len(tables)
    /\ registrar[t] # NotRegistering /\ registrar[t].step \in 1..5 => Disabled(registrar[t].step)
    /\ registrar[t] # NotRegistering /\ registrar[t].step \in 6..9 => context = Len(tables)

\* What a dispatcher has loaded against what is published now.
LoadedInv ==
  \A d \in Dispatchers :
    /\ dispatcher[d].at = "loaded" => dispatcher[d].f <= context
    /\ dispatcher[d].at \in {"ready", "calling"} => dispatcher[d].f <= dispatcher[d].c

\* Late calls are counted while no registration runs, and after the first
\* one a dispatcher holds no address of a replaced table.
LateInv ==
  \A d \in Dispatchers :
    /\ (\E t \in Registrars : registrar[t] # NotRegistering) => late[d] = 0
    /\ late[d] <= 1
    /\ late[d] = 1 => \/ dispatcher[d].at \in {"idle", "calling"}
                      \/ dispatcher[d].f = Len(tables)

CallbackInv ==
  /\ TypeOK /\ RegistrarInv /\ ContextInv /\ PublishedPairsMatch
  /\ LoadedInv /\ LateInv

\* The nine stores, and the slots they write.
LEMMA StoreShape ==
  ASSUME NEW k \in 1..9
  PROVE  /\ k \in 1..4 => Store(k) = [kind |-> "clear", slot |-> SlotOrder[k]]
         /\ k = 5 => Store(k) = [kind |-> "context", slot |-> "log"]
         /\ k \in 6..9 => Store(k) = [kind |-> "publish", slot |-> SlotOrder[k - 5]]
  BY DEF Store

LEMMA SlotOrderSlots ==
  /\ SlotOrder[1] = "log" /\ SlotOrder[2] = "begin"
  /\ SlotOrder[3] = "end" /\ SlotOrder[4] = "counter"
  /\ \A j \in 1..4 : SlotOrder[j] \in CallbackSlots
  BY DEF SlotOrder, CallbackSlots

LEMMA CallbackInvInit == CallbacksInit => CallbackInv
<1> SUFFICES ASSUME CallbacksInit PROVE CallbackInv
  OBVIOUS
<1>1. tables \in Seq(SUBSET CallbackSlots) /\ Len(tables) = 0
  BY DEF CallbacksInit
<1>2. TypeOK
  <2>1. NotRegistering \in [r : 0..Len(tables), step : 0..9]
    BY <1>1 DEF NotRegistering
  <2>2. NotDispatching \in
                           [at : {"idle", "loaded", "ready", "calling"}, slot : CallbackSlots,
                            f : 0..Len(tables), c : 0..Len(tables)]
    BY <1>1 DEF NotDispatching, CallbackSlots
  <2>3. registrar \in [Registrars -> [r : 0..Len(tables), step : 0..9]]
    BY <2>1 DEF CallbacksInit
  <2>4. dispatcher \in [Dispatchers ->
                        [at : {"idle", "loaded", "ready", "calling"}, slot : CallbackSlots,
                         f : 0..Len(tables), c : 0..Len(tables)]]
    BY <2>2 DEF CallbacksInit
  <2>5. late \in [Dispatchers -> Nat]
    BY DEF CallbacksInit
  <2>6. address \in [CallbackSlots -> 0..Len(tables)]
    BY <1>1 DEF CallbacksInit
  <2>7. context \in 0..Len(tables)
    BY <1>1 DEF CallbacksInit
  <2>8. initialized \in BOOLEAN
    BY Zenon DEF CallbacksInit
  <2> QED BY <1>1, <2>3, <2>4, <2>5, <2>6, <2>7, <2>8 DEF TypeOK
<1>3. RegistrarInv /\ ContextInv /\ PublishedPairsMatch
  BY <1>1 DEF CallbacksInit, RegistrarInv, ContextInv, PublishedPairsMatch
<1>4. LoadedInv /\ LateInv
  BY <1>1 DEF CallbacksInit, LoadedInv, LateInv, NotDispatching
<1> QED BY <1>2, <1>3, <1>4 DEF CallbackInv

-----------------------------------------------------------------------------
LEMMA CallbackInvStep ==
  ASSUME NEW r0, Registrars = {r0}, CallbackInv, [CallbacksNext]_callbackVars
  PROVE  CallbackInv'
<1> USE DEF CallbackInv
<1>1. CASE UNCHANGED callbackVars
  BY <1>1 DEF callbackVars, TypeOK, RegistrarInv, ContextInv, Disabled,
     PublishedPairsMatch, LoadedInv, LateInv
<1>2. ASSUME NEW major, NEW minor, Initialize(major, minor)
      PROVE  CallbackInv'
  BY <1>2 DEF Initialize, TypeOK, RegistrarInv, ContextInv, Disabled,
     PublishedPairsMatch, LoadedInv, LateInv
<1>3. ASSUME NEW t \in Registrars, NEW given \in Tables, BeginRegistration(t, given)
      PROVE  CallbackInv'
  <2>1. t = r0 /\ given \in SUBSET CallbackSlots
    BY TablesAssumption DEF CallbackSlots
  <2>2. Len(tables') = Len(tables) + 1 /\ tables' \in Seq(SUBSET CallbackSlots)
    BY <1>3, <2>1 DEF BeginRegistration, TypeOK
  <2>3. Len(tables) \in Nat
    BY DEF TypeOK
  <2>4. registrar'[r0] = [r |-> Len(tables'), step |-> 1] /\ registrar'[r0] # NotRegistering
    BY <1>3, <2>1, <2>2, <2>3 DEF BeginRegistration, TypeOK,
       NotRegistering
  <2>5. TypeOK'
    <3>1. registrar' \in [Registrars -> [r : 0..Len(tables'), step : 0..9]]
      BY <1>3, <2>1, <2>2, <2>3 DEF BeginRegistration, TypeOK
    <3>2. dispatcher' \in [Dispatchers ->
                        [at : {"idle", "loaded", "ready", "calling"}, slot : CallbackSlots,
                         f : 0..Len(tables'), c : 0..Len(tables')]]
      BY <1>3, <2>2, <2>3 DEF BeginRegistration, TypeOK
    <3> QED
      BY <1>3, <2>2, <2>3, <3>1, <3>2 DEF BeginRegistration, TypeOK
  <2>6. RegistrarInv'
    BY <2>2, <2>3, <2>4 DEF RegistrarInv
  <2>7. ContextInv'
    BY <2>4 DEF ContextInv, Disabled
  <2>8. PublishedPairsMatch' /\ LoadedInv'
    BY <1>3 DEF BeginRegistration, PublishedPairsMatch, LoadedInv
  <2>9. LateInv'
    BY <1>3 DEF BeginRegistration, LateInv
  <2> QED BY <2>5, <2>6, <2>7, <2>8, <2>9
<1>4. ASSUME NEW t \in Registrars, SetCallbacks(t)
      PROVE  CallbackInv'
  <2> DEFINE k == registrar[r0].step
             r == registrar[r0].r
  <2>1. t = r0
    OBVIOUS
  <2>2. /\ registrar[r0] # NotRegistering
        /\ k \in 1..9 /\ r = Len(tables) /\ r > 0
        /\ tables' = tables /\ dispatcher' = dispatcher /\ late' = late
        /\ initialized' = initialized
    BY <1>4, <2>1 DEF SetCallbacks, ClearAddress, PublishContext,
       PublishAddress, RegistrarInv,
       NotRegistering
  <2>3. /\ k < 9 => registrar'[r0] = [r |-> r, step |-> k + 1]
        /\ k = 9 => registrar'[r0] = NotRegistering
        /\ registrar' \in [Registrars -> [r : 0..Len(tables), step : 0..9]]
    <3>1. NextStore(r0)
      BY <1>4, <2>1 DEF SetCallbacks, ClearAddress, PublishContext,
         PublishAddress
    <3>2. registrar \in [Registrars -> [r : 0..Len(tables), step : 0..9]] /\ Len(tables) \in Nat
      BY DEF TypeOK
    <3>3. registrar' = [registrar EXCEPT ![r0] =
             IF k = 9 THEN NotRegistering ELSE [r |-> r, step |-> k + 1]]
      BY <3>1, <3>2 DEF NextStore
    <3>4. NotRegistering \in [r : 0..Len(tables), step : 0..9]
      BY <3>2 DEF NotRegistering
    <3>5. k < 9 => [r |-> r, step |-> k + 1] \in [r : 0..Len(tables), step : 0..9]
      BY <2>2, <3>2
    <3> QED BY <2>2, <3>2, <3>3, <3>4, <3>5
  <2>4. k < 9 => registrar'[r0] # NotRegistering
    BY <2>2, <2>3 DEF NotRegistering
  <2>5. RegistrarInv'
    BY <2>2, <2>3 DEF RegistrarInv
  <2>6. LateInv'
    BY <2>2 DEF LateInv
  <2>7. CASE k \in 1..4
    <3>1. ClearAddress(r0)
      BY <1>4, <2>1, <2>7 DEF SetCallbacks, PublishContext,
         PublishAddress, Store
    <3>2. /\ address' = [address EXCEPT ![SlotOrder[k]] = 0] /\ context' = context
          /\ SlotOrder[k] \in CallbackSlots
      <4>1. Store(k) = [kind |-> "clear", slot |-> SlotOrder[k]]
        BY <2>2, <2>7, StoreShape
      <4> QED BY <2>7, <3>1, <4>1, SlotOrderSlots DEF ClearAddress, Cleared
    <3>3. TypeOK' /\ PublishedPairsMatch' /\ LoadedInv'
      BY <2>2, <2>3, <3>2 DEF TypeOK, PublishedPairsMatch, LoadedInv
    <3>4. Disabled(k)
      BY <2>2, <2>7 DEF ContextInv
    <3>5. /\ k + 1 > 1 => address'["log"] = 0
          /\ k + 1 > 2 => address'["begin"] = 0
          /\ k + 1 > 3 => address'["end"] = 0
          /\ k + 1 > 4 => address'["counter"] = 0
      <4>1. address \in [CallbackSlots -> 0..Len(tables)]
        BY DEF TypeOK
      <4>2. address'["log"] = IF SlotOrder[k] = "log" THEN 0 ELSE address["log"]
        BY <3>2, <4>1 DEF CallbackSlots
      <4>3. address'["begin"] = IF SlotOrder[k] = "begin" THEN 0 ELSE address["begin"]
        BY <3>2, <4>1 DEF CallbackSlots
      <4>4. address'["end"] = IF SlotOrder[k] = "end" THEN 0 ELSE address["end"]
        BY <3>2, <4>1 DEF CallbackSlots
      <4>5. address'["counter"] = IF SlotOrder[k] = "counter" THEN 0 ELSE address["counter"]
        BY <3>2, <4>1 DEF CallbackSlots
      <4>6. k = 1 \/ k = 2 \/ k = 3 \/ k = 4
        BY <2>7
      <4> QED BY <3>4, <4>2, <4>3, <4>4, <4>5, <4>6, SlotOrderSlots DEF Disabled
    <3>6. registrar'[r0].step = k + 1 /\ k + 1 \in 2..5
      BY <2>3, <2>7
    <3>7. ContextInv'
      BY <2>4, <2>7, <3>5, <3>6 DEF ContextInv, Disabled
    <3> QED BY <2>5, <2>6, <3>3, <3>7
  <2>8. CASE k = 5
    <3>1. PublishContext(r0)
      BY <1>4, <2>1, <2>8 DEF SetCallbacks, ClearAddress,
         PublishAddress, Store
    <3>2. context' = r /\ address' = address
      BY <3>1 DEF PublishContext
    <3>3. \A s \in CallbackSlots : address[s] = 0
      BY <2>2, <2>8 DEF ContextInv, Disabled, CallbackSlots
    <3>4. context <= r
      BY <2>2 DEF TypeOK
    <3>5. TypeOK' /\ PublishedPairsMatch' /\ LoadedInv'
      BY <2>2, <2>3, <3>2, <3>3, <3>4 DEF TypeOK, PublishedPairsMatch, LoadedInv
    <3>6. ContextInv'
      BY <2>2, <2>3, <2>4, <2>8, <3>2 DEF ContextInv
    <3> QED BY <2>5, <2>6, <3>5, <3>6
  <2>9. CASE k \in 6..9
    <3>1. PublishAddress(r0)
      BY <1>4, <2>1, <2>9 DEF SetCallbacks, ClearAddress,
         PublishContext, Store
    <3>2. /\ SlotOrder[k - 5] \in CallbackSlots /\ context' = context
          /\ address' = [address EXCEPT ![SlotOrder[k - 5]] =
                           IF SlotOrder[k - 5] \in tables[r] THEN r ELSE 0]
      <4>1. Store(k) = [kind |-> "publish", slot |-> SlotOrder[k - 5]]
        BY <2>2, <2>9, StoreShape
      <4>2. k - 5 \in 1..4
        BY <2>9
      <4> QED BY <3>1, <4>1, <4>2, SlotOrderSlots DEF PublishAddress
    <3>3. context = r
      BY <2>2, <2>9 DEF ContextInv
    <3>4. TypeOK' /\ PublishedPairsMatch' /\ LoadedInv'
      BY <2>2, <2>3, <3>2, <3>3 DEF TypeOK, PublishedPairsMatch, LoadedInv
    <3>5. ContextInv'
      BY <2>2, <2>3, <2>4, <2>9, <3>2, <3>3 DEF ContextInv
    <3> QED BY <2>5, <2>6, <3>4, <3>5
  <2> QED BY <2>2, <2>7, <2>8, <2>9
<1>5. ASSUME NEW d \in Dispatchers, NEW s \in CallbackSlots, LoadAddress(d, s)
      PROVE  CallbackInv'
  <2>1. /\ UNCHANGED <<initialized, address, context, tables, registrar, late>>
        /\ dispatcher' = [dispatcher EXCEPT ![d] =
                            [at |-> "loaded", slot |-> s, f |-> address[s], c |-> 0]]
        /\ address[s] = context /\ dispatcher[d].at = "idle"
    BY <1>5 DEF LoadAddress, PublishedPairsMatch
  <2>2. TypeOK'
    BY <2>1 DEF TypeOK
  <2>3. RegistrarInv' /\ ContextInv' /\ PublishedPairsMatch'
    BY <2>1 DEF RegistrarInv, ContextInv, Disabled, PublishedPairsMatch
  <2>4. LoadedInv'
    BY <2>1 DEF LoadedInv, TypeOK
  <2>5. late[d] = 1 => context = Len(tables)
    BY DEF LateInv, ContextInv
  <2>6. LateInv'
    BY <2>1, <2>5 DEF LateInv, TypeOK
  <2> QED BY <2>2, <2>3, <2>4, <2>6
<1>6. ASSUME NEW d \in Dispatchers, LoadContext(d)
      PROVE  CallbackInv'
  <2>1. /\ UNCHANGED <<initialized, address, context, tables, registrar, late>>
        /\ dispatcher' = [dispatcher EXCEPT ![d].at = "ready", ![d].c = context]
        /\ dispatcher[d].at = "loaded"
    BY <1>6 DEF LoadContext
  <2>2. TypeOK'
    <3>1. PICK e : /\ e = [dispatcher[d] EXCEPT !.at = "ready", !.c = context]
                   /\ dispatcher' = [dispatcher EXCEPT ![d] = e]
      BY <2>1
    <3>2. e \in [at : {"idle", "loaded", "ready", "calling"}, slot : CallbackSlots,
                f : 0..Len(tables), c : 0..Len(tables)]
      <4>1. PICK x \in CallbackSlots, f \in 0..Len(tables), c \in 0..Len(tables) :
              dispatcher[d] = [at |-> "loaded", slot |-> x, f |-> f, c |-> c]
        BY <2>1 DEF TypeOK
      <4>2. PICK g : g = [dispatcher[d] EXCEPT !.at = "ready"] /\ e = [g EXCEPT !.c = context]
        BY <3>1
      <4>3. g = [at |-> "ready", slot |-> x, f |-> f, c |-> c]
        BY <4>1, <4>2
      <4>4. e = [g EXCEPT !.c = context]
        BY <4>2
      <4>5. e = [at |-> "ready", slot |-> x, f |-> f, c |-> context]
        BY <4>3, <4>4
      <4> QED BY <4>5 DEF TypeOK
    <3> QED BY <2>1, <3>1, <3>2 DEF TypeOK
  <2>3. RegistrarInv' /\ ContextInv' /\ PublishedPairsMatch'
    BY <2>1 DEF RegistrarInv, ContextInv, Disabled, PublishedPairsMatch
  <2>4. LoadedInv'
    BY <2>1 DEF LoadedInv, TypeOK
  <2>5. LateInv'
    BY <2>1 DEF LateInv, TypeOK
  <2> QED BY <2>2, <2>3, <2>4, <2>5
<1>7. ASSUME NEW d \in Dispatchers, Call(d)
      PROVE  CallbackInv'
  <2>1. /\ UNCHANGED <<initialized, address, context, tables, registrar>>
        /\ dispatcher' = [dispatcher EXCEPT ![d].at = "calling"]
        /\ dispatcher[d].at = "ready"
        /\ late' = IF Settled(Len(tables)) /\ dispatcher[d].f < Len(tables)
                   THEN [late EXCEPT ![d] = @ + 1] ELSE late
    BY <1>7 DEF Call
  <2>2. TypeOK'
    <3>1. late' \in [Dispatchers -> Nat]
      BY <2>1 DEF TypeOK
    <3>2. dispatcher' \in [Dispatchers ->
                        [at : {"idle", "loaded", "ready", "calling"}, slot : CallbackSlots,
                         f : 0..Len(tables'), c : 0..Len(tables')]]
      <4>1. PICK e : /\ e = [dispatcher[d] EXCEPT !.at = "calling"]
                     /\ dispatcher' = [dispatcher EXCEPT ![d] = e]
        BY <2>1
      <4>2. e \in [at : {"idle", "loaded", "ready", "calling"}, slot : CallbackSlots,
                  f : 0..Len(tables), c : 0..Len(tables)]
        <5>1. PICK x \in CallbackSlots, f \in 0..Len(tables), c \in 0..Len(tables) :
                dispatcher[d] = [at |-> "ready", slot |-> x, f |-> f, c |-> c]
          BY <2>1 DEF TypeOK
        <5>2. e = [at |-> "calling", slot |-> x, f |-> f, c |-> c]
          BY <4>1, <5>1
        <5> QED BY <5>2 DEF TypeOK
      <4> QED BY <2>1, <4>1, <4>2 DEF TypeOK
    <3> QED BY <2>1, <3>1, <3>2 DEF TypeOK
  <2>3. RegistrarInv' /\ ContextInv' /\ PublishedPairsMatch'
    BY <2>1 DEF RegistrarInv, ContextInv, Disabled, PublishedPairsMatch
  <2>4. LoadedInv'
    BY <2>1 DEF LoadedInv, TypeOK
  <2>5. dispatcher[d].f < Len(tables) => late[d] = 0
    <3>1. late[d] \in Nat /\ dispatcher[d].f \in 0..Len(tables)
      BY DEF TypeOK
    <3>2. late[d] <= 1 /\ (late[d] = 1 => dispatcher[d].f = Len(tables))
      BY <2>1 DEF LateInv
    <3> QED BY <3>1, <3>2
  <2>6. LateInv'
    BY <2>1, <2>5 DEF LateInv, TypeOK, Settled
  <2> QED BY <2>2, <2>3, <2>4, <2>6
<1>8. ASSUME NEW d \in Dispatchers, Return(d)
      PROVE  CallbackInv'
  <2>1. /\ UNCHANGED <<initialized, address, context, tables, registrar, late>>
        /\ dispatcher' = [dispatcher EXCEPT ![d] = NotDispatching]
    BY <1>8 DEF Return, Returned
  <2>2. NotDispatching.at = "idle" /\ NotDispatching \in
          [at : {"idle", "loaded", "ready", "calling"}, slot : CallbackSlots,
           f : 0..Len(tables), c : 0..Len(tables)]
    BY DEF NotDispatching, CallbackSlots, TypeOK
  <2>3. TypeOK'
    BY <2>1, <2>2 DEF TypeOK
  <2>4. RegistrarInv' /\ ContextInv' /\ PublishedPairsMatch'
    BY <2>1 DEF RegistrarInv, ContextInv, Disabled, PublishedPairsMatch
  <2>5. LoadedInv' /\ LateInv'
    BY <2>1, <2>2 DEF LoadedInv, LateInv, TypeOK
  <2> QED BY <2>3, <2>4, <2>5
<1> QED
  BY <1>1, <1>2, <1>3, <1>4, <1>5, <1>6, <1>7, <1>8 DEF CallbacksNext

-----------------------------------------------------------------------------
LEMMA CallbackInvariant ==
  ASSUME NEW CONSTANT r0, Registrars = {r0}
  PROVE  CallbacksSpec => []CallbackInv
<1>1. CallbacksInit => CallbackInv
  BY CallbackInvInit
<1>2. CallbackInv /\ [CallbacksNext]_callbackVars => CallbackInv'
  BY CallbackInvStep
<1> QED BY <1>1, <1>2, PTL DEF CallbacksSpec

(* set_callbacks: with one registering thread, an address that a dispatch  *)
(* can load always belongs to the registration whose context is published, *)
(* in the middle of a registration too.                                    *)
THEOREM PairsMatch ==
  ASSUME NEW CONSTANT r0, Registrars = {r0}
  PROVE  CallbacksSpec => []PublishedPairsMatch
<1>1. CallbackInv => PublishedPairsMatch
  BY DEF CallbackInv
<1> QED BY <1>1, CallbackInvariant, PTL

(* log and the profiler calls: with one registering thread, a callback is  *)
(* never entered with a context older than its own registration.           *)
THEOREM NeverOlder ==
  ASSUME NEW CONSTANT r0, Registrars = {r0}
  PROVE  CallbacksSpec => []ContextNotOlder
<1>1. CallbackInv => ContextNotOlder
  BY DEF CallbackInv, TypeOK, LoadedInv, ContextNotOlder
<1> QED BY <1>1, CallbackInvariant, PTL

(* Once the stores of set_callbacks are visible, each dispatching thread   *)
(* enters a replaced callback at most once, however many tables were       *)
(* replaced before.                                                        *)
THEOREM AtMostOneLate ==
  ASSUME NEW CONSTANT r0, Registrars = {r0}
  PROVE  CallbacksSpec => []OneLateCall
<1>1. CallbackInv => OneLateCall
  BY DEF CallbackInv, LateInv, OneLateCall
<1> QED BY <1>1, CallbackInvariant, PTL
=============================================================================
