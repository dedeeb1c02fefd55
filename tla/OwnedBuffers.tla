----------------------------- MODULE OwnedBuffers -----------------------------
(***************************************************************************)
(* Owning values in the buffers of the host runtime (jadren-runtime): the  *)
(* moves, removals, resizes and destructors of Buffer<Buffer<U>>, of       *)
(* Buffer<OwnedString>, of a buffer of carriers (Option, Result or enum    *)
(* with an owning payload) and of a buffer of records with owning fields,  *)
(* and the lexical regions, over one heap.                                 *)
(*                                                                         *)
(* An element is a tag and a sequence of cells; an active cell holds the   *)
(* descriptor of an allocation of its own, or the empty descriptor Null.   *)
(* The cell of a carrier and the second cell of a record are payloads: the *)
(* tag tells whether there is a descriptor, and otherwise the bits are     *)
(* arbitrary and may well read as the address of somebody else's           *)
(* allocation.  A nested buffer or string is represented by its allocation *)
(* and what it contains.                                                   *)
(*                                                                         *)
(* The ABI calls have exclusive access to their headers, so a call is one  *)
(* step.  A generated program passes the layouts, field tables and tags of *)
(* its own types; calls with wrong ones, which a record call may notice    *)
(* only after it has destroyed some fields, and indices out of range,      *)
(* which return at once, are left out.  Running out of memory is not.      *)
(***************************************************************************)
EXTENDS Naturals, Sequences, FiniteSets

CONSTANTS Addr,                        \* addresses the allocator may return
          Nested, Strings, Carriers, Records,   \* buffers, by type of element
          NestedVar, StringVar, CarrierVar, RecordVar,   \* variables of those types
          Data,                        \* what a nested buffer or string contains
          MaxCapacity                  \* bound: elements of a buffer

Null == "null"
Buffers == Nested \cup Strings \cup Carriers \cup Records
Variables == NestedVar \cup StringVar \cup CarrierVar \cup RecordVar

\* A buffer and the variables it exchanges elements with.
VariablesOf(o) ==
  CASE o \in Nested -> NestedVar
    [] o \in Strings -> StringVar
    [] o \in Carriers -> CarrierVar
    [] OTHER -> RecordVar

\* A name is a buffer or a variable and has one type of element.
ASSUME NamesAssumption ==
  /\ Buffers \cap Variables = {} /\ "region" \notin Buffers \cup Variables
  /\ (Carriers \cup CarrierVar) \cap (Nested \cup NestedVar \cup Strings \cup StringVar) = {}
  /\ (Records \cup RecordVar) \cap (Nested \cup NestedVar \cup Strings \cup StringVar
                                   \cup Carriers \cup CarrierVar) = {}

ASSUME HeapAssumption == IsFiniteSet(Addr) /\ Null \notin Addr /\ MaxCapacity \in Nat

VARIABLES heap,     \* per address: free, a leaf with its data, or the slots of a buffer
          header,   \* Buffer: pointer, length and capacity
          value,    \* the element in each variable
          region,   \* a region: its handle and the blocks it records
          call      \* history: the last call, its arguments and its BufferStatus

vars == <<heap, header, value, region, call>>

Free == [kind |-> "free"]
Leaf(d) == [kind |-> "leaf", data |-> d]
Block(s) == [kind |-> "slots", slots |-> s]
EMPTY == [pointer |-> Null, length |-> 0, capacity |-> 0]

\* plain: how many of the cells are owning fields whatever the tag.
Width(p) == IF p \in Records \cup RecordVar THEN 2 ELSE 1
Plain(p) == IF p \in Carriers \cup CarrierVar THEN 0 ELSE 1
Zero(p) == [tag |-> 0, plain |-> Plain(p), cells |-> [c \in 1..Width(p) |-> Null]]
Uninitialized == [tag |-> 0, plain |-> 1, cells |-> <<"uninitialized">>]
NoRegion == [handle |-> Null, blocks |-> {}]

\* What a call answers.
Answer(op, args, ok) ==
  [op |-> op, args |-> args, status |-> IF ok THEN "Ok" ELSE "OutOfMemory"]

Init ==
  /\ heap = [a \in Addr |-> Free]
  /\ header = [o \in Buffers |-> EMPTY]
  /\ value = [v \in Variables |-> Zero(v)]
  /\ region = NoRegion
  /\ call = Answer("none", <<>>, TRUE)

FreeAddr == {a \in Addr : heap[a] = Free}
Slots(o) == heap[header[o].pointer].slots
Length(o) == header[o].length

\* The test of a carrier's tag, and record_field_is_active.
ActiveCells(el) == {c \in 1..Len(el.cells) : c <= el.plain \/ el.tag = 1}

\* The allocations a destructor of the element releases.
Owned(el) == {el.cells[c] : c \in ActiveCells(el)} \ {Null}

Released(h, S) == [a \in Addr |-> IF a \in S THEN Free ELSE h[a]]

-----------------------------------------------------------------------------
(* The program's own variables: a value is built from fresh allocations by *)
(* buffer_create, string_from_utf8 and typed stores, and dropped again.    *)
BuildLeaf(v, a, d) ==
  /\ value[v] = Zero(v)
  /\ v \in NestedVar \cup StringVar
  /\ heap' = [heap EXCEPT ![a] = Leaf(d)]
  /\ value' = [value EXCEPT ![v].cells[1] = a]
  /\ call' = Answer("compute", <<v>>, TRUE)
  /\ UNCHANGED <<header, region>>

\* A payload is Some over a fresh allocation, or None over arbitrary bits.
Payload(tag, bits) == tag = 1 => bits \in FreeAddr

BuildCarrier(v, tag, bits, d) ==
  /\ value[v] = Zero(v)
  /\ v \in CarrierVar
  /\ Payload(tag, bits)
  /\ heap' = IF tag = 1 THEN [heap EXCEPT ![bits] = Leaf(d)] ELSE heap
  /\ value' = [value EXCEPT ![v].tag = tag, ![v].cells = <<bits>>]
  /\ call' = Answer("compute", <<v>>, TRUE)
  /\ UNCHANGED <<header, region>>

BuildRecord(v, tag, first, bits, d) ==
  /\ value[v] = Zero(v)
  /\ v \in RecordVar
  /\ first \in FreeAddr
  /\ Payload(tag, bits) /\ (tag = 1 => bits # first)
  /\ heap' = [a \in Addr |-> IF a = first \/ (tag = 1 /\ a = bits) THEN Leaf(d) ELSE heap[a]]
  /\ value' = [value EXCEPT ![v].tag = tag, ![v].cells = <<first, bits>>]
  /\ call' = Answer("compute", <<v>>, TRUE)
  /\ UNCHANGED <<header, region>>

\* buffer_destroy, string_destroy, carrier_destroy_buffer and
\* carrier_destroy_record_fields; a carrier is zeroed whatever its tag.
DropVariable(v) ==
  /\ value[v] # Zero(v)
  /\ heap' = Released(heap, Owned(value[v]))
  /\ value' = [value EXCEPT ![v] = Zero(v)]
  /\ call' = Answer("compute", <<v>>, TRUE)
  /\ UNCHANGED <<header, region>>

-----------------------------------------------------------------------------
(* buffer_create and buffer_reserve.  alloc and realloc may fail, and      *)
(* realloc may move the block; added slots are not initialized.            *)
BufferCreate(o, c, a) ==
  /\ header[o] = EMPTY
  /\ c > 0
  /\ heap' = [heap EXCEPT ![a] = Block([j \in 1..c |-> Uninitialized])]
  /\ header' = [header EXCEPT ![o] = [pointer |-> a, length |-> 0, capacity |-> c]]
  /\ call' = Answer("create", <<o>>, TRUE)
  /\ UNCHANGED <<value, region>>

Extended(s, n) == [j \in 1..n |-> IF j <= Len(s) THEN s[j] ELSE Uninitialized]

Moved(o, a, n) ==
  LET old == header[o].pointer
      s == IF old = Null THEN <<>> ELSE Slots(o)
  IN  [ok |-> TRUE,
       heap |-> [Released(heap, {old}) EXCEPT ![a] = Block(Extended(s, n))],
       header |-> [header EXCEPT ![o].pointer = a, ![o].capacity = n]]

Unchanged(status) == [ok |-> status, heap |-> heap, header |-> header]

\* The outcomes of buffer_reserve(o, n).
Reserve(o, n) ==
  IF n <= header[o].capacity THEN {Unchanged(TRUE)}
  ELSE {Unchanged(FALSE)}
       \cup {Moved(o, a, n) : a \in FreeAddr \cup ({header[o].pointer} \ {Null})}

BufferReserve(o, n) ==
  \E r \in Reserve(o, n) :
    /\ heap' = r.heap
    /\ header' = r.header
    /\ call' = Answer("reserve", <<o, n>>, r.ok)
    /\ UNCHANGED <<value, region>>

-----------------------------------------------------------------------------
(* Resizing.  Growth reserves and zeroes the new slots, shrinking destroys *)
(* the elements that leave and resets their slots.                         *)
ZeroedTail(o, s, n) == [j \in 1..Len(s) |-> IF j \in (Length(o) + 1)..n THEN Zero(o) ELSE s[j]]

Grow(o, n) ==
  /\ n > Length(o)
  /\ \E r \in Reserve(o, n) :
       /\ IF r.ok
          THEN LET p == r.header[o].pointer
               IN  /\ heap' = [r.heap EXCEPT ![p].slots = ZeroedTail(o, @, n)]
                   /\ header' = [r.header EXCEPT ![o].length = n]
          ELSE UNCHANGED <<heap, header>>
       /\ call' = Answer("resize", <<o, n>>, r.ok)
  /\ UNCHANGED <<value, region>>

OwnedFrom(o, i) == UNION {Owned(Slots(o)[j]) : j \in i..Length(o)}

Shrink(o, n) ==
  /\ n < Length(o)
  /\ heap' = [Released(heap, OwnedFrom(o, n + 1)) EXCEPT ![header[o].pointer].slots =
                [j \in 1..Len(@) |-> IF j \in (n + 1)..Length(o) THEN Zero(o) ELSE @[j]]]
  /\ header' = [header EXCEPT ![o].length = n]
  /\ call' = Answer("resize", <<o, n>>, TRUE)
  /\ UNCHANGED <<value, region>>

ResizeMove(o, n) == o \in Nested /\ (Grow(o, n) \/ Shrink(o, n))
ResizeMoveOwnedString(o, n) == o \in Strings /\ (Grow(o, n) \/ Shrink(o, n))
ResizeMoveRecordFields(o, n) == o \in Records /\ (Grow(o, n) \/ Shrink(o, n))

\* The move-aware clears resize to zero; there is none for carriers.
ClearMove(o) == o \notin Carriers /\ Length(o) > 0 /\ Shrink(o, 0)

-----------------------------------------------------------------------------
(* Moving a value in.                                                      *)
\* Fault: the source is cleared before the reservation succeeded.
AlwaysCleared(v, ok) == Zero(v)

\* Fault: the source keeps the descriptor that was moved out of it.
NeverCleared(v, ok) == value[v]

SourceAfter(v, ok) == IF ok THEN Zero(v) ELSE value[v]

Opened(s, o, i, el) ==
  [j \in 1..Len(s) |-> IF j = i THEN el
                       ELSE IF j \in (i + 1)..(Length(o) + 1) THEN s[j - 1] ELSE s[j]]

InsertMoveFrom(o, i, v) ==
  \E r \in Reserve(o, Length(o) + 1) :
    /\ value' = [value EXCEPT ![v] = SourceAfter(v, r.ok)]
    /\ IF r.ok
       THEN LET p == r.header[o].pointer
            IN  /\ heap' = [r.heap EXCEPT ![p].slots = Opened(@, o, i, value[v])]
                /\ header' = [r.header EXCEPT ![o].length = @ + 1]
       ELSE UNCHANGED <<heap, header>>
    /\ call' = Answer("insert", <<o, i, v>>, r.ok)
    /\ UNCHANGED region

-----------------------------------------------------------------------------
(* Moving a value out, or dropping it.  The output storage holds no value. *)
\* Slot i is closed by the later ones and the last slot becomes `last'.
Closed(s, o, i, last) ==
  [j \in 1..Len(s) |-> IF j \in i..(Length(o) - 1) THEN s[j + 1]
                       ELSE IF j = Length(o) THEN last ELSE s[j]]

Shorten(o) == header' = [header EXCEPT ![o].length = @ - 1] /\ UNCHANGED region

\* Also buffer_pop_move_into, for the last index.
RemoveMoveInto(o, i, v) ==
  /\ value[v] = Zero(v)
  /\ value' = [value EXCEPT ![v] = Slots(o)[i]]
  /\ heap' = [heap EXCEPT ![header[o].pointer].slots = Closed(@, o, i, Zero(o))]
  /\ call' = Answer("remove", <<o, i, v>>, TRUE)
  /\ Shorten(o)

Pop(o, v) == o \in Nested /\ RemoveMoveInto(o, Length(o), v)

\* buffer_remove_move: slots are emptied as their descriptors move left, so
\* the last slot keeps its bits when it is itself the removed one.
RemoveMove(o, i, v) ==
  /\ o \in Nested
  /\ value[v] = Zero(v)
  /\ value' = [value EXCEPT ![v] = Slots(o)[i]]
  /\ heap' = [heap EXCEPT ![header[o].pointer].slots =
                Closed(@, o, i, IF i = Length(o) THEN @[i] ELSE Zero(o))]
  /\ call' = Answer("remove", <<o, i, v>>, TRUE)
  /\ Shorten(o)

DropAt(o, i) ==
  /\ heap' = [Released(heap, Owned(Slots(o)[i])) EXCEPT ![header[o].pointer].slots =
                Closed(@, o, i, Zero(o))]
  /\ call' = Answer("drop", <<o, i>>, TRUE)
  /\ Shorten(o)
  /\ UNCHANGED value

RemoveDropNestedBuffer(o, i) == o \in Nested /\ DropAt(o, i)
RemoveDropOwnedString(o, i) == o \in Strings /\ DropAt(o, i)
RemoveDropRecordFields(o, i) == o \in Records /\ DropAt(o, i)

-----------------------------------------------------------------------------
(* Destructors: every initialized element, then the block itself.          *)
Destroy(o) ==
  /\ header[o] # EMPTY
  /\ heap' = Released(heap, OwnedFrom(o, 1) \cup {header[o].pointer})
  /\ header' = [header EXCEPT ![o] = EMPTY]
  /\ call' = Answer("destroy", <<o>>, TRUE)
  /\ UNCHANGED <<value, region>>

DestroyNestedBuffer(o) == o \in Nested /\ Destroy(o)
DestroyOwnedString(o) == o \in Strings /\ Destroy(o)
DestroyCarrierBuffer(o) == o \in Carriers /\ Destroy(o)
DestroyRecordFields(o) == o \in Records /\ Destroy(o)

-----------------------------------------------------------------------------
(* Regions: the handle is an allocation of its own; a block is recorded    *)
(* in the handle, and room for the record is reserved before the block is  *)
(* allocated.  Either may fail.                                            *)
RegionCreate(a) ==
  /\ region = NoRegion
  /\ heap' = [heap EXCEPT ![a] = Leaf("region")]
  /\ region' = [handle |-> a, blocks |-> {}]
  /\ call' = Answer("region", <<>>, TRUE)
  /\ UNCHANGED <<header, value>>

RegionAllocate(a, reserved) ==
  /\ region # NoRegion
  /\ heap' = IF reserved THEN [heap EXCEPT ![a] = Leaf("block")] ELSE heap
  /\ region' = IF reserved THEN [region EXCEPT !.blocks = @ \cup {a}] ELSE region
  /\ call' = Answer("region", <<>>, reserved)
  /\ UNCHANGED <<header, value>>

RegionDestroy ==
  /\ region # NoRegion
  /\ heap' = Released(heap, region.blocks \cup {region.handle})
  /\ region' = NoRegion
  /\ call' = Answer("region", <<>>, TRUE)
  /\ UNCHANGED <<header, value>>

-----------------------------------------------------------------------------
ProgramNext ==
  \/ \E v \in Variables : DropVariable(v)
  \/ \E v \in Variables, a \in FreeAddr, d \in Data : BuildLeaf(v, a, d)
  \/ \E v \in Variables, tag \in {0, 1}, bits \in Addr, d \in Data :
       \/ BuildCarrier(v, tag, bits, d)
       \/ \E first \in FreeAddr : BuildRecord(v, tag, first, bits, d)
  \/ \E a \in FreeAddr : RegionCreate(a) \/ \E reserved \in BOOLEAN : RegionAllocate(a, reserved)
  \/ RegionDestroy

BufferNext(o) ==
  \/ \E c \in 1..MaxCapacity, a \in FreeAddr : BufferCreate(o, c, a)
  \/ \E n \in 1..MaxCapacity : BufferReserve(o, n)
  \/ \E n \in 0..MaxCapacity :
       ResizeMove(o, n) \/ ResizeMoveOwnedString(o, n) \/ ResizeMoveRecordFields(o, n)
  \/ ClearMove(o)
  \/ \E i \in 1..(Length(o) + 1), v \in VariablesOf(o) :
       Length(o) < MaxCapacity /\ InsertMoveFrom(o, i, v)
  \/ \E i \in 1..Length(o), v \in VariablesOf(o) : RemoveMoveInto(o, i, v) \/ RemoveMove(o, i, v)
  \/ Length(o) > 0 /\ \E v \in VariablesOf(o) : Pop(o, v)
  \/ \E i \in 1..Length(o) :
       RemoveDropNestedBuffer(o, i) \/ RemoveDropOwnedString(o, i) \/ RemoveDropRecordFields(o, i)
  \/ DestroyNestedBuffer(o) \/ DestroyOwnedString(o) \/ DestroyCarrierBuffer(o)
  \/ DestroyRecordFields(o)

Next == ProgramNext \/ \E o \in Buffers : BufferNext(o)

Spec == Init /\ [][Next]_vars

-----------------------------------------------------------------------------
\* The owning references: a buffer's own block, the active cells of the
\* elements below its length, those of the variables, and the region's.
Owning(el, c) == c \in ActiveCells(el) /\ el.cells[c] # Null

References ==
  {<<o, 0, 0>> : o \in {p \in Buffers : header[p].pointer # Null}}
  \cup {r \in Buffers \X (1..MaxCapacity) \X (1..2) :
          r[2] <= Length(r[1]) /\ Owning(Slots(r[1])[r[2]], r[3])}
  \cup {r \in Variables \X {0} \X (1..2) : Owning(value[r[1]], r[3])}
  \cup {<<"region", 0, a>> : a \in region.blocks \cup ({region.handle} \ {Null})}

Target(r) ==
  IF r[1] = "region" THEN r[3]
  ELSE IF r[1] \in Variables THEN value[r[1]].cells[r[3]]
  ELSE IF r[2] = 0 THEN header[r[1]].pointer ELSE Slots(r[1])[r[2]].cells[r[3]]

(* "the outer drop glue retains exactly one owner for each remaining       *)
(* nested allocation": every live allocation has exactly one owning        *)
(* reference and every owning reference a live allocation, so nothing      *)
(* leaks, is released twice or is used after its release; a buffer's       *)
(* capacity is that of its block, as dealloc needs it.                     *)
ExactlyOneOwner ==
  /\ {Target(r) : r \in References} = Addr \ FreeAddr
  /\ Cardinality(References) = Cardinality(Addr \ FreeAddr)
  /\ \A o \in Buffers : header[o].pointer # Null => header[o].capacity = Len(Slots(o))

\* What an element means: the data of its active cells.
Meaning(el) ==
  [tag |-> el.tag,
   cells |-> [c \in 1..Len(el.cells) |->
                IF c \notin ActiveCells(el) THEN "bits"
                ELSE IF el.cells[c] = Null THEN "empty" ELSE heap[el.cells[c]].data]]

ZeroMeaning(p) ==
  [tag |-> 0, cells |-> [c \in 1..Width(p) |-> IF c <= Plain(p) THEN "empty" ELSE "bits"]]

Content == [o \in Buffers |-> [i \in 1..Length(o) |-> Meaning(Slots(o)[i])]]

Sequences == INSTANCE OwnedSequences WITH
  content <- Content,
  value <- [v \in Variables |-> Meaning(value[v])],
  Zero <- ZeroMeaning, MaxLength <- MaxCapacity

(* The buffers behave as sequences of values, call by call: a move in or   *)
(* out that answers Ok transfers the element it names and keeps the order  *)
(* of the others, whichever block the elements live in by then; a call     *)
(* that answers OutOfMemory changes neither the source nor any buffer; and *)
(* only the program's own steps give a variable another value.             *)
RefinesSequences == Sequences!Spec
=============================================================================
