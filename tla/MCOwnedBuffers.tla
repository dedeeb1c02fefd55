---------------------------- MODULE MCOwnedBuffers ----------------------------
(* One buffer and one variable of each element type over a heap of four    *)
(* allocations, with one type in use at a time: the types share nothing    *)
(* but the heap, where a released address may come back for another type.  *)
EXTENDS OwnedBuffers, TLC

InUse(bs, vs) == \/ \E o \in bs : header[o] # EMPTY
                 \/ \E v \in vs : value[v] # Zero(v)

OneTypeInUse ==
  Cardinality({p \in {<<Nested, NestedVar>>, <<Strings, StringVar>>,
                       <<Carriers, CarrierVar>>, <<Records, RecordVar>>} :
                 InUse(p[1], p[2])})
    + (IF region = NoRegion THEN 0 ELSE 1) <= 1

Symmetry == Permutations(Addr)

\* States that differ in the last call only have the same future: every step
\* writes call and none reads it.  TLC checks RefinesSequences on each
\* transition, the ones to a state it has met before included.
View == <<heap, header, value, region>>
=============================================================================
