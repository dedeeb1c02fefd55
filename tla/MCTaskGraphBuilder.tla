-------------------------- MODULE MCTaskGraphBuilder --------------------------
(* Small instances of TaskGraphBuilder for TLC.                            *)
EXTENDS TaskGraphBuilder

Access(r, m) == [resource |-> r, mode |-> m]

Declaration(i, l, a, d) == [id |-> i, label |-> l, accesses |-> a, dependsOn |-> d]

\* Three tasks with every set of explicit dependencies and no access, a read
\* or a write of one resource; task 3 is never declared.
ValidSpecs ==
  { Declaration(i, "named", a, d) :
      i \in 0 .. 2, d \in SUBSET (0 .. 2),
      a \in { << >>, <<Access("r", "Read")>>, <<Access("r", "Write")>> } }

RefusedSpecs ==
  { Declaration(0, "blank", << >>, {}),
    Declaration(1, "named", <<Access("blank", "Read")>>, {}),
    Declaration(1, "named", <<Access("r", "Read"), Access("r", "Write")>>, {}),
    Declaration(2, "named",
                <<Access("q", "Atomic"), Access("q", "Read"), Access("blank", "Read")>>, {}),
    Declaration(2, "named", <<Access("r", "Atomic")>>, {3}) }

AllSpecs == ValidSpecs \cup RefusedSpecs
=============================================================================
