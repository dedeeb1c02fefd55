----------------------------- MODULE MCInstaller -----------------------------
(* A small instance of Installer for TLC.                                  *)
EXTENDS Installer

Wanted(r, t, c, v) == [release |-> r, target |-> t, content |-> c, verdict |-> v]

\* Calls c1 and c2 install one artifact from two processes, c3 another target
\* of that release and c4 the first artifact again, with the ids of these two
\* processes; c5 is another release whose bytes do not match.
FiveCalls == {"c1", "c2", "c3", "c4", "c5"}
FiveRequests ==
  [i \in FiveCalls |->
     CASE i = "c3" -> Wanted("r1", "t2", "b", "ok")
       [] i = "c5" -> Wanted("r2", "t1", "a", "DigestMismatch")
       [] OTHER -> Wanted("r1", "t1", "a", "ok")]
FivePids == [i \in FiveCalls |-> IF i \in {"c1", "c3"} THEN "p1" ELSE "p2"]
=============================================================================
