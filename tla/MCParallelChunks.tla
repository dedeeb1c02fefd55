--------------------------- MODULE MCParallelChunks ---------------------------
(* Small instances of ParallelChunks for TLC: usize has four bits.         *)
EXTENDS ParallelChunks

\* Every call.
AllRequests ==
  [op : {"for", "reduce"}, iterations : 0 .. 15, chunkSize : 0 .. 15]
=============================================================================
