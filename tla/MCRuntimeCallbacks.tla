-------------------------- MODULE MCRuntimeCallbacks --------------------------
(* One registering thread, as the runtime asks of its host, and two        *)
(* dispatching threads, over three registrations.                          *)
EXTENDS RuntimeCallbacks, TLC

MCTables == {{}, {"log"}, {"end", "counter"}, CallbackSlots}
Symmetry == Permutations(Dispatchers)
=============================================================================
