SPECIFICATION Spec
CONSTANTS
  Calls <- FiveCalls
  Releases = {"r1", "r2"}
  Targets = {"t1", "t2"}
  Contents = {"a", "b"}
  Pids = {"p1", "p2"}
  Request <- FiveRequests
  Pid <- FivePids
  Threads = TRUE
INVARIANTS
  PublishedComplete
