SPECIFICATION Spec
CONSTANTS
  Tasks <- FourTasks
  DependsOn <- FourDependsOn
  Accesses <- FourAccesses
  JobSets <- FourJobSets
  N = 3
  MaxSpurious = 1
INVARIANTS
  IndInv
  JobConservation
  AtMostOnce
  DependencyOrder
  ConflictsExclusive
  NoLostWakeup
  FaithfulAnswer
