SPECIFICATION ScopeSpec
CONSTANTS
  Tasks <- ScopeTasks
  DependsOn <- ScopeDependsOn
  Accesses <- ScopeAccesses
  JobSets <- ScopeJobSets
  N = 2
  MaxSpurious = 1
INVARIANTS
  OkMeansAllBodiesRan
  CancelledIsTrue
  CancelledTasksSkipped
  BoundedDrain
PROPERTIES
  ScopeTermination
  SafelyRefinesExecution
