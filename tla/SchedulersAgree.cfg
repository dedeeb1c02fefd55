SPECIFICATION BothSpec
CONSTANTS
  Tasks <- FourTasks
  DependsOn <- FourDependsOn
  Accesses <- FourAccesses
  JobSets <- FourJobSets
  N = 2
INVARIANTS
  InFlightBounded
  WorkConserving
  NothingDropped
  SameVerdict
PROPERTIES
  RefinesExecution
  SequentialRefinesExecution
