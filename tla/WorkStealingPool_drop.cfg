SPECIFICATION FairSpec
CONSTANTS
  Tasks <- ThreeTasks
  DependsOn <- ThreeDependsOn
  Accesses <- ThreeAccesses
  JobSets <- ThreeJobSets
  N = 2
  MaxSpurious = 0
PROPERTIES
  QueuedJobsDropped
