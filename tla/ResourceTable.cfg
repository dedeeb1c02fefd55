SPECIFICATION Spec
CONSTANTS
  Sizes = {0, 1}
  Needs = {0, 1, 2}
  Artifacts <- MCArtifacts
  MaxId = 3
  MaxGeneration = 3
INVARIANTS
  AccessesHaveHolders
  WritersExclusive
  LeaseWhole
  PlansStayAcquirable
