SPECIFICATION Spec
CONSTANTS
  Specs <- AllSpecs
  MaxCalls = 3
INVARIANTS
  LeastTopologicalOrder
  CycleIffNoOrder
  EdgesJustified
