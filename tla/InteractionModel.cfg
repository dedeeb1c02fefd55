SPECIFICATION Spec
CONSTANTS
  Snapshots <- Layouts
  MAX_UI_EVENTS = 5
INVARIANTS
  EventsTellState
  BackendConsistent
PROPERTIES
  CapacityAllOrNothing
