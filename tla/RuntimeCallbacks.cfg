SPECIFICATION CallbacksSpec
CONSTANTS
  Registrars = {r1}
  Dispatchers = {d1, d2}
  Tables <- MCTables
  MaxRegistrations = 3
INVARIANTS
  PublishedPairsMatch
  ContextNotOlder
  OneLateCall
SYMMETRY Symmetry
