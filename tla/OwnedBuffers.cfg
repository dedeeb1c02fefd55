SPECIFICATION Spec
CONSTANTS
  Addr = {a1, a2, a3, a4}
  Nested = {n}
  Strings = {s}
  Carriers = {c}
  Records = {r}
  NestedVar = {x}
  StringVar = {y}
  CarrierVar = {o}
  RecordVar = {z}
  Data = {d1, d2}
  MaxCapacity = 3
INVARIANTS
  ExactlyOneOwner
PROPERTIES
  RefinesSequences
CONSTRAINT OneTypeInUse
SYMMETRY Symmetry
VIEW View
