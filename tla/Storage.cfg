SPECIFICATION Spec
CONSTANTS
  Kinds <- KindsMC
  CompactMin = 2
  MaxRows = 6
  Absent = Absent
  NoRow = NoRow
INVARIANT StorageInvariant
PROPERTY ServesTheLine
CHECK_DEADLOCK FALSE
