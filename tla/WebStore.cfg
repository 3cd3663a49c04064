SPECIFICATION Spec
CONSTANTS
  Ids = {1, 2}
  Values = {v1, v2}
  MaxBatch = 2
  BatchOverwrites = FALSE
  MaxGeneration = 3
  MaxRefusals = 1
  MaxCrashes = 1
INVARIANT ManifestBacked
INVARIANT OldGenerationsSwept
PROPERTY KeepsRowMap
SYMMETRY ValueSymmetry
CHECK_DEADLOCK FALSE
