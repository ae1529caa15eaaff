SPECIFICATION FairSpec
CONSTANTS
  Adapters <- BothAdapters
  Chunks = 3
  Rotations = 2
  Cap = 1
INVARIANTS
    RotationIsSeamless
PROPERTIES
    KeepsContract
CHECK_DEADLOCK FALSE
