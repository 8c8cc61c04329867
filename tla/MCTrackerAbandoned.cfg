CONSTANTS
  ChunkUnits <- MCOneHole
  StartUnits = 2
  HeaderUnits = 1
  MediaKinds <- MCFailing
  MaxSize = 5
SPECIFICATION Spec
INVARIANT FreeIsUnused
CHECK_DEADLOCK FALSE
