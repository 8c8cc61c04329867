CONSTANTS
  ChunkUnits <- MCOneHole
  StartUnits = 2
  HeaderUnits = 1
  MediaKinds <- MCFaults
  MaxSize = 5
SPECIFICATION FairSpec
INVARIANT OfferedIsUnused
PROPERTY FlushEnds
CHECK_DEADLOCK FALSE
