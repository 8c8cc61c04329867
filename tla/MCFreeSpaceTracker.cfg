CONSTANTS
  ChunkUnits <- MCChunkUnits
  StartUnits = 2
  HeaderUnits = 1
  MediaKinds <- MCWorking
  MaxSize = 8
SPECIFICATION FairSpec
INVARIANTS
  TypeOK
  Disjoint
  FreeIsUnused
  Coalesced
  NoLeak
  ReservationServes
  CleanIsShown
  EveryReservationReleased
  WalksAgree
PROPERTY ScanEnds
CHECK_DEADLOCK FALSE
