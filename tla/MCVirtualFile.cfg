\* Files of up to four bytes in chunks of one or two, under a tail of three;
\* up to three bytes where something goes wrong.
CONSTANTS
  TailSize = 3
  Capacities = {1, 2}
  Versions = {0, 1}
  MaxCount = 4
  MaxFile = 4
  MaxFaulty = 3
  Faults = {{}, {"save"}, {"load", "empty"}}
SPECIFICATION FairSpec
INVARIANTS
  TypeOK
  ChunksTile
  CacheCoherent
  BytesInPlace
PROPERTIES
  FlushPersists
  CallsReturn
  IsByteFile
CHECK_DEADLOCK FALSE
