\* Callers who close a container that has unflushed data.
CONSTANTS
  fileA = fileA
  fileB = fileB
  Names <- MCNames
  Pieces = {0}
  MaxPieces = 2
  MaxIdentifier = 2
  MaxSize = 9
  ChunkUnits = {1, 2}
  StartUnits = 2
  HeaderUnits = 1
  Settings = {{"buffers"}}
SPECIFICATION Spec
SYMMETRY NameSymmetry
INVARIANT CloseKeepsMediaReadable
CHECK_DEADLOCK FALSE
