\* A session that writes on after an erase has cut the media.
CONSTANTS
  fileA = fileA
  fileB = fileB
  Names <- MCNames
  Pieces = {0}
  MaxPieces = 2
  MaxIdentifier = 2
  MaxSize = 7
  ChunkUnits = {1, 2}
  StartUnits = 2
  HeaderUnits = 1
  Settings = {{"truncates", "continues"}}
SPECIFICATION Spec
SYMMETRY NameSymmetry
INVARIANT CloseKeepsMediaReadable
CHECK_DEADLOCK FALSE
