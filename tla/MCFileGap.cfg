\* The same on a container file, whose size() does not follow the cut.
CONSTANTS
  fileA = fileA
  fileB = fileB
  Names <- MCNames
  Pieces = {0}
  MaxPieces = 2
  MaxIdentifier = 2
  MaxSize = 9
  ChunkUnits = {1, 2}
  StartUnits = 2
  HeaderUnits = 1
  Settings = {{"truncates", "remembers", "continues"}}
SPECIFICATION Spec
SYMMETRY NameSymmetry
INVARIANT CloseKeepsMediaReadable
CHECK_DEADLOCK FALSE
