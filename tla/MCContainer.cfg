CONSTANTS
  fileA = fileA
  fileB = fileB
  Names <- MCNames
  Pieces = {0}
  MaxPieces = 2
  MaxIdentifier = 2
  MaxSize = 7
  ChunkUnits = {1, 2}
  StartUnits = 2
  HeaderUnits = 1
  Settings = {{}, {"buffers", "recreates"}, {"truncates"}, {"truncates", "remembers"}, {"truncates", "continues"}}
SPECIFICATION Spec
SYMMETRY NameSymmetry
INVARIANTS
  CleanMediaParses
  StreamOrder
  EveryUnitOnce
  IdentifiersDiffer
  ScanSucceeds
PROPERTY IsArchive
CHECK_DEADLOCK FALSE
