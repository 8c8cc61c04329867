CONSTANTS
  NamesInOrder <- TwoNames
  Payloads <- MCPayloads
  MaxCalls = 3
  ContainerName = "C"
  DiskFills = TRUE
SPECIFICATION SessionSpec
INVARIANTS
  StreamDelivers
  DirectoryWhole
  NewIdentifierFree
  ToolSeesAll
  ExitZeroMeansDone
  OthersUntouched
  LateChunksInOrder
PROPERTY ToolExits
CHECK_DEADLOCK FALSE
