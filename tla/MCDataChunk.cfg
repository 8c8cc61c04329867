CONSTANTS
  MinP2 = 5
  MaxP2 = 12
  HeaderBytes = 4
  StreamBytes = 10
  Spaces <- MCSpaces
  Lengths <- MCLengths
  MaxSegments = 3
SPECIFICATION Spec
INVARIANTS
  ReaderAgrees
  RightSized
  FillCoversHalf
CHECK_DEADLOCK FALSE
