\* Four cells wrap at every position; two values tell the order.
CONSTANTS
  Entries = {a, b}
  Default = a
  L = 4
SPECIFICATION Spec
INVARIANTS
  CountIsDistance
  SegmentsPartition
PROPERTIES
  IsQueue
