CONSTANTS
  ByteValues = {1, 2}
  MaxLength = 4
  CallsFail = TRUE
  Shrinks = FALSE
SPECIFICATION Spec
PROPERTY IsMedia
CHECK_DEADLOCK FALSE
