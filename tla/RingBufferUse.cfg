SPECIFICATION RingSpec
CONSTANTS
  RingSize = 4
  SizeMod = 64
  MaxAccepted = 9
INVARIANTS
  StoredIsStream
PROPERTY IsQueue
CHECK_DEADLOCK FALSE
