SPECIFICATION RingSpec
CONSTANTS
  RingSize = 5
  SizeMod = 64
  MaxAccepted = 8
INVARIANT ReportedIsStored
CHECK_DEADLOCK FALSE
