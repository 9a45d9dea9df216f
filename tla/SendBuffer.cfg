CONSTANTS
  RingSize = 3
  SizeMod = 64
  SeqMod = 16
  Isns = {13}
  kMaxSegmentSize = 2
  kMaxBytesInFlight = 3
  StreamLength = 4
SPECIFICATION FairSpec
INVARIANTS
  DChecksHold
  SegmentsCarryStream
  KeptUntilReceived
  FinIsLast
PROPERTIES
  SilentAfterFin
  StreamDelivered
  CloseCompletes
