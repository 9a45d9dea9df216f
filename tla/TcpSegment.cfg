SPECIFICATION Spec
CONSTANTS
  Ports = {80, 65535}
  Halves = {0, 1, 65535}
  Addresses <- TwoHosts
  Flags = {2, 17}
  PayloadBytes = {0, 255}
  Noise = {0, 1, 255}
  kMaxSegmentSize = 3
INVARIANTS ParsesBack ChecksumExact
CHECK_DEADLOCK FALSE
