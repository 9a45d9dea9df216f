SPECIFICATION Spec
CONSTANTS
  Alarms = {probe, a1}
  Probe = probe
  Nodes = {n1, n2, n3}
  Seconds = {1, 2}
  kSecond = 6
  kMilli = 2
  MaxClock = 20
INVARIANTS TokensMatch MapNeverEmpty
PROPERTIES NeverTooEarly KeepsPromise
CHECK_DEADLOCK FALSE
