SPECIFICATION Spec
CONSTANTS
  Devices = {v1}
  Dests = {d1, d2}
  Self = self
  Loops = {v1, self}
  Alarms = {v1, d1, d2}
  Delays = {3, 6}
  Second = 3
  Rounding = 1
  NoDevice = none
  Metrics = {1, 16}
  Infinity = 16
  probeInterval = 3
  validInterval = 6
  MaxTime = 27
INVARIANTS RouteHasTimer RouteDies PeerKnown
PROPERTIES KeptWhileHeard
CHECK_DEADLOCK FALSE
