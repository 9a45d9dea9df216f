SPECIFICATION Spec
CONSTANTS
  Threads = {t1}
  Descriptors = 2
  MaxSockets = 1
  MaxSessions = 2
  Locals <- LocalAndAny
  AnyAddress <- AnyOnly
  Peers = {p1, p2}
  Backlogs = {1, 2}
INVARIANTS BacklogRespected PendingDistinct
SYMMETRY Symmetry
CHECK_DEADLOCK FALSE
