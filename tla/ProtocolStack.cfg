SPECIFICATION Spec
CONSTANTS
  Threads = {t1, t2}
  Descriptors = 3
  MaxSockets = 2
  MaxSessions = 2
  Locals <- OneLocal
  AnyAddress <- NoAny
  Peers = {p1}
  Backlogs = {0}
INVARIANTS TypeOK SessionsOwned SessionsReportToOwner NeverClosedTwice
  NoLostWakeup ErrorsAreReal
SYMMETRY Symmetry
CHECK_DEADLOCK FALSE
