SPECIFICATION FairSpec
CONSTANTS
  Threads = {t1}
  Descriptors = 2
  MaxSockets = 2
  MaxSessions = 2
  Locals <- OneLocal
  AnyAddress <- NoAny
  Peers = {p1}
  Backlogs = {1}
PROPERTY AcceptReturns
CHECK_DEADLOCK FALSE
