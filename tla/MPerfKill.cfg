SPECIFICATION Spec
CONSTANTS
  Pids = {1, 2}
  Clients = {c1}
  MaxRequests = 2
INVARIANT KillsOneServer
CHECK_DEADLOCK FALSE
