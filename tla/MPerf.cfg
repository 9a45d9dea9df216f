SPECIFICATION Spec
CONSTANTS
  Pids = {1, 2}
  Clients = {c1}
  MaxRequests = 2
INVARIANTS TypeOK SuccessMeansServer OldServersTold DeadChildKnown
PROPERTIES ControllerReturns ZombiesReaped
CHECK_DEADLOCK FALSE
