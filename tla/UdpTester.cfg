SPECIFICATION Spec
CONSTANTS
  MAX_ATTEMPT = 2
  ToSends = {1}
  MaxSent = 2
  MaxSockets = 5
  MaxErrors = 2
  MaxRepeats = 1
INVARIANTS TypeOK EchoesCounted StopsAtCount ConnectionRestored
  OneSocket ReceiverListens
PROPERTY Finishes
CHECK_DEADLOCK FALSE
