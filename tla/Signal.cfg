SPECIFICATION FairSpec
CONSTANTS
  Users = {w, a}
  Openers = {w}
  reconn_attempts_ = 3
INVARIANTS TypeOK OneConnection
PROPERTIES ImplementsContract CloseReturns AttemptReported
CHECK_DEADLOCK FALSE
