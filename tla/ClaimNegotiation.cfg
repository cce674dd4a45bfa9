SPECIFICATION Spec
CONSTANTS
  Senders = {w}
  MaxQueue = 2
INVARIANTS KilledNotOpened
CHECK_DEADLOCK FALSE
