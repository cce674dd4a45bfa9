SPECIFICATION FairSpec
CONSTANTS
  Senders = {w}
  MaxQueue = 1
INVARIANTS TypeOK Guarded NoStrandedFrame NeverDeaf
PROPERTIES ImplementsContract AttemptEnds CloseEnds
CHECK_DEADLOCK FALSE
