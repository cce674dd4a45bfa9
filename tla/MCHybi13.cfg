SPECIFICATION FairSpec
CONSTANTS
  Basic = 1
  MaxMessage = 2
  Inputs <- SomeFrames
  MaxFrames = 3
INVARIANTS TypeOK Prompt NoFalseAlarm
PROPERTY ConsumeReturns
CHECK_DEADLOCK FALSE
