SPECIFICATION Spec
CONSTANTS
  Basic = 1
  MaxMessage = 2
  Inputs <- SomeFrames
  MaxFrames = 3
INVARIANT TextsEnd
CHECK_DEADLOCK FALSE
