SPECIFICATION FairSpec
CONSTANTS
  A = A
  B = B
  Remotes = {A, B}
  Controls = {A, B}
  NoControl = NoControl
  Gens = {1, 2}
  MaxQueue = 3
  MaxJoins <- OnceEach
  MaxTroubles = 0
PROPERTY EveryConnectSucceeds
CHECK_DEADLOCK FALSE
