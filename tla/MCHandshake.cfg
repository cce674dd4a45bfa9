SPECIFICATION FairSpec
CONSTANTS
  A = A
  B = B
  Remotes = {A, B}
  Controls = {A, B}
  NoControl = NoControl
  Gens = {1, 2}
  MaxQueue = 3
  MaxJoins <- OnceEach
  MaxTroubles = 1
INVARIANTS TypeOK SameConnection
PROPERTIES HalfOpenEnds ConnectSucceeds
CHECK_DEADLOCK FALSE
