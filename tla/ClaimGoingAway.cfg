SPECIFICATION Spec
CONSTANTS
  Remotes = {r1}
  Gens = {1, 2}
  Controls = {c1}
  NoControl = NoControl
  Inbound = {r1}
  Self = Self
  MaxQueue = 3
PROPERTY GoingAwayMeansDisconnected
CHECK_DEADLOCK FALSE
