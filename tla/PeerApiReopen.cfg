SPECIFICATION Spec
CONSTANTS
  Remotes = {r1}
  Gens = {1}
  Controls = {c1, c2}
  NoControl = NoControl
  Inbound = {}
  Self = Self
  MaxQueue = 2
INVARIANTS RegisteredIsCurrent NoLostControl
PROPERTY EventsInOrder
CHECK_DEADLOCK FALSE
