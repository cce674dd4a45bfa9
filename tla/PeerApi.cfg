SPECIFICATION FairSpec
CONSTANTS
  Remotes = {r1}
  Gens = {1, 2}
  Controls = {c1}
  NoControl = NoControl
  Inbound = {r1}
  Self = Self
  MaxQueue = 2
INVARIANTS TypeOK MapSessionsLive AppViewSound
PROPERTIES ConnectOnce DisconnectHandled ZombieDies
CHECK_DEADLOCK FALSE
