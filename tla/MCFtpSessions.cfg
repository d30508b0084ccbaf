SPECIFICATION FairSpec
CONSTANTS
  c1 = c1
  c2 = c2
  NoSession = NoSession
  Clients = {c1, c2}
  May <- SessionMay
  Size = 1
  MaxFd = 4
  MaxSessions = 1
  TickMod = 3
  Timeout = 1
INVARIANTS TypeOK DescriptorsOwned SessionLimit
PROPERTIES EndsInTime ForcedEnds
CHECK_DEADLOCK FALSE
