SPECIFICATION Spec
CONSTANTS
  c1 = c1
  c2 = c2
  NoSession = NoSession
  Clients = {c1}
  May <- FileMay
  Size = 2
  MaxFd = 4
  MaxSessions = 1
  TickMod = 3
  Timeout = 1
INVARIANTS ConfirmedIsOpenable
PROPERTIES ResumeIsExact ChangesNeedLogin
CONSTRAINT NoRestart
CHECK_DEADLOCK FALSE
