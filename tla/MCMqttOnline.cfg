SPECIFICATION FairSpec
CONSTANTS
  a1 = a1
  a2 = a2
  t1 = t1
  t2 = t2
  Topics <- TwoTopics
  Retained = {}
  MaxFaults = 1
  MaxNews = 1
  Apps <- TwoApps
  Subscribers <- OneApp
  MaxHandlers = 2
  Longer <- T2BeginsWithT1
  Blocking = TRUE
  PipeSize = 2
  MaxCalls = 3
INVARIANTS TypeOK OneMessageAtATime OnlineSubscribed
PROPERTIES GoesOnline CallsReturn
CHECK_DEADLOCK FALSE
