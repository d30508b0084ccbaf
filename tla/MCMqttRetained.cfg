SPECIFICATION FairSpec
CONSTANTS
  a1 = a1
  a2 = a2
  t1 = t1
  t2 = t2
  Topics <- TwoTopics
  Retained <- OneTopic
  MaxFaults = 1
  MaxNews = 0
  Apps <- OneApp
  Subscribers <- OneApp
  MaxHandlers = 2
  Longer = {}
  Blocking = TRUE
  PipeSize = 2
  MaxCalls = 2
PROPERTIES GoesOnline
CHECK_DEADLOCK FALSE
