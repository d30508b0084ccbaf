SPECIFICATION FairSpec
CONSTANTS
  MaxCnt = 2
  Rows = 2
  Delays = {1, 2}
  Intervals = {0, 2}
  TIMEVAL_MAX = 4
  Width = 16
  MaxSets = 2
  MaxNotices = 2
  MaxLost = 1
INVARIANTS TypeOK Wakes InScan OnTheCount
PROPERTIES GoesOff
