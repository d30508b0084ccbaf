SPECIFICATION Spec
CONSTANTS
  MaxCnt = 3
  Rows = 2
  Delays = {1, 2}
  Intervals = {0}
  TIMEVAL_MAX = 4
  Width = 16
  MaxSets = 3
  MaxNotices = 2
  MaxLost = 0
INVARIANTS AtItsValue
