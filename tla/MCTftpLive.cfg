SPECIFICATION FairSpec
CONSTANTS
  MaxTransfers = 1
  FullBlocks = 1
  HasTail = TRUE
  OldBlocks = 0
  Positional = TRUE
  NullOnFailure = TRUE
  Faults = {}
  BlockMod = 8
  MaxRetry = 2
  Duplication <- MayRepeat
  MaxLoss = 1
  Ops <- Both
  ReuseClient = FALSE
  ConnectMax = 2
  MaxSocks = 2
  IsWrite = TRUE
  SendFailures = {0}
  Prompt = FALSE
  Stops = FALSE
PROPERTIES ClientReturns SlotsAreFreed
CHECK_DEADLOCK FALSE
