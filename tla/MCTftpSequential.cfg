SPECIFICATION Spec
CONSTANTS
  MaxTransfers = 1
  FullBlocks = 2
  HasTail = TRUE
  OldBlocks = 0
  Positional = FALSE
  NullOnFailure = TRUE
  Faults = {}
  BlockMod = 8
  MaxRetry = 2
  Duplication <- MayRepeat
  MaxLoss = 0
  Ops <- Both
  ReuseClient = FALSE
  ConnectMax = 2
  MaxSocks = 2
  IsWrite = TRUE
  SendFailures = {0}
  Prompt = FALSE
  Stops = FALSE
INVARIANTS ResendsSameChunk
CHECK_DEADLOCK FALSE
