SPECIFICATION FairSpec
CONSTANTS
  MaxTransfers = 3
  FullBlocks = 3
  HasTail = FALSE
  OldBlocks = 0
  Positional = TRUE
  NullOnFailure = TRUE
  Faults = {}
  BlockMod = 8
  MaxRetry = 2
  Duplication = {FALSE}
  MaxLoss = 0
  Ops <- Both
  ReuseClient = FALSE
  ConnectMax = 3
  MaxSocks = 4
  IsWrite = TRUE
  SendFailures = {0}
  Prompt = TRUE
  Stops = FALSE
PROPERTIES PromptCompletes
CHECK_DEADLOCK FALSE
