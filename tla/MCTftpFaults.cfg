SPECIFICATION Spec
CONSTANTS
  MaxTransfers = 1
  FullBlocks = 2
  HasTail = TRUE
  OldBlocks = 0
  Positional = TRUE
  NullOnFailure = TRUE
  Faults <- NoticedFaults
  BlockMod = 8
  MaxRetry = 2
  Duplication <- MayRepeat
  MaxLoss = 0
  Ops <- Both
  ReuseClient = FALSE
  ConnectMax = 2
  MaxSocks = 2
  IsWrite = TRUE
  SendFailures <- AnySendFails
  Prompt = FALSE
  Stops = TRUE
INVARIANTS TypeOK IInv PrefixStored CompleteIsWhole AckedIsStored ResendsSameChunk
PROPERTIES KeepsPromise
CHECK_DEADLOCK FALSE
