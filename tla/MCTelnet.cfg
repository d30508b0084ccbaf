SPECIFICATION FairSpec
CONSTANTS
  Streams <- MixedStreams
  RecvLen = 2
  Chunk = 3
  RxSize = 2
  TxSize = 4
INVARIANTS TypeOK ParsesEveryStream TxOnce RxDecoded OptionsAnswered WakesReader EchoRestored
PROPERTIES AllSent ReaderFreed
CHECK_DEADLOCK FALSE
