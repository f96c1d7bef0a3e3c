SPECIFICATION NetifSpec
CONSTANTS
  EthTxBufTotal = 3
  PayloadLimit = 1504
  Lengths <- MCFrameLengths
  FrameLengths <- MCFrameLengths
  MaxLoopCnt = 0
  StopsWhilePending = FALSE
INVARIANTS
  OnlyTheFilledBufferIsHeld
PROPERTIES
  GrantedFramesAreTransmitted
