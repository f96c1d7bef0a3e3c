SPECIFICATION NetifFairSpec
CONSTANTS
  EthTxBufTotal = 3
  PayloadLimit = 1504
  Lengths <- MCFrameLengths
  FrameLengths <- MCShortFrames
  MaxLoopCnt = 0
  StopsWhilePending = FALSE
PROPERTY TransmissionGoesOn
