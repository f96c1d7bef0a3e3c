SPECIFICATION NetifRxSpec
CONSTANTS
  EthRxBufTotal = 3
  MaxLoopCnt <- MCMaxLoopCnt
  Frames = {f1, f2}
  NA = NA
  Timestamps = FALSE
  PoolSize = 3
  LongFrames = {f2}
  MayKeep = TRUE
  MaxKept = 1
INVARIANTS
  InputReadsTheFrame
  NoPbufLost
