SPECIFICATION NetifRxSpec
CONSTANTS
  EthRxBufTotal = 3
  MaxLoopCnt <- MCMaxLoopCnt
  Frames = {f1, f2}
  NA = NA
  Timestamps = FALSE
  PoolSize = 4
  LongFrames = {}
  MayKeep = TRUE
  MaxKept = 2
INVARIANT KeptPbufsIntact
