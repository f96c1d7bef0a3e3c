SPECIFICATION Spec
CONSTANTS
  EthTxBufTotal = 3
  PayloadLimit = 1
  Lengths <- MCLengths
  MaxLoopCnt = 0
  StopsWhilePending = TRUE
INVARIANT DmaOwnsOnlyInitiated
