SPECIFICATION FairSpec
CONSTANTS
  EthTxBufTotal = 4
  PayloadLimit = 1
  Lengths <- MCLengths
  MaxLoopCnt = 1
  StopsWhilePending = FALSE
INVARIANTS
  TypeOK
  RingWindow
  BusyMeansAllInUse
  CallbackBufferStable
  DmaOwnsOnlyInitiated
  DmaFollowsRing
  NoLostConfirmation
PROPERTIES
  ImplementsQueue
  NoUnconfirmedRelease
  HeadFrameConfirmed
