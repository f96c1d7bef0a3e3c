SPECIFICATION FairSpec
CONSTANTS
  EthRxBufTotal = 3
  MaxLoopCnt <- MCMaxLoopCnt
  Frames = {f1, f2}
  NA = NA
  Timestamps = TRUE
INVARIANTS
  TypeOK
  RxInStep
  TimestampBelongsToFrame
  NoLostRxInterrupt
PROPERTIES
  ImplementsRxQueue
  MoreDataMeansMoreFrames
  FrameIndicated
  ReceptionGoesOn
