SPECIFICATION Spec
CONSTANTS
  NBlocks = 2
  Immediate = {0}
  WLs = 7
  PerWL = 2
  Threshold = 2
  Filled = {0, 6}
  ReadBlocks = {0}
  ReadFaults = 1
  InvalidateBlocks = {0}
  MaxWrites = 3
  MaxResets = 1
  MaxFails = 1
  NoValue = NoValue
  NoReq = NoReq
  NoJob = NoJob
  NoAddr = NoAddr
INVARIANTS
  CacheShowsStore
  ProgramsBlankFlash
  NoBlockLeftInFailedWordline
CHECK_DEADLOCK FALSE
PROPERTIES
  FailsOnlyAfterFault
  ImplementsStore
  RequestAnswered
