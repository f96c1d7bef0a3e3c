SPECIFICATION Spec
CONSTANTS
  NBlocks = 2
  Immediate = {0}
  WLs = 7
  PerWL = 2
  Threshold = 6
  Filled = {0}
  ReadBlocks = {}
  ReadFaults = 0
  InvalidateBlocks = {}
  MaxWrites = 4
  MaxResets = 0
  MaxFails = 1
  NoValue = NoValue
  NoReq = NoReq
  NoJob = NoJob
  NoAddr = NoAddr
INVARIANTS
  CacheShowsStore
CHECK_DEADLOCK FALSE
