\* Liveness: a pool of three slots and a cache of one file.
CONSTANTS
  NSlots = 3
  nTsMaxCacheNum = 1
  CmdCap = 2
  CbCap = 2
  MaxTs = 3
  MaxMeta = 1
  MaxOther = 1
SPECIFICATION FairSpec
PROPERTY EveryTsOutput
PROPERTY EverySlotRecycled
PROPERTY DestroyEnds
CHECK_DEADLOCK FALSE
