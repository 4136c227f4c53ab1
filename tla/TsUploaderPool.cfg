\* The pool of four slots does not suffice behind a slow output callback.
CONSTANTS
  NSlots = 4
  nTsMaxCacheNum = 2
  CmdCap = 4
  CbCap = 4
  MaxTs = 5
  MaxMeta = 0
  MaxOther = 0
SPECIFICATION Spec
PROPERTY PoolSuffices
CHECK_DEADLOCK FALSE
