\* Safety of the buffers: the SDK's pool of four slots and cache of two files,
\* command queues short enough to overflow.
CONSTANTS
  NSlots = 4
  nTsMaxCacheNum = 2
  CmdCap = 3
  CbCap = 2
  MaxTs = 5
  MaxMeta = 1
  MaxOther = 0
SPECIFICATION Spec
INVARIANT CountsExact
INVARIANT SlotsOwned
INVARIANT DropHasOneHolder
PROPERTY AllocFailsOnlyBehindCallback
CHECK_DEADLOCK FALSE
