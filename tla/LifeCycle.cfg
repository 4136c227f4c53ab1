\* One uploader, of either kind; queues short enough to overflow.
CONSTANTS
  Uploaders = {u1}
  Cameras = {u1}
  UpdateCap = 2
  MaxSession = 3
  MgrCap = 2
  PicCap = 2
SPECIFICATION FairSpec
INVARIANT TokenNeedsConfig
INVARIANT FreedIsReclaimed
PROPERTY CleanupReturns
PROPERTY NewestSessionServed
CHECK_DEADLOCK FALSE
