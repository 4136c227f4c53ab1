\* Three uploaders for two handles: one creation may fail, and a handle is
\* used again.
CONSTANTS
  NHandles = 2
  Cap = 2
  Uploaders = {u1, u2, u3}
  MaxReports = 4
  NoSession <- MCNoSession
SPECIFICATION Spec
INVARIANT HandleKept
INVARIANT GapsAddUp
INVARIANT FlushedAtUninit
PROPERTY NothingPostedAfterEnd
CHECK_DEADLOCK FALSE
SYMMETRY Alike
