\* Two uploaders for one handle.
CONSTANTS
  NHandles = 1
  Cap = 2
  Uploaders = {u1, u2}
  MaxReports = 4
  NoSession <- MCNoSession
SPECIFICATION FairSpec
PROPERTY UninitReturns
CHECK_DEADLOCK FALSE
