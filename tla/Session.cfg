\* Four TS files, a video of which may be empty, up to five sessions, one
\* forced segment and one refused command.
CONSTANTS
  Durations = {0, 1}
  MaxTs = 4
  MaxSession = 5
  MaxCalls = 2
  MaxSeg = 1
  MaxLost = 1
SPECIFICATION Spec
INVARIANT EndReasonKnown
INVARIANT AccountsHold
PROPERTY NothingAfterEnd
PROPERTY StartedOnce
CHECK_DEADLOCK FALSE
