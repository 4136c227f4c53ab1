\* Two TS files are enough for a second session to begin and be reported.
CONSTANTS
  Durations = {1}
  MaxTs = 3
  MaxSession = 2
  MaxCalls = 1
  MaxSeg = 0
  MaxLost = 0
  QueueCap = 4
SPECIFICATION ReportingSpec
INVARIANT EndOnlyWhenEnded
CHECK_DEADLOCK FALSE
