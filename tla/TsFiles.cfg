\* Frames that end one byte before the end of a packet: the two bytes that
\* filling takes do not fit, and the last byte gets a packet of its own.  Files of
\* nine packets, so that a full buffer cuts a frame in its middle; a counter that
\* wraps around after four.
CONSTANTS
  MaxCounter = 3
  FileCap = 9
  nTsDuration = 2
  KeyLens = {339}
  DeltaLens = {163}
  AudioLens = {169}
  SpsKinds = {"A", "B"}
  MaxPts = 4
  MaxCount = 4
SPECIFICATION Spec
INVARIANT CountersContinuous
INVARIANT IndexTrue
INVARIANT FramesWhole
INVARIANT FileStartsWithKeyFrame
PROPERTY EndCoversFile
CHECK_DEADLOCK FALSE
