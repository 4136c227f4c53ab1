\* Two producers, a ring of three slots that wraps around, chunks that take one
\* or two pops.
CONSTANTS
  Producers = {p1, p2}
  nCap = 3
  Lens <- MCLens
  BufLen = 2
  MaxPush = 6
SPECIFICATION FairSpec
INVARIANT TypeOK
INVARIANT RingConsistent
INVARIANT NoByteLost
INVARIANT NoLostWakeup
INVARIANT FreedAfterWait
PROPERTY RefinesFifo
PROPERTY EveryPushDelivered
PROPERTY DestroyReturns
CHECK_DEADLOCK FALSE
