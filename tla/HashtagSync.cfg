SPECIFICATION FairSpec
CONSTANTS
  Workers = {w1, w2}
  Hashtags = {h}
  RunIds = {r1, r2}
  FeedLen = 3
  WithUrl = {3}
  MaxItems = 2
  MaxPage = 2
  MaxFaults = 1
  NoWorker = NoWorker
  NoRun = NoRun
INVARIANTS
  CursorNeverAhead
  SucceededIsComplete
PROPERTIES
  CapBoundsTheRun
  ImplementsScan
  LockIsReleased
  InterruptedRunEnds
CHECK_DEADLOCK FALSE
