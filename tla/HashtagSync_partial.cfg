SPECIFICATION Spec
CONSTANTS
  Workers = {w1}
  Hashtags = {h}
  RunIds = {r1, r2}
  FeedLen = 3
  WithUrl = {1}
  MaxItems = 3
  MaxPage = 2
  MaxFaults = 1
  NoWorker = NoWorker
  NoRun = NoRun
PROPERTIES
  PartialRunIsResumed
CHECK_DEADLOCK FALSE
