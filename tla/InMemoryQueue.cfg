SPECIFICATION FairSpec
CONSTANTS
  Ids = {m1, m2, m3}
  MaxReceiveCount = 2
  VisibilityTimeout = 1
  Delays = {0, 1}
  MaxBatch = 2
  MaxTime = 2
INVARIANTS
  Conservation
  OnlyCurrentReceiptWorks
PROPERTIES
  EveryMessageEnds
  ImplementsPort
CHECK_DEADLOCK FALSE
