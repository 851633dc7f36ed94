\* Two syncs walk one edge while Meta's page ceiling moves and usage is reported.
SPECIFICATION FairSpec
CONSTANTS
    Walkers = {w1, w2}
    FeedLen = 4
    Starts = {1}
    MaxItems = 2
    PageSize = 4
    MaxPage = 2
    MaxAttempts = 2
    Ceilings = {0, 1, 4}
    Reports <- MCReports
    Threshold = 80
    None = None
INVARIANTS WasteIsBounded
PROPERTIES ImplementsWalk EveryWalkEnds ThroughputRecovers
