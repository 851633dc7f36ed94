\* One post, seen by a top and a recent run, replayed and marked stale by two
\* writers.
SPECIFICATION Spec
CONSTANTS
    w1 = w1  w2 = w2  c1 = c1  c2 = c2  l1 = l1  l2 = l2
    Writers <- MCWriters
    Posts = {p}
    Runs = {top, recent}
    TopRuns = {top}
    Captions <- MCCaptions
    Links <- MCLinks
    Likes = {0, 1}
    MaxRank = 2
    MaxTime = 2
    MaxItems = 2
    MaxUpserts = 3
    None = None
SYMMETRY MCSymmetry
INVARIANTS MergedFromAllSightings ContentStampIsTruthful NewIsReportedOnce
    FirstSightingIsRecorded CurrentIsNewest
