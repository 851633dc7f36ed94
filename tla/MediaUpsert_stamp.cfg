\* One post seen under two permalinks, by a sync and a replay.
SPECIFICATION Spec
CONSTANTS
    w1 = w1  w2 = w2  c1 = c1  c2 = c2  l1 = l1  l2 = l2
    Writers <- MCWriters
    Posts = {p}
    Runs = {top, recent}
    TopRuns = {top}
    Captions = {c1}
    Links <- MCLinks
    Likes = {0}
    MaxRank = 1
    MaxTime = 3
    MaxItems = 2
    MaxUpserts = 3
    None = None
INVARIANT StampMeansEdit
