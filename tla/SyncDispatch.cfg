\* Two hashtags sent in two chunks, two slots, three connections.
SPECIFICATION FairSpec
CONSTANTS
    h1 = h1  h2 = h2
    Hashtags <- MCHashtags
    Managed = {h1}
    Slots = {s1, s2}
    Conns = {k1, k2, k3}
    LockOf <- MCLockOf
    BatchLimit = 1
    MaxFaults = 1
    None = None
INVARIANTS LockExcludes PoolNeverJams
PROPERTIES DueIsSynced UntrackedRunsDry
