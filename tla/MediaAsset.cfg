\* Downloads of one post by two slots of one process or of two, with redelivery,
\* failures and crashes.
SPECIFICATION FairSpec
CONSTANTS
    s1 = s1  s2 = s2  p1 = p1  p2 = p2  m1 = m1  m2 = m2  c1 = c1
    x1 = x1  x2 = x2
    Slots <- MCSlots
    Processes <- MCProcesses
    Homes <- MCTogetherOrApart
    Media <- MCOneMedia
    Contents <- MCContents
    Bytes <- MCOneBytes
    Msgs <- MCOneMsg
    MaxReceives = 3
    MaxFaults = 2
    NoMsg = NoMsg
    NoContent = NoContent
CHECK_DEADLOCK FALSE
INVARIANTS StoredIsWhole AckedMeansSettled
PROPERTIES AssetSettles
