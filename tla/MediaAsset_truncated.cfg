\* Two reposts downloaded by two slots of one process.
SPECIFICATION Spec
CONSTANTS
    s1 = s1  s2 = s2  p1 = p1  p2 = p2  m1 = m1  m2 = m2  c1 = c1
    x1 = x1  x2 = x2
    Slots <- MCSlots
    Processes <- MCProcesses
    Homes <- MCTogether
    Media <- MCMedia
    Contents <- MCContents
    Bytes <- MCBytes
    Msgs <- MCMsgs
    MaxReceives = 2
    MaxFaults = 1
    NoMsg = NoMsg
    NoContent = NoContent
CHECK_DEADLOCK FALSE
INVARIANTS NoTruncatedObject
