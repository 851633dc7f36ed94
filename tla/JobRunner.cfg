\* All kinds of jobs, two at a time, with one failure, crash or shutdown.  The
\* unit of time is 30 s, the visibility timeout a minute.
SPECIFICATION FairSpec
CONSTANTS
    w1 = w1  x1 = x1  x2 = x2
    Workers <- MCWorkers
    Msgs <- MCMsgs
    MaxConcurrent = 2
    BatchLimit = 10
    VisibilityTimeout = 2
    MinInterval = 1
    MaxReceives = 2
    MaxFaults = 1
INVARIANTS WithinCapacity OneRunPerJob AckedMeansHandled
PROPERTY EveryJobEnds
