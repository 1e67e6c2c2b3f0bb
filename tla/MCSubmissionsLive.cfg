SPECIFICATION FairSpec
CONSTANTS
    Ids = {i1}
    Sessions = {c1, c2}
    Nobody = Nobody
    Committed = Committed
    MaxInstances = 0
    MaxConcurrent = 0
    MaxSubs = 3
    MaxFaults = 2
PROPERTIES
    OrphansAreReclaimed
    FinishedAreRemoved
