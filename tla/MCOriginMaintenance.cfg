SPECIFICATION FairSpec
CONSTANTS
    Origins = {1, 2}
    Records = {1, 2, 3, 4, 5}
    Scope <- MCScope
    Batch = 1
    EngineBatch = 1
    Uses <- MCUses
    MaxFaults = 1
INVARIANTS OnlyRemovedAreCancelled
PROPERTIES RoundsEnd ExpiredAreRetired OrphansAreReclaimed RemovedOriginLeavesNothing
