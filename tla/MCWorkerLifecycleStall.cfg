SPECIFICATION FairSpec
CONSTANTS
    Backends = {}
    Schemas = {"duroxide", "_duroxide"}
    MaxEpochs = 2
    MaxFaults = 0
CHECK_DEADLOCK FALSE
PROPERTIES
    EventuallyServes
