SPECIFICATION FairSpec
CONSTANTS
    Backends = {b1}
    Schemas = {"duroxide", "_duroxide"}
    MaxEpochs = 2
    MaxFaults = 2
CHECK_DEADLOCK FALSE
INVARIANTS
    ReadyIsMigrated
    CallsFailWithCause
PROPERTIES
    ServesOrIsMisled
    ShutdownEnds
