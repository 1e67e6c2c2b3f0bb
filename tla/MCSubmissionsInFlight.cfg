SPECIFICATION Spec
CONSTANTS
    Ids = {i1}
    Sessions = {c1}
    Nobody = Nobody
    Committed = Committed
    MaxInstances = 0
    MaxConcurrent = 0
    MaxSubs = 1
    MaxFaults = 0
PROPERTIES
    InFlightCommitUntouched
