SPECIFICATION Spec
CONSTANTS
    Ids = {i1, i2, i3}
    Sessions = {c1, c2}
    Nobody = Nobody
    Committed = Committed
    MaxInstances = 2
    MaxConcurrent = 2
    MaxSubs = 3
    MaxFaults = 1
SYMMETRY Symmetry
INVARIANTS
    WorkIsCharged
    EvidenceOutlivesRow
    QuotasHold
PROPERTIES
    NoRunningRowRemoved
    IdNamesOneSubmission
