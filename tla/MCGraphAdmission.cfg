SPECIFICATION FairSpec
CONSTANTS
    MaxGraphRetryAttempts = 2
    GraphWaitPolls = 2
    MaxStatusFinalizeAttempts = 1
    MaxPollShift = 1
    MaxCrashes = 1
INVARIANTS
    NoFalseAbsence
    RunsOnlyCommittedGraphs
    RetryBudgetIsLifetime
    HistoryIsBounded
    StatusAgreesWithEngine
PROPERTIES
    TerminalIsFinal
    AdmissionDecided
    FinalizationEnds
    CancelStopsEngine
