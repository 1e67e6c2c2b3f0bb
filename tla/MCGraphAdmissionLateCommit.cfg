SPECIFICATION Spec
CONSTANTS
    MaxGraphRetryAttempts = 2
    GraphWaitPolls = 2
    MaxStatusFinalizeAttempts = 1
    MaxPollShift = 1
    MaxCrashes = 1
INVARIANT
    FailedAdmissionReachesRow
