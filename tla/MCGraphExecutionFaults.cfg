SPECIFICATION SignalSpec
CONSTANTS
    Nodes <- FaultNodes
    Kind <- FaultKind
    Kids <- FaultKids
    LeafOutcomes <- FaultOutcomes
    Root = "lp"
    Isolating = {"lp"}
    MaxLoopIterations = 2
    LossyNodes = {"br"}
    Timed = {"sg"}
    MaxSignals = 1
    MaxLost = 1
PROPERTIES
    FatalNeverConsumed
    SignalReachesWaiters
