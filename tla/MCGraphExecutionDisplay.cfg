SPECIFICATION SignalSpec
CONSTANTS
    Nodes <- RaceNodes
    Kind <- RaceKind
    Kids <- RaceKids
    LeafOutcomes <- RaceOutcomes
    Root = "lp"
    Isolating = {}
    MaxLoopIterations = 2
    LossyNodes = {}
    Timed = {}
    MaxSignals = 0
    MaxLost = 0
INVARIANTS
    ChildrenAreAwaited
    TruthfulDisplay
    NoStaleResult
PROPERTIES
    EverythingEnds
