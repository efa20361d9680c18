SPECIFICATION Spec
CONSTANTS
    Owners = {w1, w2}
    Durations = {2}
    MaxReplacements = 1
    StepBack = 1
    MaxClock = 2
    MaxRevision = 6
    MaxEvents = 3
    NoLease = NoLease
    NoOp = NoOp
SYMMETRY OwnerSymmetry
INVARIANTS
    TypeOK
    HistoryReplays
    Fenced
    NoTakeoverFromRunningOwner
PROPERTIES
    KeepsLifecycle
