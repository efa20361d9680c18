SPECIFICATION Spec
CONSTANTS
    MaxRevision = 4
    MaxEntries = 1
    MaxVersion = 1
    MaxCrashes = 0
    NoText = NoText
    Idle = Idle
INVARIANT PairSynchronized
CHECK_DEADLOCK FALSE
