SPECIFICATION FairSpec
CONSTANTS
    MaxRevision = 7
    MaxEntries = 3
    MaxVersion = 2
    MaxCrashes = 2
    NoText = NoText
    Idle = Idle
INVARIANTS
    TypeOK
    JournalSound
    InterruptedRecoverable
PROPERTIES
    NoLostUpdate
    PendingResolved
CHECK_DEADLOCK FALSE
