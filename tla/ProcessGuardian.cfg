SPECIFICATION FairSpec
CONSTANTS
    Runs = {a1, a2, a3}
    ExplicitUnlock = FALSE
    Nobody = Nobody
INVARIANTS
    TypeOK
    AtMostOneWorking
    WorkingUnderGuard
PROPERTIES
    DeathCleanedUp
CHECK_DEADLOCK FALSE
