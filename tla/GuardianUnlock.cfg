SPECIFICATION Spec
CONSTANTS
    Runs = {a1, a2}
    ExplicitUnlock = TRUE
    Nobody = Nobody
INVARIANTS
    AtMostOneWorking
CHECK_DEADLOCK FALSE
