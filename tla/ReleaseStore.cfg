SPECIFICATION Spec
CONSTANTS
    Requests = {r1, r2}
    MaxStarts = 3
    Nobody = Nobody
    Absent = Absent
    Original = Original
INVARIANTS
    TypeOK
    OutputSound
PROPERTIES
    KeepsThePromise
    SafeResume
CHECK_DEADLOCK FALSE
