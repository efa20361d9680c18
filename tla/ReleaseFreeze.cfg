SPECIFICATION Spec
CONSTANTS
    Requests = {r1}
    MaxStarts = 2
    Nobody = Nobody
    Absent = Absent
    Original = Original
PROPERTIES
    RefusedForCause
CHECK_DEADLOCK FALSE
