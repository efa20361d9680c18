SPECIFICATION Spec
CONSTANTS
    Steps <- ShortSteps
    LaneOf <- ShortLane
    Phase1 = "normalization_phase1"
    Profile = "source_profile"
    Phase2 = "normalization_phase2"
    Pair <- ShortPair
    Contexts <- ShortContexts
    Exhaustible <- ShortExhaustible
    Binders <- ShortBinders
    Stage = "environment"
    MaxVersion = 2
    MaxFailures = 2
    Signatures = {s1}
    None = None
INVARIANTS
    TypeOK
    QualifiedForPublication
    PassedStands
    RepairCanFinish
PROPERTIES
    RepairFromCurrentArchive
CHECK_DEADLOCK FALSE
