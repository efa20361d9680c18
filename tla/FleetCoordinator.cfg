SPECIFICATION Spec
CONSTANTS
    h1 = h1
    Workbooks = {w1, w2}
    Owners = {a1, b1}
    Hosts = {h1}
    HostOf <- OneHost
    Local = Local
    Publishers = {b1}
    Claims = {c1, c2}
    ModelOps = {m1, m2}
    PublicationOps = {}
    Limits = {2}
    NoCap = NoCap
    None = None
    AuthorsPerHost = 1
    ExtendedAuthors = 2
    ModelsPerHost = 1
    Lease = 1
    Wait = 1
    Window = 1
    MaxPolicies = 1
    MaxExtensions = 1
    MaxQuarantines = 1
SYMMETRY Identical
INVARIANTS
    TypeOK
    OutstandingHeld
    IdentifiersSpent
    SlotsMatchHolders
    CapacityKept
    QuarantinedWorkbookStops
PROPERTIES
    UnknownBlocks
    KeepsCustody
CHECK_DEADLOCK FALSE
