SPECIFICATION ClientsSpec
CONSTANTS
    i1 = i1  i2 = i2  i3 = i3  i4 = i4  i5 = i5  i6 = i6
    c1 = c1  c2 = c2  c3 = c3  c4 = c4  c5 = c5  c6 = c6
    m1 = m1  m3 = m3  m4 = m4  m6 = m6  x2 = x2  x5 = x5
    w1 = w1  w3 = w3  w4 = w4  w5 = w5
    a1 = a1  a3 = a3  a4 = a4  d = d  h1 = h1
    Workers = {i1, i3, i4, i6}
    Remotes = {i5}
    Collectors = {i2}
    Fleets = {{i1, i2}, {i3, i4}, {i2, i5}, {i6}}
    Patient = {i6}
    MaxStrays = 1
    Straying = {i1, i2, i5, i6}
    MaxReconciliations = 2
    ClaimOf <- TheClaims
    WorkbookOf <- TheWorkbooks
    OwnerOf <- TheOwners
    OperationsOf <- TheOperations
    Workbooks = {w1, w3, w4, w5}
    Owners = {a1, a3, a4, d}
    Hosts = {h1}
    HostOf <- OneHost
    Local = Local
    Publishers = {d}
    Claims = {c1, c2, c3, c4, c5, c6}
    ModelOps = {m1, m3, m4, m6}
    PublicationOps = {x2, x5}
    Limits = {}
    NoCap = NoCap
    None = None
    AuthorsPerHost = 1
    ExtendedAuthors = 1
    ModelsPerHost = 1
    Lease = 1
    Wait = 0
    Window = 0
    MaxPolicies = 0
    MaxExtensions = 0
    MaxQuarantines = 0
INVARIANTS
    ClientsTypeOK
    ChildHoldsClaim
    LedgerTruthful
SYMMETRY
    Twins
CHECK_DEADLOCK FALSE
