SPECIFICATION Spec
CONSTANTS
    Kind <- MCKind
    PowCap = 2
    MaxIssued = 3
    MaxAccepted = 2
    MaxRestarts = 1
    Steps <- MCSteps
    AnonCap = 1
    AccountCap = 2
    MaxMade = 2
    Thread = {"t1", "t2"}
    URL = {"u1", "u2", "u3"}
    Source = {"s1"}
    OpenCap = 2
    PerSource = 3
    MaxIds = 3
    MaxClock = 1
    Price = {0, 1999}
    Pct = {100, 250}
    MaxEntries = 2
    MaxReprices = 1
    Fsync = TRUE
    BackupKeep = 2
    MaxSnapshots = 4
    Reader = {"r1"}
    Text = {1, 2}
    Plain = {1}
    PageSize = 1
    MaxListings = 3
    MaxWrites = 5
    MaxClaims = 2
    Account = {"a1", "a2"}
    Credentials = {"c1", "c2"}
    Asker = {"q1", "q2"}
    Page = 2
    MaxChain = 3
    MaxMarks = 1
    MaxStops = 2
INVARIANTS
    WorkNotLost
    SlotsExact
    OneURL
    VouchedTillDisplaced
    VerdictFits
    RestoreSticks
    ClosedStaysClosed
    WalkComplete
    SearchFinds
    OneHolder
    RevokedLoses
PROPERTIES
    StoreKept
CHECK_DEADLOCK FALSE
