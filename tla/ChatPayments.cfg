SPECIFICATION WebSpec
CONSTANTS
    Authorization = {p1}
    Spelling = {lower, upper}
    Thread = {t1, t2, t3}
    Free = Free
    MaxServed = 2
    Sid = {s1, s2, s3}
    Account = {a1, a2}
    Item = {"i1", "i2"}
    Paid = {"i2"}
    Tab = {tab1, tab2}
    None = None
    Serialized = TRUE
    MaxBookings = 2
    MaxRequests = 4
    MaxForgets = 2
SYMMETRY MCSymmetry
INVARIANTS
    AskedOnce
    Reconciled
    ServedOnce
    BookedAsShown
    CancelTokensFit
    ToldIsActing
PROPERTIES
    ErasedAsWarned
