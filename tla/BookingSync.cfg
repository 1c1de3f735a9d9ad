SPECIFICATION FairSpec
CONSTANTS
    Listing = {l1}
    Booking = {b1}
    Ref = {r1}
    Syncer = {s1}
    NoRef = NoRef
    NoListing = NoListing
    Capacity <- MCOneCapacity
    MaxQty = 1
    Window <- MCOneTick
    MaxTime = 2
    MaxCrashes = 1
    SettleAuto = FALSE
    DiskFaults = FALSE
INVARIANTS
    LedgerTells
    AcknowledgedIsDurable
    RefundCredentialKept
PROPERTIES
    EscrowPromise
    RefundReachesHub
CHECK_DEADLOCK FALSE
