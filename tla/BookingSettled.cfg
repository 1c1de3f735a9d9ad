SPECIFICATION Spec
CONSTANTS
    Listing = {l1}
    Booking = {b1}
    Ref = {}
    Syncer = {}
    NoRef = NoRef
    NoListing = NoListing
    Capacity <- MCOneCapacity
    MaxQty = 1
    Window <- MCOneTick
    MaxTime = 0
    MaxCrashes = 0
    SettleAuto = TRUE
    DiskFaults = FALSE
INVARIANTS
    LedgerTells
CHECK_DEADLOCK FALSE
