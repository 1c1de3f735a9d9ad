SPECIFICATION Spec
CONSTANTS
    Listing = {l1}
    Booking = {b1}
    Ref = {}
    Syncer = {}
    NoRef = NoRef
    NoListing = NoListing
    Capacity <- MCOneCapacity
    MaxQty = 2
    Window <- MCOneTick
    MaxTime = 0
    MaxCrashes = 2
    SettleAuto = TRUE
    DiskFaults = TRUE
INVARIANTS
    InventoryExact
CHECK_DEADLOCK FALSE
