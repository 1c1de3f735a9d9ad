SPECIFICATION Spec
CONSTANTS
    Listing = {l1}
    Booking = {b1, b2}
    Ref = {r1}
    Syncer = {}
    NoRef = NoRef
    NoListing = NoListing
    Capacity <- MCCapacities
    MaxQty = 2
    Window <- MCOneTick
    MaxTime = 0
    MaxCrashes = 1
    SettleAuto = FALSE
    DiskFaults = FALSE
SYMMETRY MCSymmetry
INVARIANTS
    InventoryExact
    NoOversell
    ActiveHasListing
    RefExclusive
CHECK_DEADLOCK FALSE
