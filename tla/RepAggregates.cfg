SPECIFICATION Spec
CONSTANTS
    Listing = {l1, l2}
    Booking = {b1, b2, b3}
    Principal = {p1, p2}
    Wallet = {w1}
    NoWallet = NoWallet
    Amounts = {0, 60}
    Scores = {5}
    Burst = 0
    MaxTime = 1
    MaxRestarts = 1
SYMMETRY MCSymmetry
INVARIANTS
    AggregatesFromHistory
    SuspectsFlagged
PROPERTIES
    RatedForGood
CHECK_DEADLOCK FALSE
