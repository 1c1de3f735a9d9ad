SPECIFICATION Spec
CONSTANTS
    Request = {r1, r2}
    Principal = {owner}
    Owner = owner
    Key = {k1}
    NoKey = NoKey
    t1 = t1
    Terms = {}
    Setting <- MCNoEdit
    DefaultTerms = default
    NoTerms = NoTerms
    IdemCap = 10
    IdemEvict = 1
    MaxClaims = 0
    MaxBookings = 2
INVARIANTS
    OneKeyOneBooking
