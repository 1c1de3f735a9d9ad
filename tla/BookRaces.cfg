SPECIFICATION Spec
CONSTANTS
    Request = {r1, r2}
    Principal = {owner, p1}
    Owner = owner
    Key = {k1}
    NoKey = NoKey
    t1 = t1
    Terms = {t1}
    Setting <- MCEditTerms
    DefaultTerms = default
    NoTerms = NoTerms
    IdemCap = 1
    IdemEvict = 1
    MaxClaims = 1
    MaxBookings = 2
SYMMETRY MCSymmetry
INVARIANTS
    ReplayIsPrivate
    TermsConsented
