SPECIFICATION Spec
CONSTANTS
    Account = {a1}
    Code = {c1, c2, c3}
    Key = {k1, k2}
    Email = {e1}
    Login = {t1, t2}
    Session = {r1, r2}
    NoSecret = NoSecret
    NoEmail = NoEmail
    MaxGen = 2
    MaxCodes = 2
    MaxChallenges = 2
    MaxCrashes = 0
SYMMETRY MCSymmetry
INVARIANTS
    RevokedTokensDead
    OneLoginPerChallenge
CHECK_DEADLOCK FALSE
