SPECIFICATION Spec
CONSTANTS
    Account = {a1, a2}
    Code = {}
    Key = {k1, k2}
    Email = {e1, e2}
    Login = {t1}
    Session = {r1, r2}
    NoSecret = NoSecret
    NoEmail = NoEmail
    MaxGen = 1
    MaxCodes = 3
    MaxChallenges = 2
    MaxCrashes = 1
SYMMETRY MCSymmetry
INVARIANTS
    OneKeyOneAccount
    VerifiedMeansDelivered
    CodesSpentOnce
PROPERTIES
    DeletedStaysDeleted
CHECK_DEADLOCK FALSE
