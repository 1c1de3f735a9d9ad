SPECIFICATION Spec
CONSTANTS
    Account = {a1, a2}
    Code = {c1, c2}
    Key = {}
    Email = {e1}
    Login = {}
    Session = {}
    NoSecret = NoSecret
    NoEmail = NoEmail
    MaxGen = 0
    MaxCodes = 2
    MaxChallenges = 0
    MaxCrashes = 0
INVARIANTS
    EmailVerifiedOnce
CHECK_DEADLOCK FALSE
