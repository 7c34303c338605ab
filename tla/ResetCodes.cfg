SPECIFICATION Spec
CONSTANTS
    User = {u1}
    Email = {e1, e2}
    Code = {c1, c2}
    Forgot = {f1, f2}
    Verify = {v1, v2, v3}
    PhoneVerify = {}
    Reset = {}
    Login = {}
    Change = {}
    Moderate = {}
    None = None
    CooldownTTL = 0
    ChallengeTTL = 1
    TokenTTL = 1
    MaxAttempts = 2
    MaxTime = 2
SYMMETRY Symmetry
CHECK_DEADLOCK FALSE
INVARIANTS TypeOK AttemptsBounded CodeHonouredInTime CooldownSpacesMails
PROPERTIES TokenOnlyForMailboxHolder ImplementsOneTimeCode
