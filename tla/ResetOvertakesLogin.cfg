SPECIFICATION Spec
CONSTANTS
    User = {u1}
    Email = {e1}
    Code = {c1}
    Forgot = {}
    Verify = {}
    PhoneVerify = {p1}
    Reset = {r1}
    Login = {l1}
    Change = {}
    Moderate = {}
    None = None
    CooldownTTL = 0
    ChallengeTTL = 1
    TokenTTL = 1
    MaxAttempts = 1
    MaxTime = 1
CHECK_DEADLOCK FALSE
INVARIANT ResetInvalidatesSessions
