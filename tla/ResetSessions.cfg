SPECIFICATION Spec
CONSTANTS
    User = {u1, u2}
    Email = {e1, e2}
    Code = {c1}
    Forgot = {f1}
    Verify = {v1, v2}
    PhoneVerify = {p1}
    Reset = {r1, r2}
    Login = {l1, l2}
    Change = {x1}
    Moderate = {m1}
    None = None
    CooldownTTL = 0
    ChallengeTTL = 1
    TokenTTL = 1
    MaxAttempts = 1
    MaxTime = 1
SYMMETRY Symmetry
CONSTRAINT MailsApart
CHECK_DEADLOCK FALSE
INVARIANTS CodeChangesPasswordOnce SurvivingSessionIsCurrent
