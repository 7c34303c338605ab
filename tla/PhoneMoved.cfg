SPECIFICATION Spec
CONSTANTS
    User = {u1}
    Phone = {p1, p2}
    Register = {}
    Resend = {}
    Check = {v1}
    Update = {w1}
    None = None
    Gone = Gone
    Cooldown = 1
    MaxTime = 0
CHECK_DEADLOCK FALSE
INVARIANT VerifiedOnlyIfApproved
