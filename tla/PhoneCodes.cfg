SPECIFICATION Spec
CONSTANTS
    User = {u1}
    Phone = {p1, p2}
    Register = {g1, g2}
    Resend = {r1, r2}
    Check = {v1}
    Update = {w1, w2}
    None = None
    Gone = Gone
    Cooldown = 2
    MaxTime = 2
SYMMETRY Symmetry
CHECK_DEADLOCK FALSE
INVARIANTS TypeOK ClaimsSpaced RefusedBecauseOfAnother VerifiedNumberWasApproved
