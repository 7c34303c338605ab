SPECIFICATION StorefrontSpec
CONSTANTS
    CreatePlan = {p1}
    UpdatePlan = {e1, e2}
    RemovePlan = {r1}
    Buy = {b1, b2}
    Account = {a1}
    Value <- MCValue
    Post <- MCPost
    Patch <- MCPatch
    NoValue = NoValue
    v1 = v1
    v2 = v2
    User = {u1, u2}
    ann = ann
    Ann = Ann
    bob = bob
    Address <- MCAddress
    Lower <- MCLower
    Profile = {w1, w2}
    Moderate = {m1}
    Resend = {k1}
    Verify = {i1}
    Change = {c1}
    SeedAddress = ann
    Nothing = Nothing
    Holder = {h1}
    l1 = l1
    Line = {l1}
    Typed = {l1, v1}
    E164 <- MCE164
    Text = {t1}
    Ask = {q1}
    Check = {j1, j2}
    Use = {x1, x2}
    Login = {g1, g2}
    Refresh = {f1}
    Logout = {o1}
    TokenLife = 1
    SessionLife = 1
    MaxClock = 1
    Absent = Absent
SYMMETRY Symmetry
CONSTRAINT FewRequests
CHECK_DEADLOCK FALSE
INVARIANTS TypeOK RowsAgreeWithStripe SessionsAreFair CustomersAreNamed VerifiedAddressWasProved WritesAreOwn MailboxesAreSingle SessionsAreEarned
