SPECIFICATION Spec
CONSTANTS
    User = {u1}
    Plan = {p1, p2}
    Removable = {}
    Buy = {b1, b2}
    Change = {h1}
    Delivery = {d1, d2, d3}
    None = None
    Trial = 1
    Period = 1
    Fallback = 2
    Reports = TRUE
    Undated = FALSE
    MaxTime = 1
    MaxEvents = 3
SYMMETRY Symmetry
CHECK_DEADLOCK FALSE
INVARIANTS TypeOK EndIsPaid OrderlyAccountsAgree PaymentsRecordedOnce
