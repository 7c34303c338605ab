SPECIFICATION FairSpec
CONSTANTS
    User = {u1}
    Plan = {p1}
    Removable = {p1}
    Buy = {b1}
    Change = {h1}
    Delivery = {d1, d2, d3}
    None = None
    Trial = 1
    Period = 1
    Fallback = 2
    Reports = FALSE
    Undated = TRUE
    MaxTime = 2
    MaxEvents = 3
CHECK_DEADLOCK FALSE
INVARIANT EndIsPaid
PROPERTY PastDueIsCleared
