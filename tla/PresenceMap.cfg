SPECIFICATION Spec
CONSTANTS
    User = {u1}
    Name = {n1, n2}
    Socket = {s1, s2, s3}
    None = None
SYMMETRY Symmetry
CHECK_DEADLOCK FALSE
INVARIANTS TypeOK NewestIsReached PresenceAgrees CallsReachOpenSocket
