SPECIFICATION Spec
CONSTANTS
    Pools = {p1}
    Users = {a, b}
    Conns = {c1}
    NoConn = NoConn
    Reusing = {p1}
    Works = {w1, w2, w3}
    Calls = {j1, j2}
    NoPool = NoPool
    NoUser = NoUser
    Nothing = Nothing
    Failures = {}
    Tidy = FALSE
INVARIANT ClosedIsRolledBack
CHECK_DEADLOCK FALSE
