SPECIFICATION Spec
CONSTANTS
    Pools = {p1, p2}
    Users = {a, b}
    Conns = {c1}
    NoConn = NoConn
    Reusing = {p1}
    Works = {w1, w2}
    Calls = {j1, j2}
    NoPool = NoPool
    NoUser = NoUser
    Nothing = Nothing
    Failures = {"begin", "end", "autocommit", "level", "query", "close", "disconnect"}
    Tidy = TRUE
INVARIANTS
    TypeOK
    AsTold
    LeftClean
    OwnWorkOnly
PROPERTY SettledAsUnits
SYMMETRY Symmetry
CHECK_DEADLOCK FALSE
