SPECIFICATION FairSpec
CONSTANTS
    p1 = p1
    p2 = p2
    Pools = {p1}
    Clients = {a, b}
    Conns = {c1, c2, c3}
    NoConn = NoConn
    Unset = Unset
    Config <- SingleConfig
    Styles = {"promise", "callback"}
    Failures = {"connect"}
    Closable = {}
    CounterBound = 4
PROPERTY EveryRequestAnswered
CHECK_DEADLOCK FALSE
