SPECIFICATION FairSpec
CONSTANTS
    p1 = p1
    p2 = p2
    Pools = {p1, p2}
    Clients = {a, b}
    Conns = {c1, c2, c3}
    NoConn = NoConn
    Unset = Unset
    Config <- MixedConfig
    Styles = {"promise"}
    Failures = {}
    Closable = {}
    CounterBound = 9
INVARIANTS
    NoConnectionLost
    CountsExact
PROPERTIES
    EveryRequestAnswered
    QueueDrains
