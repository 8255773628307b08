SPECIFICATION Spec
CONSTANTS
    p1 = p1
    p2 = p2
    Pools = {p1}
    Clients = {a, b}
    Conns = {c1, c2, c3}
    NoConn = NoConn
    Unset = Unset
    Config <- SingleConfig
    Styles = {"promise"}
    Failures = {}
    Closable = {p1}
    CounterBound = 4
PROPERTY ClosedPoolKeepsNothing
