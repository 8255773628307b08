SPECIFICATION Spec
CONSTANTS
    p1 = p1
    p2 = p2
    Pools = {p1, p2}
    Clients = {a, b}
    Conns = {c1, c2, c3}
    NoConn = NoConn
    Unset = Unset
    Config <- MixedConfig
    Styles = {"promise", "callback"}
    Failures = {"connect", "close"}
    Closable = {p1, p2}
    CounterBound = 4
SYMMETRY Symmetry
INVARIANTS
    TypeOK
    QueueNeverStalls
    SlotsAccounted
    NoIdleConnection
    OneBorrower
    SizeBound
PROPERTY KeepsPromise
CHECK_DEADLOCK FALSE
