SPECIFICATION FairSpec
CONSTANTS
    c1 = c1
    c2 = c2
    h1 = h1
    j1 = j1
    j2 = j2
    Conns <- TwoConns
    Handles <- OneHandle
    Calls <- TwoCalls
    NoCall = NoCall
    NoName = NoName
    Offered = {"connect"}
    Failures = {"setup"}
    Orderly = TRUE
PROPERTY EveryCallEnds
CHECK_DEADLOCK FALSE
