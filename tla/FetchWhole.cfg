SPECIFICATION FairSpec
CONSTANTS
    Bound = Bound
    Columns <- SmallValues
    DriverFails = TRUE
    Results <- AnyResults
    FetchSizes = {1, 2}
    MaxExecutions = 2
    Drivers <- AnyDrivers
INVARIANTS
    TypeOK
    ValueWhole
    AskedTwiceAtMost
    RowsInOrder
    AllRowsOrError
    NoDataTells
PROPERTIES
    CallsEnd
    CursorRunsDry
CHECK_DEADLOCK FALSE
