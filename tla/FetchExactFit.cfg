SPECIFICATION FairSpec
CONSTANTS
    Bound = Bound
    Columns <- ExactValues
    DriverFails = FALSE
    Results <- ExactResults
    FetchSizes = {1}
    MaxExecutions = 1
    Drivers <- FullDriver
INVARIANT AllRowsOrError
CHECK_DEADLOCK FALSE
