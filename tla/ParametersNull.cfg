SPECIFICATION Spec
CONSTANTS
    MaxParams = 1
    Arrays <- NumbersOrNull
    Procedures = {}
    Careful = FALSE
    DriverFails = FALSE
INVARIANT SentAsBound
