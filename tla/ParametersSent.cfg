SPECIFICATION Spec
CONSTANTS
    MaxParams = 2
    Arrays <- AnyArrays
    Procedures <- AnyProcedures
    Careful = TRUE
    DriverFails = TRUE
INVARIANTS
    TypeOK
    SentAsBound
    ResultParametersTrue
