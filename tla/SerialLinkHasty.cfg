CONSTANTS
    MaxConnects = 2
    MaxWrites = 2
    IsKBERRY = TRUE
    Patient = FALSE
SPECIFICATION Spec
INVARIANT ConnectedHasPort
CHECK_DEADLOCK FALSE
