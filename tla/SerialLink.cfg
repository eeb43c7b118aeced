CONSTANTS
    MaxConnects = 2
    MaxWrites = 2
    IsKBERRY = TRUE
    Patient = TRUE
SPECIFICATION FairSpec
INVARIANTS TypeOK NoPromiseLeftBehind EveryAwaitIsTimed
PROPERTIES QueueDrains CallsEnd
CHECK_DEADLOCK FALSE
