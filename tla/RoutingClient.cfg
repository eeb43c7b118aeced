CONSTANTS
    Groups = {1, 2}
    KeyedGroups = {1}
    TimerValues = {0, 2}
    ClockValues = {1}
    MaxWrites = 2
    MaxSearches = 1
SPECIFICATION Spec
INVARIANTS TypeOK ProtectedOnTheWire
PROPERTIES DataSecureSeqIncreases DiscoverySpeaks
CHECK_DEADLOCK FALSE
