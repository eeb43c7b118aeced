CONSTANTS
    SeqModulus = 3
    MaxWrites = 1
    MaxRaw = 1
    MaxStatuses = 1
    MaxQueue = 1
SPECIFICATION FairSpec

PROPERTY DisconnectedReported
CHECK_DEADLOCK FALSE
