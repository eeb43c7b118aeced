CONSTANTS
    Channels = {c1}
    NoChannel = none
    SniffingMode = FALSE
    SuppressAck = FALSE
    Reentrant = FALSE
    MaxWrites = 1
    MaxQueue = 1
SPECIFICATION FairSpec
PROPERTIES EachTeardownCloses DeadGatewayDetected LeavingEnds DisconnectedReported
CHECK_DEADLOCK FALSE
