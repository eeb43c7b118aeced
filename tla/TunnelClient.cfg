CONSTANTS
    Channels = {c1}
    NoChannel = none
    SniffingMode = FALSE
    SuppressAck = FALSE
    Reentrant = TRUE
    MaxWrites = 2
    MaxQueue = 2
SPECIFICATION Spec
INVARIANTS TypeOK ChannelWhileConnected QueueAlive HeartbeatScheduled TimersHaveSocket
PROPERTIES Lifecycle
CHECK_DEADLOCK FALSE
