CONSTANTS
    Clients = {a, b, c, d}
    MaxSessions = 2
    MaxChannel = 3
    SeqModulus = 2
SPECIFICATION Spec
INVARIANTS TypeOK ChannelsPartitioned SessionTable AnnouncedLive
PROPERTIES EndsForCause ChannelStable
CHECK_DEADLOCK FALSE
