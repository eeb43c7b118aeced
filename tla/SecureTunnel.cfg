CONSTANTS
    SeqModulus = 3
    MaxWrites = 1
    MaxRaw = 2
    MaxStatuses = 2
    MaxQueue = 2
SPECIFICATION FairSpec
INVARIANTS TypeOK HandshakeInOrder SeqRepeatedOnlyByWrap
PROPERTIES SessionIsLive
CHECK_DEADLOCK FALSE
