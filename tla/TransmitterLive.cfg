CONSTANTS
    MaxWrites = 2
    MaxPriority = 2
    SeqModulus = 2
    SuppressAck = FALSE
    Prompt = TRUE
SPECIFICATION FairSpec
PROPERTIES EventuallySent EventuallySettled
CHECK_DEADLOCK FALSE
