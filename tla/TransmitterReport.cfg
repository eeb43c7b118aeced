CONSTANTS
    MaxWrites = 2
    MaxPriority = 1
    SeqModulus = 2
    SuppressAck = FALSE
    Prompt = TRUE
SPECIFICATION FairSpec
PROPERTIES EveryTelegramReported
CHECK_DEADLOCK FALSE
