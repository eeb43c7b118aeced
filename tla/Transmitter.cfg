CONSTANTS
    MaxWrites = 3
    MaxPriority = 2
    SeqModulus = 2
    SuppressAck = FALSE
    Prompt = FALSE
SPECIFICATION Spec
INVARIANTS TypeOK NoLostWakeup GateOwned RetryBound
PROPERTIES SentInOrder NoneSkipped
CHECK_DEADLOCK FALSE
