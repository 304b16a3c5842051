SPECIFICATION FairSpec
CONSTANTS
    t1 = t1
    Threads = {t1}
    LoopCalls = {"send", "shutdown"}
    RemoteCalls = {"send", "shutdown"}
    OwnerMayDie = FALSE
    MaxSend = 2
    MaxBytes = 2
    MaxPending = 2
    HighWaterMark = 2
PROPERTIES ShutdownCompletes
CHECK_DEADLOCK FALSE
