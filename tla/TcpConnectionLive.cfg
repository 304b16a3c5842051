SPECIFICATION FairSpec
CONSTANTS
    t1 = t1
    Threads = {t1}
    LoopCalls = {"send", "sendBuffer", "shutdown", "startRead", "stopRead"}
    RemoteCalls = {"sendBuffer", "shutdown"}
    OwnerMayDie = TRUE
    MaxSend = 2
    MaxBytes = 2
    MaxPending = 2
    HighWaterMark = 2
INVARIANTS CloseOnce
PROPERTIES Flushes PeerCloseSeen
CHECK_DEADLOCK FALSE
