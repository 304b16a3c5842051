SPECIFICATION Spec
CONSTANTS
    t1 = t1
    Threads = {t1}
    LoopCalls = {"send", "sendBuffer", "shutdown", "forceClose", "forceCloseWithDelay", "startRead", "stopRead"}
    RemoteCalls = {"send", "sendBuffer", "shutdown", "forceClose", "forceCloseWithDelay", "startRead", "stopRead"}
    OwnerMayDie = TRUE
    MaxSend = 2
    MaxBytes = 2
    MaxPending = 1
    HighWaterMark = 2
INVARIANTS InOrder BufferedIsWatched FinAfterData
CHECK_DEADLOCK FALSE
