SPECIFICATION FairSpec
CONSTANTS
    t1 = t1
    Threads = {t1}
    kInitRetryDelayMs = 1
    kMaxRetryDelayMs = 3
    MaxConns = 2
    MaxCalls = 4
INVARIANTS OneAttempt StoppedIsIdle KeepsTrying ClosedOnce
PROPERTIES Connects
CHECK_DEADLOCK FALSE
