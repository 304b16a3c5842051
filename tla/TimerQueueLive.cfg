SPECIFICATION FairSpec
CONSTANTS
    p = p
    q = q
    t1 = t1
    Addr = {p, q}
    Threads = {t1}
    Delays = {0, 1}
    Intervals = {0, 1}
    MaxSeq = 2
    MaxTime = 2
    MaxPending = 1
PROPERTIES Expires
CHECK_DEADLOCK FALSE
