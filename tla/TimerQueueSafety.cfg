SPECIFICATION Spec
CONSTANTS
    p = p
    q = q
    t1 = t1
    Addr = {p, q}
    Threads = {t1}
    Delays = {0, 1}
    Intervals = {0, 1}
    MaxSeq = 3
    MaxTime = 1
    MaxPending = 2
SYMMETRY AddrSymmetry
INVARIANTS SameTimers Ownership TimerfdCovers CancelHolds
CHECK_DEADLOCK FALSE
