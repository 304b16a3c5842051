SPECIFICATION Spec
CONSTANTS
    a = a
    b = b
    c = c
    NULL = NULL
    Channels = {a, b, c}
    Fds = {0, 1, 2}
SYMMETRY ChannelSymmetry
INVARIANTS EPollWatches PollfdsIndexed NoDangling
CHECK_DEADLOCK FALSE
