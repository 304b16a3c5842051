SPECIFICATION FairSpec
CONSTANTS
    MaxThreads = 2
    MaxConns = 4
    maxConnections_ = 1
INVARIANTS OneDestroyer EstablishedFirst
PROPERTIES ClosedIsDestroyed DestructorReturns
CHECK_DEADLOCK FALSE
