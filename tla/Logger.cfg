SPECIFICATION Spec
CONSTANTS
    main = main
    io = io
    Threads <- MCThreads
    Offsets <- MCOffsets
    Files <- MCFiles
    Times <- MCTimes
    Statements <- MCStatements
    Years <- MCYears
    MaxSets = 2
    kSmallBuffer = 150
    kMaxNumericSize = 32
INVARIANTS LineIsTrue ShownInZone LocalRoundTrip CalendarAgrees
SYMMETRY MCSymmetry
CHECK_DEADLOCK FALSE
