------------------------------ MODULE MCLogger ------------------------------
(* Values for Logger: two zones with daylight saving time, north and south,   *)
(* and one that only changes its offset, whose files may end early, and       *)
(* statements from short to too long.                                         *)
EXTENDS Logger, TLC

CONSTANTS main, io

Spring == 1396144800      \* 30 March 2014, 02:00 UTC
Autumn == 1414288800      \* 26 October 2014, 02:00 UTC

North == [trans |-> <<Spring, Autumn>>, idx |-> <<2, 1>>,
          types |-> <<[gmtOffset |-> 3600, isDst |-> FALSE],
                      [gmtOffset |-> 7200, isDst |-> TRUE]>>]
South == [trans |-> <<Spring, Autumn>>, idx |-> <<2, 1>>,
          types |-> <<[gmtOffset |-> -10800, isDst |-> TRUE],
                      [gmtOffset |-> -14400, isDst |-> FALSE]>>]

Moscow == [trans |-> <<Autumn>>, idx |-> <<2>>,
           types |-> <<[gmtOffset |-> 14400, isDst |-> FALSE],
                       [gmtOffset |-> 10800, isDst |-> FALSE]>>]

MCThreads == {main, io}
MCSymmetry == Permutations(MCThreads)
MCOffsets == {28800}
MCFiles == {North, South, Moscow}
MCTimes == {0, Spring - 1, Spring, Autumn - 3600, Autumn}
MCYears == 1902..2036

Stmt(level, errno, pieces) == [level |-> level, errno |-> errno, pieces |-> pieces]
IntPiece(v) == [Text("int", 0) EXCEPT !.value = v]
PtrPiece(v) == [Text("pointer", 0) EXCEPT !.value = v]
MCStatements == {
    Stmt(TRACE, FALSE, <<IntPiece(0), IntPiece(-128)>>),
    Stmt(INFO, FALSE, <<Text("string", 20), IntPiece(127), PtrPiece(255)>>),
    Stmt(INFO, FALSE, <<Text("double", 19), Text("string", 60), Text("char", 1)>>),
    Stmt(ERROR, TRUE, <<IntPiece(-10), Text("string", 40), PtrPiece(0)>>),
    Stmt(FATAL, TRUE, <<Text("string", 84), Text("bool", 1), IntPiece(5)>>)}
=============================================================================
