-------------------------------- MODULE Date --------------------------------
(***************************************************************************)
(* arale/base/Date.{h,cc}: dates as Julian day numbers.  From the year     *)
(* -4800 on no operand is negative, so that C++ division is \div.          *)
(***************************************************************************)
EXTENDS Integers, FiniteSets, Sequences

\* The year begins in March, so that the leap day is its last.
getJulianDayNumber(year, month, day) ==
    LET a == (14 - month) \div 12
        y == year + 4800 - a
        m == month + 12 * a - 3
    IN day + (153 * m + 2) \div 5 + y * 365 + y \div 4 - y \div 100 + y \div 400 - 32045

\* The inverse, through the day's place in its cycles of 400 and of 4 years.
getYearMonthDay(julianDayNumber) ==
    LET a == julianDayNumber + 32044
        b == (4 * a + 3) \div 146097
        c == a - (b * 146097) \div 4
        d == (4 * c + 3) \div 1461
        e == c - (1461 * d) \div 4
        m == (5 * e + 2) \div 153
    IN [year |-> b * 100 + d - 4800 + m \div 10,
        month |-> m + 3 - 12 * (m \div 10),
        day |-> e - (153 * m + 2) \div 5 + 1]

kJulianDayOf1970_01_01 == getJulianDayNumber(1970, 1, 1)

\* 0 is Sunday.
weekDay(julianDayNumber) == (julianDayNumber + 1) % 7

-----------------------------------------------------------------------------
(* The Gregorian calendar as it is defined                                 *)

IsLeap(y) == y % 4 = 0 /\ (y % 100 # 0 \/ y % 400 = 0)
DaysIn(y, m) == IF m = 2 THEN (IF IsLeap(y) THEN 29 ELSE 28)
                ELSE IF m \in {4, 6, 9, 11} THEN 30 ELSE 31

\* The day after a date.
NextDay(date) ==
    IF date.day < DaysIn(date.year, date.month) THEN [date EXCEPT !.day = @ + 1]
    ELSE IF date.month < 12 THEN [date EXCEPT !.month = @ + 1, !.day = 1]
    ELSE [year |-> date.year + 1, month |-> 1, day |-> 1]

\* Days from the first of January 1970 to that of another year.
DaysBeforeYear(y) ==
    365 * (y - 1970) + Cardinality({k \in 1970..y - 1 : IsLeap(k)})
                     - Cardinality({k \in y..1969 : IsLeap(k)})
=============================================================================
