------------------------------ MODULE TimeZone ------------------------------
(***************************************************************************)
(* arale/base/TimeZone.{h,cc}: conversions between UTC, broken-down UTC    *)
(* and local time.  Times are in seconds.  A struct tm of local time is    *)
(* the seconds that it spells, which is all that gmtime_r and timegm add   *)
(* and take away, with tm_isdst and tm_gmtoff.                             *)
(***************************************************************************)
EXTENDS Date, CppDivision

kSecondsPerDay == 24 * 60 * 60

-----------------------------------------------------------------------------
(* Universal time                                                          *)

fillHMS(seconds) == [sec |-> seconds % 60, min |-> (seconds \div 60) % 60,
                     hour |-> (seconds \div 60) \div 60]

\* Mutant of toUtcTime: a time before 1970 is not brought into its day.
toUtcTimeUnborrowed(secondsSinceEpoch) ==
    LET seconds == Rem(secondsSinceEpoch, kSecondsPerDay)
        jdn == Quot(secondsSinceEpoch, kSecondsPerDay) + kJulianDayOf1970_01_01
        ymd == getYearMonthDay(jdn)
    IN [ymd |-> ymd, hms |-> fillHMS(IF seconds < 0 THEN seconds + kSecondsPerDay ELSE seconds),
        wday |-> weekDay(jdn), yday |-> jdn - getJulianDayNumber(ymd.year, 1, 1)]

toUtcTime(secondsSinceEpoch) ==
    LET seconds == Rem(secondsSinceEpoch, kSecondsPerDay)
        days == Quot(secondsSinceEpoch, kSecondsPerDay)
        jdn == (IF seconds < 0 THEN days - 1 ELSE days) + kJulianDayOf1970_01_01
        ymd == getYearMonthDay(jdn)
    IN [ymd |-> ymd, hms |-> fillHMS(IF seconds < 0 THEN seconds + kSecondsPerDay ELSE seconds),
        wday |-> weekDay(jdn), yday |-> jdn - getJulianDayNumber(ymd.year, 1, 1)]

fromUtcTime(utc) ==
    (getJulianDayNumber(utc.ymd.year, utc.ymd.month, utc.ymd.day) - kJulianDayOf1970_01_01)
        * kSecondsPerDay
    + utc.hms.hour * 3600 + utc.hms.min * 60 + utc.hms.sec

-----------------------------------------------------------------------------
(* Zones                                                                   *)

Localtime(offset, dst) == [gmtOffset |-> offset, isDst |-> dst]

\* A zone without data_, and one of a fixed offset.
NoZone == [valid |-> FALSE, transitions |-> <<>>, localtimes |-> <<>>]
FixedZone(eastOfUtc) ==
    [valid |-> TRUE, transitions |-> <<>>,
     localtimes |-> <<Localtime(eastOfUtc, FALSE)>>]

Transition(t, idx, localtimes) ==
    [gmttime |-> t, localtime |-> t + localtimes[idx].gmtOffset, localtimeIdx |-> idx]

\* The fields of a file: the header, the times of the transitions, their types, the
\* types, and the abbreviations.
Fields(file) == 2 * Len(file.trans) + Len(file.types) + 2

\* The data of a file that ends after some of its fields.  The exception is caught and
\* what was read is kept; the zone is valid, even if there was no file (no field).
readTimeZoneFile(file, fields) ==
    LET n == Len(file.trans)
        read == fields - 1 - 2 * n
        types == IF read >= Len(file.types) THEN file.types ELSE SubSeq(file.types, 1, read)
    IN [valid |-> TRUE, localtimes |-> types,
        transitions |-> IF Len(types) < Len(file.types) THEN <<>>
            ELSE [i \in 1..n |-> Transition(file.trans[i], file.idx[i], types)]]

\* What a file is: the transitions are in order and have types that exist.
WellFormed(file) ==
    /\ file.types \in Seq([gmtOffset : Int, isDst : BOOLEAN])
    /\ file.trans \in Seq(Int) /\ file.idx \in [DOMAIN file.trans -> DOMAIN file.types]
    /\ \A i, j \in DOMAIN file.trans : i < j => file.trans[i] < file.trans[j]

\* The Localtime in force after transition i of a zone.
InForce(zone, i) ==
    zone.localtimes[IF i = 0 THEN 1 ELSE zone.transitions[i].localtimeIdx]

\* A zone in which no time comes twice but the hour after daylight saving time: its
\* transitions are hours apart and in order by local time too, and the offset falls back
\* only from daylight saving time, by the hour that fromLocalTime knows of.
OnlyDstFallsBack(zone) ==
    /\ \A i, j \in DOMAIN zone.transitions : i < j =>
          /\ zone.transitions[j].gmttime - zone.transitions[i].gmttime >= 7200
          /\ zone.transitions[i].localtime < zone.transitions[j].localtime
    /\ \A i \in DOMAIN zone.transitions :
          LET before == InForce(zone, i - 1)
              after == InForce(zone, i)
          IN \/ after.gmtOffset >= before.gmtOffset
             \/ /\ before.isDst /\ ~after.isDst
                /\ after.gmtOffset = before.gmtOffset - 3600

\* Comp: transitions compared by the field that key names, gmttime or localtime.
Less(key, lhs, rhs) == lhs[key] < rhs[key]
Equal(key, lhs, rhs) == lhs[key] = rhs[key]

\* What a time is compared with transitions as.
Sentry(time) == [gmttime |-> time, localtime |-> time, localtimeIdx |-> 0]

\* findLocaltime: the index in localtimes for a time.
findLocaltime(zone, key, time) ==
    LET ts == zone.transitions
        sentry == Sentry(time)
        notLess == {i \in DOMAIN ts : ~Less(key, ts[i], sentry)}
        lower_bound == CHOOSE i \in notLess : \A j \in notLess : i <= j
    IN IF ts = <<>> THEN 1
       ELSE IF Less(key, sentry, ts[1]) THEN 1
       ELSE IF notLess = {} THEN ts[Len(ts)].localtimeIdx
       ELSE IF Equal(key, sentry, ts[lower_bound]) THEN ts[lower_bound].localtimeIdx
       ELSE ts[lower_bound - 1].localtimeIdx

\* A tm of zeros: what is left when there is no Localtime.
ZeroTm == [secs |-> 0, isdst |-> FALSE, gmtoff |-> 0, zero |-> TRUE]

\* front() of a zone without types is a null pointer.
toLocalTime(zone, seconds) ==
    IF zone.localtimes = <<>> THEN ZeroTm
    ELSE LET local == zone.localtimes[findLocaltime(zone, "gmttime", seconds)]
         IN [secs |-> seconds + local.gmtOffset, isdst |-> local.isDst,
             gmtoff |-> local.gmtOffset, zero |-> FALSE]

SameHourAndMinute(tm1, tm2) ==
    (tm1.secs % kSecondsPerDay) \div 60 = (tm2.secs % kSecondsPerDay) \div 60

\* Mutant of fromLocalTime: tm_isdst is not looked at.
fromLocalTimeOnce(zone, tm) ==
    tm.secs - zone.localtimes[findLocaltime(zone, "localtime", tm.secs)].gmtOffset

\* An hour that comes twice is found as standard time; for a tm with tm_isdst an hour is
\* taken away again.  The offset is read through the null pointer when there are no types:
\* this is for zones that have some.
fromLocalTime(zone, tm) ==
    LET gmtOffset == zone.localtimes[findLocaltime(zone, "localtime", tm.secs)].gmtOffset
        tryTm == toLocalTime(zone, tm.secs - gmtOffset)
    IN IF tm.isdst /\ ~tryTm.isdst /\ SameHourAndMinute(tryTm, tm)
       THEN tm.secs - 3600 - gmtOffset
       ELSE tm.secs - gmtOffset
=============================================================================
