------------------------------- MODULE Logger -------------------------------
(***************************************************************************)
(* arale/base/Logging.{h,cc}: the log statements of several threads.  Each *)
(* constructs a Logger, which formats the time through a cache of its      *)
(* thread, inserts pieces, and is destroyed, which outputs the line.  The  *)
(* clock does not go back.  setTimeZone assigns a shared_ptr that other    *)
(* threads read without a lock: it is called while nothing is logged.      *)
(***************************************************************************)
EXTENDS TimeZone, LogStream

CONSTANTS
    Threads,
    Offsets, Files,      \* of the zones that setTimeZone is called with
    Times,               \* the seconds at which something is logged
    Statements,          \* levels and pieces of the log statements
    Years,               \* the years whose days CalendarAgrees goes through
    MaxSets              \* bound: calls of setTimeZone and setLogLevel

ASSUME LoggerAssumption == MaxSets \in Nat
ASSUME TimesAssumption == Times \subseteq Nat
ASSUME ZonesAssumption == /\ Offsets \subseteq Int
                          /\ \A f \in Files : WellFormed(f)
\* From here on Date divides no negative numbers.
ASSUME YearsAssumption == \A y \in Years : y \in Int /\ y >= -4799

\* What the insertions take: numbers of the types that staticCheck is about, and text.
Pieces == [what : {"int", "pointer", "double", "string", "char", "bool"},
           len : Nat, value : Int, chars : {<<>>}]
Insertable(p) ==
    /\ p.what = "int" => Fits(p.value, 10)
    /\ p.what = "pointer" => p.value \in Nat /\ Fits(p.value, 16)
    /\ p.what = "double" => p.len < kMaxNumericSize
ASSUME StatementsAssumption ==
    \A stmt \in Statements : /\ stmt.pieces \in Seq(Pieces)
                             /\ \A i \in DOMAIN stmt.pieces : Insertable(stmt.pieces[i])

\* The zones, of files that may end early too.
Zones == {FixedZone(o) : o \in Offsets}
         \cup UNION {{readTimeZoneFile(f, n) : n \in 0..Fields(f)} : f \in Files}

VARIABLES
    now,
    g_logLevel, g_logTimeZone,
    t_lastSecond, t_time,    \* of each thread
    logger,                  \* of each thread: its Logger, or NoLogger
    zones,                   \* history: the zones in force since now is what it is
    sets,
    program                  \* "runs", or what has ended it

vars == <<now, g_logLevel, g_logTimeZone, t_lastSecond, t_time, logger, zones, sets, program>>

TRACE == 0
DEBUG == 1
INFO == 2
ERROR == 4
FATAL == 5
Levels == TRACE..FATAL

NoText == [ZeroTm EXCEPT !.gmtoff = 1]         \* t_time before its first use
NoLogger == [live |-> FALSE]

\* The variables have their types; a text is that of a second that has been.
TypeOK ==
    /\ now \in Times
    /\ g_logLevel \in Levels
    /\ g_logTimeZone \in zones /\ zones \subseteq Zones \cup {NoZone}
    /\ \A t \in Threads :
          /\ t_lastSecond[t] \in Times \cup {0} /\ t_lastSecond[t] <= now
          /\ t_time[t] = NoText => t_lastSecond[t] = 0
          /\ logger[t].live => logger[t].time <= now
    /\ program \in {"runs", "aborted", "assert"}

\* The log level comes from the environment.
Init ==
    /\ now \in Times
    /\ g_logLevel \in {TRACE, DEBUG, INFO}
    /\ g_logTimeZone = NoZone
    /\ t_lastSecond = [t \in Threads |-> 0]
    /\ t_time = [t \in Threads |-> NoText]
    /\ logger = [t \in Threads |-> NoLogger]
    /\ zones = {NoZone}
    /\ sets = 0
    /\ program = "runs"

Runs == program = "runs"

-----------------------------------------------------------------------------
(* What a line holds                                                       *)

\* The tm of a second in the zone of the log.
LogTime(seconds) ==
    IF g_logTimeZone.valid THEN toLocalTime(g_logTimeZone, seconds)
    ELSE [ZeroTm EXCEPT !.secs = seconds, !.zero = FALSE]

\* Mutant of TimeText: the text is formatted once a day.
TimeTextStale(t) ==
    IF now \div kSecondsPerDay # t_lastSecond[t] \div kSecondsPerDay THEN LogTime(now) ELSE t_time[t]

\* formatTime: the text of t_time, formatted anew for a new second.
TimeText(t) == IF now # t_lastSecond[t] THEN LogTime(now) ELSE t_time[t]

\* Impl's constructor: the time, the thread, the level.
Header(zoned) ==
    LET us == IF zoned THEN Text("us", 8) ELSE Text("usZ", 9)
    IN append(append(append(append(append(EmptyStream, Text("time", 17)), us),
                            Text("tid", 6)), Text("space", 1)), Text("level", 6))

\* The message of errno, of LOG_SYSERR and LOG_SYSFATAL.
WithErrno(s) ==
    append(formatInteger(append(append(s, Text("strerror", 12)), Text(" (errno=", 8)), 24),
           Text(") ", 2))

\* __func__ of LOG_TRACE and LOG_DEBUG.
WithFunc(s) == append(append(s, Text("func", 9)), Text("' '", 1))

\* operator<< of a piece.
Put(s, p) == CASE p.what = "int" -> formatInteger(s, p.value)
               [] p.what = "pointer" -> formatPointer(s, p.value)
               [] p.what = "double" -> formatDouble(s, p.len)
               [] OTHER -> append(s, p)

PutAll(s, ps) ==
    LET after[n \in 0..Len(ps)] == IF n = 0 THEN s ELSE Put(after[n - 1], ps[n])
    IN after[Len(ps)]

\* finish, for a statement in line 149 of its file.
Finish(s) ==
    append(formatInteger(append(append(append(s, Text(" - ", 3)), Text("basename", 10)),
                                Text("':'", 1)), 149), Text("'\\n'", 1))

\* The stream of a Logger when it is destroyed.
Line(l) ==
    LET header == Header(l.zoned)
    IN Finish(PutAll(IF l.stmt.errno THEN WithErrno(header)
                     ELSE IF l.stmt.level <= DEBUG THEN WithFunc(header) ELSE header,
                     l.stmt.pieces))

-----------------------------------------------------------------------------
\* The clock moves on.
Tick ==
    /\ Runs
    /\ \E later \in Times :
          /\ later > now /\ \A s \in Times : s > now => later <= s
          /\ now' = later
    /\ zones' = {g_logTimeZone}
    /\ UNCHANGED <<g_logLevel, g_logTimeZone, t_lastSecond, t_time, logger, sets, program>>

formatTime(t) ==
    /\ t_lastSecond' = [t_lastSecond EXCEPT ![t] = now]
    /\ t_time' = [t_time EXCEPT ![t] = TimeText(t)]

\* T's assert: a text has the length it is given with, which t_time has not yet when the
\* first statement of a thread comes in second 0.
TAssert(text) == text # NoText

\* A log statement begins: the macro's test, and the constructor.
Begin(t, stmt) ==
    /\ Runs /\ ~logger[t].live
    /\ stmt.level <= INFO => g_logLevel <= stmt.level
    /\ \/ /\ ~TAssert(TimeText(t))
          /\ program' = "assert" /\ UNCHANGED <<t_lastSecond, t_time, logger>>
       \/ /\ TAssert(TimeText(t))
          /\ formatTime(t)
          /\ logger' = [logger EXCEPT ![t] =
                [live |-> TRUE, stmt |-> stmt, time |-> now, shown |-> TimeText(t),
                 zones |-> zones, zoned |-> g_logTimeZone.valid]]
          /\ UNCHANGED program
    /\ UNCHANGED <<now, g_logLevel, g_logTimeZone, zones, sets>>

\* ~Logger: the line is output, and after a fatal one the program is aborted.
End(t) ==
    /\ Runs /\ logger[t].live
    /\ logger' = [logger EXCEPT ![t] = NoLogger]
    /\ program' = IF logger[t].stmt.level = FATAL THEN "aborted" ELSE program
    /\ UNCHANGED <<now, g_logLevel, g_logTimeZone, t_lastSecond, t_time, zones, sets>>

SetLogLevel(level) ==
    /\ Runs /\ sets < MaxSets
    /\ g_logLevel' = level
    /\ sets' = sets + 1
    /\ UNCHANGED <<now, g_logTimeZone, t_lastSecond, t_time, logger, zones, program>>

SetTimeZone(zone) ==
    /\ Runs /\ sets < MaxSets
    /\ \A t \in Threads : ~logger[t].live
    /\ g_logTimeZone' = zone
    /\ zones' = zones \cup {zone}
    /\ sets' = sets + 1
    /\ UNCHANGED <<now, g_logLevel, t_lastSecond, t_time, logger, program>>

Next ==
    \/ Tick
    \/ \E t \in Threads : End(t) \/ \E stmt \in Statements : Begin(t, stmt)
    \/ \E level \in Levels : SetLogLevel(level)
    \/ \E zone \in Zones : SetTimeZone(zone)

Spec == Init /\ [][Next]_vars

-----------------------------------------------------------------------------
(* Properties                                                              *)

Lines == {Line(logger[t]) : t \in {u \in Threads : logger[u].live}}

\* The value that the characters of a number spell.
Spelled(chars, base) ==
    LET value[n \in 0..Len(chars)] == IF n = 0 THEN 0 ELSE base * value[n - 1] + chars[n]
    IN value[Len(chars)]
ReadsBack(p) ==
    CASE p.what = "int" -> /\ p.value = IF p.chars[1] = Minus THEN -Spelled(Tail(p.chars), 10)
                                        ELSE Spelled(p.chars, 10)
                           /\ p.chars[1] = 0 => p.value = 0 /\ Len(p.chars) = 1
      [] p.what = "pointer" -> p.value = Spelled(p.chars, 16)
      [] OTHER -> TRUE

Total(ps) ==
    LET total[n \in 0..Len(ps)] == IF n = 0 THEN 0 ELSE total[n - 1] + ps[n].len
    IN total[Len(ps)]

\* LogStream, FixedBuffer and convert: no insertion, the zero that terminates a number
\* included, writes past the end of the buffer; the pieces of a line are next to each
\* other; its numbers read back as what was logged, negative ones too; and nothing is left
\* out of a line that fits with kMaxNumericSize places to spare.  (A number is left out
\* already when fewer places than that are left, even if its digits, and all that comes
\* after them, would fit.)
LineIsTrue ==
    /\ TypeOK
    /\ \A s \in Lines :
        /\ s.high <= kSmallBuffer /\ s.cur < kSmallBuffer
        /\ \A p \in {s.pieces[i] : i \in DOMAIN s.pieces} : ReadsBack(p)
        /\ s.cur = Total(s.pieces)
        /\ Total(s.given) + kMaxNumericSize <= kSmallBuffer => s.pieces = s.given

\* The local time of a second, by the definition of a zone: the type of the last
\* transition up to it, or the first type.
InZone(zone, seconds) ==
    LET past == {i \in DOMAIN zone.transitions : zone.transitions[i].gmttime <= seconds}
        type == IF past = {} THEN 1
                ELSE zone.transitions[CHOOSE i \in past : \A j \in past : i >= j].localtimeIdx
    IN seconds + (IF zone.valid THEN zone.localtimes[type].gmtOffset ELSE 0)

\* A tm shows a second in a zone.  A zone whose file was missing, or ended before its first
\* type, is valid and has no local time: the tm is all zeros, whatever the second.
Shows(tm, zone, seconds) ==
    IF zone.valid /\ zone.localtimes = <<>> THEN tm = ZeroTm
    ELSE tm.secs = InZone(zone, seconds) /\ ~tm.zero

\* formatTime and findLocaltime: a line shows the local time of the second in which its
\* statement began, in a zone that was in force in that second, although the text was
\* formatted by an earlier statement of its thread; or the zeros of a zone without types.
ShownInZone ==
    \A t \in Threads : logger[t].live =>
        \E zone \in logger[t].zones : Shows(logger[t].shown, zone, logger[t].time)

\* The conversions do not depend on the log: one state for each value of now is enough.
Fresh == sets = 0 /\ \A t \in Threads : ~logger[t].live /\ t_time[t] = NoText

\* toLocalTime and fromLocalTime: a zone whose offset falls back only by the hour of
\* daylight saving time loses no time, not even in the hour that comes twice.  (In a zone
\* that falls back otherwise, the time that comes twice is taken for the later one.)
LocalRoundTrip ==
    Fresh => \A zone \in Zones :
        zone.localtimes # <<>> /\ OnlyDstFallsBack(zone)
            => fromLocalTime(zone, toLocalTime(zone, now)) = now

\* toUtcTime, fromUtcTime and Date: over all days of the years, before 1970 too, they
\* count as the calendar does, day by day, and are inverses of each other at both ends
\* of a day.
CalendarAgrees ==
    Fresh /\ g_logLevel = TRACE /\ (\A s \in Times : now <= s) =>
      \A y \in Years : \A yday \in 0..(IF IsLeap(y) THEN 365 ELSE 364) :
        LET day == DaysBeforeYear(y) + yday
            first == toUtcTime(day * kSecondsPerDay)
            last == toUtcTime((day + 1) * kSecondsPerDay - 1)
            next == toUtcTime((day + 1) * kSecondsPerDay)
        IN /\ first.ymd.year = y /\ first.yday = yday /\ first.wday = (day + 4) % 7
           /\ yday = 0 => first.ymd = [year |-> y, month |-> 1, day |-> 1]
           /\ next.ymd = NextDay(first.ymd)
           /\ first.hms = [hour |-> 0, min |-> 0, sec |-> 0]
           /\ last = [first EXCEPT !.hms = [hour |-> 23, min |-> 59, sec |-> 59]]
           /\ fromUtcTime(first) = day * kSecondsPerDay
           /\ fromUtcTime(last) = (day + 1) * kSecondsPerDay - 1
=============================================================================
