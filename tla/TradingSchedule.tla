-------------------------- MODULE TradingSchedule ---------------------------
(***************************************************************************)
(* core/schedule.py: a venue's weekly sessions and holidays, and the       *)
(* questions asked of them.  Times are counted in ticks; day 0 is a Monday.*)
(*                                                                         *)
(* A zone changes its offset at most once, to or from daylight saving      *)
(* time.  An instant is what a UTC datetime denotes, counted so that it is *)
(* the zone's wall clock reading before the change.  A datetime of the     *)
(* zone is its wall clock reading: Python compares two of them by it, and  *)
(* one of them with a UTC datetime by the instants.                        *)
(***************************************************************************)
EXTENDS InOrder, FiniteSetsExt, SequencesExt

CONSTANTS DayLength,        \* ticks in a day
          TicksPerSecond

ASSUME DayAssumption == DayLength \in Nat \ {0}
ASSUME SecondAssumption == TicksPerSecond \in Nat \ {0} /\ DayLength % TicksPerSecond = 0

DAYS_IN_WEEK == 7
DaysOfWeek == 0..(DAYS_IN_WEEK - 1)
LOOKAHEAD_DAYS == 21
Week == DAYS_IN_WEEK * DayLength

NoInstant == -1     \* None

\* The wall clock of a zone, a [change, shift]; a fixed zone has no shift.
wall(zone, t) == IF t < zone.change THEN t ELSE t + zone.shift

\* Mutant: the offset is that of the time before the change.
instant_fixed(zone, w) == w

\* What a wall clock reading denotes, with fold = 0: the first of two instants
\* that have it, or, when the clock skips it, what it was without the change.
instant(zone, w) ==
    IF w < zone.change + Max({0, zone.shift}) THEN w ELSE w - zone.shift

date(w) == w \div DayLength
weekday(day) == day % DAYS_IN_WEEK
combine(day, time) == day * DayLength + time
midnight(day) == combine(day, 0)

local_date(schedule, t) == date(wall(schedule.zone, t))

-----------------------------------------------------------------------------
\* WeeklySession.

spans_days(s) ==
    LET days == (s.close_day - s.open_day) % DAYS_IN_WEEK
    IN  IF days = 0 /\ s.close_time <= s.open_time THEN DAYS_IN_WEEK ELSE days

span(s) == spans_days(s) * DayLength + s.close_time - s.open_time

week_offset(s) == combine(s.open_day, s.open_time)

\* Mutant: a session that wraps the week is not compared with the next one.
overlap_within_week(a, b) ==
    /\ week_offset(a) < week_offset(b) + span(b)
    /\ week_offset(b) < week_offset(a) + span(a)

overlap(a, b) ==
    \E shift \in {-Week, 0, Week} :
       /\ week_offset(a) + shift < week_offset(b) + span(b)
       /\ week_offset(b) < week_offset(a) + span(a) + shift

\* A time is on the clock's day, and a session's is a whole second of it.
IsTime(time) == time \in 0..(DayLength - 1)

IsSession(s) ==
    \A time \in {s.open_time, s.close_time} : IsTime(time) /\ time % TicksPerSecond = 0

\* The constructors of a schedule.  Sessions are a sequence.
accepted(schedule) ==
    /\ \A i \in DOMAIN schedule.sessions : IsSession(schedule.sessions[i])
    /\ schedule.always_open <=> schedule.sessions = <<>>
    /\ \A i, j \in DOMAIN schedule.sessions :
          i < j => ~overlap(schedule.sessions[i], schedule.sessions[j])

-----------------------------------------------------------------------------
\* How a schedule is stored: days by their names, times and dates as text, the
\* holidays in order.  Text is what can be read out of it; the name of a zone is
\* its rules.

Weekdays ==
    <<"MONDAY", "TUESDAY", "WEDNESDAY", "THURSDAY", "FRIDAY", "SATURDAY", "SUNDAY">>

name(day) == Weekdays[day + 1]
parse_weekday(text) == (CHOOSE day \in 1..DAYS_IN_WEEK : Weekdays[day] = text) - 1

isoformat(time) == [second |-> time \div TicksPerSecond, fraction |-> time % TicksPerSecond]
fromisoformat(text) == text.second * TicksPerSecond + text.fraction

session_to_mapping(s) ==
    [open_day |-> name(s.open_day), open_time |-> isoformat(s.open_time),
     close_day |-> name(s.close_day), close_time |-> isoformat(s.close_time)]

session_from_mapping(data) ==
    [open_day |-> parse_weekday(data.open_day), open_time |-> fromisoformat(data.open_time),
     close_day |-> parse_weekday(data.close_day), close_time |-> fromisoformat(data.close_time)]

schedule_to_mapping(schedule) ==
    [timezone |-> schedule.zone, always_open |-> schedule.always_open,
     sessions |-> [i \in DOMAIN schedule.sessions |-> session_to_mapping(schedule.sessions[i])],
     holidays |-> Ascending(schedule.holidays)]

schedule_from_mapping(data) ==
    [zone |-> data.timezone, always_open |-> data.always_open,
     sessions |-> [i \in DOMAIN data.sessions |-> session_from_mapping(data.sessions[i])],
     holidays |-> ToSet(data.holidays)]

-----------------------------------------------------------------------------
\* Occurrences, by the wall clock.

expand(schedule, first, days) ==
    UNION {{[open |-> combine(day, s.open_time),
             close |-> combine(day + spans_days(s), s.close_time)] :
              day \in {d \in first..(first + days - 1) : weekday(d) = s.open_day}} :
           s \in {schedule.sessions[i] : i \in DOMAIN schedule.sessions}}

\* Mutant: sessions that opened before yesterday are not found.
occurrences_since_yesterday(schedule, day) == expand(schedule, day - 1, DAYS_IN_WEEK)

occurrences_around(schedule, day) ==
    expand(schedule, day - (DAYS_IN_WEEK + 1), DAYS_IN_WEEK * 2 + 2)

occurrences_forward(schedule, day) == expand(schedule, day - 1, LOOKAHEAD_DAYS)

\* The occurrences that contain the instant t.
containing(schedule, t) ==
    {o \in occurrences_around(schedule, local_date(schedule, t)) :
        instant(schedule.zone, o.open) <= t /\ t < instant(schedule.zone, o.close)}

\* The days looked at from the instant t on.
lookahead(schedule, t) ==
    local_date(schedule, t)..(local_date(schedule, t) + LOOKAHEAD_DAYS - 1)

\* The instant of the first of some wall clock readings.
FirstOf(schedule, readings) ==
    IF readings = {} THEN NoInstant ELSE instant(schedule.zone, Min(readings))

\* The midnights of the holidays ahead, and of the other days.
holiday_starts(schedule, t) ==
    {midnight(day) : day \in {d \in lookahead(schedule, t) :
        d \in schedule.holidays /\ instant(schedule.zone, midnight(d)) > t}}

first_non_holiday_start(schedule, t) ==
    LET days == lookahead(schedule, t) \ schedule.holidays
    IN  IF days = {} THEN NoInstant
        ELSE Max({FirstOf(schedule, {midnight(day) : day \in days}), t})

-----------------------------------------------------------------------------
\* The queries.  All but the second are asked at an instant, a UTC datetime.

is_open(schedule, t) ==
    /\ local_date(schedule, t) \notin schedule.holidays
    /\ schedule.always_open \/ containing(schedule, t) # {}

\* is_open of a datetime of the zone itself.
is_open_at(schedule, w) ==
    /\ date(w) \notin schedule.holidays
    /\ \/ schedule.always_open
       \/ \E o \in occurrences_around(schedule, date(w)) : o.open <= w /\ w < o.close

\* Mutant: holidays are not looked at.
next_open_any_day(schedule, t) ==
    IF is_open(schedule, t) THEN t
    ELSE IF schedule.always_open THEN first_non_holiday_start(schedule, t)
    ELSE FirstOf(schedule, {o.open : o \in
            {p \in occurrences_forward(schedule, local_date(schedule, t)) :
                instant(schedule.zone, p.open) >= t}})

next_open(schedule, t) ==
    IF is_open(schedule, t) THEN t
    ELSE IF schedule.always_open THEN first_non_holiday_start(schedule, t)
    ELSE FirstOf(schedule, {o.open : o \in
            {p \in occurrences_forward(schedule, local_date(schedule, t)) :
                /\ instant(schedule.zone, p.open) >= t
                /\ date(p.open) \notin schedule.holidays}})

\* The end of the first of the occurrences that contain t, in the order of
\* their wall clock readings.
session_end(schedule, t) ==
    LET first == CHOOSE o \in containing(schedule, t) : \A p \in containing(schedule, t) :
                    o.open < p.open \/ (o.open = p.open /\ o.close <= p.close)
    IN  first.close

\* Mutant: the session's own end.
next_close_of_session(schedule, t) ==
    IF ~is_open(schedule, t) THEN NoInstant
    ELSE IF schedule.always_open THEN FirstOf(schedule, holiday_starts(schedule, t))
    ELSE instant(schedule.zone, session_end(schedule, t))

next_close(schedule, t) ==
    IF ~is_open(schedule, t) THEN NoInstant
    ELSE FirstOf(schedule, holiday_starts(schedule, t) \cup
            IF schedule.always_open THEN {} ELSE {session_end(schedule, t)})
=============================================================================
