----------------------------- MODULE Financing ------------------------------
(***************************************************************************)
(* core/financing.py: when an instrument's carry is charged, asked by a    *)
(* caller that repeatedly passes the previous end as the new start, as     *)
(* funding_events_between prescribes.  The instrument's schedule decides   *)
(* which rollovers happen.  Both are stored with the instrument, and read  *)
(* back when the caller starts again.                                      *)
(*                                                                         *)
(* No rollover lies in the time that a change of the clock skips.          *)
(***************************************************************************)
EXTENDS TradingSchedule

CONSTANTS Instruments,     \* [schedule, financing], valid or not
          Starts,          \* where the caller may begin
          Steps,           \* how far apart its calls may be, in ticks
          Horizon          \* bound: how far it goes

\* Intervals are whole seconds.  The code accepts others that divide the day, but
\* the expansion and the stored form drop the fraction: half a second becomes zero.
ASSUME IntervalAssumption ==
    \A i \in Instruments : \A interval \in i.financing.funding_interval :
       interval % TicksPerSecond = 0

\* FinancingModel.
FinancingModels == {"none", "swap_points", "borrow_rate", "funding_rate"}

\* An optional field holds at most one value; instants and durations are whole ticks.
IsOptional(field) == \A value \in field : field = {value}

ASSUME InstrumentsAssumption ==
    \A i \in Instruments :
       /\ i.schedule \in
             [zone : [change : Int, shift : Int], always_open : BOOLEAN, holidays : SUBSET Int,
              sessions : Seq([open_day : DaysOfWeek, open_time : Int,
                              close_day : DaysOfWeek, close_time : Int])]
       /\ IsFiniteSet(i.schedule.holidays)
       /\ i.financing \in
             [model : FinancingModels, funding_interval : SUBSET Int, funding_anchor : SUBSET Int,
              rollover_time : SUBSET (0..(DayLength - 1)), triple_rollover_day : SUBSET DaysOfWeek]
       /\ \A field \in DOMAIN i.financing \ {"model"} : IsOptional(i.financing[field])

ASSUME StepsAssumption == Steps \subseteq Nat /\ Starts \subseteq Nat /\ Horizon \in Nat

VARIABLES schedule,
          financing,   \* FinancingSpec; an optional field is a set of at most one value
          stored,      \* [schedule, financing]: the columns of the instrument's row
          start,       \* where the caller began
          since,       \* the end of its latest call
          charged      \* [at, nights] of every event it was given, in order

vars == <<schedule, financing, stored, start, since, charged>>

Periodic == {"funding_rate", "borrow_rate"}

the(optional) == CHOOSE x \in optional : TRUE

\* FinancingSpec.__post_init__
valid(spec) ==
    /\ spec.model \in Periodic <=> spec.funding_interval # {}
    /\ spec.model \in Periodic <=> spec.funding_anchor # {}
    /\ \A interval \in spec.funding_interval : interval > 0 /\ DayLength % interval = 0
    /\ spec.model = "swap_points" <=> spec.rollover_time # {}
    /\ spec.triple_rollover_day # {} => spec.model = "swap_points"

seconds(t) == t \div TicksPerSecond

to_mapping(spec) ==
    [model |-> spec.model,
     funding_interval_seconds |-> {seconds(interval) : interval \in spec.funding_interval},
     funding_anchor |-> {isoformat(t) : t \in spec.funding_anchor},
     rollover_time |-> {isoformat(time) : time \in spec.rollover_time},
     triple_rollover_day |-> {name(day) : day \in spec.triple_rollover_day}]

\* Mutant: a triple day that is not stored is the usual one.
from_mapping_usual(data) ==
    [model |-> data.model,
     funding_interval |-> {n * TicksPerSecond : n \in data.funding_interval_seconds},
     funding_anchor |-> {fromisoformat(text) : text \in data.funding_anchor},
     rollover_time |-> {fromisoformat(text) : text \in data.rollover_time},
     triple_rollover_day |-> IF data.model = "swap_points" THEN {parse_weekday("WEDNESDAY")} ELSE {}]

from_mapping(data) ==
    [model |-> data.model,
     funding_interval |-> {n * TicksPerSecond : n \in data.funding_interval_seconds},
     funding_anchor |-> {fromisoformat(text) : text \in data.funding_anchor},
     rollover_time |-> {fromisoformat(text) : text \in data.rollover_time},
     triple_rollover_day |-> {parse_weekday(text) : text \in data.triple_rollover_day}]

-----------------------------------------------------------------------------
\* Event expansion.

interval_seconds(spec) == seconds(the(spec.funding_interval))
anchor_seconds(spec) == seconds(the(spec.funding_anchor))

\* The settlements from the k-th up to the instant last.
settlements_from(spec, k, last) ==
    LET interval == interval_seconds(spec)
        anchor == anchor_seconds(spec)
        count == (seconds(last) - anchor) \div interval - k + 1
    IN  [i \in 1..Max({count, 0}) |->
            [at |-> (anchor + (k + i - 1) * interval) * TicksPerSecond, nights |-> 0]]

\* Mutant: k is the smallest with anchor + k * interval >= first.
settlements_from_start(spec, first, last) ==
    settlements_from(spec, (seconds(first) - anchor_seconds(spec)) \div interval_seconds(spec),
                     last)

\* From the smallest k with anchor + k * interval > first, the anchor and both
\* ends truncated to whole seconds.
funding_events_between(spec, first, last) ==
    settlements_from(spec, (seconds(first) - anchor_seconds(spec)) \div interval_seconds(spec) + 1,
                     last)

nights_on(spec, day) == IF weekday(day) \in spec.triple_rollover_day THEN 3 ELSE 1

\* Mutant: the interval is closed at its start.
within_closed(t, first, last) == first <= t /\ t <= last

within(t, first, last) == first < t /\ t <= last

\* A rollover is charged only when the venue trades at that moment, a datetime
\* of the venue's zone.
rollover_events_between(spec, first, last, hours) ==
    LET moment(day) == combine(day, the(spec.rollover_time))
        due == Ascending({day \in local_date(hours, first)..local_date(hours, last) :
                             /\ within(instant(hours.zone, moment(day)), first, last)
                             /\ is_open_at(hours, moment(day))})
    IN  [i \in DOMAIN due |-> [at |-> instant(hours.zone, moment(due[i])),
                              nights |-> nights_on(spec, due[i])]]

-----------------------------------------------------------------------------
\* The caller.

Init ==
    /\ \E i \in Instruments :
          /\ accepted(i.schedule) /\ valid(i.financing)
          /\ schedule = i.schedule /\ financing = i.financing
          /\ stored = [schedule |-> schedule_to_mapping(i.schedule),
                       financing |-> to_mapping(i.financing)]
    /\ start \in Starts /\ since = start
    /\ charged = <<>>

Events(end) ==
    CASE financing.model \in Periodic -> funding_events_between(financing, since, end)
      [] financing.model = "swap_points" ->
            rollover_events_between(financing, since, end, schedule)
      [] OTHER -> <<>>

Charge ==
    \E step \in Steps :
       /\ since + step <= Horizon
       /\ since' = since + step
       /\ charged' = charged \o Events(since + step)
       /\ UNCHANGED <<schedule, financing, stored, start>>

\* The caller starts again, with the instrument as it is stored.
Reload ==
    /\ schedule' = schedule_from_mapping(stored.schedule) /\ accepted(schedule')
    /\ financing' = from_mapping(stored.financing) /\ valid(financing')
    /\ UNCHANGED <<stored, start, since, charged>>

Next == Charge \/ Reload

Spec == Init /\ [][Next]_vars

-----------------------------------------------------------------------------
\* Properties of the schedule, at the instant the caller has reached.

\* What the venue's clock on the wall shows at t.
Clock(t) == wall(schedule.zone, t)

\* A change of the clock does not disturb t: it is another time, or no session
\* begins or ends at a reading of the clock that is skipped or repeated.
Undisturbed(t) ==
    LET zone == schedule.zone
        before == Min({zone.change, zone.change + zone.shift})
        after == Max({zone.change, zone.change + zone.shift})
        size == after - before
    IN  \/ t \notin (zone.change - size)..(zone.change + size - 1)
        \/ \A o \in occurrences_around(schedule, local_date(schedule, t)) :
              {o.open, o.close} \cap before..(after - 1) = {}

\* t lies in one of the declared weekly sessions, counted on the venue's clock
\* from the session's place in the week.
Declared(t) ==
    \E i \in DOMAIN schedule.sessions :
       (Clock(t) - week_offset(schedule.sessions[i])) % Week < span(schedule.sessions[i])

\* The venue trades exactly when a declared session runs by the venue's own
\* clock, or always, and it is no holiday: no session is lost because it began
\* long ago, and none moves when daylight saving time begins or ends.
IsOpenAsDeclared ==
    Undisturbed(since) =>
       (is_open(schedule, since) <=>
           /\ Clock(since) \div DayLength \notin schedule.holidays
           /\ schedule.always_open \/ Declared(since))

\* An accepted schedule never has two sessions running at once, round the end
\* of the week included.
OneSessionAtATime == Undisturbed(since) => Cardinality(containing(schedule, since)) <= 1

\* The venue trades when next_open says it does.
NextOpenIsOpen ==
    LET opens == next_open(schedule, since)
    IN  opens # NoInstant => opens >= since /\ is_open(schedule, opens)

\* The venue trades up to next_close, and there a holiday or the end of the
\* session comes.
NextCloseEndsTrading ==
    LET closes == next_close(schedule, since)
    IN  closes # NoInstant =>
           /\ closes > since /\ \A t \in since..(closes - 1) : is_open(schedule, t)
           /\ is_open(schedule, closes) /\ Undisturbed(closes) =>
                 \E o \in containing(schedule, closes) :
                    instant(schedule.zone, o.open) = closes

\* next_open's docstring: "the next instant at which trading starts", so that
\* there is no trading before it.  A session that a holiday interrupts resumes
\* at midnight, which next_open does not consider.
NextOpenIsFirst ==
    LET opens == next_open(schedule, since)
    IN  opens # NoInstant => \A t \in since..(opens - 1) : ~is_open(schedule, t)

-----------------------------------------------------------------------------
\* Properties of the charges.

\* The instants in (first, last] at which the venue's clock comes to the time of
\* the rollover, the first time if it is put back past it, while the venue trades.
Rollovers(first, last) ==
    {t \in (first + 1)..last :
        /\ Clock(t) % DayLength \in financing.rollover_time
        /\ ~\E earlier \in (t - DayLength)..(t - 1) : Clock(earlier) = Clock(t)
        /\ is_open(schedule, t)}

\* Every rollover at which the venue trades is charged once, wherever the calls
\* cut the time between, and no other, on days of 23 and of 25 hours as well.
EachRolloverOnce ==
    financing.model = "swap_points" =>
       LET due == Rollovers(start, since)
       IN  /\ Len(charged) = Cardinality(due)
           /\ {charged[i].at : i \in DOMAIN charged} = due
           /\ \A i, j \in DOMAIN charged : i < j => charged[i].at < charged[j].at

\* Every settlement is charged once, and nothing else is, wherever the calls cut
\* the time between, before and after the anchor.  FinancingSpec's docstring has a
\* settlement at the anchor and at "anchor plus a whole number of intervals"; so it
\* is for an anchor on a whole second.  The code cuts another one, and each of its
\* settlements is charged that fraction of a second early.
EachSettlementOnce ==
    financing.model \in Periodic =>
       LET anchor == the(financing.funding_anchor)
           IsSettlement(t) == (t - anchor) % the(financing.funding_interval) = 0
           early == anchor % TicksPerSecond
           due == {t \in (start + 1)..since : IsSettlement(t + early)}
       IN  Len(charged) = Cardinality(due) /\ {charged[i].at : i \in DOMAIN charged} = due

\* A venue that trades at five rollovers of the week, the triple one among them,
\* and has no holidays charges seven nights for every week held, also for the one
\* in which daylight saving time begins or ends.
AWeekIsSevenNights ==
    LET held == Clock(since) - Clock(start)
        week == Rollovers(start, instant(schedule.zone, Clock(start) + Week))
        Regular ==
            /\ schedule.holidays = {} /\ Cardinality(week) = 5
            /\ \E t \in week : weekday(date(Clock(t))) \in financing.triple_rollover_day
        nights == Cardinality(UNION {{i} \X (1..charged[i].nights) : i \in DOMAIN charged})
    IN  financing.model = "swap_points" /\ held > 0 /\ held % Week = 0 =>
           (Regular => nights = 7 * (held \div Week))
=============================================================================
