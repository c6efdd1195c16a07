-------------------------- MODULE FinancingProofs ---------------------------
(***************************************************************************)
(* Proofs about Financing: what a caller is charged, what an instrument    *)
(* read back from its row is, and what its schedule answers.               *)
(*                                                                         *)
(* Settlements.  The n-th settlement after the anchor is due by t just     *)
(* when n is at most settled_by(t), a quotient; the charges of a caller    *)
(* are those that settled_by counts from its start to the end of its       *)
(* latest call (IInv), for any interval, anchor and cut of the time.       *)
(*                                                                         *)
(* Read back.  Sets and optional fields come back from the row as they     *)
(* were given, so the instrument in use is always a declared one           *)
(* (AsStored): no action changes it.                                       *)
(*                                                                         *)
(* Schedule.  The clock of a zone that changes once goes forward but for   *)
(* the shift; at a time it shows (Shown), reading it and naming the        *)
(* instant are inverse.  Sessions do not overlap in the week, so at most   *)
(* one runs at a reading, and next_open and next_close answer the first    *)
(* beginning or stop ahead, where no end falls in the skipped time (Quiet).*)
(*                                                                         *)
(* Rollovers.  Each rollover day has one moment, and the moments are in    *)
(* the order of the days; the charges are the rollover days between the    *)
(* start and the end of the latest call, in order (RInv).  Days of a week  *)
(* later weigh the same, so a whole number of weeks has seven nights for   *)
(* each.                                                                   *)
(***************************************************************************)
EXTENDS Financing, FiniteSetTheorems, SequenceTheorems, TLAPS

\* How many settlements lie between the anchor and t, negative before it: the k
\* from which funding_events_between starts, less one.
settled_by(spec, t) == (seconds(t) - anchor_seconds(spec)) \div interval_seconds(spec)

\* When the n-th settlement is due.
settlement(spec, n) ==
    (anchor_seconds(spec) + n * interval_seconds(spec)) * TicksPerSecond

\* The settlements after the m-th up to the n-th, as events.
Settled(spec, m, n) ==
    [i \in 1..(n - m) |-> [at |-> settlement(spec, m + i), nights |-> 0]]

\* The instrument in use is a declared one, as its constructors accepted it, and its
\* row holds what they were given.
AsDeclared ==
    \E i \in Instruments :
       /\ accepted(i.schedule) /\ valid(i.financing)
       /\ schedule = i.schedule /\ financing = i.financing
       /\ stored = [schedule |-> schedule_to_mapping(i.schedule),
                    financing |-> to_mapping(i.financing)]

AsStored == start \in Nat /\ since \in Nat /\ start <= since /\ AsDeclared

IInv ==
    /\ AsStored
    /\ financing.model \in Periodic =>
          charged = Settled(financing, settled_by(financing, start),
                            settled_by(financing, since))

-----------------------------------------------------------------------------
\* Arithmetic.

\* A quotient and its rest, also of a negative number.
LEMMA Division ==
    ASSUME NEW x \in Int, NEW d \in Nat \ {0}
    PROVE  /\ x \div d \in Int /\ x % d \in 0..(d - 1)
           /\ x = (x \div d) * d + (x % d)
    OBVIOUS

\* Products by a positive number keep the order, a whole one apart.
LEMMA ProductOrder ==
    ASSUME NEW a \in Int, NEW b \in Int, NEW d \in Nat \ {0}
    PROVE  /\ a <= b => a * d <= b * d
           /\ a < b => a * d + d <= b * d
    <1>1. a < b => (a + 1) * d <= b * d
      OBVIOUS
    <1> QED
      BY <1>1

\* A whole number is at most a quotient if its product is at most the dividend.
LEMMA Quotient ==
    ASSUME NEW x \in Int, NEW d \in Nat \ {0}, NEW k \in Int
    PROVE  k <= x \div d <=> k * d <= x
    <1> DEFINE q == x \div d
               r == x % d
    <1>1. q \in Int /\ r \in 0..(d - 1) /\ x = q * d + r
      BY Division
    <1> HIDE DEF q, r
    <1>2. q * d \in Int /\ k * d \in Int
      BY <1>1
    <1>3. k <= q => k * d <= q * d
      BY <1>1, ProductOrder
    <1>4. q < k => q * d + d <= k * d
      BY <1>1, ProductOrder
    <1>5. k <= q <=> k * d <= x
      BY <1>1, <1>2, <1>3, <1>4
    <1> QED
      BY <1>5 DEF q

\* What leaves no rest is a multiple, and the other way round.
LEMMA Multiple ==
    ASSUME NEW x \in Int, NEW d \in Nat \ {0}
    PROVE  x % d = 0 <=> \E k \in Int : x = k * d
    <1>1. x % d = 0 => x = (x \div d) * d /\ x \div d \in Int
      BY Division
    <1>2. ASSUME NEW k \in Int, x = k * d
          PROVE  x % d = 0
      <2> DEFINE q == x \div d
                 r == x % d
      <2>1. q \in Int /\ r \in 0..(d - 1) /\ x = q * d + r
        BY Division
      <2> HIDE DEF q, r
      <2>2. q * d \in Int /\ k * d \in Int
        BY <2>1
      <2>3. k <= q => k * d <= q * d
        BY <2>1, ProductOrder
      <2>4. q < k => q * d + d <= k * d
        BY <2>1, ProductOrder
      <2>5. r = 0
        BY <1>2, <2>1, <2>2, <2>3, <2>4
      <2> QED
        BY <2>5 DEF r
    <1> QED
      BY <1>1, <1>2

-----------------------------------------------------------------------------
\* What is stored is read back.

\* A finite set of numbers in ascending order: each of them once, none else.
LEMMA InOrderOnce ==
    ASSUME NEW S \in SUBSET Int, IsFiniteSet(S)
    PROVE  LET n == Cardinality(S)
               sorted == Ascending(S)
           IN  /\ n \in Nat
               /\ sorted \in Seq(S) /\ Len(sorted) = n /\ DOMAIN sorted = 1..n
               /\ \A i, j \in 1..n : i < j => sorted[i] < sorted[j]
               /\ \A x \in S : \E i \in 1..n : sorted[i] = x
    <1> DEFINE n == Cardinality(S)
               sorted == Ascending(S)
               rank(x) == Cardinality(Below(S, x)) + 1
    <1>1. n \in Nat
      BY FS_CardinalityType
    <1>2. ASSUME NEW x \in S
          PROVE  IsFiniteSet(Below(S, x)) /\ rank(x) \in 1..n
      <2>1. Below(S, x) \subseteq S /\ x \in S \ Below(S, x)
        BY DEF Below
      <2>2. /\ IsFiniteSet(Below(S, x)) /\ Cardinality(Below(S, x)) \in Nat
            /\ Cardinality(Below(S, x)) < n
        BY <1>1, <2>1, FS_Subset, FS_CardinalityType
      <2> QED
        BY <1>1, <2>2
    <1>3. ASSUME NEW x \in S, NEW y \in S, x < y
          PROVE  rank(x) < rank(y)
      <2>1. Below(S, x) \subseteq Below(S, y) /\ x \in Below(S, y) \ Below(S, x)
        <3>1. x \in Int /\ y \in Int /\ ~(x < x) /\ \A z \in S : z < x => z < y
          BY <1>3
        <3>2. \A z : z \in Below(S, x) => z \in Below(S, y)
          BY <3>1 DEF Below
        <3> QED
          BY <1>3, <3>1, <3>2 DEF Below
      <2>2. Cardinality(Below(S, x)) < Cardinality(Below(S, y))
        BY <1>2, <2>1, FS_Subset, FS_CardinalityType
      <2>3. Cardinality(Below(S, x)) \in Nat /\ Cardinality(Below(S, y)) \in Nat
        BY <1>2, FS_CardinalityType
      <2> QED
        BY <2>2, <2>3
    <1>4. \A k \in 1..n : \E x \in S : rank(x) = k
      <2> DEFINE f == [x \in S |-> rank(x)]
      <2> HIDE DEF rank, n
      <2>1. f \in [S -> 1..n]
        BY <1>2
      <2>2. \A x, y \in S : f[x] = f[y] => x = y
        BY <1>2, <1>3
      <2>3. f \in Injection(S, 1..n)
        BY <2>1, <2>2 DEF Injection, IsInjective
      <2>4. IsFiniteSet(1..n) /\ Cardinality(1..n) = n
        BY <1>1, FS_Interval
      <2>5. f \in Surjection(S, 1..n)
        BY <2>3, <2>4, FS_Injection DEF n
      <2> QED
        BY <2>5 DEF Surjection
    <1>5. ASSUME NEW k \in 1..n
          PROVE  sorted[k] \in S /\ rank(sorted[k]) = k
      <2>1. \E x \in S : Cardinality(Below(S, x)) = k - 1
        <3>1. PICK x \in S : rank(x) = k
          BY <1>4
        <3>2. Cardinality(Below(S, x)) \in Nat
          BY <1>2, FS_CardinalityType
        <3> QED
          BY <3>1, <3>2
      <2>2. sorted[k] \in S /\ Cardinality(Below(S, sorted[k])) = k - 1
        BY <2>1 DEF Ascending
      <2> QED
        BY <2>2
    <1>6. DOMAIN sorted = 1..n
      BY DEF Ascending
    <1>7. sorted \in Seq(S) /\ Len(sorted) = n
      <2>1. sorted = [k \in 1..n |-> sorted[k]]
        BY DEF Ascending
      <2> HIDE DEF sorted, n
      <2>2. sorted \in [1..n -> S]
        BY <1>5, <2>1
      <2> QED
        BY <1>1, <2>2, LenProperties
    <1> HIDE DEF sorted, n, rank
    <1>8. ASSUME NEW i \in 1..n, NEW j \in 1..n, i < j
          PROVE  sorted[i] < sorted[j]
      <2>1. sorted[i] \in Int /\ sorted[j] \in Int
        BY <1>5
      <2>2. sorted[j] < sorted[i] => j < i
        BY <1>3, <1>5
      <2>3. sorted[i] # sorted[j]
        BY <1>5, <1>8
      <2> QED
        BY <1>1, <1>8, <2>1, <2>2, <2>3
    <1>9. ASSUME NEW x \in S
          PROVE  \E i \in 1..n : sorted[i] = x
      <2>1. rank(x) \in 1..n
        BY <1>2
      <2>2. sorted[rank(x)] \in S /\ rank(sorted[rank(x)]) = rank(x)
        BY <1>5, <2>1
      <2>3. ~(x < sorted[rank(x)]) /\ ~(sorted[rank(x)] < x)
        <3>1. \A y \in S : rank(y) = rank(x) => ~(x < y) /\ ~(y < x)
          <4>1. \A y \in S : rank(y) \in Int
            BY <1>2
          <4> QED
            BY <1>3, <4>1
        <3> QED
          BY <2>2, <3>1
      <2>4. x \in Int /\ sorted[rank(x)] \in Int
        BY <2>2
      <2>5. x = sorted[rank(x)]
        BY <2>3, <2>4
      <2> QED
        BY <2>1, <2>5
    <1> QED
      BY <1>1, <1>6, <1>7, <1>8, <1>9 DEF n, sorted

\* A name is read back as the day it names.
LEMMA DaysByName ==
    ASSUME NEW day \in DaysOfWeek
    PROVE  parse_weekday(name(day)) = day
    <1> DEFINE d == CHOOSE d \in 1..DAYS_IN_WEEK : Weekdays[d] = name(day)
    <1>1. day + 1 \in 1..DAYS_IN_WEEK /\ name(day) = Weekdays[day + 1]
      BY DEF DaysOfWeek, DAYS_IN_WEEK, name
    <1>2. \A e, f \in 1..DAYS_IN_WEEK : Weekdays[e] = Weekdays[f] => e = f
      BY DEF Weekdays, DAYS_IN_WEEK
    <1>3. d = day + 1
      BY <1>1, <1>2
    <1>4. parse_weekday(name(day)) = d - 1
      BY DEF parse_weekday
    <1> HIDE DEF d
    <1> QED
      BY <1>3, <1>4 DEF DaysOfWeek

\* A time is read back as it was written.
LEMMA TimesByText ==
    ASSUME NEW t \in Int
    PROVE  fromisoformat(isoformat(t)) = t
    <1>1. t = (t \div TicksPerSecond) * TicksPerSecond + (t % TicksPerSecond)
      BY SecondAssumption, Division
    <1> QED
      BY <1>1 DEF isoformat, fromisoformat

\* A schedule is read back as it was stored, its holidays included.
LEMMA ScheduleReadBack ==
    ASSUME NEW i \in Instruments
    PROVE  schedule_from_mapping(schedule_to_mapping(i.schedule)) = i.schedule
    <1> DEFINE old == i.schedule
               data == schedule_to_mapping(old)
               new == schedule_from_mapping(data)
               R == [open_day : DaysOfWeek, open_time : Int,
                     close_day : DaysOfWeek, close_time : Int]
    <1>1. /\ old \in [zone : [change : Int, shift : Int], always_open : BOOLEAN,
                     holidays : SUBSET Int, sessions : Seq(R)]
          /\ IsFiniteSet(old.holidays)
      BY InstrumentsAssumption
    <1>2. /\ data.timezone = old.zone /\ data.always_open = old.always_open
          /\ data.sessions = [j \in DOMAIN old.sessions |->
                                 session_to_mapping(old.sessions[j])]
          /\ data.holidays = Ascending(old.holidays)
      BY DEF schedule_to_mapping
    <1>3. new = [zone |-> data.timezone, always_open |-> data.always_open,
                 sessions |-> [j \in DOMAIN data.sessions |->
                                  session_from_mapping(data.sessions[j])],
                 holidays |-> ToSet(data.holidays)]
      BY DEF schedule_from_mapping
    <1>4. \A s \in R : session_from_mapping(session_to_mapping(s)) = s
      <2> SUFFICES ASSUME NEW s \in R
                   PROVE  session_from_mapping(session_to_mapping(s)) = s
        OBVIOUS
      <2>1. /\ s.open_day \in DaysOfWeek /\ s.close_day \in DaysOfWeek
            /\ s.open_time \in Int /\ s.close_time \in Int
            /\ s = [open_day |-> s.open_day, open_time |-> s.open_time,
                    close_day |-> s.close_day, close_time |-> s.close_time]
        OBVIOUS
      <2>2. session_from_mapping(session_to_mapping(s))
               = [open_day |-> parse_weekday(name(s.open_day)),
                  open_time |-> fromisoformat(isoformat(s.open_time)),
                  close_day |-> parse_weekday(name(s.close_day)),
                  close_time |-> fromisoformat(isoformat(s.close_time))]
        BY DEF session_from_mapping, session_to_mapping
      <2> QED
        BY <2>1, <2>2, DaysByName, TimesByText
    <1> HIDE DEF new, data, old, R
    <1>5. [j \in DOMAIN data.sessions |-> session_from_mapping(data.sessions[j])]
             = old.sessions
      <2>1. /\ old.sessions \in Seq(R)
            /\ DOMAIN old.sessions = 1..Len(old.sessions)
            /\ \A j \in DOMAIN old.sessions : old.sessions[j] \in R
        BY <1>1, LenProperties, ElementOfSeq
      <2>2. old.sessions = [j \in DOMAIN old.sessions |-> old.sessions[j]]
        BY <2>1, LenProperties
      <2>3. DOMAIN data.sessions = DOMAIN old.sessions
            /\ \A j \in DOMAIN old.sessions :
                  session_from_mapping(data.sessions[j]) = old.sessions[j]
        BY <1>2, <1>4, <2>1
      <2> QED
        BY <2>2, <2>3
    <1>6. ToSet(data.holidays) = old.holidays
      BY <1>1, <1>2, InOrderOnce, ElementOfSeq DEF ToSet
    <1>7. new = [zone |-> old.zone, always_open |-> old.always_open,
                 sessions |-> old.sessions, holidays |-> old.holidays]
      BY <1>2, <1>3, <1>5, <1>6
    <1> QED
      BY <1>1, <1>7 DEF new, data, old

\* So is what an instrument charges: its interval is a whole number of seconds.
LEMMA FinancingReadBack ==
    ASSUME NEW i \in Instruments, valid(i.financing)
    PROVE  from_mapping(to_mapping(i.financing)) = i.financing
    <1> DEFINE spec == i.financing
               data == to_mapping(spec)
               read == from_mapping(data)
    <1>1. TicksPerSecond \in Nat \ {0}
      BY SecondAssumption
    <1>2. spec \in [model : FinancingModels, funding_interval : SUBSET Int,
                   funding_anchor : SUBSET Int, rollover_time : SUBSET (0..(DayLength - 1)),
                   triple_rollover_day : SUBSET DaysOfWeek]
      BY InstrumentsAssumption
    <1>3. \A interval \in spec.funding_interval :
             seconds(interval) * TicksPerSecond = interval
      <2> SUFFICES ASSUME NEW interval \in spec.funding_interval
                   PROVE  seconds(interval) * TicksPerSecond = interval
        OBVIOUS
      <2>1. interval \in Int /\ interval % TicksPerSecond = 0
        BY <1>2, IntervalAssumption
      <2>2. /\ seconds(interval) \in Int
            /\ interval = seconds(interval) * TicksPerSecond + (interval % TicksPerSecond)
        BY <1>1, <2>1, Division DEF seconds
      <2>3. seconds(interval) * TicksPerSecond \in Int
        BY <1>1, <2>2
      <2>4. interval = seconds(interval) * TicksPerSecond + 0
        BY <2>1, <2>2
      <2> QED
        BY <2>1, <2>3, <2>4
    <1>4. /\ data.model = spec.model
          /\ data.funding_interval_seconds
                = {seconds(interval) : interval \in spec.funding_interval}
          /\ data.funding_anchor = {isoformat(t) : t \in spec.funding_anchor}
          /\ data.rollover_time = {isoformat(t) : t \in spec.rollover_time}
          /\ data.triple_rollover_day = {name(day) : day \in spec.triple_rollover_day}
      BY DEF to_mapping
    <1>5. read =
             [model |-> data.model,
              funding_interval |-> {n * TicksPerSecond : n \in data.funding_interval_seconds},
              funding_anchor |-> {fromisoformat(text) : text \in data.funding_anchor},
              rollover_time |-> {fromisoformat(text) : text \in data.rollover_time},
              triple_rollover_day |-> {parse_weekday(text) : text \in data.triple_rollover_day}]
      BY DEF from_mapping
    <1>6. spec = [model |-> spec.model, funding_interval |-> spec.funding_interval,
                  funding_anchor |-> spec.funding_anchor,
                  rollover_time |-> spec.rollover_time,
                  triple_rollover_day |-> spec.triple_rollover_day]
      BY <1>2
    <1> HIDE DEF read, data, spec
    <1>7. {n * TicksPerSecond : n \in data.funding_interval_seconds} = spec.funding_interval
      <2>1. {n * TicksPerSecond : n \in data.funding_interval_seconds}
               = {seconds(interval) * TicksPerSecond : interval \in spec.funding_interval}
        BY <1>4
      <2> QED
        BY <1>3, <2>1
    <1>8. ASSUME NEW S \in SUBSET Int
          PROVE  {fromisoformat(text) : text \in {isoformat(t) : t \in S}} = S
      <2>1. {fromisoformat(text) : text \in {isoformat(t) : t \in S}}
               = {fromisoformat(isoformat(t)) : t \in S}
        OBVIOUS
      <2> QED
        BY <2>1, TimesByText
    <1>9. {parse_weekday(text) : text \in data.triple_rollover_day}
             = spec.triple_rollover_day
      <2>1. {parse_weekday(text) : text \in data.triple_rollover_day}
               = {parse_weekday(name(day)) : day \in spec.triple_rollover_day}
        BY <1>4
      <2> QED
        BY <1>2, <2>1, DaysByName
    <1>10. spec.funding_anchor \subseteq Int /\ spec.rollover_time \subseteq Int
      BY <1>2
    <1>11. read = spec
      BY <1>4, <1>5, <1>6, <1>7, <1>8, <1>9, <1>10
    <1> QED
      BY <1>11 DEF read, data, spec

\* What is read back is what was declared.
LEMMA ReloadChangesNothing ==
    ASSUME AsStored, Reload
    PROVE  UNCHANGED vars
    <1>1. PICK i \in Instruments :
             /\ accepted(i.schedule) /\ valid(i.financing)
             /\ schedule = i.schedule /\ financing = i.financing
             /\ stored = [schedule |-> schedule_to_mapping(i.schedule),
                          financing |-> to_mapping(i.financing)]
      BY DEF AsStored, AsDeclared
    <1>2. /\ schedule' = schedule_from_mapping(schedule_to_mapping(i.schedule))
          /\ financing' = from_mapping(to_mapping(i.financing))
          /\ UNCHANGED <<stored, start, since, charged>>
      BY <1>1 DEF Reload
    <1> QED
      BY <1>1, <1>2, ScheduleReadBack, FinancingReadBack DEF vars

\* A caller that starts again finds the instrument as it was declared: its sessions,
\* its holidays and what it charges.
THEOREM ReadBack == Spec => []AsStored
    <1>1. Init => AsStored
      BY StepsAssumption DEF Init, AsStored, AsDeclared
    <1>2. AsStored /\ [Next]_vars => AsStored'
      <2> SUFFICES ASSUME AsStored, [Next]_vars PROVE AsStored'
        OBVIOUS
      <2>1. CASE Charge
        <3>1. PICK step \in Steps : /\ since' = since + step
                                    /\ UNCHANGED <<schedule, financing, stored, start>>
          BY <2>1 DEF Charge
        <3>2. since' \in Nat /\ start' \in Nat /\ start' <= since'
          BY <3>1, StepsAssumption DEF AsStored
        <3> QED
          BY <3>1, <3>2 DEF AsStored, AsDeclared
      <2>2. CASE UNCHANGED vars
        BY <2>2 DEF vars, AsStored, AsDeclared
      <2> QED
        BY <2>1, <2>2, ReloadChangesNothing DEF Next
    <1> QED
      BY <1>1, <1>2, PTL DEF Spec

-----------------------------------------------------------------------------
\* Settlements.

IsPeriodic(spec) ==
    /\ interval_seconds(spec) \in Nat \ {0}
    /\ anchor_seconds(spec) \in Int
    /\ the(spec.funding_interval) = interval_seconds(spec) * TicksPerSecond
    /\ the(spec.funding_anchor) \in Int

\* A periodic charge of a valid instrument settles every whole number of seconds.
LEMMA Settles ==
    ASSUME AsStored, financing.model \in Periodic
    PROVE  IsPeriodic(financing)
    <1>0. PICK i \in Instruments : valid(i.financing) /\ financing = i.financing
      BY DEF AsStored, AsDeclared
    <1>1. PICK interval \in i.financing.funding_interval : TRUE
      BY <1>0 DEF valid
    <1>2. PICK anchor \in i.financing.funding_anchor : TRUE
      BY <1>0 DEF valid
    <1>3. /\ interval \in Int /\ i.financing.funding_interval = {interval}
          /\ anchor \in Int /\ i.financing.funding_anchor = {anchor}
      <2>1. i.financing.funding_interval \subseteq Int /\ i.financing.funding_anchor \subseteq Int
        BY InstrumentsAssumption
      <2>2. DOMAIN i.financing = {"model", "funding_interval", "funding_anchor",
                                  "rollover_time", "triple_rollover_day"}
        BY InstrumentsAssumption
      <2>3. IsOptional(i.financing.funding_interval) /\ IsOptional(i.financing.funding_anchor)
        BY <2>2, InstrumentsAssumption
      <2> QED
        BY <2>1, <2>3 DEF IsOptional
    <1>4. the(financing.funding_interval) = interval /\ the(financing.funding_anchor) = anchor
      BY <1>0, <1>3 DEF the
    <1>5. interval > 0 /\ interval % TicksPerSecond = 0 /\ TicksPerSecond \in Nat \ {0}
      BY <1>0, IntervalAssumption, SecondAssumption DEF valid
    <1>6. interval \div TicksPerSecond \in Int
          /\ interval = (interval \div TicksPerSecond) * TicksPerSecond
      <2>1. /\ interval \div TicksPerSecond \in Int
            /\ interval = (interval \div TicksPerSecond) * TicksPerSecond
                          + (interval % TicksPerSecond)
        BY <1>3, <1>5, Division
      <2> DEFINE q == interval \div TicksPerSecond
      <2> HIDE DEF q
      <2>2. q \in Int /\ interval = q * TicksPerSecond + 0
        BY <1>5, <2>1 DEF q
      <2>3. q * TicksPerSecond \in Int
        BY <1>5, <2>2
      <2>4. interval = q * TicksPerSecond
        BY <2>2, <2>3
      <2> QED
        BY <2>2, <2>4 DEF q
    <1>7. interval \div TicksPerSecond > 0
      <2> DEFINE q == interval \div TicksPerSecond
      <2> HIDE DEF q
      <2>1. q \in Int /\ interval = q * TicksPerSecond
        BY <1>6 DEF q
      <2>2. q <= 0 => q * TicksPerSecond <= 0 * TicksPerSecond
        BY <2>1, <1>5, ProductOrder
      <2>3. q > 0
        BY <2>1, <2>2, <1>5
      <2> QED
        BY <2>3 DEF q
    <1>8. anchor \div TicksPerSecond \in Int
      BY <1>3, <1>5, Division
    <1> QED
      BY <1>3, <1>4, <1>6, <1>7, <1>8 DEF IsPeriodic, interval_seconds, anchor_seconds, seconds

\* The n-th settlement is due by t just when n is at most settled_by(t).
LEMMA DueBy ==
    ASSUME NEW spec, IsPeriodic(spec), NEW t \in Int, NEW n \in Int
    PROVE  /\ settled_by(spec, t) \in Int
           /\ settlement(spec, n) \in Int
           /\ settlement(spec, n) <= t <=> n <= settled_by(spec, t)
    <1> DEFINE d == interval_seconds(spec)
               a == anchor_seconds(spec)
               s == t \div TicksPerSecond
    <1>1. d \in Nat \ {0} /\ a \in Int /\ TicksPerSecond \in Nat \ {0}
      BY SecondAssumption DEF IsPeriodic
    <1> HIDE DEF d, a
    <1>2. s \in Int /\ s - a \in Int /\ n * d \in Int
      BY <1>1, Division
    <1>3. a + n * d <= s <=> (a + n * d) * TicksPerSecond <= t
      BY <1>1, <1>2, Quotient
    <1> HIDE DEF s
    <1>4. n <= (s - a) \div d <=> n * d <= s - a
      BY <1>1, <1>2, Quotient
    <1>5. (s - a) \div d \in Int
      BY <1>1, <1>2, Division
    <1>6. (a + n * d) * TicksPerSecond \in Int
      BY <1>1, <1>2
    <1>7. a + n * d <= s <=> n * d <= s - a
      BY <1>1, <1>2
    <1> QED
      BY <1>3, <1>4, <1>5, <1>6, <1>7 DEF settled_by, settlement, seconds, d, a, s

\* An instant is a settlement just when it lies a whole number of intervals from
\* the second of the anchor.
LEMMA SettlementInstants ==
    ASSUME NEW spec, IsPeriodic(spec), NEW t \in Int
    PROVE  LET anchor == the(spec.funding_anchor)
               second == anchor - (anchor % TicksPerSecond)
           IN  (t - second) % the(spec.funding_interval) = 0
                  <=> \E n \in Int : t = settlement(spec, n)
    <1> DEFINE d == interval_seconds(spec)
               a == anchor_seconds(spec)
               anchor == the(spec.funding_anchor)
               second == anchor - (anchor % TicksPerSecond)
               interval == d * TicksPerSecond
    <1>1. /\ d \in Nat \ {0} /\ a \in Int /\ TicksPerSecond \in Nat \ {0}
          /\ anchor \in Int /\ the(spec.funding_interval) = interval
      BY SecondAssumption DEF IsPeriodic
    <1>2. second = a * TicksPerSecond
      <2>2. a = anchor \div TicksPerSecond
        BY DEF anchor_seconds, seconds
      <2> HIDE DEF a, anchor
      <2>1. /\ anchor \div TicksPerSecond \in Int
            /\ anchor % TicksPerSecond \in 0..(TicksPerSecond - 1)
            /\ anchor = (anchor \div TicksPerSecond) * TicksPerSecond
                        + (anchor % TicksPerSecond)
        BY <1>1, Division
      <2>3. a * TicksPerSecond \in Int
        BY <1>1
      <2> QED
        BY <1>1, <2>1, <2>2, <2>3
    <1> HIDE DEF d, a, anchor
    <1>3. interval \in Nat \ {0} /\ second \in Int
      <2>1. d * TicksPerSecond >= 1 * TicksPerSecond
        BY <1>1, ProductOrder
      <2>2. a * TicksPerSecond \in Int
        BY <1>1
      <2> QED
        BY <1>1, <1>2, <2>1, <2>2
    <1>4. \A n \in Int : settlement(spec, n) = second + n * interval
      <2>1. ASSUME NEW n \in Int
            PROVE  (a + n * d) * TicksPerSecond
                      = a * TicksPerSecond + n * (d * TicksPerSecond)
        BY <1>1
      <2> QED
        BY <1>2, <2>1 DEF settlement, d, a
    <1>5. (t - second) % interval = 0 <=> \E n \in Int : t - second = n * interval
      <2>1. t - second \in Int
        BY <1>3
      <2> HIDE DEF interval, second
      <2> QED
        BY <1>3, <2>1, Multiple
    <1>6. \A n \in Int : t - second = n * interval <=> t = second + n * interval
      <2>1. \A n \in Int : n * interval \in Int
        BY <1>3
      <2> HIDE DEF interval, second
      <2> QED
        BY <1>3, <2>1
    <1>7. (t - second) % interval = 0 <=> \E n \in Int : t = settlement(spec, n)
      <2> HIDE DEF interval, second
      <2> QED
        BY <1>4, <1>5, <1>6
    <1> QED
      BY <1>1, <1>7 DEF anchor

\* Different settlements are at different instants.
LEMMA SettlementsApart ==
    ASSUME NEW spec, IsPeriodic(spec), NEW m \in Int, NEW n \in Int,
           settlement(spec, m) = settlement(spec, n)
    PROVE  m = n
    <1>1. \A j, k \in Int : j < k => settlement(spec, j) < settlement(spec, k)
      <2> SUFFICES ASSUME NEW j \in Int, NEW k \in Int, j < k
                   PROVE  settlement(spec, j) < settlement(spec, k)
        OBVIOUS
      <2> DEFINE d == interval_seconds(spec)
                 x == anchor_seconds(spec) + j * d
                 y == anchor_seconds(spec) + k * d
      <2>1. /\ d \in Nat \ {0} /\ anchor_seconds(spec) \in Int
            /\ TicksPerSecond \in Nat \ {0}
        BY SecondAssumption DEF IsPeriodic
      <2> HIDE DEF d
      <2>2. j * d \in Int /\ k * d \in Int /\ j * d + d <= k * d
        BY <2>1, ProductOrder
      <2>3. x \in Int /\ y \in Int /\ x < y
        BY <2>1, <2>2
      <2> HIDE DEF x, y
      <2>4. x * TicksPerSecond \in Int /\ y * TicksPerSecond \in Int
            /\ x * TicksPerSecond + TicksPerSecond <= y * TicksPerSecond
        BY <2>1, <2>3, ProductOrder
      <2>5. x * TicksPerSecond < y * TicksPerSecond
        BY <2>1, <2>4
      <2> QED
        BY <2>5 DEF settlement, x, y, d
    <1>2. settlement(spec, m) \in Int
      BY DueBy, 0 \in Int
    <1> QED
      BY <1>1, <1>2

-----------------------------------------------------------------------------
\* The charges.

\* Time passes: no fewer settlements are due later.
LEMMA DueGrows ==
    ASSUME NEW spec, IsPeriodic(spec), NEW t \in Int, NEW u \in Int, t <= u
    PROVE  settled_by(spec, t) <= settled_by(spec, u)
    <1> DEFINE n == settled_by(spec, t)
    <1>1. n \in Int
      BY DueBy, 0 \in Int
    <1>2. settlement(spec, n) <= t
      BY <1>1, DueBy
    <1> HIDE DEF n
    <1>3. settlement(spec, n) \in Int /\ settlement(spec, n) <= u
      BY <1>1, <1>2, DueBy
    <1>4. n <= settled_by(spec, u)
      BY <1>1, <1>3, DueBy
    <1> QED
      BY <1>4 DEF n

\* The settlements of a stretch, one by one.
LEMMA SettledIsSeq ==
    ASSUME NEW spec, IsPeriodic(spec), NEW m \in Int, NEW n \in Int, m <= n
    PROVE  /\ Settled(spec, m, n) \in Seq([at : Int, nights : {0}])
           /\ Len(Settled(spec, m, n)) = n - m
           /\ DOMAIN Settled(spec, m, n) = 1..(n - m)
           /\ \A i \in 1..(n - m) :
                 Settled(spec, m, n)[i] = [at |-> settlement(spec, m + i), nights |-> 0]
    <1>1. n - m \in Nat
      OBVIOUS
    <1>2. \A i \in 1..(n - m) : settlement(spec, m + i) \in Int
      BY DueBy, 0 \in Int
    <1> QED
      BY <1>1, <1>2 DEF Settled

\* What two calls in a row charge is what one would have.
LEMMA SettledJoin ==
    ASSUME NEW spec, IsPeriodic(spec), NEW l \in Int, NEW m \in Int, NEW n \in Int,
           l <= m, m <= n
    PROVE  Settled(spec, l, m) \o Settled(spec, m, n) = Settled(spec, l, n)
    <1> DEFINE s == Settled(spec, l, m)
               t == Settled(spec, m, n)
               u == Settled(spec, l, n)
    <1>1. /\ s \in Seq([at : Int, nights : {0}]) /\ Len(s) = m - l
          /\ t \in Seq([at : Int, nights : {0}]) /\ Len(t) = n - m
          /\ u \in Seq([at : Int, nights : {0}]) /\ Len(u) = n - l
      BY SettledIsSeq
    <1> DEFINE event(k) == [at |-> settlement(spec, k), nights |-> 0]
    <1>2. /\ \A i \in 1..(m - l) : s[i] = event(l + i)
          /\ \A i \in 1..(n - m) : t[i] = event(m + i)
          /\ \A i \in 1..(n - l) : u[i] = event(l + i)
      <2>1. l <= n
        OBVIOUS
      <2>2. \A i \in 1..(m - l) : s[i] = event(l + i)
        BY SettledIsSeq
      <2>3. \A i \in 1..(n - m) : t[i] = event(m + i)
        BY SettledIsSeq
      <2>4. \A i \in 1..(n - l) : u[i] = event(l + i)
        BY <2>1, SettledIsSeq
      <2> QED
        BY <2>2, <2>3, <2>4
    <1> HIDE DEF s, t, u
    <1>3. s \o t = u
      <2>1. /\ s \o t \in Seq([at : Int, nights : {0}])
            /\ Len(s \o t) = Len(s) + Len(t)
            /\ \A i \in 1..(Len(s) + Len(t)) :
                  (s \o t)[i] = IF i <= Len(s) THEN s[i] ELSE t[i - Len(s)]
        BY <1>1, ConcatProperties
      <2>2. Len(s) + Len(t) = n - l
        BY <1>1
      <2> HIDE DEF event
      <2>3. ASSUME NEW i \in 1..(n - l)
            PROVE  (s \o t)[i] = event(l + i)
        <3>1. CASE i <= m - l
          <4>1. (s \o t)[i] = s[i] /\ i \in 1..(m - l)
            BY <1>1, <2>1, <2>2, <3>1
          <4> QED
            BY <1>2, <4>1
        <3>2. CASE ~(i <= m - l)
          <4>1. (s \o t)[i] = t[i - (m - l)]
            BY <1>1, <2>1, <2>2, <3>2
          <4>2. i - (m - l) \in 1..(n - m) /\ m + (i - (m - l)) = l + i
            BY <3>2
          <4> QED
            BY <1>2, <4>1, <4>2
        <3> QED
          BY <3>1, <3>2
      <2>4. \A i \in 1..Len(s \o t) : (s \o t)[i] = u[i]
        BY <1>2, <2>1, <2>2, <2>3
      <2> QED
        BY <1>1, <2>1, <2>2, <2>4, SeqEqual
    <1> QED
      BY <1>3 DEF s, t, u

\* funding_events_between charges the settlements after first up to last.
LEMMA ExpandsSettled ==
    ASSUME NEW spec, IsPeriodic(spec), NEW first \in Int, NEW last \in Int, first <= last
    PROVE  funding_events_between(spec, first, last)
              = Settled(spec, settled_by(spec, first), settled_by(spec, last))
    <1> DEFINE m == settled_by(spec, first)
               n == settled_by(spec, last)
               count == n - (m + 1) + 1
    <1>1. m \in Int /\ n \in Int /\ m <= n
      BY DueBy, DueGrows, 0 \in Int
    <1>2. funding_events_between(spec, first, last)
             = [i \in 1..Max({count, 0}) |->
                   [at |-> (anchor_seconds(spec) + (m + 1 + i - 1) * interval_seconds(spec))
                              * TicksPerSecond,
                    nights |-> 0]]
      BY DEF funding_events_between, settlements_from, settled_by
    <1> HIDE DEF m, n
    <1>3. count = n - m /\ count >= 0 /\ count \in Int
      BY <1>1
    <1>4. Max({count, 0}) = n - m
      BY <1>3 DEF Max
    <1>5. \A i \in 1..(n - m) : m + 1 + i - 1 = m + i
      BY <1>1
    <1> HIDE DEF count
    <1>6. funding_events_between(spec, first, last) = Settled(spec, m, n)
      BY <1>2, <1>4, <1>5 DEF Settled, settlement
    <1> QED
      BY <1>6 DEF m, n

\* A call charges the settlements since the end of the one before.
LEMMA ChargeStep ==
    ASSUME IInv, Charge
    PROVE  IInv'
    <1>1. PICK step \in Steps :
             /\ since' = since + step /\ charged' = charged \o Events(since + step)
             /\ UNCHANGED <<schedule, financing, stored, start>>
      BY DEF Charge
    <1>2. /\ start \in Nat /\ since \in Nat /\ since' \in Nat
          /\ start <= since /\ since <= since' /\ start <= since'
      BY <1>1, StepsAssumption DEF IInv, AsStored
    <1>3. AsStored'
      BY <1>1, <1>2 DEF IInv, AsStored, AsDeclared
    <1>4. start' = start /\ financing' = financing
      BY <1>1
    <1>5. ASSUME financing.model \in Periodic
          PROVE  charged' = Settled(financing, settled_by(financing, start),
                                    settled_by(financing, since'))
      <2>1. IsPeriodic(financing)
        BY <1>5, Settles DEF IInv
      <2>2. Events(since + step) = Settled(financing, settled_by(financing, since),
                                           settled_by(financing, since'))
        <3>1. Events(since + step) = funding_events_between(financing, since, since + step)
          BY <1>5 DEF Events, Periodic
        <3>2. since + step = since' /\ since \in Int /\ since' \in Int
          BY <1>1, <1>2
        <3> QED
          BY <1>2, <2>1, <3>1, <3>2, ExpandsSettled
      <2>3. /\ settled_by(financing, start) \in Int
            /\ settled_by(financing, since) \in Int
            /\ settled_by(financing, since') \in Int
            /\ settled_by(financing, start) <= settled_by(financing, since)
            /\ settled_by(financing, since) <= settled_by(financing, since')
        BY <1>2, <2>1, DueBy, DueGrows, 0 \in Int
      <2>4. charged = Settled(financing, settled_by(financing, start),
                              settled_by(financing, since))
        BY <1>5 DEF IInv
      <2> DEFINE l == settled_by(financing, start)
                 m == settled_by(financing, since)
                 n == settled_by(financing, since')
      <2>5. Settled(financing, l, m) \o Settled(financing, m, n) = Settled(financing, l, n)
        <3> HIDE DEF l, m, n
        <3> QED
          BY <2>1, <2>3, SettledJoin DEF l, m, n
      <2>6. charged' = charged \o Events(since + step)
        BY <1>1
      <2> QED
        BY <2>2, <2>4, <2>5, <2>6
    <1>6. financing'.model \in Periodic =>
             charged' = Settled(financing', settled_by(financing', start'),
                                settled_by(financing', since'))
      BY <1>4, <1>5
    <1> QED
      BY <1>3, <1>6 DEF IInv

\* The invariant holds in every reachable state.
THEOREM Invariance == Spec => []IInv
    <1>1. Init => IInv
      <2> SUFFICES ASSUME Init PROVE IInv
        OBVIOUS
      <2>1. AsStored
        BY StepsAssumption DEF Init, AsStored, AsDeclared
      <2>3. start \in Nat /\ since = start /\ charged = <<>>
        BY StepsAssumption DEF Init
      <2>4. ASSUME financing.model \in Periodic
            PROVE  charged = Settled(financing, settled_by(financing, start),
                                     settled_by(financing, since))
        <3> DEFINE n == settled_by(financing, start)
        <3>1. IsPeriodic(financing)
          BY <2>1, <2>4, Settles
        <3>2. n \in Int
          BY <2>3, <3>1, DueBy, 0 \in Int
        <3> HIDE DEF n
        <3>3. /\ Settled(financing, n, n) \in Seq([at : Int, nights : {0}])
              /\ Len(Settled(financing, n, n)) = 0
          BY <3>1, <3>2, SettledIsSeq
        <3>4. Settled(financing, n, n) = <<>>
          BY <3>3, EmptySeq
        <3> QED
          BY <2>3, <3>4 DEF n
      <2> QED
        BY <2>1, <2>4 DEF IInv
    <1>2. IInv /\ [Next]_vars => IInv'
      <2> SUFFICES ASSUME IInv, [Next]_vars PROVE IInv'
        OBVIOUS
      <2>1. CASE Charge
        BY <2>1, ChargeStep
      <2>2. CASE Reload
        <3>1. UNCHANGED vars
          BY <2>2, ReloadChangesNothing DEF IInv
        <3> QED
          BY <3>1 DEF vars, IInv, AsStored, AsDeclared, settled_by, Settled
      <2>3. CASE UNCHANGED vars
        BY <2>3 DEF vars, IInv, AsStored, AsDeclared, settled_by, Settled
      <2> QED
        BY <2>1, <2>2, <2>3 DEF Next
    <1> QED
      BY <1>1, <1>2, PTL DEF Spec

\* EachSettlementOnce: the charges count the settlements after the start up to the
\* end of the latest call, one by one, so there are as many of them as settlements
\* and they are at the same instants: for any anchor the declared ones, less the
\* fraction of a second the anchor has.
THEOREM SettlesOnce == Spec => []EachSettlementOnce
    <1>1. IInv => EachSettlementOnce
      <2> SUFFICES ASSUME IInv, financing.model \in Periodic
                   PROVE  EachSettlementOnce
        BY DEF EachSettlementOnce
      <2> DEFINE m == settled_by(financing, start)
                 n == settled_by(financing, since)
                 anchor == the(financing.funding_anchor)
                 second == anchor - (anchor % TicksPerSecond)
                 interval == the(financing.funding_interval)
                 due == {t \in (start + 1)..since : (t - second) % interval = 0}
                 at(i) == settlement(financing, m + i)
      <2>1. IsPeriodic(financing)
        BY Settles DEF IInv
      <2>2. start \in Nat /\ since \in Nat /\ start <= since
        BY DEF IInv, AsStored
      <2>3. m \in Int /\ n \in Int /\ m <= n
        BY <2>1, <2>2, DueBy, DueGrows, 0 \in Int
      <2>4. charged = Settled(financing, m, n)
        BY DEF IInv
      <2>5. \A t \in Int : (t - second) % interval = 0
                              <=> \E k \in Int : t = settlement(financing, k)
        BY <2>1, SettlementInstants
      <2>6. \A k \in Int : settlement(financing, k) \in (start + 1)..since
                              <=> k \in (m + 1)..n
        <3>1. \A k \in Int : /\ settlement(financing, k) \in Int
                             /\ settlement(financing, k) <= start <=> k <= m
                             /\ settlement(financing, k) <= since <=> k <= n
          BY <2>1, <2>2, DueBy
        <3> HIDE DEF m, n
        <3> QED
          BY <2>2, <2>3, <3>1
      <2> HIDE DEF second, interval, anchor
      <2>7. \A t : t \in due <=> \E k \in (m + 1)..n : t = settlement(financing, k)
        <3>1. ASSUME NEW t \in due
              PROVE  \E k \in (m + 1)..n : t = settlement(financing, k)
          <4>1. t \in Int /\ t \in (start + 1)..since
            BY <2>2
          <4>2. PICK k \in Int : t = settlement(financing, k)
            BY <2>5, <4>1
          <4> QED
            BY <2>6, <4>1, <4>2
        <3>2. ASSUME NEW k \in (m + 1)..n
              PROVE  settlement(financing, k) \in due
          <4> HIDE DEF m, n
          <4>1. k \in Int
            BY <2>3
          <4>2. settlement(financing, k) \in (start + 1)..since
            BY <2>6, <4>1 DEF m, n
          <4>3. settlement(financing, k) \in Int
            BY <2>2, <4>2
          <4> QED
            BY <2>5, <4>1, <4>2, <4>3
        <3> QED
          BY <3>1, <3>2
      <2> HIDE DEF due
      <2>8. /\ Len(charged) = n - m /\ DOMAIN charged = 1..(n - m)
            /\ \A i \in 1..(n - m) : charged[i].at = at(i)
        <3> HIDE DEF m, n
        <3>1. /\ Len(charged) = n - m /\ DOMAIN charged = 1..(n - m)
              /\ \A i \in 1..(n - m) : charged[i] = [at |-> at(i), nights |-> 0]
          BY <2>1, <2>3, <2>4, SettledIsSeq
        <3> HIDE DEF at
        <3> QED
          BY <3>1
      <2> HIDE DEF m, n
      <2>9. /\ \A i \in 1..(n - m) : m + i \in (m + 1)..n
            /\ \A k \in (m + 1)..n : k - m \in 1..(n - m) /\ m + (k - m) = k
        BY <2>3
      <2>10. /\ \A i \in 1..(n - m) : at(i) \in due
             /\ \A t \in due : \E i \in 1..(n - m) : at(i) = t
        BY <2>7, <2>9
      <2>11. {charged[i].at : i \in DOMAIN charged} = due
        <3> HIDE DEF at
        <3> QED
          BY <2>8, <2>10
      <2>12. Cardinality(due) = n - m
        <3> DEFINE f == [i \in 1..(n - m) |-> at(i)]
        <3>1. \A i, j \in 1..(n - m) : at(i) = at(j) => i = j
          BY <2>1, <2>3, SettlementsApart
        <3> HIDE DEF at
        <3>2. f \in [1..(n - m) -> due]
          BY <2>10
        <3>3. f \in Bijection(1..(n - m), due)
          BY <2>10, <3>1, <3>2 DEF Bijection, Injection, Surjection, IsInjective
        <3>4. n - m \in Nat
          BY <2>3
        <3> QED
          BY <3>3, <3>4, FS_CountingElements DEF ExistsBijection
      <2>13. due = {t \in (start + 1)..since :
                       ((t + (anchor % TicksPerSecond)) - anchor) % interval = 0}
        <3> DEFINE early == anchor % TicksPerSecond
        <3>1. anchor \in Int /\ early \in Int
          BY <2>1, SecondAssumption DEF IsPeriodic, anchor
        <3>2. second = anchor - early
          BY DEF second
        <3> HIDE DEF early
        <3>3. \A t \in (start + 1)..since : t - second = (t + early) - anchor
          BY <2>2, <3>1, <3>2
        <3> QED
          BY <3>3 DEF due, early
      <2> QED
        BY <2>8, <2>11, <2>12, <2>13 DEF EachSettlementOnce, interval, anchor
    <1> QED
      BY <1>1, Invariance, PTL

-----------------------------------------------------------------------------
\* Sessions in the week.

IsWeekly(s) == s.open_day \in DaysOfWeek /\ s.close_day \in DaysOfWeek /\ IsSession(s)

\* A session lasts some time and no more than a week.
LEMMA SessionShape ==
    ASSUME NEW s, IsWeekly(s)
    PROVE  /\ s.open_time \in 0..(DayLength - 1) /\ s.close_time \in 0..(DayLength - 1)
           /\ s.open_day \in 0..6
           /\ spans_days(s) \in 0..7
           /\ week_offset(s) \in 0..(Week - 1)
           /\ span(s) \in 1..Week
    <1>1. /\ DayLength \in Nat \ {0}
          /\ s.open_time \in 0..(DayLength - 1) /\ s.close_time \in 0..(DayLength - 1)
          /\ s.open_day \in 0..6 /\ s.close_day \in 0..6
      BY DayAssumption DEF IsWeekly, IsSession, IsTime, DaysOfWeek, DAYS_IN_WEEK
    <1>2. /\ spans_days(s) \in 0..7
          /\ spans_days(s) = 0 => s.open_time < s.close_time
          /\ spans_days(s) = 7 => s.close_time <= s.open_time
      BY <1>1 DEF spans_days, DAYS_IN_WEEK
    <1> DEFINE n == spans_days(s)
    <1> HIDE DEF n
    <1>3. /\ n \in 0..7 /\ n * DayLength \in Int /\ 7 * DayLength \in Int
          /\ n < 7 => n * DayLength + DayLength <= 7 * DayLength
          /\ 0 < n => DayLength <= n * DayLength
      <2>1. n \in 0..7
        BY <1>2 DEF n
      <2>2. 0 < n => 0 * DayLength + DayLength <= n * DayLength
        BY <1>1, <2>1, ProductOrder
      <2>3. n < 7 => n * DayLength + DayLength <= 7 * DayLength
        BY <1>1, <2>1, ProductOrder
      <2> QED
        BY <1>1, <2>1, <2>2, <2>3
    <1>4. span(s) \in 1..Week
      <2>1. span(s) = n * DayLength + s.close_time - s.open_time
        BY DEF span, n
      <2>2. n = 0 => s.open_time < s.close_time /\ n * DayLength = 0
        BY <1>1, <1>2 DEF n
      <2>3. n = 7 => s.close_time <= s.open_time
        BY <1>2 DEF n
      <2> QED
        BY <1>1, <1>3, <2>1, <2>2, <2>3 DEF Week, DAYS_IN_WEEK
    <1>5. week_offset(s) \in 0..(Week - 1)
      <2>1. /\ s.open_day * DayLength \in Int
            /\ s.open_day * DayLength + DayLength <= 7 * DayLength
            /\ 0 <= s.open_day * DayLength
        BY <1>1, ProductOrder
      <2> QED
        BY <1>1, <2>1 DEF week_offset, combine, Week, DAYS_IN_WEEK
    <1> QED
      BY <1>1, <1>2, <1>4, <1>5

\* A session that opens on a day opens whole weeks after its place in the first
\* week, and lasts its span.
LEMMA InWeeks ==
    ASSUME NEW s, IsWeekly(s), NEW day \in Int, weekday(day) = s.open_day
    PROVE  /\ combine(day, s.open_time) = week_offset(s) + (day \div 7) * Week
           /\ combine(day + spans_days(s), s.close_time)
                 = combine(day, s.open_time) + span(s)
           /\ day \div 7 \in Int
    <1>1. /\ DayLength \in Nat \ {0}
          /\ s.open_time \in Int /\ s.close_time \in Int /\ s.open_day \in Int
          /\ spans_days(s) \in Int
      BY SessionShape, DayAssumption
    <1> DEFINE k == day \div 7
               n == spans_days(s)
    <1>2. k \in Int /\ day = k * 7 + s.open_day
      BY DEF weekday, DAYS_IN_WEEK
    <1> HIDE DEF k, n
    <1>3. combine(day, s.open_time) = week_offset(s) + k * Week
      BY <1>1, <1>2 DEF combine, week_offset, Week, DAYS_IN_WEEK
    <1>4. (day + n) * DayLength + s.close_time
             = day * DayLength + s.open_time
               + (n * DayLength + s.close_time - s.open_time)
      BY <1>1 DEF n
    <1> QED
      BY <1>2, <1>3, <1>4 DEF combine, span, k, n

\* A week is seven days of some length.
LEMMA WeekLength == Week \in Nat \ {0} /\ Week = 7 * DayLength /\ DayLength \in Nat \ {0}
    <1>1. DayLength \in Nat \ {0} /\ Week = 7 * DayLength
      BY DayAssumption DEF Week, DAYS_IN_WEEK
    <1> QED
      BY <1>1

\* Two sessions that contain one reading of the clock overlap: at most a week of it
\* lies between the weeks they are counted in.
LEMMA MeetingOverlaps ==
    ASSUME NEW s, IsWeekly(s), NEW u, IsWeekly(u), NEW w \in Int,
           NEW j \in Int, NEW k \in Int,
           week_offset(s) + j * Week <= w, w < week_offset(s) + j * Week + span(s),
           week_offset(u) + k * Week <= w, w < week_offset(u) + k * Week + span(u)
    PROVE  /\ overlap(s, u)
           /\ week_offset(s) = week_offset(u) => j = k
    <1> DEFINE a == week_offset(s)
               b == week_offset(u)
               e == j - k
    <1>1. /\ a \in 0..(Week - 1) /\ b \in 0..(Week - 1)
          /\ span(s) \in 1..Week /\ span(u) \in 1..Week
          /\ Week \in Nat \ {0}
      BY SessionShape, WeekLength
    <1>2. /\ j * Week \in Int /\ k * Week \in Int
          /\ j * Week - k * Week = e * Week /\ e \in Int
      BY <1>1
    <1> HIDE DEF a, b
    <1>3. a + e * Week < b + span(u) /\ b < a + span(s) + e * Week
      <2> HIDE DEF e
      <2> QED
        BY <1>1, <1>2 DEF a, b
    <1> HIDE DEF e
    <1>4. e \in {-1, 0, 1}
      <2>1. /\ e > 1 => 1 * Week + Week <= e * Week
            /\ e < -1 => e * Week + Week <= (-1) * Week
        BY <1>1, <1>2, ProductOrder
      <2>2. e * Week \in Int /\ (-1) * Week = -Week /\ 1 * Week = Week
        BY <1>1, <1>2
      <2> QED
        BY <1>1, <1>2, <1>3, <2>1, <2>2
    <1>5. e * Week \in {-Week, 0, Week}
      BY <1>1, <1>4
    <1>6. overlap(s, u)
      BY <1>3, <1>5 DEF overlap, a, b
    <1>7. a = b => e = 0
      <2>1. 1 * Week = Week /\ (-1) * Week = -Week
        BY <1>1
      <2> QED
        BY <1>1, <1>3, <1>4, <2>1
    <1>8. a = b => j = k
      BY <1>7 DEF e
    <1> QED
      BY <1>6, <1>8 DEF a, b

-----------------------------------------------------------------------------
\* The clock.

IsZone(zone) == zone.change \in Int /\ zone.shift \in Int

\* The readings that a change skips or repeats, and the instants about it.
Disturbed(zone) ==
    Min({zone.change, zone.change + zone.shift})
        ..(Max({zone.change, zone.change + zone.shift}) - 1)

About(zone) ==
    LET size == Max({zone.change, zone.change + zone.shift})
                - Min({zone.change, zone.change + zone.shift})
    IN  (zone.change - size)..(zone.change + size - 1)

\* Away from a change, a reading has come when its instant has.
LEMMA ClockOrder ==
    ASSUME NEW zone, IsZone(zone), NEW t \in Int, NEW x \in Int,
           t \notin About(zone) \/ x \notin Disturbed(zone)
    PROVE  /\ wall(zone, t) \in Int /\ instant(zone, x) \in Int
           /\ instant(zone, x) <= t <=> x <= wall(zone, t)
    <1> DEFINE c == zone.change
               s == zone.shift
    <1>1. c \in Int /\ s \in Int
      BY DEF IsZone
    <1>2. /\ s >= 0 => Min({c, c + s}) = c /\ Max({c, c + s}) = c + s /\ Max({0, s}) = s
          /\ s < 0 => Min({c, c + s}) = c + s /\ Max({c, c + s}) = c /\ Max({0, s}) = 0
      BY <1>1 DEF Min, Max
    <1>3. t \in About(zone) <=> IF s >= 0 THEN c - s <= t /\ t < c + s
                                          ELSE c + s <= t /\ t < c - s
      BY <1>1, <1>2 DEF About
    <1>4. x \in Disturbed(zone) <=> IF s >= 0 THEN c <= x /\ x < c + s
                                              ELSE c + s <= x /\ x < c
      BY <1>1, <1>2 DEF Disturbed
    <1>5. wall(zone, t) = IF t < c THEN t ELSE t + s
      BY DEF wall
    <1>6. instant(zone, x) = IF x < (IF s >= 0 THEN c + s ELSE c) THEN x ELSE x - s
      BY <1>1, <1>2 DEF instant
    <1> HIDE DEF c, s
    <1> QED
      BY <1>1, <1>3, <1>4, <1>5, <1>6

-----------------------------------------------------------------------------
\* Open and closed.

\* A schedule that was accepted; its days are days of the week.
ScheduleFits(hours) ==
    /\ accepted(hours)
    /\ IsZone(hours.zone)
    /\ DOMAIN hours.sessions \subseteq Int
    /\ \A i \in DOMAIN hours.sessions : IsWeekly(hours.sessions[i])

SInv == start \in Nat /\ since \in Nat /\ ScheduleFits(schedule)

\* What an instrument declares.
LEMMA Declares ==
    ASSUME NEW i \in Instruments
    PROVE  /\ IsZone(i.schedule.zone)
           /\ DOMAIN i.schedule.sessions \subseteq Int
           /\ \A j \in DOMAIN i.schedule.sessions :
                 /\ i.schedule.sessions[j].open_day \in DaysOfWeek
                 /\ i.schedule.sessions[j].close_day \in DaysOfWeek
    <1> DEFINE R == [open_day : DaysOfWeek, open_time : Int,
                     close_day : DaysOfWeek, close_time : Int]
               sessions == i.schedule.sessions
    <1>1. i.schedule.zone \in [change : Int, shift : Int] /\ sessions \in Seq(R)
      BY InstrumentsAssumption
    <1>2. \A r \in R : r.open_day \in DaysOfWeek /\ r.close_day \in DaysOfWeek
      OBVIOUS
    <1> HIDE DEF R, sessions
    <1>3. /\ DOMAIN sessions = 1..Len(sessions) /\ Len(sessions) \in Nat
          /\ \A j \in DOMAIN sessions : sessions[j] \in R
      BY <1>1, LenProperties, ElementOfSeq
    <1>4. /\ DOMAIN sessions \subseteq Int
          /\ \A j \in DOMAIN sessions : /\ sessions[j].open_day \in DaysOfWeek
                                        /\ sessions[j].close_day \in DaysOfWeek
      BY <1>2, <1>3
    <1> QED
      BY <1>1, <1>4 DEF IsZone, sessions

\* The schedule in use does.
LEMMA ScheduleInUse ==
    ASSUME AsStored
    PROVE  SInv
    <1>1. PICK i \in Instruments : accepted(i.schedule) /\ schedule = i.schedule
      BY DEF AsStored, AsDeclared
    <1>2. ScheduleFits(schedule)
      BY <1>1, Declares DEF ScheduleFits, accepted, IsWeekly
    <1> QED
      BY <1>2 DEF AsStored, SInv

-----------------------------------------------------------------------------
\* Occurrences.

Occurrence(s, day) ==
    [open |-> combine(day, s.open_time), close |-> combine(day + spans_days(s), s.close_time)]

\* What expand enumerates: every session, on every day it opens on.
LEMMA Occurs ==
    ASSUME NEW hours, NEW first, NEW days, NEW o
    PROVE  o \in expand(hours, first, days) <=>
              \E i \in DOMAIN hours.sessions : \E day \in first..(first + days - 1) :
                 /\ weekday(day) = hours.sessions[i].open_day
                 /\ o = Occurrence(hours.sessions[i], day)
    <1> DEFINE all == {hours.sessions[i] : i \in DOMAIN hours.sessions}
               on(s) == {Occurrence(s, day) :
                            day \in {d \in first..(first + days - 1) : weekday(d) = s.open_day}}
    <1>1. expand(hours, first, days) = UNION {on(s) : s \in all}
      BY DEF expand, Occurrence
    <1>2. \A s : o \in on(s) <=> \E day \in first..(first + days - 1) :
                                    weekday(day) = s.open_day /\ o = Occurrence(s, day)
      OBVIOUS
    <1>3. o \in expand(hours, first, days) <=> \E s \in all : o \in on(s)
      BY <1>1
    <1> QED
      BY <1>2, <1>3

\* An occurrence, counted from its place in the first week.
LEMMA OccurrenceInWeeks ==
    ASSUME NEW s, IsWeekly(s), NEW day \in Int, weekday(day) = s.open_day
    PROVE  /\ Occurrence(s, day).open = week_offset(s) + (day \div 7) * Week
           /\ Occurrence(s, day).close = Occurrence(s, day).open + span(s)
           /\ Occurrence(s, day).open \in Int /\ Occurrence(s, day).close \in Int
    <1>1. /\ Occurrence(s, day).open = week_offset(s) + (day \div 7) * Week
          /\ Occurrence(s, day).close = Occurrence(s, day).open + span(s)
          /\ day \div 7 \in Int
      BY InWeeks DEF Occurrence
    <1>2. week_offset(s) \in Int /\ span(s) \in Int /\ Week \in Int
      BY SessionShape, WeekLength
    <1>3. Occurrence(s, day).open \in Int
      BY <1>1, <1>2
    <1> QED
      BY <1>1, <1>2, <1>3

\* An occurrence is one of a session, on a day it opens on.
IsOccurrence(hours, o) ==
    \E i \in DOMAIN hours.sessions : \E day \in Int :
       weekday(day) = hours.sessions[i].open_day /\ o = Occurrence(hours.sessions[i], day)

\* What is looked at round a day, or ahead of it, are occurrences.
LEMMA Expanded ==
    ASSUME NEW hours, NEW first \in Int, NEW days \in Int, NEW o \in expand(hours, first, days)
    PROVE  IsOccurrence(hours, o)
    <1>1. \A d \in first..(first + days - 1) : d \in Int
      OBVIOUS
    <1> QED
      BY <1>1, Occurs DEF IsOccurrence

\* Two occurrences that have a reading in common are one.
LEMMA OneAtAReading ==
    ASSUME NEW hours, ScheduleFits(hours), NEW o, NEW p,
           IsOccurrence(hours, o), IsOccurrence(hours, p), NEW w \in Int,
           o.open <= w, w < o.close, p.open <= w, w < p.close
    PROVE  o = p
    <1>1. PICK i \in DOMAIN hours.sessions : \E day \in Int :
             weekday(day) = hours.sessions[i].open_day /\ o = Occurrence(hours.sessions[i], day)
      BY DEF IsOccurrence
    <1>2. PICK j \in DOMAIN hours.sessions : \E day \in Int :
             weekday(day) = hours.sessions[j].open_day /\ p = Occurrence(hours.sessions[j], day)
      BY DEF IsOccurrence
    <1> DEFINE s == hours.sessions[i]
               u == hours.sessions[j]
    <1>3. PICK d \in Int : weekday(d) = s.open_day /\ o = Occurrence(s, d)
      BY <1>1
    <1>4. PICK e \in Int : weekday(e) = u.open_day /\ p = Occurrence(u, e)
      BY <1>2
    <1>5. IsWeekly(s) /\ IsWeekly(u)
      BY DEF ScheduleFits
    <1> HIDE DEF s, u
    <1> DEFINE k == d \div 7
               l == e \div 7
    <1>6. k \in Int /\ l \in Int
      OBVIOUS
    <1>7. /\ o.open = week_offset(s) + k * Week /\ o.close = o.open + span(s)
          /\ p.open = week_offset(u) + l * Week /\ p.close = p.open + span(u)
      BY <1>3, <1>4, <1>5, OccurrenceInWeeks
    <1> HIDE DEF k, l
    <1>8. /\ week_offset(s) + k * Week <= w /\ w < week_offset(s) + k * Week + span(s)
          /\ week_offset(u) + l * Week <= w /\ w < week_offset(u) + l * Week + span(u)
      BY <1>7
    <1>9. overlap(s, u) /\ overlap(u, s) /\ (s = u => k = l)
      BY <1>5, <1>6, <1>8, MeetingOverlaps
    <1>10. i = j
      <2>1. i \in Int /\ j \in Int
        BY DEF ScheduleFits
      <2>2. ~(i < j) /\ ~(j < i)
        BY <1>9 DEF ScheduleFits, accepted, s, u
      <2> QED
        BY <2>1, <2>2
    <1>11. d = e
      <2>1. s = u
        BY <1>10 DEF s, u
      <2>2. d % 7 = e % 7 /\ d \div 7 = e \div 7
        BY <1>3, <1>4, <1>9, <2>1 DEF weekday, DAYS_IN_WEEK, k, l
      <2> QED
        BY <2>2
    <1> QED
      BY <1>3, <1>4, <1>10, <1>11 DEF s, u

\* The occurrences looked at round an instant.
LEMMA AroundOccurs ==
    ASSUME SInv, NEW today, NEW o \in occurrences_around(schedule, today)
    PROVE  \E i \in DOMAIN schedule.sessions : \E day \in Int :
              /\ IsWeekly(schedule.sessions[i])
              /\ weekday(day) = schedule.sessions[i].open_day
              /\ o = Occurrence(schedule.sessions[i], day)
              /\ o.open \in Int /\ o.close \in Int
    <1>1. PICK i \in DOMAIN schedule.sessions : \E day \in Int :
             /\ weekday(day) = schedule.sessions[i].open_day
             /\ o = Occurrence(schedule.sessions[i], day)
      <2>1. o \in expand(schedule, today - (DAYS_IN_WEEK + 1), DAYS_IN_WEEK * 2 + 2)
        BY DEF occurrences_around
      <2> QED
        BY <2>1, Occurs
    <1>2. PICK day \in Int : /\ weekday(day) = schedule.sessions[i].open_day
                             /\ o = Occurrence(schedule.sessions[i], day)
      BY <1>1
    <1>3. IsWeekly(schedule.sessions[i])
      BY DEF SInv, ScheduleFits
    <1> QED
      BY <1>2, <1>3, OccurrenceInWeeks

\* Away from a change, an occurrence contains an instant just when it contains what
\* the clock shows then.
LEMMA ContainsReading ==
    ASSUME SInv, Undisturbed(since)
    PROVE  /\ Clock(since) \in Int
           /\ \A o : o \in containing(schedule, since) <=>
                 /\ o \in occurrences_around(schedule, local_date(schedule, since))
                 /\ o.open <= Clock(since) /\ Clock(since) < o.close
    <1> DEFINE zone == schedule.zone
               around == occurrences_around(schedule, local_date(schedule, since))
    <1>1. IsZone(zone) /\ since \in Int
      BY DEF SInv, ScheduleFits
    <1>2. Clock(since) \in Int
      BY <1>1 DEF Clock, wall, IsZone
    <1>3. \/ since \notin About(zone)
          \/ \A o \in around : {o.open, o.close} \cap Disturbed(zone) = {}
      BY DEF Undisturbed, About, Disturbed
    <1>4. ASSUME NEW o \in around
          PROVE  /\ instant(zone, o.open) <= since <=> o.open <= Clock(since)
                 /\ since < instant(zone, o.close) <=> Clock(since) < o.close
      <2>1. o.open \in Int /\ o.close \in Int
        BY AroundOccurs
      <2>2. \A x \in {o.open, o.close} : since \notin About(zone) \/ x \notin Disturbed(zone)
        BY <1>3
      <2>3. /\ instant(zone, o.open) <= since <=> o.open <= Clock(since)
            /\ instant(zone, o.close) <= since <=> o.close <= Clock(since)
            /\ instant(zone, o.close) \in Int
        BY <1>1, <2>1, <2>2, ClockOrder DEF Clock
      <2> HIDE DEF zone
      <2> QED
        BY <1>1, <1>2, <2>1, <2>3
    <1> QED
      BY <1>2, <1>4 DEF containing

-----------------------------------------------------------------------------
\* The properties of the schedule.

\* OneSessionAtATime: two sessions that ran at once would overlap, which the
\* constructor refuses, and one session does not run into its own next week.
THEOREM SessionsApart == Spec => []OneSessionAtATime
    <1>1. SInv => OneSessionAtATime
      <2> SUFFICES ASSUME SInv, Undisturbed(since)
                   PROVE  Cardinality(containing(schedule, since)) <= 1
        BY DEF OneSessionAtATime
      <2> DEFINE w == Clock(since)
                 C == containing(schedule, since)
      <2>1. w \in Int /\ \A o \in C :
               /\ o \in occurrences_around(schedule, local_date(schedule, since))
               /\ o.open <= w /\ w < o.close
        BY ContainsReading
      <2> HIDE DEF w, C
      <2>2. ASSUME NEW o \in C, NEW p \in C
            PROVE  o = p
        <3>1. IsOccurrence(schedule, o) /\ IsOccurrence(schedule, p)
          BY <2>1, AroundOccurs DEF IsOccurrence
        <3> QED
          BY <2>1, <3>1, OneAtAReading DEF SInv
      <2>3. CASE C = {}
        BY <2>3, FS_EmptySet DEF C
      <2>4. CASE C # {}
        <3>1. PICK o \in C : TRUE
          BY <2>4
        <3>2. C = {o}
          BY <2>2, <3>1
        <3>3. Cardinality(C) = 1
          BY <3>2, FS_Singleton
        <3> QED
          BY <3>3 DEF C
      <2> QED
        BY <2>3, <2>4
    <1> QED
      BY <1>1, ReadBack, ScheduleInUse, PTL

\* Rest and quotient are unique.
LEMMA RestIs ==
    ASSUME NEW x \in Int, NEW d \in Nat \ {0}, NEW k \in Int, NEW r \in 0..(d - 1),
           x = k * d + r
    PROVE  x % d = r /\ x \div d = k
    <1> DEFINE q == x \div d
               z == x % d
    <1>1. q \in Int /\ z \in 0..(d - 1) /\ x = q * d + z
      BY Division
    <1> HIDE DEF q, z
    <1>2. /\ q * d \in Int /\ k * d \in Int
          /\ q < k => q * d + d <= k * d
          /\ k < q => k * d + d <= q * d
      BY <1>1, ProductOrder
    <1>3. q = k
      BY <1>1, <1>2
    <1>4. z = r
      BY <1>1, <1>2, <1>3
    <1> QED
      BY <1>3, <1>4 DEF q, z

\* A session that is declared for a reading of the clock opened within the days
\* looked at: it lasts no more than a week.
LEMMA DeclaredIsFound ==
    ASSUME SInv, Clock(since) \in Int, NEW i \in DOMAIN schedule.sessions,
           (Clock(since) - week_offset(schedule.sessions[i])) % Week
               < span(schedule.sessions[i])
    PROVE  \E o \in occurrences_around(schedule, local_date(schedule, since)) :
              o.open <= Clock(since) /\ Clock(since) < o.close
    <1> DEFINE s == schedule.sessions[i]
               w == Clock(since)
               today == w \div DayLength
               a == week_offset(s)
               k == (w - a) \div Week
               r == (w - a) % Week
               day == 7 * k + s.open_day
               o == Occurrence(s, day)
    <1>1. IsWeekly(s)
      BY DEF SInv, ScheduleFits
    <1>2. /\ Week \in Nat \ {0} /\ Week = 7 * DayLength /\ DayLength \in Nat \ {0}
          /\ a \in Int /\ span(s) \in 1..Week
          /\ s.open_time \in 0..(DayLength - 1) /\ s.open_day \in 0..6
      BY <1>1, SessionShape, WeekLength
    <1>3. w \in Int /\ r < span(s)
      OBVIOUS
    <1> HIDE DEF s, w, a
    <1>4. k \in Int /\ r \in 0..(Week - 1) /\ w - a = k * Week + r
      <2>1. w - a \in Int
        BY <1>2, <1>3
      <2> QED
        BY <1>2, <2>1, Division
    <1> HIDE DEF k, r
    <1>5. day \in Int /\ weekday(day) = s.open_day /\ day \div 7 = k
      <2>1. day \in Int /\ day = k * 7 + s.open_day
        BY <1>2, <1>4
      <2> HIDE DEF day
      <2>2. day % 7 = s.open_day /\ day \div 7 = k
        <3>1. 7 \in Nat \ {0} /\ s.open_day \in 0..(7 - 1)
          BY <1>2
        <3> QED
          BY <1>4, <2>1, <3>1, RestIs
      <2> QED
        BY <2>1, <2>2 DEF weekday, DAYS_IN_WEEK
    <1> HIDE DEF day
    <1>6. /\ o.open = a + k * Week /\ o.close = o.open + span(s) /\ o.open \in Int
      BY <1>1, <1>5, OccurrenceInWeeks DEF a
    <1>7. o.open = day * DayLength + s.open_time
      BY DEF Occurrence, combine
    <1> HIDE DEF o
    <1>8. w = o.open + r
      <2>1. k * Week \in Int
        BY <1>2, <1>4
      <2> QED
        BY <1>2, <1>3, <1>4, <1>6, <2>1
    <1>9. o.open <= w /\ w < o.close /\ w < o.open + Week
      BY <1>2, <1>3, <1>4, <1>6, <1>8
    <1>10. day <= today
      <2>1. day * DayLength \in Int
        BY <1>2, <1>5
      <2>2. day * DayLength <= w
        BY <1>2, <1>3, <1>6, <1>7, <1>9, <2>1
      <2> QED
        BY <1>2, <1>3, <1>5, <2>2, Quotient
    <1>11. today < day + 8
      <2>1. today \in Int /\ today * DayLength <= w
        <3>1. today \in Int
          BY <1>2, <1>3, Division
        <3> HIDE DEF today
        <3>2. today <= w \div DayLength
          BY <3>1 DEF today
        <3> QED
          BY <1>2, <1>3, <3>1, <3>2, Quotient
      <2> HIDE DEF today
      <2>2. /\ day * DayLength \in Int /\ today * DayLength \in Int
            /\ (day + 8) * DayLength = day * DayLength + 8 * DayLength
            /\ day + 8 \in Int
        BY <1>2, <1>5, <2>1
      <2>3. day + 8 <= today => (day + 8) * DayLength <= today * DayLength
        BY <1>2, <2>1, <2>2, ProductOrder
      <2> QED
        BY <1>2, <1>3, <1>6, <1>7, <1>9, <2>1, <2>2, <2>3
    <1>12. o \in occurrences_around(schedule, today)
      <2>1. today \in Int
        BY <1>2, <1>3, Division
      <2> HIDE DEF today
      <2>2. day \in (today - 8)..(today - 8 + 16 - 1)
        BY <1>5, <1>10, <1>11, <2>1
      <2>3. o \in expand(schedule, today - 8, 16)
        BY <1>5, <2>2, Occurs DEF o, s
      <2> QED
        BY <2>3 DEF occurrences_around, DAYS_IN_WEEK
    <1>13. local_date(schedule, since) = today
      BY DEF local_date, date, Clock, w
    <1> QED
      BY <1>9, <1>12, <1>13 DEF w

\* And a session found round a reading is declared for it.
LEMMA FoundIsDeclared ==
    ASSUME SInv, Clock(since) \in Int, NEW today,
           NEW o \in occurrences_around(schedule, today),
           o.open <= Clock(since), Clock(since) < o.close
    PROVE  Declared(since)
    <1> DEFINE w == Clock(since)
    <1>1. PICK i \in DOMAIN schedule.sessions : \E day \in Int :
             /\ IsWeekly(schedule.sessions[i])
             /\ weekday(day) = schedule.sessions[i].open_day
             /\ o = Occurrence(schedule.sessions[i], day)
      BY AroundOccurs
    <1> DEFINE s == schedule.sessions[i]
               a == week_offset(s)
    <1>2. PICK day \in Int : /\ IsWeekly(s) /\ weekday(day) = s.open_day
                             /\ o = Occurrence(s, day)
      BY <1>1
    <1> DEFINE k == day \div 7
    <1>3. k \in Int /\ o.open = a + k * Week /\ o.close = o.open + span(s) /\ o.open \in Int
      BY <1>2, OccurrenceInWeeks
    <1>4. a \in Int /\ span(s) \in 1..Week /\ Week \in Nat \ {0} /\ w \in Int
      BY <1>2, SessionShape, WeekLength
    <1> HIDE DEF k, a, s, w
    <1>5. k * Week \in Int /\ w - o.open \in 0..(Week - 1) /\ w - o.open < span(s)
      BY <1>3, <1>4 DEF w
    <1>6. w - a = k * Week + (w - o.open) /\ w - a \in Int
      BY <1>3, <1>4, <1>5
    <1>7. (w - a) % Week = w - o.open
      BY <1>3, <1>4, <1>5, <1>6, RestIs
    <1> QED
      BY <1>5, <1>7 DEF Declared, s, a, w

\* IsOpenAsDeclared: the venue trades just when one of its declared weekly sessions
\* runs by its own clock, or it always does, and it is no holiday.
THEOREM OpenAsDeclared == Spec => []IsOpenAsDeclared
    <1>1. SInv => IsOpenAsDeclared
      <2> SUFFICES ASSUME SInv, Undisturbed(since)
                   PROVE  is_open(schedule, since) <=>
                             /\ Clock(since) \div DayLength \notin schedule.holidays
                             /\ schedule.always_open \/ Declared(since)
        BY DEF IsOpenAsDeclared
      <2>1. Clock(since) \in Int
            /\ \A o : o \in containing(schedule, since) <=>
                  /\ o \in occurrences_around(schedule, local_date(schedule, since))
                  /\ o.open <= Clock(since) /\ Clock(since) < o.close
        BY ContainsReading
      <2>2. containing(schedule, since) # {} => Declared(since)
        BY <2>1, FoundIsDeclared
      <2>3. Declared(since) => containing(schedule, since) # {}
        <3> SUFFICES ASSUME Declared(since) PROVE containing(schedule, since) # {}
          OBVIOUS
        <3>1. PICK i \in DOMAIN schedule.sessions :
                 (Clock(since) - week_offset(schedule.sessions[i])) % Week
                     < span(schedule.sessions[i])
          BY DEF Declared
        <3> QED
          BY <2>1, <3>1, DeclaredIsFound
      <2>4. local_date(schedule, since) = Clock(since) \div DayLength
        BY DEF local_date, date, Clock
      <2> QED
        BY <2>2, <2>3, <2>4 DEF is_open
    <1> QED
      BY <1>1, ReadBack, ScheduleInUse, PTL

-----------------------------------------------------------------------------
\* The clock, where it changes.

\* The clock comes to a reading; it is not one that a change skips.
Shown(zone, x) == wall(zone, instant(zone, x)) = x

\* A change skips or repeats readings of one day, and leaves the day some others.
WithinADay(zone) ==
    /\ \A x, y \in Disturbed(zone) : date(x) = date(y)
    /\ zone.shift < DayLength

\* And no session begins or ends at a reading that is skipped.
Quiet(hours) ==
    /\ WithinADay(hours.zone)
    /\ \A i \in DOMAIN hours.sessions : \A day \in Int :
          weekday(day) = hours.sessions[i].open_day =>
             /\ Shown(hours.zone, Occurrence(hours.sessions[i], day).open)
             /\ Shown(hours.zone, Occurrence(hours.sessions[i], day).close)

\* A set of numbers that some number bounds from below has a least one.
LEMMA LeastOf ==
    ASSUME NEW S \in SUBSET Int, S # {}, NEW b \in Int, \A x \in S : b <= x
    PROVE  Min(S) \in S /\ \A x \in S : Min(S) <= x
    <1> DEFINE T == {n \in Nat : b + n \in S}
    <1>1. T # {}
      <2>1. PICK x \in S : TRUE
        OBVIOUS
      <2>2. x \in Int /\ b <= x /\ x - b \in Nat /\ b + (x - b) = x
        OBVIOUS
      <2> QED
        BY <2>2
    <1>2. PICK n \in T : \A m \in T : ~(<<m, n>> \in OpToRel(<, Nat))
      BY <1>1, WFMin, NatLessThanWellFounded
    <1>3. \A m \in T : ~(m < n)
      BY <1>2 DEF OpToRel
    <1>4. \A x \in S : b + n <= x
      <2> SUFFICES ASSUME NEW x \in S PROVE b + n <= x
        OBVIOUS
      <2>1. x \in Int /\ x - b \in Nat /\ b + (x - b) = x
        OBVIOUS
      <2>2. x - b \in T
        BY <2>1
      <2>3. ~(x - b < n)
        BY <1>3, <2>2
      <2> QED
        BY <2>1, <2>3
    <1>5. b + n \in S
      OBVIOUS
    <1>6. \E x \in S : \A y \in S : x <= y
      BY <1>4, <1>5
    <1> QED
      BY <1>6 DEF Min

\* What a reading denotes, and when the clock shows it.
LEMMA Reading ==
    ASSUME NEW zone, IsZone(zone)
    PROVE  LET c == zone.change
               s == zone.shift
           IN  /\ \A t \in Int : wall(zone, t) = IF t < c THEN t ELSE t + s
               /\ \A x \in Int :
                     /\ instant(zone, x) = IF x < c \/ (s > 0 /\ x < c + s) THEN x ELSE x - s
                     /\ Shown(zone, x) <=> x < c \/ x >= c + s \/ s <= 0
               /\ \A x \in Int : x \in Disturbed(zone) <=>
                     (c <= x /\ x < c + s) \/ (c + s <= x /\ x < c)
    <1> DEFINE c == zone.change
               s == zone.shift
    <1>1. c \in Int /\ s \in Int
      BY DEF IsZone
    <1>2. /\ s >= 0 => Min({c, c + s}) = c /\ Max({c, c + s}) = c + s /\ Max({0, s}) = s
          /\ s < 0 => Min({c, c + s}) = c + s /\ Max({c, c + s}) = c /\ Max({0, s}) = 0
      BY <1>1 DEF Min, Max
    <1>3. \A t \in Int : wall(zone, t) = IF t < c THEN t ELSE t + s
      BY DEF wall
    <1>4. ASSUME NEW x \in Int
          PROVE  instant(zone, x) = IF x < c \/ (s > 0 /\ x < c + s) THEN x ELSE x - s
      BY <1>1, <1>2 DEF instant
    <1>5. ASSUME NEW x \in Int
          PROVE  x \in Disturbed(zone) <=> (c <= x /\ x < c + s) \/ (c + s <= x /\ x < c)
      BY <1>1, <1>2 DEF Disturbed
    <1> HIDE DEF c, s
    <1>6. ASSUME NEW x \in Int
          PROVE  Shown(zone, x) <=> x < c \/ x >= c + s \/ s <= 0
      <2>1. instant(zone, x) \in Int
        BY <1>1, <1>4
      <2>2. Shown(zone, x) <=> (IF instant(zone, x) < c THEN instant(zone, x)
                                                      ELSE instant(zone, x) + s) = x
        BY <1>3, <2>1 DEF Shown
      <2> QED
        BY <1>1, <1>4, <2>2
    <1> QED
      BY <1>3, <1>4, <1>5, <1>6 DEF c, s

\* Readings that the clock shows come in their order.
LEMMA ShownInOrder ==
    ASSUME NEW zone, IsZone(zone), NEW x \in Int, NEW y \in Int,
           Shown(zone, x), Shown(zone, y)
    PROVE  /\ instant(zone, x) \in Int /\ instant(zone, y) \in Int
           /\ x < y <=> instant(zone, x) < instant(zone, y)
    <1> DEFINE c == zone.change
               s == zone.shift
    <1>1. c \in Int /\ s \in Int
      BY DEF IsZone
    <1>2. /\ instant(zone, x) = IF x < c \/ (s > 0 /\ x < c + s) THEN x ELSE x - s
          /\ instant(zone, y) = IF y < c \/ (s > 0 /\ y < c + s) THEN y ELSE y - s
          /\ x < c \/ x >= c + s \/ s <= 0
          /\ y < c \/ y >= c + s \/ s <= 0
      BY Reading
    <1> HIDE DEF c, s
    <1> QED
      BY <1>1, <1>2

\* The days that readings are of.
LEMMA DateOf ==
    ASSUME NEW x \in Int, NEW day \in Int
    PROVE  /\ date(x) \in Int /\ midnight(day) \in Int
           /\ day <= date(x) <=> midnight(day) <= x
           /\ date(x) <= day <=> x < midnight(day + 1)
           /\ midnight(day + 1) = midnight(day) + DayLength
           /\ date(midnight(day)) = day
    <1>1. DayLength \in Nat \ {0}
      BY DayAssumption
    <1>2. day * DayLength \in Int /\ (day + 1) * DayLength \in Int
          /\ (day + 1) * DayLength = day * DayLength + DayLength
      BY <1>1
    <1>3. midnight(day) = day * DayLength /\ midnight(day + 1) = (day + 1) * DayLength
      BY <1>2 DEF midnight, combine
    <1>4. date(x) \in Int
      BY <1>1, Division DEF date
    <1>5. /\ day <= date(x) <=> day * DayLength <= x
          /\ day + 1 <= date(x) <=> (day + 1) * DayLength <= x
      BY <1>1, Quotient DEF date
    <1>6. date(midnight(day)) = day
      <2>1. day * DayLength = day * DayLength + 0 /\ 0 \in 0..(DayLength - 1)
        BY <1>1, <1>2
      <2>2. (day * DayLength) \div DayLength = day
        BY <1>1, <1>2, <2>1, RestIs
      <2> QED
        BY <1>3, <2>2 DEF date
    <1> QED
      BY <1>2, <1>3, <1>4, <1>5, <1>6

\* Every day begins at its midnight, when the change stays within a day.
LEMMA DayBegins ==
    ASSUME NEW hours, IsZone(hours.zone), WithinADay(hours.zone), NEW t \in Int, NEW day \in Int
    PROVE  /\ local_date(hours, t) \in Int
           /\ instant(hours.zone, midnight(day)) \in Int
           /\ instant(hours.zone, midnight(day)) <= t <=> day <= local_date(hours, t)
    <1> DEFINE zone == hours.zone
               c == zone.change
               s == zone.shift
               m == midnight(day)
               w == wall(zone, t)
    <1>1. c \in Int /\ s \in Int /\ m \in Int /\ w \in Int
      <2>1. c \in Int /\ s \in Int /\ m \in Int
        BY DateOf DEF IsZone
      <2>2. w = IF t < c THEN t ELSE t + s
        BY Reading
      <2> QED
        BY <2>1, <2>2
    <1>2. w = IF t < c THEN t ELSE t + s
      BY Reading
    <1>3. instant(zone, m) = IF m < c \/ (s > 0 /\ m < c + s) THEN m ELSE m - s
      BY <1>1, Reading
    <1>4. local_date(hours, t) = date(w)
      BY DEF local_date
    <1> HIDE DEF w
    <1>5. date(w) \in Int /\ (day <= date(w) <=> m <= w)
      BY <1>1, DateOf
    \* Disturbed readings on both sides of m are of different days.
    <1>6. ASSUME NEW x \in Int, NEW y \in Int, x < m, m <= y,
                 (c <= x /\ x < c + s) \/ (c + s <= x /\ x < c),
                 (c <= y /\ y < c + s) \/ (c + s <= y /\ y < c)
          PROVE  FALSE
      <2>1. x \in Disturbed(zone) /\ y \in Disturbed(zone)
        BY <1>6, Reading
      <2>2. date(x) = date(y)
        BY <2>1 DEF WithinADay
      <2>3. day <= date(y) /\ ~(day <= date(x))
        BY <1>1, <1>6, DateOf
      <2> QED
        BY <2>2, <2>3
    <1> HIDE DEF c, s, m
    <1>7. s > 0 /\ c <= m /\ m < c + s => c = m
      <2> SUFFICES ASSUME s > 0, c < m, m < c + s PROVE FALSE
        BY <1>1
      <2> QED
        BY <1>1, <1>6
    <1>8. s < 0 => ~(c + s < m /\ m < c)
      <2> SUFFICES ASSUME s < 0, c + s < m, m < c PROVE FALSE
        OBVIOUS
      <2>1. m \in Int /\ c + s \in Int
        BY <1>1
      <2> QED
        BY <1>1, <1>6, <2>1
    <1>9. instant(zone, m) \in Int /\ (instant(zone, m) <= t <=> m <= w)
      BY <1>1, <1>2, <1>3, <1>7, <1>8
    <1> QED
      BY <1>4, <1>5, <1>9 DEF m

\* No day comes before an earlier one, and each has its midnight's instant.
LEMMA DaysInOrder ==
    ASSUME NEW hours, IsZone(hours.zone), WithinADay(hours.zone)
    PROVE  /\ \A t, u \in Int : t <= u => local_date(hours, t) <= local_date(hours, u)
           /\ \A day \in Int : local_date(hours, instant(hours.zone, midnight(day))) = day
    <1>1. ASSUME NEW t \in Int, NEW u \in Int, t <= u
          PROVE  local_date(hours, t) <= local_date(hours, u)
      <2> DEFINE d == local_date(hours, t)
                 i == instant(hours.zone, midnight(d))
      <2>1. d \in Int
        BY DayBegins, 0 \in Int
      <2> HIDE DEF d
      <2>2. i \in Int /\ (i <= t <=> d <= local_date(hours, t))
        BY <2>1, DayBegins
      <2>3. i <= u <=> d <= local_date(hours, u)
        BY <2>1, DayBegins
      <2> HIDE DEF i
      <2> QED
        BY <1>1, <2>1, <2>2, <2>3 DEF d
    <1>2. ASSUME NEW day \in Int
          PROVE  local_date(hours, instant(hours.zone, midnight(day))) = day
      <2> DEFINE zone == hours.zone
                 c == zone.change
                 s == zone.shift
                 m == midnight(day)
                 i == instant(zone, m)
      <2>1. /\ c \in Int /\ s \in Int /\ m \in Int /\ date(m) = day /\ s < DayLength
            /\ DayLength \in Nat \ {0}
        BY DateOf, DayAssumption, 0 \in Int DEF IsZone, WithinADay
      <2>2. i = IF m < c \/ (s > 0 /\ m < c + s) THEN m ELSE m - s
        BY <2>1, Reading
      <2>3. i \in Int
        BY <2>1, <2>2
      <2>4. wall(zone, i) = IF i < c THEN i ELSE i + s
        BY <2>3, Reading
      <2>5. day <= local_date(hours, i)
        BY <2>3, DayBegins
      <2>6. local_date(hours, i) = date(wall(zone, i))
        BY DEF local_date
      <2> DEFINE w == wall(zone, i)
      <2> HIDE DEF c, s, m, i
      <2>7. w \in Int /\ w < m + DayLength
        BY <2>1, <2>2, <2>3, <2>4
      <2>8. date(w) <= day
        BY <2>7, DateOf DEF m
      <2>9. date(w) \in Int
        BY <2>7, DateOf
      <2> QED
        BY <2>5, <2>6, <2>8, <2>9 DEF i, m
    <1> QED
      BY <1>1, <1>2

\* The ends of an occurrence: its first day, and its last, at most a week later.
LEMMA Ends ==
    ASSUME NEW hours, ScheduleFits(hours), Quiet(hours),
           NEW i \in DOMAIN hours.sessions, NEW day \in Int,
           weekday(day) = hours.sessions[i].open_day
    PROVE  LET o == Occurrence(hours.sessions[i], day)
           IN  /\ o.open \in Int /\ o.close \in Int /\ o.open < o.close
               /\ Shown(hours.zone, o.open) /\ Shown(hours.zone, o.close)
               /\ date(o.open) = day
               /\ date(o.close) \in Int /\ date(o.close) <= day + 7
    <1> DEFINE s == hours.sessions[i]
               o == Occurrence(s, day)
    <1>1. IsWeekly(s)
      BY DEF ScheduleFits
    <1>2. /\ o.close = o.open + span(s) /\ o.open \in Int /\ o.close \in Int
          /\ span(s) \in 1..Week /\ Week \in Nat
          /\ s.open_time \in 0..(DayLength - 1) /\ s.close_time \in 0..(DayLength - 1)
          /\ spans_days(s) \in 0..7
          /\ DayLength \in Nat \ {0}
      BY <1>1, OccurrenceInWeeks, SessionShape, WeekLength
    <1>3. o.open < o.close
      BY <1>2
    <1>4. Shown(hours.zone, o.open) /\ Shown(hours.zone, o.close)
      BY DEF Quiet
    <1>5. date(o.open) = day
      <2>1. o.open = day * DayLength + s.open_time
        BY DEF Occurrence, combine
      <2> QED
        BY <1>2, <2>1, RestIs DEF date
    <1>6. date(o.close) = day + spans_days(s)
      <2>1. o.close = (day + spans_days(s)) * DayLength + s.close_time
        BY DEF Occurrence, combine
      <2>2. day + spans_days(s) \in Int
        BY <1>2
      <2> QED
        BY <1>2, <2>1, <2>2, RestIs DEF date
    <1>7. date(o.close) \in Int /\ date(o.close) <= day + 7
      BY <1>2, <1>6
    <1> QED
      BY <1>2, <1>3, <1>4, <1>5, <1>7

\* Its ends by the clock and as instants.
LEMMA OccurrenceEnds ==
    ASSUME NEW hours, ScheduleFits(hours), Quiet(hours), NEW o, IsOccurrence(hours, o)
    PROVE  /\ o.open \in Int /\ o.close \in Int /\ o.open < o.close
           /\ Shown(hours.zone, o.open) /\ Shown(hours.zone, o.close)
           /\ date(o.open) \in Int
           /\ date(o.close) \in Int /\ date(o.close) <= date(o.open) + 7
           /\ instant(hours.zone, o.open) \in Int /\ instant(hours.zone, o.close) \in Int
           /\ instant(hours.zone, o.open) < instant(hours.zone, o.close)
           /\ local_date(hours, instant(hours.zone, o.open)) = date(o.open)
           /\ local_date(hours, instant(hours.zone, o.close)) = date(o.close)
    <1>1. PICK i \in DOMAIN hours.sessions : \E day \in Int :
             weekday(day) = hours.sessions[i].open_day /\ o = Occurrence(hours.sessions[i], day)
      BY DEF IsOccurrence
    <1>2. PICK day \in Int :
             weekday(day) = hours.sessions[i].open_day /\ o = Occurrence(hours.sessions[i], day)
      BY <1>1
    <1>3. /\ o.open \in Int /\ o.close \in Int /\ o.open < o.close
          /\ Shown(hours.zone, o.open) /\ Shown(hours.zone, o.close)
          /\ date(o.open) = day
          /\ date(o.close) \in Int /\ date(o.close) <= day + 7
      BY <1>2, Ends
    <1>4. IsZone(hours.zone)
      BY DEF ScheduleFits
    <1>5. /\ instant(hours.zone, o.open) \in Int /\ instant(hours.zone, o.close) \in Int
          /\ instant(hours.zone, o.open) < instant(hours.zone, o.close)
      BY <1>3, <1>4, ShownInOrder
    <1>6. /\ local_date(hours, instant(hours.zone, o.open)) = date(o.open)
          /\ local_date(hours, instant(hours.zone, o.close)) = date(o.close)
      BY <1>3 DEF local_date, Shown
    <1> QED
      BY <1>3, <1>5, <1>6

\* An occurrence that runs at an instant is among those looked at.
LEMMA RunsIsFound ==
    ASSUME NEW hours, ScheduleFits(hours), Quiet(hours), NEW o, IsOccurrence(hours, o),
           NEW t \in Int,
           instant(hours.zone, o.open) <= t, t < instant(hours.zone, o.close)
    PROVE  /\ o \in containing(hours, t)
           /\ date(o.open) <= local_date(hours, t)
           /\ date(o.close) <= local_date(hours, t) + 7
    <1> DEFINE today == local_date(hours, t)
    <1>1. PICK i \in DOMAIN hours.sessions : \E day \in Int :
             weekday(day) = hours.sessions[i].open_day /\ o = Occurrence(hours.sessions[i], day)
      BY DEF IsOccurrence
    <1>2. PICK day \in Int :
             weekday(day) = hours.sessions[i].open_day /\ o = Occurrence(hours.sessions[i], day)
      BY <1>1
    <1>3. /\ date(o.open) = day /\ date(o.close) \in Int /\ date(o.close) <= day + 7
          /\ instant(hours.zone, o.open) \in Int /\ instant(hours.zone, o.close) \in Int
          /\ local_date(hours, instant(hours.zone, o.open)) = date(o.open)
          /\ local_date(hours, instant(hours.zone, o.close)) = date(o.close)
      BY <1>2, Ends, OccurrenceEnds
    <1>4. IsZone(hours.zone) /\ WithinADay(hours.zone)
      BY DEF ScheduleFits, Quiet
    <1>5. today \in Int
      BY <1>4, DayBegins, 0 \in Int
    <1>6. day <= today
      BY <1>3, <1>4, DaysInOrder
    <1>7. today <= day + 7
      <2>1. t <= instant(hours.zone, o.close)
        BY <1>3
      <2>2. today <= date(o.close)
        BY <1>3, <1>4, <2>1, DaysInOrder
      <2> HIDE DEF today
      <2> QED
        BY <1>3, <1>5, <2>2
    <1> HIDE DEF today
    <1>8. o \in occurrences_around(hours, today)
      <2>1. day \in (today - 8)..(today - 8 + 16 - 1)
        BY <1>5, <1>6, <1>7
      <2>2. o \in expand(hours, today - 8, 16)
        BY <1>2, <2>1, Occurs
      <2> QED
        BY <2>2 DEF occurrences_around, DAYS_IN_WEEK
    <1>9. date(o.close) <= today + 7
      BY <1>3, <1>5, <1>6
    <1> QED
      BY <1>3, <1>6, <1>8, <1>9 DEF containing, today

\* And one that is found runs.
LEMMA FoundRuns ==
    ASSUME NEW hours, ScheduleFits(hours), Quiet(hours), NEW t \in Int,
           NEW o \in containing(hours, t)
    PROVE  /\ IsOccurrence(hours, o)
           /\ instant(hours.zone, o.open) <= t /\ t < instant(hours.zone, o.close)
    <1>1. local_date(hours, t) \in Int
      BY DayBegins, 0 \in Int DEF ScheduleFits, Quiet
    <1>2. local_date(hours, t) - (DAYS_IN_WEEK + 1) \in Int /\ DAYS_IN_WEEK * 2 + 2 \in Int
      BY <1>1 DEF DAYS_IN_WEEK
    <1> QED
      BY <1>2, Expanded DEF containing, occurrences_around


-----------------------------------------------------------------------------
\* next_open.

\* A day that is looked at ahead lies in the next weeks.
LEMMA Ahead ==
    ASSUME NEW hours, IsZone(hours.zone), WithinADay(hours.zone), NEW t \in Int
    PROVE  \A day : day \in lookahead(hours, t) <=>
              day \in Int /\ local_date(hours, t) <= day /\ day <= local_date(hours, t) + 20
    <1>1. local_date(hours, t) \in Int
      BY DayBegins, 0 \in Int
    <1> QED
      BY <1>1 DEF lookahead, LOOKAHEAD_DAYS

\* When next_open looks for a day.
LEMMA OpensOnADay ==
    ASSUME NEW hours, ScheduleFits(hours), Quiet(hours), NEW t \in Int,
           hours.always_open, ~is_open(hours, t),
           first_non_holiday_start(hours, t) # NoInstant
    PROVE  LET opens == first_non_holiday_start(hours, t)
           IN  opens >= t /\ is_open(hours, opens)
    <1> DEFINE days == lookahead(hours, t) \ hours.holidays
               S == {midnight(day) : day \in days}
               today == local_date(hours, t)
               opens == first_non_holiday_start(hours, t)
    <1>1. /\ IsZone(hours.zone) /\ WithinADay(hours.zone)
      BY DEF ScheduleFits, Quiet
    <1>2. today \in Int
      BY <1>1, DayBegins, 0 \in Int
    <1>3. days # {} /\ opens = Max({FirstOf(hours, S), t})
      BY DEF first_non_holiday_start
    <1>4. \A day \in days : day \in Int /\ today <= day
      BY <1>1, Ahead
    <1> HIDE DEF opens, days
    <1>5. S \in SUBSET Int /\ S # {} /\ \A x \in S : midnight(today) <= x
      <2>1. ASSUME NEW day \in days
            PROVE  midnight(day) \in Int /\ midnight(today) <= midnight(day)
        <3>1. day \in Int /\ today <= day
          BY <1>4
        <3>2. midnight(day) \in Int /\ date(midnight(day)) = day
          BY <3>1, DateOf
        <3>3. today <= date(midnight(day)) <=> midnight(today) <= midnight(day)
          BY <1>2, <3>2, DateOf
        <3> QED
          BY <3>1, <3>2, <3>3
      <2> HIDE DEF today
      <2> QED
        BY <1>3, <2>1
    <1> HIDE DEF today
    <1>6. midnight(today) \in Int
      BY <1>2, DateOf
    <1>7. Min(S) \in S
      BY <1>5, <1>6, LeastOf
    <1>8. PICK day \in days : Min(S) = midnight(day)
      BY <1>7
    <1> DEFINE i == instant(hours.zone, midnight(day))
    <1>9. FirstOf(hours, S) = i
      BY <1>5, <1>8 DEF FirstOf
    <1>10. /\ day \in Int /\ today <= day /\ day \notin hours.holidays
           /\ today \notin days
      <2>1. day \in Int /\ today <= day
        BY <1>4
      <2>2. day \notin hours.holidays
        BY DEF days
      <2>3. today \in hours.holidays
        BY DEF is_open, today
      <2> QED
        BY <2>1, <2>2, <2>3 DEF days
    <1>11. i \in Int /\ ~(i <= t)
      <2>1. ~(day <= today)
        BY <1>2, <1>10
      <2> QED
        BY <1>1, <1>10, <2>1, DayBegins DEF today
    <1>12. local_date(hours, i) = day
      BY <1>1, <1>10, DaysInOrder
    <1> HIDE DEF i
    <1>13. Max({i, t}) = i
      BY <1>11 DEF Max
    <1>14. opens = i
      BY <1>3, <1>9, <1>13
    <1> QED
      BY <1>10, <1>11, <1>12, <1>14 DEF is_open, opens

\* When next_open looks for a session.
LEMMA OpensASession ==
    ASSUME NEW hours, ScheduleFits(hours), Quiet(hours), NEW t \in Int,
           ~hours.always_open, ~is_open(hours, t),
           next_open(hours, t) # NoInstant
    PROVE  next_open(hours, t) >= t /\ is_open(hours, next_open(hours, t))
    <1> DEFINE today == local_date(hours, t)
               P == {p \in occurrences_forward(hours, today) :
                       /\ instant(hours.zone, p.open) >= t
                       /\ date(p.open) \notin hours.holidays}
               S == {o.open : o \in P}
    <1>1. /\ IsZone(hours.zone) /\ WithinADay(hours.zone)
      BY DEF ScheduleFits, Quiet
    <1>2. today \in Int
      BY <1>1, DayBegins, 0 \in Int
    <1>3. next_open(hours, t) = FirstOf(hours, S)
      BY DEF next_open
    <1>4. \A o \in P : IsOccurrence(hours, o) /\ today - 1 <= date(o.open)
      <2> SUFFICES ASSUME NEW o \in P
                   PROVE  IsOccurrence(hours, o) /\ today - 1 <= date(o.open)
        OBVIOUS
      <2>1. PICK i \in DOMAIN hours.sessions :
               \E day \in (today - 1)..(today - 1 + LOOKAHEAD_DAYS - 1) :
                  /\ weekday(day) = hours.sessions[i].open_day
                  /\ o = Occurrence(hours.sessions[i], day)
        BY Occurs DEF occurrences_forward
      <2>2. PICK day \in (today - 1)..(today - 1 + LOOKAHEAD_DAYS - 1) :
                  /\ weekday(day) = hours.sessions[i].open_day
                  /\ o = Occurrence(hours.sessions[i], day)
        BY <2>1
      <2>3. day \in Int /\ today - 1 <= day
        BY <1>2 DEF LOOKAHEAD_DAYS
      <2>4. date(o.open) = day
        BY <2>2, <2>3, Ends
      <2> QED
        BY <2>2, <2>3, <2>4 DEF IsOccurrence
    <1>5. S # {}
      BY <1>3 DEF FirstOf
    <1>6. S \in SUBSET Int /\ \A x \in S : midnight(today - 1) <= x
      <2>1. ASSUME NEW o \in P
            PROVE  o.open \in Int /\ midnight(today - 1) <= o.open
        <3>1. o.open \in Int /\ today - 1 <= date(o.open) /\ today - 1 \in Int
          BY <1>2, <1>4, OccurrenceEnds
        <3> QED
          BY <3>1, DateOf
      <2> HIDE DEF P
      <2> QED
        BY <2>1
    <1>7. Min(S) \in S
      <2>1. midnight(today - 1) \in Int
        BY <1>2, DateOf
      <2> HIDE DEF S
      <2> QED
        BY <1>5, <1>6, <2>1, LeastOf
    <1>8. PICK o \in P : Min(S) = o.open
      BY <1>7
    <1> DEFINE opens == instant(hours.zone, o.open)
    <1>9. next_open(hours, t) = opens
      <2> HIDE DEF S
      <2> QED
        BY <1>3, <1>5, <1>8 DEF FirstOf
    <1>10. opens >= t /\ date(o.open) \notin hours.holidays /\ IsOccurrence(hours, o)
      BY <1>4
    <1>11. /\ opens \in Int /\ opens < instant(hours.zone, o.close)
           /\ local_date(hours, opens) = date(o.open)
      BY <1>10, OccurrenceEnds
    <1>12. o \in containing(hours, opens)
      BY <1>10, <1>11, RunsIsFound
    <1> QED
      BY <1>9, <1>10, <1>11, <1>12 DEF is_open

\* NextOpenIsOpen: the day, or the session, that next_open finds is no holiday, also
\* by the clock at the instant that it gives, and has begun just then.
THEOREM OpensWhenItSays == Spec => [](Quiet(schedule) => NextOpenIsOpen)
    <1>1. AsStored => (Quiet(schedule) => NextOpenIsOpen)
      <2> SUFFICES ASSUME AsStored, Quiet(schedule), next_open(schedule, since) # NoInstant
                   PROVE  /\ next_open(schedule, since) >= since
                          /\ is_open(schedule, next_open(schedule, since))
        BY DEF NextOpenIsOpen
      <2>1. ScheduleFits(schedule) /\ Quiet(schedule) /\ since \in Int
        BY ScheduleInUse DEF SInv
      <2>2. CASE is_open(schedule, since)
        <3>1. next_open(schedule, since) = since
          BY <2>2 DEF next_open
        <3> QED
          BY <2>1, <2>2, <3>1
      <2>3. CASE ~is_open(schedule, since) /\ schedule.always_open
        <3>1. next_open(schedule, since) = first_non_holiday_start(schedule, since)
          BY <2>3 DEF next_open
        <3> QED
          BY <2>1, <2>3, <3>1, OpensOnADay
      <2>4. CASE ~is_open(schedule, since) /\ ~schedule.always_open
        BY <2>1, <2>4, OpensASession
      <2> QED
        BY <2>2, <2>3, <2>4
    <1> QED
      BY <1>1, ReadBack, PTL

-----------------------------------------------------------------------------
\* next_close.

\* At most one occurrence runs at an instant.
LEMMA OneRuns ==
    ASSUME NEW hours, ScheduleFits(hours), Quiet(hours), NEW t \in Int,
           NEW o \in containing(hours, t), NEW p \in containing(hours, t)
    PROVE  o = p
    <1> DEFINE at(x) == instant(hours.zone, x)
    <1>1. /\ IsOccurrence(hours, o) /\ at(o.open) <= t /\ t < at(o.close)
          /\ IsOccurrence(hours, p) /\ at(p.open) <= t /\ t < at(p.close)
      BY FoundRuns
    <1>2. /\ o.open \in Int /\ o.close \in Int /\ o.open < o.close
          /\ at(o.open) \in Int /\ at(o.close) \in Int
          /\ Shown(hours.zone, o.open) /\ Shown(hours.zone, o.close)
          /\ p.open \in Int /\ p.close \in Int /\ p.open < p.close
          /\ at(p.open) \in Int /\ at(p.close) \in Int
          /\ Shown(hours.zone, p.open) /\ Shown(hours.zone, p.close)
      BY <1>1, OccurrenceEnds
    <1>3. o.open < p.close /\ p.open < o.close
      <2>1. at(o.open) < at(p.close) /\ at(p.open) < at(o.close)
        BY <1>1, <1>2
      <2>2. IsZone(hours.zone)
        BY DEF ScheduleFits
      <2> HIDE DEF at
      <2>3. o.open < p.close <=> at(o.open) < at(p.close)
        BY <1>2, <2>2, ShownInOrder DEF at
      <2>4. p.open < o.close <=> at(p.open) < at(o.close)
        BY <1>2, <2>2, ShownInOrder DEF at
      <2> QED
        BY <2>1, <2>3, <2>4
    <1>4. CASE o.open <= p.open
      BY <1>1, <1>2, <1>3, <1>4, OneAtAReading
    <1>5. CASE p.open <= o.open
      BY <1>1, <1>2, <1>3, <1>5, OneAtAReading
    <1> QED
      BY <1>2, <1>4, <1>5

\* The end of the session that runs.
LEMMA SessionEnd ==
    ASSUME NEW hours, ScheduleFits(hours), Quiet(hours), NEW t \in Int,
           NEW o \in containing(hours, t)
    PROVE  session_end(hours, t) = o.close
    <1>1. \A p \in containing(hours, t) : p = o
      BY OneRuns
    <1>2. o.open \in Int /\ o.close \in Int
      BY FoundRuns, OccurrenceEnds
    <1>3. \A p \in containing(hours, t) :
             o.open < p.open \/ (o.open = p.open /\ o.close <= p.close)
      BY <1>1, <1>2
    <1> QED
      BY <1>1, <1>3 DEF session_end

\* What next_close chooses from: when something ends at m, at the instant i.
Stops(hours, t, m) ==
    LET i == instant(hours.zone, m)
    IN  \/ \E day \in hours.holidays :
              /\ day \in lookahead(hours, t) /\ m = midnight(day) /\ i > t
        \/ \E o \in containing(hours, t) : ~hours.always_open /\ m = o.close

\* next_close answers the first stop after t, and only when the market is open at t.
LEMMA ClosesAtAStop ==
    ASSUME NEW hours, ScheduleFits(hours), Quiet(hours), NEW t \in Int,
           next_close(hours, t) # NoInstant
    PROVE  /\ is_open(hours, t)
           /\ \E m \in Int : /\ Stops(hours, t, m)
                             /\ next_close(hours, t) = instant(hours.zone, m)
                             /\ \A n \in Int : Stops(hours, t, n) => m <= n
    <1> DEFINE H == holiday_starts(hours, t)
               E == IF hours.always_open THEN {} ELSE {session_end(hours, t)}
               S == H \cup E
               today == local_date(hours, t)
    <1>1. is_open(hours, t) /\ next_close(hours, t) = FirstOf(hours, S)
      BY DEF next_close
    <1>2. IsZone(hours.zone) /\ WithinADay(hours.zone)
      BY DEF ScheduleFits, Quiet
    <1>3. today \in Int
      BY <1>2, DayBegins, 0 \in Int
    <1>4. \A m : m \in H <=> \E day \in hours.holidays :
             /\ day \in lookahead(hours, t) /\ m = midnight(day)
             /\ instant(hours.zone, m) > t
      BY DEF holiday_starts
    <1>5. \A m : m \in E <=> \E o \in containing(hours, t) : ~hours.always_open /\ m = o.close
      <2>1. CASE hours.always_open
        BY <2>1
      <2>2. CASE ~hours.always_open
        <3>1. PICK o \in containing(hours, t) : TRUE
          BY <1>1, <2>2 DEF is_open
        <3>2. E = {o.close}
          BY <2>2, <3>1, SessionEnd
        <3>3. \A p \in containing(hours, t) : p.close = o.close
          BY <3>1, OneRuns
        <3> HIDE DEF E
        <3> QED
          BY <2>2, <3>1, <3>2, <3>3
      <2> QED
        BY <2>1, <2>2
    <1> HIDE DEF H, E
    <1>6. \A m : m \in S <=> Stops(hours, t, m)
      BY <1>4, <1>5 DEF Stops
    <1> HIDE DEF S, today
    <1>7. \A m \in S : m \in Int /\ midnight(today) - 7 * DayLength <= m
      <2> SUFFICES ASSUME NEW m \in S
                   PROVE  m \in Int /\ midnight(today) - 7 * DayLength <= m
        OBVIOUS
      <2>1. midnight(today) \in Int /\ DayLength \in Nat
        BY <1>3, DateOf, DayAssumption
      <2>2. CASE \E day \in hours.holidays : day \in lookahead(hours, t) /\ m = midnight(day)
        <3>1. PICK day \in Int : m = midnight(day) /\ today <= day
          BY <1>2, <2>2, Ahead DEF today
        <3>2. m \in Int /\ date(m) = day
          BY <3>1, DateOf
        <3>3. midnight(today) <= m
          BY <1>3, <3>1, <3>2, DateOf
        <3> QED
          BY <2>1, <3>2, <3>3
      <2>3. CASE \E o \in containing(hours, t) : m = o.close
        <3>1. PICK o \in containing(hours, t) : m = o.close
          BY <2>3
        <3>2. /\ IsOccurrence(hours, o) /\ t < instant(hours.zone, o.close)
          BY FoundRuns
        <3>3. /\ m \in Int /\ instant(hours.zone, m) \in Int
              /\ local_date(hours, instant(hours.zone, m)) = date(m) /\ date(m) \in Int
          BY <3>1, <3>2, OccurrenceEnds
        <3>4. today <= date(m)
          BY <1>2, <3>1, <3>2, <3>3, DaysInOrder DEF today
        <3>5. midnight(today) <= m
          BY <1>3, <3>3, <3>4, DateOf
        <3> QED
          BY <2>1, <3>3, <3>5
      <2> QED
        BY <1>6, <2>2, <2>3 DEF Stops
    <1>8. S # {}
      BY <1>1 DEF FirstOf
    <1>9. Min(S) \in S /\ \A n \in S : Min(S) <= n
      <2>1. midnight(today) - 7 * DayLength \in Int
        BY <1>3, DateOf, DayAssumption
      <2>2. S \in SUBSET Int
        BY <1>7
      <2> QED
        BY <1>7, <1>8, <2>1, <2>2, LeastOf
    <1>10. next_close(hours, t) = instant(hours.zone, Min(S))
      BY <1>1, <1>8 DEF FirstOf
    <1> QED
      BY <1>1, <1>6, <1>7, <1>9, <1>10

\* Until the first stop the venue trades, and there it stops, or another session begins.
LEMMA TradesUntil ==
    ASSUME NEW hours, ScheduleFits(hours), Quiet(hours), NEW t \in Int, is_open(hours, t),
           NEW m \in Int, Stops(hours, t, m), \A n \in Int : Stops(hours, t, n) => m <= n
    PROVE  LET closes == instant(hours.zone, m)
           IN  /\ closes \in Int /\ closes > t
               /\ \A u \in t..(closes - 1) : is_open(hours, u)
               /\ is_open(hours, closes) =>
                     \E o \in containing(hours, closes) : instant(hours.zone, o.open) = closes
    <1> DEFINE at(x) == instant(hours.zone, x)
               closes == at(m)
               today == local_date(hours, t)
    <1>1. IsZone(hours.zone) /\ WithinADay(hours.zone) /\ today \in Int
      <2>1. IsZone(hours.zone) /\ WithinADay(hours.zone)
        BY DEF ScheduleFits, Quiet
      <2> QED
        BY <2>1, DayBegins, 0 \in Int
    \* m is the midnight of a holiday, or the end of the session.
    <1> DEFINE AtHoliday == \E day \in hours.holidays :
                               day \in lookahead(hours, t) /\ m = midnight(day)
               AtEnd == \E o \in containing(hours, t) : ~hours.always_open /\ m = o.close
    <1>2. AtHoliday \/ AtEnd
      BY DEF Stops
    <1>3. closes \in Int /\ closes > t
      <2>1. CASE AtHoliday
        <3>1. closes \in Int
          BY <1>1, <2>1, Ahead, DayBegins, 0 \in Int
        <3>2. CASE AtEnd
          BY <3>1, <3>2, FoundRuns
        <3>3. CASE ~AtEnd
          BY <3>1, <3>3 DEF Stops
        <3> QED
          BY <3>1, <3>2, <3>3
      <2>2. CASE AtEnd
        BY <2>2, FoundRuns, OccurrenceEnds
      <2> QED
        BY <1>2, <2>1, <2>2
    <1> HIDE DEF closes
    <1>4. ASSUME NEW u \in t..(closes - 1), local_date(hours, u) \in hours.holidays
          PROVE  FALSE
      <2> DEFINE d == local_date(hours, u)
                 n == midnight(d)
      <2>1. u \in Int /\ t <= u /\ u < closes
        BY <1>3
      <2>2. d \in Int /\ today <= d /\ d # today
        <3>1. d \in Int /\ today <= d
          BY <1>1, <2>1, DaysInOrder, DayBegins, 0 \in Int
        <3>2. today \notin hours.holidays
          BY DEF is_open
        <3> QED
          BY <1>4, <3>1, <3>2
      <2>3. n \in Int /\ at(n) \in Int /\ at(n) <= u /\ date(n) = d
        BY <1>1, <2>1, <2>2, DayBegins, DateOf
      <2>4. at(n) > t
        <3>1. at(n) <= t <=> d <= today
          BY <1>1, <2>2, DayBegins
        <3> HIDE DEF d, n, at, today
        <3> QED
          BY <1>1, <2>2, <2>3, <3>1
      <2>5. d <= today + 20 => m <= n
        <3>1. d <= today + 20 => d \in lookahead(hours, t)
          BY <1>1, <2>2, Ahead
        <3> QED
          BY <1>4, <2>3, <2>4, <3>1 DEF Stops
      <2>6. CASE AtHoliday
        <3>1. PICK day \in hours.holidays : day \in lookahead(hours, t) /\ m = midnight(day)
          BY <2>6
        <3>2. day \in Int /\ day <= today + 20
          BY <1>1, <3>1, Ahead
        <3>3. ~(day <= d)
          <4>1. at(midnight(day)) <= u <=> day <= d
            BY <1>1, <2>1, <3>2, DayBegins
          <4> QED
            BY <1>3, <2>1, <3>1, <4>1 DEF closes
        <3>4. d <= date(m) /\ date(m) = day /\ d <= today + 20
          <4>1. date(m) = day
            BY <3>1, <3>2, DateOf
          <4> HIDE DEF d, today
          <4> QED
            BY <1>1, <2>2, <3>2, <3>3, <4>1
        <3>5. m <= n
          BY <2>5, <3>4
        <3>6. day <= date(n)
          <4>1. midnight(day) <= n
            BY <3>1, <3>5
          <4> HIDE DEF n
          <4> QED
            BY <2>3, <3>2, <4>1, DateOf
        <3> QED
          BY <2>3, <3>3, <3>6
      <2>7. CASE AtEnd
        <3>1. PICK o \in containing(hours, t) : m = o.close
          BY <2>7
        <3>2. /\ IsOccurrence(hours, o) /\ at(o.open) <= t /\ t < at(o.close)
          BY FoundRuns
        <3>3. /\ date(m) \in Int /\ date(m) <= today + 7
              /\ local_date(hours, closes) = date(m)
          BY <3>1, <3>2, RunsIsFound, OccurrenceEnds DEF closes
        <3>4. d <= date(m)
          BY <1>1, <1>3, <2>1, <3>3, DaysInOrder
        <3>5. m <= n
          <4> HIDE DEF d, n, today
          <4> QED
            BY <1>1, <2>2, <2>5, <3>3, <3>4
        <3>6. n <= m
          BY <2>2, <3>4, DateOf
        <3>7. m = n
          <4> HIDE DEF n
          <4> QED
            BY <2>3, <3>5, <3>6
        <3> QED
          BY <1>3, <2>1, <2>3, <3>7 DEF closes
      <2> QED
        BY <1>2, <2>6, <2>7
    <1>5. ASSUME NEW u \in t..(closes - 1), ~hours.always_open
          PROVE  containing(hours, u) # {}
      <2>1. u \in Int /\ t <= u /\ u < closes
        BY <1>3
      <2>2. PICK o \in containing(hours, t) : TRUE
        BY <1>5 DEF is_open
      <2>3. IsOccurrence(hours, o) /\ at(o.open) <= t /\ t < at(o.close)
        BY FoundRuns
      <2>4. /\ at(o.open) \in Int /\ at(o.close) \in Int /\ o.close \in Int
            /\ Shown(hours.zone, o.close) /\ date(o.close) \in Int
            /\ local_date(hours, at(o.close)) = date(o.close)
        BY <2>3, OccurrenceEnds
      <2>5. m <= o.close
        BY <1>5, <2>4 DEF Stops
      <2>6. closes <= at(o.close)
        <3>1. CASE AtHoliday
          <4>1. PICK day \in Int : m = midnight(day)
            BY <1>1, <3>1, Ahead
          <4>2. day <= date(o.close)
            BY <2>4, <2>5, <4>1, DateOf
          <4>3. at(m) <= at(o.close)
            BY <1>1, <2>4, <4>1, <4>2, DayBegins
          <4> QED
            BY <4>3 DEF closes
        <3>2. CASE AtEnd
          <4>1. PICK p \in containing(hours, t) : m = p.close
            BY <3>2
          <4>2. p = o
            BY OneRuns
          <4> QED
            BY <1>3, <2>4, <4>1, <4>2 DEF closes
        <3> QED
          BY <1>2, <3>1, <3>2
      <2>7. at(o.open) <= u /\ u < at(o.close)
        <3> HIDE DEF at
        <3> QED
          BY <1>3, <2>1, <2>3, <2>4, <2>6
      <2> QED
        BY <2>1, <2>3, <2>7, RunsIsFound
    <1>6. ASSUME NEW u \in t..(closes - 1)
          PROVE  is_open(hours, u)
      BY <1>4, <1>5 DEF is_open
    <1>7. ASSUME is_open(hours, closes)
          PROVE  \E o \in containing(hours, closes) : at(o.open) = closes
      <2>1. ~AtHoliday
        <3> SUFFICES ASSUME AtHoliday PROVE FALSE
          OBVIOUS
        <3>1. PICK day \in hours.holidays : day \in lookahead(hours, t) /\ m = midnight(day)
          OBVIOUS
        <3>2. day \in Int
          BY <1>1, <3>1, Ahead
        <3>3. local_date(hours, closes) = day
          BY <1>1, <3>1, <3>2, DaysInOrder DEF closes
        <3> QED
          BY <1>7, <3>3 DEF is_open
      <2>2. PICK o \in containing(hours, t) : ~hours.always_open /\ m = o.close
        BY <1>2, <2>1
      <2>3. PICK p \in containing(hours, closes) : TRUE
        BY <1>7, <2>2 DEF is_open
      <2>4. /\ IsOccurrence(hours, o) /\ IsOccurrence(hours, p)
            /\ at(p.open) <= closes /\ closes < at(p.close)
        BY <1>3, FoundRuns
      <2>5. /\ o.open \in Int /\ o.open < m /\ Shown(hours.zone, m)
            /\ p.open \in Int /\ p.close \in Int
            /\ Shown(hours.zone, p.open) /\ Shown(hours.zone, p.close)
            /\ at(p.open) \in Int /\ at(p.close) \in Int
        BY <2>2, <2>4, OccurrenceEnds
      <2>6. /\ m < p.close <=> closes < at(p.close)
            /\ m < p.open <=> closes < at(p.open)
        BY <1>1, <2>5, ShownInOrder DEF closes
      <2>7. m < p.close /\ p.open <= m
        <3> HIDE DEF at
        <3> QED
          BY <1>3, <2>4, <2>5, <2>6
      <2>8. CASE p.open = m
        BY <2>3, <2>8 DEF closes
      <2>9. CASE p.open < m
        <3>1. m - 1 \in Int /\ o.open <= m - 1 /\ m - 1 < m /\ p.open <= m - 1 /\ m - 1 < p.close
          BY <2>5, <2>7, <2>9
        <3>2. o = p
          BY <2>2, <2>4, <3>1, OneAtAReading DEF ScheduleFits
        <3> QED
          BY <2>2, <2>7, <3>2
      <2> QED
        BY <2>5, <2>7, <2>8, <2>9
    <1> QED
      BY <1>3, <1>6, <1>7 DEF closes

\* NextCloseEndsTrading: next_close is the first of the ends of the session and of
\* the midnights of holidays; no holiday begins unseen before it, the session runs up
\* to it, and there nothing but another session can go on.
THEOREM TradesUntilItSays == Spec => [](Quiet(schedule) => NextCloseEndsTrading)
    <1>1. AsStored => (Quiet(schedule) => NextCloseEndsTrading)
      <2> SUFFICES ASSUME AsStored, Quiet(schedule), next_close(schedule, since) # NoInstant
                   PROVE  NextCloseEndsTrading
        BY DEF NextCloseEndsTrading
      <2> DEFINE closes == next_close(schedule, since)
      <2>1. ScheduleFits(schedule) /\ Quiet(schedule) /\ since \in Int
        BY ScheduleInUse DEF SInv
      <2>2. is_open(schedule, since)
        BY <2>1, ClosesAtAStop
      <2>3. PICK m \in Int : /\ Stops(schedule, since, m)
                             /\ closes = instant(schedule.zone, m)
                             /\ \A n \in Int : Stops(schedule, since, n) => m <= n
        BY <2>1, ClosesAtAStop
      <2>4. /\ closes > since /\ \A u \in since..(closes - 1) : is_open(schedule, u)
            /\ is_open(schedule, closes) =>
                  \E o \in containing(schedule, closes) :
                     instant(schedule.zone, o.open) = closes
        BY <2>1, <2>2, <2>3, TradesUntil
      <2> QED
        BY <2>4 DEF NextCloseEndsTrading
    <1> QED
      BY <1>1, ReadBack, PTL

-----------------------------------------------------------------------------
\* Sets in order.

\* What the order makes of a set: any enumeration of it in ascending order is that one.
LEMMA InOrderIs ==
    ASSUME NEW S \in SUBSET Int, NEW n \in Nat, NEW f \in [1..n -> S],
           \A i, j \in 1..n : i < j => f[i] < f[j],
           \A x \in S : \E i \in 1..n : f[i] = x
    PROVE  IsFiniteSet(S) /\ Cardinality(S) = n /\ Ascending(S) = f
    <1>1. \A i, j \in 1..n : f[i] = f[j] => i = j
      <2> SUFFICES ASSUME NEW i \in 1..n, NEW j \in 1..n, f[i] = f[j], i # j
                   PROVE  FALSE
        OBVIOUS
      <2>1. f[i] \in Int /\ f[j] \in Int
        OBVIOUS
      <2>2. i < j \/ j < i
        OBVIOUS
      <2>3. ~(f[i] < f[j]) /\ ~(f[j] < f[i])
        BY <2>1
      <2> QED
        BY <2>2, <2>3
    <1>2. f \in Bijection(1..n, S)
      BY <1>1 DEF Bijection, Injection, Surjection, IsInjective
    <1>3. IsFiniteSet(S) /\ Cardinality(S) = n
      BY <1>2, FS_CountingElements, FS_NatBijection DEF ExistsBijection
    <1>4. ASSUME NEW k \in 1..n
          PROVE  Cardinality(Below(S, f[k])) = k - 1
      <2> DEFINE g == [i \in 1..(k - 1) |-> f[i]]
                 B == Below(S, f[k])
      <2>1. k - 1 \in Nat /\ \A i \in 1..(k - 1) : i \in 1..n /\ i < k
        OBVIOUS
      <2>2. \A x : x \in B <=> \E i \in 1..(k - 1) : x = f[i]
        <3>1. ASSUME NEW x \in B
              PROVE  \E i \in 1..(k - 1) : x = f[i]
          <4>1. x \in S /\ x < f[k]
            BY DEF Below
          <4>2. PICK i \in 1..n : f[i] = x
            BY <4>1
          <4>3. ~(f[k] < f[i]) /\ f[i] # f[k]
            <5>1. f[i] \in Int /\ f[k] \in Int
              OBVIOUS
            <5> QED
              BY <4>1, <4>2, <5>1
          <4>4. i < k
            BY <4>3
          <4> QED
            BY <4>2, <4>4
        <3>2. ASSUME NEW i \in 1..(k - 1)
              PROVE  f[i] \in B
          BY <2>1 DEF Below
        <3> QED
          BY <3>1, <3>2
      <2> HIDE DEF B
      <2>3. g \in [1..(k - 1) -> B]
        BY <2>2
      <2>4. \A i, j \in 1..(k - 1) : g[i] = g[j] => i = j
        BY <1>1, <2>1
      <2>5. g \in Bijection(1..(k - 1), B)
        BY <2>2, <2>3, <2>4 DEF Bijection, Injection, Surjection, IsInjective
      <2>6. Cardinality(B) = k - 1
        BY <2>1, <2>5, FS_CountingElements DEF ExistsBijection
      <2> QED
        BY <2>6 DEF B
    <1>5. ASSUME NEW k \in 1..n
          PROVE  Ascending(S)[k] = f[k]
      <2> DEFINE x == CHOOSE x \in S : Cardinality(Below(S, x)) = k - 1
      <2>1. x \in S /\ Cardinality(Below(S, x)) = k - 1
        BY <1>4
      <2>2. Ascending(S)[k] = x
        BY <1>3 DEF Ascending
      <2> HIDE DEF x
      <2>3. PICK i \in 1..n : f[i] = x
        BY <2>1
      <2>4. i - 1 = k - 1
        BY <1>4, <2>1, <2>3
      <2> QED
        BY <2>2, <2>3, <2>4
    <1>6. Ascending(S) = [k \in 1..n |-> Ascending(S)[k]]
      BY <1>3 DEF Ascending
    <1>7. f = [k \in 1..n |-> f[k]]
      OBVIOUS
    <1> HIDE DEF Ascending
    <1>8. Ascending(S) = f
      BY <1>5, <1>6, <1>7
    <1> QED
      BY <1>3, <1>8

\* Two sets, one after the other.
LEMMA InOrderJoin ==
    ASSUME NEW A \in SUBSET Int, NEW B \in SUBSET Int, IsFiniteSet(A), IsFiniteSet(B),
           \A x \in A : \A y \in B : x < y
    PROVE  Ascending(A \cup B) = Ascending(A) \o Ascending(B)
    <1> DEFINE S == A \cup B
               a == Ascending(A)
               b == Ascending(B)
               m == Cardinality(A)
               n == Cardinality(B)
               f == a \o b
    <1>1. /\ m \in Nat /\ a \in Seq(A) /\ Len(a) = m
          /\ \A i, j \in 1..m : i < j => a[i] < a[j]
          /\ \A x \in A : \E i \in 1..m : a[i] = x
      BY InOrderOnce
    <1>2. /\ n \in Nat /\ b \in Seq(B) /\ Len(b) = n
          /\ \A i, j \in 1..n : i < j => b[i] < b[j]
          /\ \A x \in B : \E i \in 1..n : b[i] = x
      BY InOrderOnce
    <1> HIDE DEF a, b, m, n
    <1>3. \A i \in 1..m : a[i] \in A
      BY <1>1, ElementOfSeq
    <1>4. \A i \in 1..n : b[i] \in B
      BY <1>2, ElementOfSeq
    <1>5. /\ f \in Seq(S) /\ Len(f) = m + n
          /\ \A i \in 1..(m + n) : f[i] = IF i <= m THEN a[i] ELSE b[i - m]
      <2>1. a \in Seq(S) /\ b \in Seq(S)
        <3>1. A \subseteq S /\ B \subseteq S
          OBVIOUS
        <3> HIDE DEF S
        <3> QED
          BY <1>1, <1>2, <3>1, SeqMonotonic
      <2>2. /\ f \in Seq(S) /\ Len(f) = Len(a) + Len(b)
            /\ \A i \in 1..(Len(a) + Len(b)) :
                  f[i] = IF i <= Len(a) THEN a[i] ELSE b[i - Len(a)]
        <3> HIDE DEF S
        <3> QED
          BY <2>1, ConcatProperties
      <2> HIDE DEF f, S
      <2> QED
        BY <1>1, <1>2, <2>2
    <1> HIDE DEF f
    <1>6. f \in [1..(m + n) -> S]
      <2> HIDE DEF S
      <2> QED
        BY <1>5, LenProperties
    <1>7. ASSUME NEW i \in 1..(m + n), NEW j \in 1..(m + n), i < j
          PROVE  f[i] < f[j]
      <2>1. CASE j <= m
        BY <1>1, <1>5, <1>7, <2>1
      <2>2. CASE i > m
        <3>1. i - m \in 1..n /\ j - m \in 1..n /\ i - m < j - m
          BY <1>1, <1>2, <1>7, <2>2
        <3>2. f[i] = b[i - m] /\ f[j] = b[j - m]
          BY <1>1, <1>5, <1>7, <2>2
        <3> QED
          BY <1>2, <3>1, <3>2
      <2>3. CASE i <= m /\ m < j
        <3>1. i \in 1..m /\ j - m \in 1..n
          BY <1>1, <1>2, <2>3
        <3>2. f[i] = a[i] /\ f[j] = b[j - m]
          BY <1>1, <1>5, <2>3
        <3> QED
          BY <1>3, <1>4, <3>1, <3>2
      <2> QED
        BY <1>1, <2>1, <2>2, <2>3
    <1>8. ASSUME NEW x \in S
          PROVE  \E i \in 1..(m + n) : f[i] = x
      <2>1. CASE x \in A
        <3>1. PICK i \in 1..m : a[i] = x
          BY <1>1, <2>1
        <3>2. i \in 1..(m + n) /\ i <= m
          BY <1>1, <1>2
        <3> QED
          BY <1>5, <3>1, <3>2
      <2>2. CASE x \in B
        <3>1. PICK i \in 1..n : b[i] = x
          BY <1>2, <2>2
        <3>2. m + i \in 1..(m + n) /\ ~(m + i <= m) /\ (m + i) - m = i
          BY <1>1, <1>2
        <3>3. f[m + i] = b[i]
          BY <1>5, <3>2
        <3> QED
          BY <3>1, <3>2, <3>3
      <2> QED
        BY <2>1, <2>2
    <1>9. S \in SUBSET Int /\ m + n \in Nat
      BY <1>1, <1>2
    <1> HIDE DEF S
    <1>10. Ascending(S) = f
      BY <1>6, <1>7, <1>8, <1>9, InOrderIs
    <1> QED
      BY <1>10 DEF S, f, a, b

-----------------------------------------------------------------------------
\* Rollovers.

\* The time of day of a rollover, and the reading that it is on a day.
IsSwap(spec) == \E time \in 0..(DayLength - 1) : spec.rollover_time = {time}

Moment(spec, day) == combine(day, the(spec.rollover_time))

\* No change of the clock skips a rollover.
RolloversShown(spec, hours) ==
    \A day \in Int : \A time \in spec.rollover_time : Shown(hours.zone, combine(day, time))

\* The days whose rollover lies in (first, last] and is charged.
RolloverDays(spec, hours, first, last) ==
    {day \in Int : /\ within(instant(hours.zone, Moment(spec, day)), first, last)
                   /\ is_open_at(hours, Moment(spec, day))}

\* The charges of some days, in their order.
Rollover(spec, hours, day) ==
    [at |-> instant(hours.zone, Moment(spec, day)), nights |-> nights_on(spec, day)]

Rolled(spec, hours, days) ==
    [i \in DOMAIN Ascending(days) |-> Rollover(spec, hours, Ascending(days)[i])]

\* When nothing of an instrument lies in the time that a change skips.
Undisputed(spec, hours) ==
    ScheduleFits(hours) /\ Quiet(hours) /\ IsSwap(spec) /\ RolloversShown(spec, hours)

\* The reading and the instant of a day's rollover.
LEMMA MomentOf ==
    ASSUME NEW spec, NEW hours, Undisputed(spec, hours), NEW day \in Int
    PROVE  LET w == Moment(spec, day)
           IN  /\ w \in Int /\ Shown(hours.zone, w) /\ date(w) = day
               /\ spec.rollover_time = {the(spec.rollover_time)}
               /\ the(spec.rollover_time) \in 0..(DayLength - 1)
               /\ instant(hours.zone, w) \in Int
               /\ local_date(hours, instant(hours.zone, w)) = day
               /\ nights_on(spec, day) \in {1, 3}
    <1> DEFINE w == Moment(spec, day)
    <1>1. PICK time \in 0..(DayLength - 1) : spec.rollover_time = {time}
      BY DEF Undisputed, IsSwap
    <1>2. the(spec.rollover_time) = time
      BY <1>1 DEF the
    <1>3. DayLength \in Nat \ {0} /\ time \in Int
      BY DayAssumption
    <1>4. w = day * DayLength + time /\ w \in Int
      <2>1. w = day * DayLength + time
        BY <1>2 DEF Moment, combine
      <2> QED
        BY <1>3, <2>1
    <1>5. date(w) = day
      BY <1>1, <1>3, <1>4, RestIs DEF date
    <1>6. Shown(hours.zone, w)
      BY <1>1, <1>2 DEF Undisputed, RolloversShown, Moment
    <1>7. instant(hours.zone, w) \in Int
      BY <1>4, <1>6, ShownInOrder DEF Undisputed, ScheduleFits
    <1>8. local_date(hours, instant(hours.zone, w)) = day
      BY <1>5, <1>6 DEF local_date, Shown
    <1>9. nights_on(spec, day) \in {1, 3}
      BY DEF nights_on
    <1> QED
      BY <1>1, <1>2, <1>4, <1>5, <1>6, <1>7, <1>8, <1>9

\* A later day's rollover is later.
LEMMA MomentsInOrder ==
    ASSUME NEW spec, NEW hours, Undisputed(spec, hours), NEW x \in Int, NEW y \in Int
    PROVE  x < y <=> instant(hours.zone, Moment(spec, x)) < instant(hours.zone, Moment(spec, y))
    <1> DEFINE a == Moment(spec, x)
               b == Moment(spec, y)
               time == the(spec.rollover_time)
    <1>1. /\ a \in Int /\ Shown(hours.zone, a) /\ time \in Int
          /\ b \in Int /\ Shown(hours.zone, b)
      BY MomentOf
    <1>2. a < b <=> instant(hours.zone, a) < instant(hours.zone, b)
      BY <1>1, ShownInOrder DEF Undisputed, ScheduleFits
    <1>3. a = x * DayLength + time /\ b = y * DayLength + time
      BY DEF Moment, combine
    <1>4. a < b <=> x < y
      <2>1. /\ x * DayLength \in Int /\ y * DayLength \in Int
            /\ x < y => x * DayLength + DayLength <= y * DayLength
            /\ y <= x => y * DayLength <= x * DayLength
            /\ DayLength \in Nat \ {0}
        BY DayAssumption, ProductOrder
      <2> HIDE DEF a, b, time
      <2> QED
        BY <1>1, <1>3, <2>1
    <1> QED
      BY <1>2, <1>4

\* The days of a stretch lie between those of its ends, so there are finitely many.
LEMMA DaysOfStretch ==
    ASSUME NEW spec, NEW hours, Undisputed(spec, hours),
           NEW first \in Int, NEW last \in Int
    PROVE  LET days == RolloverDays(spec, hours, first, last)
           IN  /\ days \in SUBSET Int /\ IsFiniteSet(days)
               /\ days \subseteq local_date(hours, first)..local_date(hours, last)
    <1> DEFINE days == RolloverDays(spec, hours, first, last)
    <1>1. /\ IsZone(hours.zone) /\ WithinADay(hours.zone)
          /\ local_date(hours, first) \in Int /\ local_date(hours, last) \in Int
      <2>1. IsZone(hours.zone) /\ WithinADay(hours.zone)
        BY DEF Undisputed, ScheduleFits, Quiet
      <2> QED
        BY <2>1, DayBegins, 0 \in Int
    <1>2. ASSUME NEW day \in days
          PROVE  day \in local_date(hours, first)..local_date(hours, last)
      <2> DEFINE i == instant(hours.zone, Moment(spec, day))
      <2>1. day \in Int /\ first < i /\ i <= last
        BY DEF RolloverDays, within
      <2>2. i \in Int /\ local_date(hours, i) = day
        BY <2>1, MomentOf
      <2> HIDE DEF i
      <2>3. first <= i
        BY <2>1, <2>2
      <2>4. local_date(hours, first) <= day /\ day <= local_date(hours, last)
        BY <1>1, <2>1, <2>2, <2>3, DaysInOrder
      <2> QED
        BY <1>1, <2>1, <2>4
    <1>3. IsFiniteSet(local_date(hours, first)..local_date(hours, last))
      BY <1>1, FS_Interval
    <1>4. days \subseteq local_date(hours, first)..local_date(hours, last)
      BY <1>2
    <1>5. days \in SUBSET Int
      BY DEF RolloverDays
    <1> HIDE DEF days
    <1>6. IsFiniteSet(days)
      BY <1>3, <1>4, FS_Subset
    <1> QED
      BY <1>4, <1>5, <1>6 DEF days

\* rollover_events_between charges the rollovers of the stretch.
LEMMA ExpandsRolled ==
    ASSUME NEW spec, NEW hours, Undisputed(spec, hours), NEW first \in Int, NEW last \in Int
    PROVE  rollover_events_between(spec, first, last, hours)
              = Rolled(spec, hours, RolloverDays(spec, hours, first, last))
    <1> DEFINE window == local_date(hours, first)..local_date(hours, last)
               due == {day \in window :
                          /\ within(instant(hours.zone, Moment(spec, day)), first, last)
                          /\ is_open_at(hours, Moment(spec, day))}
    <1>1. \A day \in window : day \in Int
      BY DayBegins, 0 \in Int DEF Undisputed, ScheduleFits, Quiet
    <1>2. RolloverDays(spec, hours, first, last) \subseteq window
      BY DaysOfStretch
    <1> HIDE DEF window
    <1>3. due = RolloverDays(spec, hours, first, last)
      BY <1>1, <1>2 DEF RolloverDays
    <1>4. rollover_events_between(spec, first, last, hours)
             = [i \in DOMAIN Ascending(due) |-> Rollover(spec, hours, Ascending(due)[i])]
      BY DEF rollover_events_between, Rollover, Moment, window
    <1> QED
      BY <1>3, <1>4 DEF Rolled

Event == [at : Int, nights : {1, 3}]

\* The charges of a set of days.
LEMMA RolledIs ==
    ASSUME NEW spec, NEW hours, Undisputed(spec, hours), NEW days \in SUBSET Int,
           IsFiniteSet(days)
    PROVE  LET n == Cardinality(days)
           IN  /\ n \in Nat
               /\ Rolled(spec, hours, days) \in Seq(Event)
               /\ Len(Rolled(spec, hours, days)) = n
               /\ DOMAIN Rolled(spec, hours, days) = 1..n
               /\ \A i \in 1..n : /\ Ascending(days)[i] \in days
                                  /\ Rolled(spec, hours, days)[i]
                                        = Rollover(spec, hours, Ascending(days)[i])
    <1> DEFINE n == Cardinality(days)
               a == Ascending(days)
    <1>1. n \in Nat /\ DOMAIN a = 1..n /\ a \in Seq(days) /\ Len(a) = n
      BY InOrderOnce
    <1> HIDE DEF a, n
    <1>2. \A i \in 1..n : a[i] \in days
      BY <1>1, ElementOfSeq
    <1>3. \A i \in 1..n : Rollover(spec, hours, a[i]) \in Event
      <2>1. \A day \in Int : Rollover(spec, hours, day) \in Event
        BY MomentOf DEF Rollover, Event
      <2> QED
        BY <1>2, <2>1
    <1>4. Rolled(spec, hours, days) = [i \in 1..n |-> Rollover(spec, hours, a[i])]
      BY <1>1 DEF Rolled, a
    <1> DEFINE r == [i \in 1..n |-> Rollover(spec, hours, a[i])]
    <1>5. r \in Seq(Event) /\ Len(r) = n
      <2>1. r \in [1..n -> Event]
        BY <1>3
      <2> HIDE DEF r
      <2> QED
        BY <1>1, <2>1, LenProperties
    <1> QED
      BY <1>1, <1>2, <1>4, <1>5 DEF n, a

\* What two calls in a row charge is what one would have.
LEMMA RolledJoin ==
    ASSUME NEW spec, NEW hours, Undisputed(spec, hours),
           NEW l \in Int, NEW m \in Int, NEW n \in Int, l <= m, m <= n
    PROVE  Rolled(spec, hours, RolloverDays(spec, hours, l, m))
              \o Rolled(spec, hours, RolloverDays(spec, hours, m, n))
              = Rolled(spec, hours, RolloverDays(spec, hours, l, n))
    <1> DEFINE A == RolloverDays(spec, hours, l, m)
               B == RolloverDays(spec, hours, m, n)
               C == RolloverDays(spec, hours, l, n)
               at(day) == instant(hours.zone, Moment(spec, day))
    <1>1. /\ A \in SUBSET Int /\ IsFiniteSet(A)
          /\ B \in SUBSET Int /\ IsFiniteSet(B)
          /\ C \in SUBSET Int /\ IsFiniteSet(C)
      BY DaysOfStretch
    <1>2. \A day \in Int : at(day) \in Int
      BY MomentOf
    <1>3. C = A \cup B
      <2> HIDE DEF at
      <2>1. \A day \in Int : /\ l < at(day) /\ at(day) <= n
                                <=> \/ l < at(day) /\ at(day) <= m
                                    \/ m < at(day) /\ at(day) <= n
        BY <1>2
      <2> QED
        BY <2>1 DEF RolloverDays, within, at
    <1>4. \A x \in A : \A y \in B : x < y
      <2> SUFFICES ASSUME NEW x \in A, NEW y \in B PROVE x < y
        OBVIOUS
      <2>1. x \in Int /\ y \in Int /\ at(x) <= m /\ m < at(y)
        BY DEF RolloverDays, within
      <2>2. at(x) < at(y)
        <3> HIDE DEF at
        <3> QED
          BY <1>2, <2>1
      <2> QED
        BY <2>1, <2>2, MomentsInOrder
    <1> HIDE DEF A, B, C, at
    <1> DEFINE a == Ascending(A)
               b == Ascending(B)
               c == Ascending(C)
               j == Cardinality(A)
               k == Cardinality(B)
               r == Rolled(spec, hours, A)
               s == Rolled(spec, hours, B)
               t == Rolled(spec, hours, C)
    <1>5. c = a \o b
      BY <1>1, <1>3, <1>4, InOrderJoin
    <1>6. /\ a \in Seq(Int) /\ Len(a) = j /\ b \in Seq(Int) /\ Len(b) = k
          /\ j \in Nat /\ k \in Nat /\ Len(c) = Cardinality(C)
      <2>1. a \in Seq(A) /\ Len(a) = j /\ j \in Nat
        BY <1>1, InOrderOnce
      <2>2. b \in Seq(B) /\ Len(b) = k /\ k \in Nat
        BY <1>1, InOrderOnce
      <2>3. Len(c) = Cardinality(C)
        BY <1>1, InOrderOnce
      <2>4. a \in Seq(Int) /\ b \in Seq(Int)
        <3> HIDE DEF a, b
        <3> QED
          BY <1>1, <2>1, <2>2, SeqMonotonic
      <2> QED
        BY <2>1, <2>2, <2>3, <2>4
    <1>7. /\ r \in Seq(Event) /\ Len(r) = j
          /\ \A i \in 1..j : r[i] = Rollover(spec, hours, a[i])
      BY <1>1, RolledIs
    <1>8. /\ s \in Seq(Event) /\ Len(s) = k
          /\ \A i \in 1..k : s[i] = Rollover(spec, hours, b[i])
      BY <1>1, RolledIs
    <1>9. /\ t \in Seq(Event) /\ Len(t) = Cardinality(C)
          /\ \A i \in 1..Cardinality(C) : t[i] = Rollover(spec, hours, c[i])
      BY <1>1, RolledIs
    <1> HIDE DEF a, b, c, j, k, r, s, t
    <1>10. /\ Len(c) = j + k
           /\ \A i \in 1..(j + k) : c[i] = IF i <= j THEN a[i] ELSE b[i - j]
      <2>1. /\ Len(a \o b) = Len(a) + Len(b)
            /\ \A i \in 1..(Len(a) + Len(b)) :
                  (a \o b)[i] = IF i <= Len(a) THEN a[i] ELSE b[i - Len(a)]
        BY <1>6, ConcatProperties
      <2> QED
        BY <1>5, <1>6, <2>1
    <1>11. /\ r \o s \in Seq(Event) /\ Len(r \o s) = j + k
           /\ \A i \in 1..(j + k) : (r \o s)[i] = IF i <= j THEN r[i] ELSE s[i - j]
      <2>1. /\ r \o s \in Seq(Event) /\ Len(r \o s) = Len(r) + Len(s)
            /\ \A i \in 1..(Len(r) + Len(s)) :
                  (r \o s)[i] = IF i <= Len(r) THEN r[i] ELSE s[i - Len(r)]
        BY <1>7, <1>8, ConcatProperties
      <2> DEFINE u == r \o s
      <2> HIDE DEF u
      <2>2. /\ u \in Seq(Event) /\ Len(u) = Len(r) + Len(s)
            /\ \A i \in 1..(Len(r) + Len(s)) :
                  u[i] = IF i <= Len(r) THEN r[i] ELSE s[i - Len(r)]
        BY <2>1 DEF u
      <2>3. /\ u \in Seq(Event) /\ Len(u) = j + k
            /\ \A i \in 1..(j + k) : u[i] = IF i <= j THEN r[i] ELSE s[i - j]
        BY <1>7, <1>8, <2>2
      <2> QED
        BY <2>3 DEF u
    <1>12. ASSUME NEW i \in 1..(j + k)
           PROVE  (r \o s)[i] = t[i]
      <2>1. t[i] = Rollover(spec, hours, c[i])
        BY <1>6, <1>9, <1>10
      <2>2. CASE i <= j
        <3>1. i \in 1..j
          BY <1>6, <2>2
        <3> QED
          BY <1>7, <1>10, <1>11, <2>1, <2>2, <3>1
      <2>3. CASE ~(i <= j)
        <3>1. i - j \in 1..k
          BY <1>6, <2>3
        <3> QED
          BY <1>8, <1>10, <1>11, <2>1, <2>3, <3>1
      <2> QED
        BY <2>2, <2>3
    <1>13. Len(t) = j + k
      BY <1>6, <1>9, <1>10
    <1>14. r \o s = t
      <2> DEFINE u == r \o s
      <2>1. u \in Seq(Event) /\ Len(u) = Len(t) /\ \A i \in 1..Len(u) : u[i] = t[i]
        BY <1>11, <1>12, <1>13
      <2> HIDE DEF u
      <2>2. u = t
        BY <1>9, <2>1, SeqEqual
      <2> QED
        BY <2>2 DEF u
    <1> QED
      BY <1>14 DEF r, s, t, A, B, C

\* A reading is shown first at the instant that it denotes, and again no more than a
\* day later.
LEMMA FirstShown ==
    ASSUME NEW zone, IsZone(zone), WithinADay(zone), NEW t \in Int,
           NEW w, w = wall(zone, t), Shown(zone, w)
    PROVE  /\ w \in Int /\ instant(zone, w) \in Int
           /\ instant(zone, w) <= t /\ t - instant(zone, w) <= DayLength
    <1> DEFINE c == zone.change
               s == zone.shift
               i == instant(zone, w)
    <1>1. c \in Int /\ s \in Int /\ DayLength \in Nat \ {0}
      BY DayAssumption DEF IsZone
    <1>2. w = IF t < c THEN t ELSE t + s
      BY Reading
    <1>3. w \in Int
      <2> HIDE DEF c, s
      <2> QED
        BY <1>1, <1>2
    <1>4. /\ i = IF w < c \/ (s > 0 /\ w < c + s) THEN w ELSE w - s
          /\ w < c \/ w >= c + s \/ s <= 0
      BY <1>3, Reading
    <1>5. s < 0 => -s <= DayLength
      <2> SUFFICES ASSUME s < 0, -s > DayLength PROVE FALSE
        BY <1>1
      <2> DEFINE x == c + s
                 y == c + s + DayLength
      <2>1. x \in Int /\ y \in Int
        <3> HIDE DEF c, s
        <3> QED
          BY <1>1
      <2>2. x \in Disturbed(zone) /\ y \in Disturbed(zone)
        <3>1. c + s <= x /\ x < c /\ c + s <= y /\ y < c
          <4> HIDE DEF c, s
          <4> QED
            BY <1>1
        <3> HIDE DEF x, y
        <3> QED
          BY <2>1, <3>1, Reading
      <2>3. date(x) = date(y)
        BY <2>2 DEF WithinADay
      <2> HIDE DEF x
      <2>4. /\ midnight(date(x)) <= x /\ midnight(date(x) + 1) = midnight(date(x)) + DayLength
            /\ date(x) \in Int /\ midnight(date(x)) \in Int
        <3>1. date(x) \in Int
          BY <2>1, DateOf
        <3> QED
          BY <2>1, <3>1, DateOf
      <2>5. y = x + DayLength
        BY DEF x
      <2> HIDE DEF y, c, s
      <2>6. midnight(date(x) + 1) <= y
        BY <1>1, <2>1, <2>4, <2>5
      <2>7. date(x) + 1 <= date(y)
        BY <2>1, <2>4, <2>6, DateOf
      <2> QED
        BY <2>3, <2>4, <2>7
    <1> HIDE DEF c, s
    <1>6. i \in Int /\ i <= t /\ t - i <= DayLength
      <2> HIDE DEF i
      <2> QED
        BY <1>1, <1>2, <1>3, <1>4, <1>5
    <1> QED
      BY <1>3, <1>6

\* is_open of a datetime of the zone, and of the instant that it denotes.
LEMMA OpenAtReading ==
    ASSUME NEW hours, ScheduleFits(hours), Quiet(hours), NEW w \in Int, Shown(hours.zone, w)
    PROVE  is_open_at(hours, w) <=> is_open(hours, instant(hours.zone, w))
    <1> DEFINE t == instant(hours.zone, w)
               around == occurrences_around(hours, date(w))
    <1>1. IsZone(hours.zone) /\ t \in Int /\ date(w) \in Int
      BY ShownInOrder, DateOf DEF ScheduleFits
    <1>2. local_date(hours, t) = date(w)
      BY DEF local_date, Shown
    <1>3. \A o \in around : /\ o.open <= w <=> instant(hours.zone, o.open) <= t
                            /\ w < o.close <=> t < instant(hours.zone, o.close)
      <2> SUFFICES ASSUME NEW o \in around
                   PROVE  /\ o.open <= w <=> instant(hours.zone, o.open) <= t
                          /\ w < o.close <=> t < instant(hours.zone, o.close)
        OBVIOUS
      <2>1. date(w) - (DAYS_IN_WEEK + 1) \in Int /\ DAYS_IN_WEEK * 2 + 2 \in Int
        BY <1>1 DEF DAYS_IN_WEEK
      <2>2. IsOccurrence(hours, o)
        BY <2>1, Expanded DEF occurrences_around
      <2>3. /\ o.open \in Int /\ o.close \in Int
            /\ Shown(hours.zone, o.open) /\ Shown(hours.zone, o.close)
            /\ instant(hours.zone, o.open) \in Int
        BY <2>2, OccurrenceEnds
      <2>4. /\ w < o.open <=> t < instant(hours.zone, o.open)
            /\ w < o.close <=> t < instant(hours.zone, o.close)
        BY <1>1, <2>3, ShownInOrder
      <2> HIDE DEF t
      <2> QED
        BY <1>1, <2>3, <2>4
    <1>4. containing(hours, t) # {} <=> \E o \in around : o.open <= w /\ w < o.close
      BY <1>2, <1>3 DEF containing
    <1> QED
      BY <1>2, <1>4 DEF is_open, is_open_at

\* The charges since the start are those of the rollovers since then.
ChargesRollovers ==
    financing.model = "swap_points" /\ Undisputed(financing, schedule) =>
       charged = Rolled(financing, schedule,
                        RolloverDays(financing, schedule, start, since))

RInv == AsStored /\ ChargesRollovers

\* After any steps the caller was charged the rollovers since its start, one for each
\* rollover day between, wherever its calls cut the time: the invariant that both
\* EachRolloverOnce and AWeekIsSevenNights follow from.
THEOREM RolloverInvariance == Spec => []RInv
    <1>1. Init => RInv
      <2> SUFFICES ASSUME Init PROVE RInv
        OBVIOUS
      <2>1. AsStored
        BY StepsAssumption DEF Init, AsStored, AsDeclared
      <2>2. ASSUME Undisputed(financing, schedule)
            PROVE  charged = Rolled(financing, schedule,
                                    RolloverDays(financing, schedule, start, since))
        <3> DEFINE D == RolloverDays(financing, schedule, start, since)
        <3>1. start \in Int /\ since = start /\ charged = <<>>
          BY StepsAssumption DEF Init
        <3>2. D = {}
          <4>1. \A day \in Int : instant(schedule.zone, Moment(financing, day)) \in Int
            BY <2>2, MomentOf
          <4>2. \A i \in Int : ~(start < i /\ i <= since)
            BY <3>1
          <4> QED
            BY <4>1, <4>2 DEF RolloverDays, within
        <3> HIDE DEF D
        <3>3. Cardinality(D) = 0 /\ IsFiniteSet(D) /\ D \in SUBSET Int
          BY <3>2, FS_EmptySet
        <3>4. /\ Rolled(financing, schedule, D) \in Seq(Event)
              /\ Len(Rolled(financing, schedule, D)) = 0
          BY <2>2, <3>3, RolledIs
        <3>5. Rolled(financing, schedule, D) = <<>>
          BY <3>4, EmptySeq
        <3> QED
          BY <3>1, <3>5 DEF D
      <2> QED
        BY <2>1, <2>2 DEF RInv, ChargesRollovers
    <1>2. RInv /\ [Next]_vars => RInv'
      <2> SUFFICES ASSUME RInv, [Next]_vars PROVE RInv'
        OBVIOUS
      <2>1. CASE Charge
        <3>1. PICK step \in Steps :
                 /\ since' = since + step /\ charged' = charged \o Events(since + step)
                 /\ UNCHANGED <<schedule, financing, stored, start>>
          BY <2>1 DEF Charge
        <3>2. /\ start \in Int /\ since \in Int /\ since' \in Int
              /\ start <= since /\ since <= since'
          BY <3>1, StepsAssumption DEF RInv, AsStored
        <3>3. AsStored'
          BY <3>1, StepsAssumption DEF RInv, AsStored, AsDeclared
        <3>4. ASSUME financing.model = "swap_points", Undisputed(financing, schedule)
              PROVE  charged' = Rolled(financing, schedule,
                                       RolloverDays(financing, schedule, start, since'))
          <4>1. charged = Rolled(financing, schedule,
                                 RolloverDays(financing, schedule, start, since))
            BY <3>4 DEF RInv, ChargesRollovers
          <4>2. Events(since + step)
                   = rollover_events_between(financing, since, since + step, schedule)
            BY <3>4 DEF Events, Periodic
          <4>3. rollover_events_between(financing, since, since', schedule)
                   = Rolled(financing, schedule,
                            RolloverDays(financing, schedule, since, since'))
            BY <3>2, <3>4, ExpandsRolled
          <4>4. Rolled(financing, schedule, RolloverDays(financing, schedule, start, since))
                   \o Rolled(financing, schedule, RolloverDays(financing, schedule, since, since'))
                   = Rolled(financing, schedule, RolloverDays(financing, schedule, start, since'))
            BY <3>2, <3>4, RolledJoin
          <4> QED
            BY <3>1, <4>1, <4>2, <4>3, <4>4
        <3>5. ChargesRollovers'
          BY <3>1, <3>4 DEF ChargesRollovers
        <3> QED
          BY <3>3, <3>5 DEF RInv
      <2>2. CASE UNCHANGED vars
        BY <2>2 DEF vars, RInv, AsStored, AsDeclared, ChargesRollovers
      <2>3. CASE Reload
        BY <2>2, <2>3, ReloadChangesNothing DEF RInv
      <2> QED
        BY <2>1, <2>2, <2>3 DEF Next
    <1> QED
      BY <1>1, <1>2, PTL DEF Spec

\* The rollovers that the clock shows are those of the days.
LEMMA RolloversByDay ==
    ASSUME Undisputed(financing, schedule), NEW first \in Int, NEW last \in Int
    PROVE  \A t : t \in Rollovers(first, last) <=>
              \E day \in RolloverDays(financing, schedule, first, last) :
                 t = instant(schedule.zone, Moment(financing, day))
    <1> DEFINE zone == schedule.zone
               time == the(financing.rollover_time)
               at(day) == instant(zone, Moment(financing, day))
    <1>1. IsZone(zone) /\ WithinADay(zone) /\ ScheduleFits(schedule) /\ Quiet(schedule)
          /\ DayLength \in Nat \ {0}
      BY DayAssumption DEF Undisputed, ScheduleFits, Quiet
    <1>2. ASSUME NEW day \in RolloverDays(financing, schedule, first, last)
          PROVE  at(day) \in Rollovers(first, last)
      <2> DEFINE w == Moment(financing, day)
                 t == at(day)
      <2>1. day \in Int /\ first < t /\ t <= last /\ is_open_at(schedule, w)
        BY DEF RolloverDays, within
      <2>2. /\ w \in Int /\ Shown(zone, w) /\ t \in Int
            /\ financing.rollover_time = {time} /\ time \in 0..(DayLength - 1)
        BY <2>1, MomentOf
      <2>3. Clock(t) = w
        BY <2>2 DEF Clock, Shown
      <2>4. w % DayLength = time
        <3>1. w = day * DayLength + time
          BY DEF Moment, combine
        <3> HIDE DEF w, time
        <3> QED
          BY <1>1, <2>1, <2>2, <3>1, RestIs
      <2>5. is_open(schedule, t)
        BY <1>1, <2>1, <2>2, OpenAtReading
      <2>6. ~\E earlier \in (t - DayLength)..(t - 1) : Clock(earlier) = Clock(t)
        <3> SUFFICES ASSUME NEW earlier \in (t - DayLength)..(t - 1),
                            Clock(earlier) = Clock(t)
                     PROVE  FALSE
          OBVIOUS
        <3>1. earlier \in Int /\ earlier < t
          BY <1>1, <2>2
        <3>2. w = wall(zone, earlier)
          BY <2>3 DEF Clock
        <3>3. instant(zone, w) <= earlier
          <4> HIDE DEF w
          <4> QED
            BY <1>1, <2>2, <3>1, <3>2, FirstShown
        <3> HIDE DEF w
        <3> QED
          BY <2>2, <3>1, <3>3 DEF w
      <2>7. t \in (first + 1)..last
        <3> HIDE DEF t
        <3> QED
          BY <2>1, <2>2
      <2> HIDE DEF t, w, time
      <2> QED
        BY <2>2, <2>3, <2>4, <2>5, <2>6, <2>7 DEF Rollovers, t, w
    <1>3. ASSUME NEW t \in Rollovers(first, last)
          PROVE  \E day \in RolloverDays(financing, schedule, first, last) : t = at(day)
      <2> DEFINE w == Clock(t)
                 day == date(w)
      <2>1. /\ t \in (first + 1)..last /\ t \in Int
            /\ w % DayLength \in financing.rollover_time
            /\ ~\E earlier \in (t - DayLength)..(t - 1) : Clock(earlier) = Clock(t)
            /\ is_open(schedule, t)
        BY DEF Rollovers
      <2>2. w \in Int /\ w = wall(zone, t)
        <3>1. w = IF t < zone.change THEN t ELSE t + zone.shift
          BY <1>1, <2>1, Reading DEF Clock
        <3> QED
          BY <1>1, <2>1, <3>1 DEF IsZone, Clock
      <2>3. day \in Int /\ financing.rollover_time = {time} /\ time \in 0..(DayLength - 1)
        <3>1. day \in Int
          BY <2>2, DateOf, 0 \in Int
        <3> QED
          BY <3>1, MomentOf
      <2>4. w = Moment(financing, day)
        <3>1. w = (w \div DayLength) * DayLength + (w % DayLength)
          BY <1>1, <2>2, Division
        <3>2. w % DayLength = time
          BY <2>1, <2>3
        <3> QED
          BY <3>1, <3>2 DEF Moment, combine, date
      <2>5. Shown(zone, w)
        BY <2>3, <2>4, MomentOf
      <2>6. at(day) = instant(zone, w)
        BY <2>4
      <2> HIDE DEF w
      <2>7. /\ instant(zone, w) \in Int /\ instant(zone, w) <= t
            /\ t - instant(zone, w) <= DayLength
        BY <1>1, <2>1, <2>2, <2>5, FirstShown
      <2>8. instant(zone, w) = t
        <3> SUFFICES ASSUME instant(zone, w) # t PROVE FALSE
          OBVIOUS
        <3> DEFINE i == instant(zone, w)
        <3>1. Clock(i) = Clock(t)
          BY <2>2, <2>5 DEF Clock, Shown
        <3>2. i \in (t - DayLength)..(t - 1)
          <4> HIDE DEF i
          <4>1. i \in Int /\ i <= t /\ t - i <= DayLength /\ i # t
            BY <2>7 DEF i
          <4> QED
            BY <1>1, <2>1, <4>1
        <3> HIDE DEF i
        <3> QED
          BY <2>1, <3>1, <3>2
      <2>9. is_open_at(schedule, w)
        BY <1>1, <2>1, <2>2, <2>5, <2>8, OpenAtReading
      <2>10. first < t /\ t <= last
        BY <2>1
      <2>11. at(day) = t
        BY <2>6, <2>8
      <2>12. is_open_at(schedule, Moment(financing, day))
        BY <2>4, <2>9 DEF w
      <2>13. day \in RolloverDays(financing, schedule, first, last)
        <3> HIDE DEF day
        <3> QED
          BY <2>3, <2>10, <2>11, <2>12 DEF RolloverDays, within
      <2> QED
        BY <2>11, <2>13
    <1> HIDE DEF at
    <1>4. \A t : t \in Rollovers(first, last) <=>
              \E day \in RolloverDays(financing, schedule, first, last) : t = at(day)
      BY <1>2, <1>3
    <1> QED
      BY <1>4 DEF at

\* What is charged by rollovers has a time for them, and at most one triple day.
LEMMA SwapInUse ==
    ASSUME AsStored, financing.model = "swap_points"
    PROVE  IsSwap(financing) /\ IsOptional(financing.triple_rollover_day)
    <1>1. PICK i \in Instruments : valid(i.financing) /\ financing = i.financing
      BY DEF AsStored, AsDeclared
    <1>2. PICK time \in i.financing.rollover_time : TRUE
      BY <1>1 DEF valid
    <1>3. i.financing.rollover_time \subseteq 0..(DayLength - 1)
      BY InstrumentsAssumption
    <1>4. DOMAIN i.financing = {"model", "funding_interval", "funding_anchor",
                                "rollover_time", "triple_rollover_day"}
      BY InstrumentsAssumption
    <1>5. /\ IsOptional(i.financing.rollover_time)
          /\ IsOptional(i.financing.triple_rollover_day)
      BY <1>4, InstrumentsAssumption
    <1>6. i.financing.rollover_time = {time} /\ time \in 0..(DayLength - 1)
      BY <1>2, <1>3, <1>5 DEF IsOptional
    <1> QED
      BY <1>1, <1>5, <1>6 DEF IsSwap

\* EachRolloverOnce: the charges are those of the days whose rollover lies between the
\* start and the end of the latest call, which are as many as the rollovers that the
\* clock shows then, and at the same instants.
THEOREM RollsOnce ==
    Spec => [](Quiet(schedule) /\ RolloversShown(financing, schedule) => EachRolloverOnce)
    <1>1. RInv => (Quiet(schedule) /\ RolloversShown(financing, schedule) => EachRolloverOnce)
      <2> SUFFICES ASSUME RInv, Quiet(schedule), RolloversShown(financing, schedule),
                          financing.model = "swap_points"
                   PROVE  EachRolloverOnce
        BY DEF EachRolloverOnce
      <2>0. Undisputed(financing, schedule)
        BY ScheduleInUse, SwapInUse DEF SInv, RInv, Undisputed
      <2> DEFINE D == RolloverDays(financing, schedule, start, since)
                 n == Cardinality(D)
                 a == Ascending(D)
                 due == Rollovers(start, since)
                 at(day) == instant(schedule.zone, Moment(financing, day))
      <2>1. start \in Int /\ since \in Int
        BY DEF RInv, AsStored
      <2>2. D \in SUBSET Int /\ IsFiniteSet(D)
        BY <2>0, <2>1, DaysOfStretch
      <2>3. charged = Rolled(financing, schedule, D)
        BY <2>0 DEF RInv, ChargesRollovers
      <2>4. \A t : t \in due <=> \E day \in D : t = at(day)
        BY <2>0, <2>1, RolloversByDay
      <2>5. \A x, y \in Int : at(x) \in Int /\ (x < y => at(x) < at(y))
        BY <2>0, MomentOf, MomentsInOrder
      <2> HIDE DEF D, due, at
      <2>6. /\ n \in Nat
            /\ \A i, j \in 1..n : i < j => a[i] < a[j]
            /\ \A x \in D : \E i \in 1..n : a[i] = x
        BY <2>2, InOrderOnce
      <2>7. /\ Len(charged) = n /\ DOMAIN charged = 1..n
            /\ \A i \in 1..n : a[i] \in D /\ a[i] \in Int /\ charged[i].at = at(a[i])
        <3>1. /\ Len(charged) = n /\ DOMAIN charged = 1..n
              /\ \A i \in 1..n : /\ a[i] \in D
                                 /\ charged[i] = Rollover(financing, schedule, a[i])
          BY <2>0, <2>2, <2>3, RolledIs
        <3>2. \A x : Rollover(financing, schedule, x).at = at(x)
          BY DEF Rollover, at
        <3> HIDE DEF a, n
        <3>3. \A i \in 1..n : a[i] \in Int
          BY <2>2, <3>1
        <3> QED
          BY <3>1, <3>2, <3>3
      <2> HIDE DEF n, a
      <2>8. ASSUME NEW i \in 1..n, NEW j \in 1..n, i < j
            PROVE  charged[i].at < charged[j].at
        <3>1. a[i] \in Int /\ a[j] \in Int /\ a[i] < a[j]
          BY <2>6, <2>7, <2>8
        <3>2. at(a[i]) < at(a[j])
          BY <2>5, <3>1
        <3> QED
          BY <2>7, <3>2
      <2>9. {charged[i].at : i \in DOMAIN charged} = due
        BY <2>4, <2>6, <2>7
      <2>10. Cardinality(due) = n
        <3> DEFINE f == [i \in 1..n |-> charged[i].at]
        <3>1. \A i \in 1..n : f[i] \in due /\ f[i] \in Int
          BY <2>4, <2>5, <2>7
        <3>2. \A i, j \in 1..n : i < j => f[i] < f[j]
          BY <2>8
        <3>3. \A t \in due : \E i \in 1..n : f[i] = t
          BY <2>4, <2>6, <2>7
        <3>4. f \in [1..n -> due] /\ due \in SUBSET Int
          <4>1. due \in SUBSET Int
            BY <2>2, <2>4, <2>5
          <4> QED
            BY <3>1, <4>1
        <3> HIDE DEF f
        <3> QED
          BY <2>6, <3>2, <3>3, <3>4, InOrderIs
      <2> QED
        BY <2>7, <2>8, <2>9, <2>10 DEF EachRolloverOnce, due
    <1> QED
      BY <1>1, RolloverInvariance, PTL

-----------------------------------------------------------------------------
\* Weeks.

\* The same day of a later week, or of an earlier one.
LEMMA WeeksLater ==
    ASSUME NEW day \in Int, NEW j \in Int
    PROVE  /\ day + 7 * j \in Int /\ weekday(day + 7 * j) = weekday(day)
           /\ \A time \in Int : combine(day + 7 * j, time) = combine(day, time) + j * Week
    <1>1. weekday(day + 7 * j) = weekday(day)
      <2> DEFINE k == day \div 7
                 r == day % 7
                 x == day + 7 * j
      <2>1. k \in Int /\ r \in 0..6 /\ day = k * 7 + r
        OBVIOUS
      <2> HIDE DEF k, r
      <2>2. x \in Int /\ k + j \in Int /\ x = (k + j) * 7 + r
        BY <2>1
      <2>3. r \in 0..(7 - 1) /\ 7 \in Nat \ {0}
        BY <2>1
      <2> HIDE DEF x
      <2>4. x % 7 = r
        BY <2>2, <2>3, RestIs
      <2> QED
        BY <2>4 DEF weekday, DAYS_IN_WEEK, x, r
    <1>2. ASSUME NEW time \in Int
          PROVE  combine(day + 7 * j, time) = combine(day, time) + j * Week
      <2>1. DayLength \in Nat /\ Week = 7 * DayLength
        BY WeekLength
      <2>2. (day + 7 * j) * DayLength = day * DayLength + j * (7 * DayLength)
        BY <2>1
      <2>3. day * DayLength \in Int /\ j * Week \in Int
        BY <2>1
      <2> QED
        BY <2>1, <2>2, <2>3 DEF combine
    <1> QED
      BY <1>1, <1>2

\* A venue without holidays trades at a rollover just as in any other week.
LEMMA OpenEveryWeek ==
    ASSUME NEW spec, NEW hours, Undisputed(spec, hours), hours.holidays = {},
           NEW day \in Int, NEW j \in Int, is_open_at(hours, Moment(spec, day))
    PROVE  is_open_at(hours, Moment(spec, day + 7 * j))
    <1> DEFINE w == Moment(spec, day)
               x == Moment(spec, day + 7 * j)
               time == the(spec.rollover_time)
    <1>1. day + 7 * j \in Int /\ j * Week \in Int
      BY WeekLength
    <1>2. /\ w \in Int /\ date(w) = day /\ time \in Int
          /\ x \in Int /\ date(x) = day + 7 * j
      BY <1>1, MomentOf
    <1>3. x = w + j * Week
      BY <1>2, WeeksLater DEF Moment
    <1> HIDE DEF w, x
    <1>4. CASE hours.always_open
      BY <1>4 DEF is_open_at, x
    <1>5. CASE ~hours.always_open
      <2>1. PICK o \in occurrences_around(hours, day) : o.open <= w /\ w < o.close
        BY <1>2, <1>5 DEF is_open_at, w
      <2>2. o \in expand(hours, day - 8, 16)
        BY DEF occurrences_around, DAYS_IN_WEEK
      <2>3. PICK i \in DOMAIN hours.sessions : \E e \in (day - 8)..(day - 8 + 16 - 1) :
               weekday(e) = hours.sessions[i].open_day /\ o = Occurrence(hours.sessions[i], e)
        BY <2>2, Occurs
      <2>4. PICK e \in (day - 8)..(day - 8 + 16 - 1) :
               weekday(e) = hours.sessions[i].open_day /\ o = Occurrence(hours.sessions[i], e)
        BY <2>3
      <2> DEFINE s == hours.sessions[i]
                 f == e + 7 * j
                 p == Occurrence(s, f)
                 later == day + 7 * j
      <2>5. e \in Int /\ IsWeekly(s) /\ spans_days(s) \in Int
            /\ s.open_time \in Int /\ s.close_time \in Int
        BY SessionShape DEF Undisputed, ScheduleFits
      <2>6. f \in (later - 8)..(later - 8 + 16 - 1) /\ weekday(f) = s.open_day
        <3>1. weekday(f) = weekday(e)
          BY <2>5, WeeksLater
        <3>2. day - 8 <= e /\ e <= day - 8 + 16 - 1
          OBVIOUS
        <3>3. f \in (later - 8)..(later - 8 + 16 - 1)
          BY <2>5, <3>2
        <3> QED
          BY <2>4, <3>1, <3>3
      <2>7. p \in occurrences_around(hours, later)
        <3>1. p \in expand(hours, later - 8, 16)
          <4> HIDE DEF f, later
          <4> QED
            BY <2>6, Occurs
        <3> QED
          BY <3>1 DEF occurrences_around, DAYS_IN_WEEK
      <2>8. p.open = o.open + j * Week /\ p.close = o.close + j * Week
        <3>1. p.open = combine(e + 7 * j, s.open_time) /\ o.open = combine(e, s.open_time)
          BY <2>4 DEF Occurrence
        <3>2. p.close = combine(e + 7 * j + spans_days(s), s.close_time)
              /\ o.close = combine(e + spans_days(s), s.close_time)
          BY <2>4 DEF Occurrence
        <3>3. e + 7 * j + spans_days(s) = (e + spans_days(s)) + 7 * j
              /\ e + spans_days(s) \in Int
          BY <2>5
        <3>4. p.open = o.open + j * Week
          <4> HIDE DEF p, s
          <4>1. combine(e + 7 * j, s.open_time) = combine(e, s.open_time) + j * Week
            BY <2>5, WeeksLater
          <4> QED
            BY <3>1, <4>1
        <3>5. combine((e + spans_days(s)) + 7 * j, s.close_time)
                 = combine(e + spans_days(s), s.close_time) + j * Week
          BY <2>5, <3>3, WeeksLater
        <3> QED
          BY <3>2, <3>3, <3>4, <3>5
      <2>9. o.open \in Int /\ o.close \in Int
        BY <2>4, <2>5, OccurrenceInWeeks
      <2> HIDE DEF p, later
      <2>10. p.open <= x /\ x < p.close
        BY <1>1, <1>2, <1>3, <2>1, <2>8, <2>9
      <2> QED
        BY <1>2, <2>7, <2>10 DEF is_open_at, x, later
    <1> QED
      BY <1>4, <1>5

\* The days whose rollover lies in some weeks from a reading on.
LEMMA DaysOfWeeks ==
    ASSUME NEW spec, NEW hours, Undisputed(spec, hours), NEW x \in Int
    PROVE  \E d \in Int : \A k \in Int : \A day \in Int :
              x < Moment(spec, day) /\ Moment(spec, day) <= x + k * Week
                 <=> d <= day /\ day < d + 7 * k
    <1> DEFINE time == the(spec.rollover_time)
               q == (x - time) \div DayLength
               d == q + 1
    <1>1. time \in Int /\ DayLength \in Nat \ {0} /\ Week = 7 * DayLength
      BY MomentOf, WeekLength, 0 \in Int
    <1>2. q \in Int /\ d \in Int
      <2> HIDE DEF time
      <2>1. x - time \in Int
        BY <1>1
      <2> QED
        BY <1>1, <2>1, Division
    <1>3. \A n \in Int : n <= q <=> n * DayLength <= x - time
      <2> HIDE DEF time
      <2>1. x - time \in Int
        BY <1>1
      <2> QED
        BY <1>1, <2>1, Quotient
    <1>4. ASSUME NEW k \in Int, NEW day \in Int
          PROVE  x < Moment(spec, day) /\ Moment(spec, day) <= x + k * Week
                    <=> d <= day /\ day < d + 7 * k
      <2>1. Moment(spec, day) = day * DayLength + time
        BY DEF Moment, combine
      <2> HIDE DEF time, q
      <2>2. day \in Int /\ day - 7 * k \in Int
        OBVIOUS
      <2>3. (day - 7 * k) * DayLength = day * DayLength - k * (7 * DayLength)
        BY <1>1
      <2>4. day * DayLength \in Int /\ k * Week \in Int
        BY <1>1
      <2>5. /\ day <= q <=> day * DayLength <= x - time
            /\ day - 7 * k <= q <=> day * DayLength - k * Week <= x - time
        BY <1>1, <1>3, <2>2, <2>3
      <2>6. x < day * DayLength + time <=> ~(day <= q)
        BY <1>1, <1>2, <2>4, <2>5
      <2>7. day * DayLength + time <= x + k * Week <=> day - 7 * k <= q
        BY <1>1, <1>2, <2>4, <2>5
      <2>8. /\ ~(day <= q) <=> d <= day
            /\ day - 7 * k <= q <=> day < d + 7 * k
        BY <1>2
      <2> QED
        BY <2>1, <2>6, <2>7, <2>8
    <1> QED
      BY <1>2, <1>4

\* Rollovers between two readings, each at the instant that it is first shown.
LEMMA BetweenReadings ==
    ASSUME NEW spec, NEW hours, Undisputed(spec, hours), NEW x \in Int, NEW y \in Int,
           Shown(hours.zone, x), Shown(hours.zone, y), NEW day \in Int
    PROVE  day \in RolloverDays(spec, hours, instant(hours.zone, x), instant(hours.zone, y))
              <=> /\ x < Moment(spec, day) /\ Moment(spec, day) <= y
                  /\ is_open_at(hours, Moment(spec, day))
    <1> DEFINE w == Moment(spec, day)
               i == instant(hours.zone, w)
               first == instant(hours.zone, x)
               last == instant(hours.zone, y)
    <1>1. w \in Int /\ Shown(hours.zone, w) /\ IsZone(hours.zone)
      BY MomentOf DEF Undisputed, ScheduleFits
    <1>2. /\ i \in Int /\ first \in Int /\ last \in Int
          /\ x < w <=> first < i
          /\ y < w <=> last < i
      <2> HIDE DEF w
      <2> QED
        BY <1>1, ShownInOrder
    <1>3. i <= last <=> w <= y
      <2> HIDE DEF i, last, w
      <2> QED
        BY <1>1, <1>2
    <1> QED
      BY <1>2, <1>3 DEF RolloverDays, within

\* The nights of some numbers, one by one.
NightsOf(D, g) == {p \in D \X {1, 2, 3} : p[2] <= g[p[1]]}

\* Five days of a week, one of three nights and the others of one, are seven nights.
LEMMA SevenNights ==
    ASSUME NEW D \in SUBSET Int, NEW g \in [Int -> {1, 3}], NEW triple \in D,
           IsFiniteSet(D), Cardinality(D) = 5, \A day \in D : g[day] = 3 <=> day = triple
    PROVE  IsFiniteSet(NightsOf(D, g)) /\ Cardinality(NightsOf(D, g)) = 7
    <1> DEFINE A == D \X {1}
               B == A \cup {<<triple, 2>>}
               C == B \cup {<<triple, 3>>}
    <1>1. IsFiniteSet(A) /\ Cardinality(A) = 5
      <2>1. IsFiniteSet({1}) /\ Cardinality({1}) = 1
        BY FS_Singleton
      <2>2. IsFiniteSet(A) /\ Cardinality(A) = Cardinality(D) * Cardinality({1})
        BY <2>1, FS_Product
      <2> HIDE DEF A
      <2> QED
        BY <2>1, <2>2
    <1>2. <<triple, 2>> \notin A /\ <<triple, 3>> \notin B
      OBVIOUS
    <1>3. IsFiniteSet(B) /\ Cardinality(B) = 6
      <2> HIDE DEF A
      <2>1. /\ IsFiniteSet(B)
            /\ Cardinality(B) = IF <<triple, 2>> \in A THEN Cardinality(A) ELSE Cardinality(A) + 1
        BY <1>1, FS_AddElement
      <2> HIDE DEF B
      <2> QED
        BY <1>1, <1>2, <2>1
    <1>4. IsFiniteSet(C) /\ Cardinality(C) = 7
      <2> HIDE DEF B
      <2>1. /\ IsFiniteSet(C)
            /\ Cardinality(C) = IF <<triple, 3>> \in B THEN Cardinality(B) ELSE Cardinality(B) + 1
        BY <1>3, FS_AddElement
      <2> HIDE DEF C
      <2> QED
        BY <1>2, <1>3, <2>1
    <1>5. ASSUME NEW p \in NightsOf(D, g)
          PROVE  p \in C
      <2>1. PICK day \in D, m \in {1, 2, 3} : p = <<day, m>>
        <3>1. p \in D \X {1, 2, 3}
          BY DEF NightsOf
        <3>2. p = <<p[1], p[2]>> /\ p[1] \in D /\ p[2] \in {1, 2, 3}
          BY <3>1
        <3> QED
          BY <3>2
      <2>2. m <= g[day]
        BY <2>1 DEF NightsOf
      <2>3. CASE m = 1
        BY <2>1, <2>3
      <2>4. CASE m # 1
        <3>1. g[day] = 3
          BY <2>2, <2>4
        <3>2. day = triple
          BY <3>1
        <3> QED
          BY <2>1, <2>4, <3>2
      <2> QED
        BY <2>3, <2>4
    <1>6. ASSUME NEW p \in C
          PROVE  p \in NightsOf(D, g)
      <2>1. CASE p \in A
        <3>1. PICK day \in D : p = <<day, 1>>
          <4>1. p = <<p[1], p[2]>> /\ p[1] \in D /\ p[2] = 1
            BY <2>1
          <4> QED
            BY <4>1
        <3>2. 1 <= g[day]
          OBVIOUS
        <3> QED
          BY <3>1, <3>2 DEF NightsOf
      <2>2. CASE p \in {<<triple, 2>>, <<triple, 3>>}
        <3>1. g[triple] = 3
          OBVIOUS
        <3> QED
          BY <2>2, <3>1 DEF NightsOf
      <2> QED
        BY <2>1, <2>2
    <1>7. NightsOf(D, g) = C
      <2> HIDE DEF C
      <2> QED
        BY <1>5, <1>6
    <1> QED
      BY <1>4, <1>7

\* The nights of the days that a lists.
ListedNights(a, g, n) == UNION {{i} \X (1..g[a[i]]) : i \in 1..n}

\* The first days lie in a week from d on; days has them and the same ones of the
\* k - 1 weeks after, and a lists it in order.
Recurring(first, d, k, days, g, n, a) ==
    /\ first \subseteq d..(d + 6) /\ d \in Int /\ k \in Nat /\ days \in SUBSET Int
    /\ \A day : day \in days <=> \E e \in first : \E j \in 0..(k - 1) : day = e + 7 * j
    /\ g \in [Int -> {1, 3}] /\ \A e, j \in Int : g[e + 7 * j] = g[e]
    /\ n \in Nat /\ a \in [1..n -> days]
    /\ \A i, l \in 1..n : i < l => a[i] < a[l]
    /\ \A day \in days : \E i \in 1..n : a[i] = day
    /\ IsFiniteSet(NightsOf(first, g))

\* So are as many nights for each of some weeks of such days, however they are listed.
LEMMA WeekByWeek ==
    ASSUME NEW first, NEW d, NEW k, NEW days, NEW g, NEW n, NEW a,
           Recurring(first, d, k, days, g, n, a)
    PROVE  Cardinality(ListedNights(a, g, n)) = Cardinality(NightsOf(first, g)) * k
    <1> USE DEF Recurring
    <1> DEFINE Q == NightsOf(first, g)
               W == 0..(k - 1)
               N == UNION {{i} \X (1..g[a[i]]) : i \in 1..n}
               at(day) == CHOOSE i \in 1..n : a[i] = day
               h == [p \in Q \X W |-> <<at(p[1][1] + 7 * p[2]), p[1][2]>>]
    <1>1. \A day \in days : at(day) \in 1..n /\ a[at(day)] = day
      OBVIOUS
    <1>2. \A i \in 1..n : at(a[i]) = i
      <2> SUFFICES ASSUME NEW i \in 1..n PROVE at(a[i]) = i
        OBVIOUS
      <2>1. a[i] \in days /\ a[i] \in Int
        OBVIOUS
      <2>2. at(a[i]) \in 1..n /\ a[at(a[i])] = a[i]
        BY <1>1, <2>1
      <2> DEFINE l == at(a[i])
      <2> HIDE DEF l, at
      <2>3. l \in 1..n /\ a[l] = a[i]
        BY <2>2 DEF l
      <2>4. ~(l < i) /\ ~(i < l)
        BY <2>1, <2>3
      <2>5. l = i
        BY <2>3, <2>4
      <2> QED
        BY <2>5 DEF l
    <1> HIDE DEF at
    <1>3. \A x, m : <<x, m>> \in N <=> x \in 1..n /\ m \in 1..g[a[x]]
      OBVIOUS
    <1>4. \A e \in first : \A j \in W :
             e + 7 * j \in days /\ e + 7 * j \in Int /\ e \in Int /\ j \in Int
             /\ g[e + 7 * j] = g[e]
      OBVIOUS
    <1>5. \A e, f \in first : \A j, l \in W : e + 7 * j = f + 7 * l => e = f /\ j = l
      <2> SUFFICES ASSUME NEW e \in first, NEW f \in first, NEW j \in W, NEW l \in W,
                          e + 7 * j = f + 7 * l
                   PROVE  e = f /\ j = l
        OBVIOUS
      <2>1. e \in d..(d + 6) /\ f \in d..(d + 6) /\ e \in Int /\ f \in Int
            /\ j \in Int /\ l \in Int
        OBVIOUS
      <2> QED
        BY <2>1
    <1>6. \A p \in Q \X W : \E e \in first : \E m \in {1, 2, 3} : \E j \in W :
             p = <<<<e, m>>, j>> /\ m <= g[e]
      <2> SUFFICES ASSUME NEW p \in Q \X W
                   PROVE  \E e \in first : \E m \in {1, 2, 3} : \E j \in W :
                             p = <<<<e, m>>, j>> /\ m <= g[e]
        OBVIOUS
      <2> HIDE DEF Q, W
      <2>1. p[1] \in Q /\ p[2] \in W /\ p = <<p[1], p[2]>>
        OBVIOUS
      <2> DEFINE q == p[1]
      <2>2. q \in first \X {1, 2, 3} /\ q[2] <= g[q[1]]
        BY <2>1 DEF NightsOf, Q
      <2> HIDE DEF q
      <2>3. q[1] \in first /\ q[2] \in {1, 2, 3} /\ q = <<q[1], q[2]>>
        BY <2>2
      <2> QED
        BY <2>1, <2>2, <2>3 DEF q
    <1>7. \A e \in first : \A m \in {1, 2, 3} : \A j \in W :
             m <= g[e] => <<<<e, m>>, j>> \in Q \X W
      BY DEF NightsOf
    <1>8. N \subseteq (1..n) \X {1, 2, 3}
      <2> SUFFICES ASSUME NEW i \in 1..n, NEW q \in {i} \X (1..g[a[i]])
                   PROVE  q \in (1..n) \X {1, 2, 3}
        OBVIOUS
      <2>1. g[a[i]] \in {1, 3}
        OBVIOUS
      <2>2. 1..g[a[i]] \subseteq {1, 2, 3}
        BY <2>1
      <2> QED
        BY <2>2
    <1> HIDE DEF Q, N, W
    <1>9. h \in [Q \X W -> N]
      <2> SUFFICES ASSUME NEW p \in Q \X W PROVE h[p] \in N
        OBVIOUS
      <2>1. PICK e \in first : \E m \in {1, 2, 3} : \E j \in W :
               p = <<<<e, m>>, j>> /\ m <= g[e]
        BY <1>6
      <2>2. PICK m \in {1, 2, 3}, j \in W : p = <<<<e, m>>, j>> /\ m <= g[e]
        BY <2>1
      <2>3. h[p] = <<at(e + 7 * j), m>>
        BY <2>2
      <2>4. at(e + 7 * j) \in 1..n /\ g[a[at(e + 7 * j)]] = g[e]
        BY <1>1, <1>4
      <2>5. m \in 1..g[a[at(e + 7 * j)]]
        BY <2>2, <2>4
      <2> QED
        BY <1>3, <2>3, <2>4, <2>5
    <1>10. ASSUME NEW p \in Q \X W, NEW q \in Q \X W, h[p] = h[q]
           PROVE  p = q
      <2>1. PICK e \in first : \E m \in {1, 2, 3} : \E j \in W :
               p = <<<<e, m>>, j>> /\ m <= g[e]
        BY <1>6
      <2>2. PICK m \in {1, 2, 3}, j \in W : p = <<<<e, m>>, j>> /\ m <= g[e]
        BY <2>1
      <2>3. PICK f \in first : \E m1 \in {1, 2, 3} : \E l \in W :
               q = <<<<f, m1>>, l>> /\ m1 <= g[f]
        BY <1>6
      <2>4. PICK m1 \in {1, 2, 3}, l \in W : q = <<<<f, m1>>, l>> /\ m1 <= g[f]
        BY <2>3
      <2>5. h[p] = <<at(e + 7 * j), m>> /\ h[q] = <<at(f + 7 * l), m1>>
        BY <2>2, <2>4
      <2>6. at(e + 7 * j) = at(f + 7 * l) /\ m = m1
        <3> DEFINE x == at(e + 7 * j)
                   y == at(f + 7 * l)
        <3>1. <<x, m>> = <<y, m1>>
          BY <1>10, <2>5
        <3> HIDE DEF h, x, y
        <3>2. x = y /\ m = m1
          BY <3>1
        <3> QED
          BY <3>2 DEF x, y
      <2>7. e + 7 * j = f + 7 * l
        BY <1>1, <1>4, <2>6
      <2> QED
        BY <1>5, <2>2, <2>4, <2>6, <2>7
    <1>11. ASSUME NEW q \in N
           PROVE  \E p \in Q \X W : h[p] = q
      <2>1. PICK i \in 1..n, m \in {1, 2, 3} : q = <<i, m>>
        BY <1>8
      <2>2. m \in 1..g[a[i]]
        BY <1>3, <2>1
      <2>3. a[i] \in days
        OBVIOUS
      <2>4. PICK e \in first : \E j \in 0..(k - 1) : a[i] = e + 7 * j
        BY <2>3
      <2>5. PICK j \in W : a[i] = e + 7 * j
        BY <2>4 DEF W
      <2>6. m <= g[e]
        BY <1>4, <2>2, <2>5
      <2> DEFINE p == <<<<e, m>>, j>>
      <2>7. p \in Q \X W
        BY <1>7, <2>6
      <2>8. h[p] = <<at(e + 7 * j), m>>
        BY <2>7
      <2>9. at(e + 7 * j) = i
        BY <1>2, <2>5
      <2> QED
        BY <2>1, <2>7, <2>8, <2>9
    <1> HIDE DEF h
    <1>12. ExistsBijection(Q \X W, N)
      <2>1. h \in Bijection(Q \X W, N)
        BY <1>9, <1>10, <1>11 DEF Bijection, Injection, Surjection, IsInjective
      <2> QED
        BY <2>1 DEF ExistsBijection
    <1>13. IsFiniteSet(W) /\ Cardinality(W) = k
      BY FS_Interval DEF W
    <1>14. IsFiniteSet(Q \X W) /\ Cardinality(Q \X W) = Cardinality(Q) * Cardinality(W)
      BY <1>13, FS_Product DEF Q
    <1>15. Cardinality(N) = Cardinality(Q \X W)
      BY <1>12, <1>14, FS_Bijection
    <1> QED
      BY <1>13, <1>14, <1>15 DEF Q, N, ListedNights

\* The caller goes from a reading to another, each at the first instant that shows it,
\* and no change skips the reading a week after the first.
WholeWeeks ==
    /\ instant(schedule.zone, Clock(start)) = start
    /\ instant(schedule.zone, Clock(since)) = since
    /\ Shown(schedule.zone, Clock(start) + Week)

\* The days charged are those of the first week, and the same days of each week after.
LEMMA SameDaysEachWeek ==
    ASSUME NEW spec, NEW hours, Undisputed(spec, hours), hours.holidays = {},
           NEW x \in Int, NEW k \in Nat \ {0}, Shown(hours.zone, x),
           Shown(hours.zone, x + Week), Shown(hours.zone, x + k * Week)
    PROVE  LET at(w) == instant(hours.zone, w)
               first == RolloverDays(spec, hours, at(x), at(x + Week))
               days == RolloverDays(spec, hours, at(x), at(x + k * Week))
           IN  /\ \E d \in Int : first \subseteq d..(d + 6)
               /\ \A day : day \in days <=> \E e \in first : \E j \in 0..(k - 1) : day = e + 7 * j
    <1> DEFINE at(w) == instant(hours.zone, w)
               first == RolloverDays(spec, hours, at(x), at(x + Week))
               days == RolloverDays(spec, hours, at(x), at(x + k * Week))
               open(day) == is_open_at(hours, Moment(spec, day))
    <1>1. x + Week \in Int /\ x + k * Week \in Int /\ x + Week = x + 1 * Week
      BY WeekLength
    <1>2. PICK d \in Int : \A l \in Int : \A day \in Int :
             x < Moment(spec, day) /\ Moment(spec, day) <= x + l * Week
                <=> d <= day /\ day < d + 7 * l
      BY DaysOfWeeks
    <1>3. \A day \in Int : day \in first <=> d <= day /\ day < d + 7 /\ open(day)
      <2> SUFFICES ASSUME NEW day \in Int
                   PROVE  day \in first <=> d <= day /\ day < d + 7 /\ open(day)
        OBVIOUS
      <2>1. day \in first <=> x < Moment(spec, day) /\ Moment(spec, day) <= x + Week /\ open(day)
        BY <1>1, BetweenReadings
      <2>2. x < Moment(spec, day) /\ Moment(spec, day) <= x + Week
               <=> d <= day /\ day < d + 7 * 1
        BY <1>1, <1>2
      <2> HIDE DEF first, open
      <2> QED
        BY <2>1, <2>2
    <1>4. \A day \in Int : day \in days <=> d <= day /\ day < d + 7 * k /\ open(day)
      <2> SUFFICES ASSUME NEW day \in Int
                   PROVE  day \in days <=> d <= day /\ day < d + 7 * k /\ open(day)
        OBVIOUS
      <2>1. day \in days
               <=> x < Moment(spec, day) /\ Moment(spec, day) <= x + k * Week /\ open(day)
        BY <1>1, BetweenReadings
      <2>2. x < Moment(spec, day) /\ Moment(spec, day) <= x + k * Week
               <=> d <= day /\ day < d + 7 * k
        BY <1>2
      <2> HIDE DEF days, open
      <2> QED
        BY <2>1, <2>2
    <1>5. first \subseteq Int /\ days \subseteq Int
      BY DEF RolloverDays
    <1>6. \A day, j \in Int : open(day) => open(day + 7 * j)
      BY OpenEveryWeek
    <1> HIDE DEF first, days, open
    <1>7. first \subseteq d..(d + 6)
      BY <1>3, <1>5
    <1>8. ASSUME NEW day \in days
          PROVE  \E e \in first : \E j \in 0..(k - 1) : day = e + 7 * j
      <2> DEFINE j == (day - d) \div 7
                 r == (day - d) % 7
                 e == d + r
      <2>1. day \in Int /\ d <= day /\ day < d + 7 * k /\ open(day)
        BY <1>4, <1>5
      <2>2. j \in Int /\ r \in 0..6 /\ day - d = j * 7 + r
        BY <2>1
      <2> HIDE DEF j, r
      <2>3. j \in 0..(k - 1) /\ day = e + 7 * j /\ e \in Int /\ d <= e /\ e < d + 7
        BY <2>1, <2>2
      <2>4. e = day + 7 * (-j) /\ -j \in Int
        BY <2>1, <2>2, <2>3
      <2> HIDE DEF e
      <2>5. open(e)
        BY <1>6, <2>1, <2>4
      <2>6. e \in first
        BY <1>3, <2>3, <2>5
      <2> QED
        BY <2>3, <2>6
    <1>9. ASSUME NEW e \in first, NEW j \in 0..(k - 1)
          PROVE  e + 7 * j \in days
      <2>1. e \in Int /\ d <= e /\ e < d + 7 /\ open(e) /\ j \in Int
        BY <1>3, <1>5
      <2>2. open(e + 7 * j)
        BY <1>6, <2>1
      <2>3. e + 7 * j \in Int /\ d <= e + 7 * j /\ e + 7 * j < d + 7 * k
        BY <2>1
      <2> QED
        BY <1>4, <2>2, <2>3
    <1> QED
      BY <1>7, <1>8, <1>9 DEF first, days

\* AWeekIsSevenNights: the venue trades at the same rollovers every week, the triple
\* one among them just once, so each week of the charges counts as the first one does.
THEOREM SevenNightsAWeek ==
    Spec => [](Quiet(schedule) /\ RolloversShown(financing, schedule) /\ WholeWeeks
                  => AWeekIsSevenNights)
    <1>1. RInv => (Quiet(schedule) /\ RolloversShown(financing, schedule) /\ WholeWeeks
                      => AWeekIsSevenNights)
      <2> DEFINE x == Clock(start)
                 y == Clock(since)
                 held == y - x
                 k == held \div Week
                 at(w) == instant(schedule.zone, w)
                 week == Rollovers(start, at(x + Week))
                 N == UNION {{i} \X (1..charged[i].nights) : i \in DOMAIN charged}
      <2> SUFFICES ASSUME RInv, Quiet(schedule), RolloversShown(financing, schedule), WholeWeeks,
                          financing.model = "swap_points", held > 0, held % Week = 0,
                          schedule.holidays = {}, Cardinality(week) = 5,
                          \E t \in week :
                             weekday(date(Clock(t))) \in financing.triple_rollover_day
                   PROVE  Cardinality(N) = 7 * k
        BY DEF AWeekIsSevenNights
      <2> DEFINE first == RolloverDays(financing, schedule, start, at(x + Week))
                 days == RolloverDays(financing, schedule, start, since)
                 a == Ascending(days)
                 n == Cardinality(days)
                 g == [day \in Int |-> nights_on(financing, day)]
      <2>0. Undisputed(financing, schedule)
        BY ScheduleInUse, SwapInUse DEF SInv, RInv, Undisputed
      <2>1. start \in Int /\ since \in Int /\ x \in Int /\ y \in Int /\ IsZone(schedule.zone)
        <3>1. start \in Int /\ since \in Int /\ IsZone(schedule.zone)
          BY <2>0 DEF RInv, AsStored, Undisputed, ScheduleFits
        <3> QED
          BY <3>1, Reading DEF Clock, IsZone
      <2>2. k \in Nat \ {0} /\ y = x + k * Week
        <3>1. Week \in Nat \ {0} /\ held \in Int
          BY <2>1, WeekLength
        <3> HIDE DEF x, y
        <3>2. k \in Int /\ held = k * Week + (held % Week)
          BY <3>1, Division
        <3> DEFINE h == held
        <3> HIDE DEF k
        <3>3. k <= 0 => k * Week <= 0 * Week
          BY <3>1, <3>2, ProductOrder
        <3>4. k * Week \in Int
          BY <3>1, <3>2
        <3> QED
          BY <2>1, <3>1, <3>2, <3>3, <3>4
      <2>3. /\ Shown(schedule.zone, x) /\ at(x) = start
            /\ Shown(schedule.zone, x + k * Week) /\ at(x + k * Week) = since
            /\ Shown(schedule.zone, x + Week) /\ at(x + Week) \in Int
        <3>1. Shown(schedule.zone, x) /\ at(x) = start
          BY DEF WholeWeeks, Shown, Clock
        <3>2. Shown(schedule.zone, y) /\ at(y) = since
          BY DEF WholeWeeks, Shown, Clock
        <3>3. Shown(schedule.zone, x + Week)
          BY DEF WholeWeeks
        <3>4. x + Week \in Int
          BY <2>1, WeekLength
        <3>5. at(x + Week) \in Int
          BY <2>1, <3>3, <3>4, ShownInOrder
        <3> QED
          BY <2>2, <3>1, <3>2, <3>3, <3>5
      <2> HIDE DEF k, x, y
      <2>4. /\ \E d \in Int : first \subseteq d..(d + 6)
            /\ \A day : day \in days <=>
                  \E e \in first : \E j \in 0..(k - 1) : day = e + 7 * j
        BY <2>0, <2>1, <2>2, <2>3, SameDaysEachWeek
      <2>5. /\ first \in SUBSET Int /\ IsFiniteSet(first)
            /\ days \in SUBSET Int /\ IsFiniteSet(days)
        BY <2>0, <2>1, <2>3, DaysOfStretch
      <2>6. \A t : t \in week <=> \E day \in first : t = at(Moment(financing, day))
        BY <2>0, <2>1, <2>3, RolloversByDay
      <2> HIDE DEF week
      <2>7. Cardinality(first) = 5
        <3> DEFINE f == [day \in first |-> at(Moment(financing, day))]
        <3>1. \A day \in first : f[day] \in week
          BY <2>6
        <3>2. \A c, d \in first : f[c] = f[d] => c = d
          <4>1. \A c, d \in Int : c < d <=> at(Moment(financing, c)) < at(Moment(financing, d))
            BY <2>0, MomentsInOrder
          <4>2. \A c \in Int : at(Moment(financing, c)) \in Int
            BY <2>0, MomentOf
          <4> SUFFICES ASSUME NEW c \in first, NEW d \in first, f[c] = f[d] PROVE c = d
            OBVIOUS
          <4>3. c \in Int /\ d \in Int /\ at(Moment(financing, c)) = at(Moment(financing, d))
            BY <2>5
          <4>4. ~(c < d) /\ ~(d < c)
            <5> HIDE DEF at
            <5> QED
              BY <4>1, <4>2, <4>3
          <4> QED
            BY <4>3, <4>4
        <3>3. \A t \in week : \E day \in first : f[day] = t
          BY <2>6
        <3> HIDE DEF first
        <3>4. f \in [first -> week]
          BY <3>1
        <3> HIDE DEF f
        <3>5. f \in Bijection(first, week)
          BY <3>2, <3>3, <3>4 DEF Bijection, Injection, Surjection, IsInjective
        <3> QED
          BY <2>5, <3>5, FS_Bijection DEF ExistsBijection
      <2>8. g \in [Int -> {1, 3}] /\ \A e, j \in Int : g[e + 7 * j] = g[e]
        <3>1. \A e, j \in Int : e + 7 * j \in Int /\ weekday(e + 7 * j) = weekday(e)
          BY WeeksLater
        <3> QED
          BY <3>1 DEF nights_on
      <2>9. PICK triple \in first : weekday(triple) \in financing.triple_rollover_day
        <3>1. PICK t \in week : weekday(date(Clock(t))) \in financing.triple_rollover_day
          OBVIOUS
        <3>2. PICK day \in first : t = at(Moment(financing, day))
          BY <2>6, <3>1
        <3>3. day \in Int
          BY <2>5
        <3>4. date(Clock(t)) = day
          BY <2>0, <3>2, <3>3, MomentOf DEF Clock, Shown
        <3> QED
          BY <3>1, <3>4
      <2>10. financing.triple_rollover_day = {weekday(triple)}
        BY <2>9, SwapInUse DEF IsOptional, RInv
      <2>11. \A day \in first : g[day] = 3 <=> day = triple
        <3> SUFFICES ASSUME NEW day \in first PROVE g[day] = 3 <=> day = triple
          OBVIOUS
        <3>1. PICK d \in Int : first \subseteq d..(d + 6)
          BY <2>4
        <3>2. day \in d..(d + 6) /\ triple \in d..(d + 6) /\ day \in Int /\ triple \in Int
          BY <2>5, <3>1
        <3>3. g[day] = 3 <=> weekday(day) = weekday(triple)
          BY <2>10, <3>2 DEF nights_on
        <3>4. weekday(day) = weekday(triple) => day = triple
          BY <3>2 DEF weekday, DAYS_IN_WEEK
        <3> QED
          BY <3>3, <3>4
      <2> HIDE DEF first, days, g
      <2>12. IsFiniteSet(NightsOf(first, g)) /\ Cardinality(NightsOf(first, g)) = 7
        BY <2>5, <2>7, <2>8, <2>11, SevenNights
      <2>13. /\ n \in Nat /\ a \in [1..n -> days]
             /\ \A i, j \in 1..n : i < j => a[i] < a[j]
             /\ \A day \in days : \E i \in 1..n : a[i] = day
        <3>1. /\ n \in Nat /\ a \in Seq(days) /\ Len(a) = n
              /\ \A i, j \in 1..n : i < j => a[i] < a[j]
              /\ \A day \in days : \E i \in 1..n : a[i] = day
          BY <2>5, InOrderOnce
        <3> HIDE DEF a, n
        <3> QED
          BY <3>1, LenProperties
      <2>14. N = UNION {{i} \X (1..g[a[i]]) : i \in 1..n}
        <3>1. charged = Rolled(financing, schedule, days)
          BY <2>0 DEF RInv, ChargesRollovers, days
        <3>2. /\ DOMAIN charged = 1..n
              /\ \A i \in 1..n : a[i] \in days
                                 /\ charged[i] = Rollover(financing, schedule, a[i])
          BY <2>0, <2>5, <3>1, RolledIs
        <3>3. \A i \in 1..n : charged[i].nights = g[a[i]]
          <4> HIDE DEF a, n
          <4>1. \A day \in Int : Rollover(financing, schedule, day).nights = g[day]
            BY DEF Rollover, g
          <4> QED
            BY <2>5, <3>2, <4>1
        <3> HIDE DEF a, n
        <3> QED
          BY <3>2, <3>3
      <2> HIDE DEF a, n, N
      <2>15. PICK d \in Int : first \subseteq d..(d + 6)
        BY <2>4
      <2>16. Cardinality(N) = Cardinality(NightsOf(first, g)) * k
        <3>1. \A day : day \in days <=> \E e \in first : \E j \in 0..(k - 1) : day = e + 7 * j
          BY <2>4
        <3>2. Recurring(first, d, k, days, g, n, a)
          BY <2>2, <2>5, <2>8, <2>12, <2>13, <2>15, <3>1 DEF Recurring
        <3>3. Cardinality(ListedNights(a, g, n)) = Cardinality(NightsOf(first, g)) * k
          BY <3>2, WeekByWeek
        <3> QED
          BY <2>14, <3>3 DEF ListedNights
      <2> QED
        BY <2>2, <2>12, <2>16
    <1> QED
      BY <1>1, RolloverInvariance, PTL
=============================================================================
