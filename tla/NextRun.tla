-------------------------------- MODULE NextRun --------------------------------
(***************************************************************************)
(* compute_next_run: when a schedule runs next, and the chain of dates that *)
(* results when the scheduler looks late. Dates are numbered days, instants *)
(* are UTC. The calendar and the zone (datetime, calendar, zoneinfo) are    *)
(* constants; their assumptions are what the algorithm needs of them, clock *)
(* changes included.                                                        *)
(***************************************************************************)
EXTENDS Integers

CONSTANTS
  Instants,      \* the instants considered for `after`
  Dates,         \* the days their results may fall on
  RunTimes,      \* schedule.run_time
  Monthdays,     \* schedule.day_of_month: the form allows 1..28, the admin more
  LocalDate(_),  \* timezone.localtime(i).date()
  Aware(_, _),   \* timezone.make_aware(datetime.combine(day, run_time), tz)
  MonthOf(_),    \* the month of a day, months being numbered in order
  FirstDay(_),   \* the first day of a month
  Length(_),     \* calendar.monthrange(year, month)[1]
  Raises         \* datetime.date refuses the day of the month

Weekdays == 0..6

\* Day 0 of the numbering is a Monday, as date.weekday() == 0.
Weekday(d) == d % 7

DayOf(d) == d - FirstDay(MonthOf(d)) + 1

Schedules ==
  [frequency : {"daily"},   time : RunTimes] \cup
  [frequency : {"weekly"},  time : RunTimes, weekday : Weekdays] \cup
  [frequency : {"monthly"}, time : RunTimes, day : Monthdays]

Horizon == 61  \* bound: two whole months, more than any schedule waits

\* Months are intervals of days, each at the end of the one before.
ASSUME CalendarAssumption ==
  /\ Dates \subseteq Int
  /\ Monthdays \subseteq Nat
  /\ \A d \in Dates :
       /\ MonthOf(d) \in Int
       /\ FirstDay(MonthOf(d)) \in Int
       /\ Length(MonthOf(d)) \in 28..31 /\ Length(MonthOf(d) + 1) \in 28..31
       /\ FirstDay(MonthOf(d)) <= d /\ d < FirstDay(MonthOf(d)) + Length(MonthOf(d))
       /\ FirstDay(MonthOf(d) + 1) = FirstDay(MonthOf(d)) + Length(MonthOf(d))
  /\ \A c, d \in Dates :
       /\ c <= d => MonthOf(c) <= MonthOf(d)
       /\ \A m \in {MonthOf(d), MonthOf(d) + 1} :
            FirstDay(m) <= c /\ c < FirstDay(m) + Length(m) => MonthOf(c) = m

\* A run time of an earlier local date is past, one of a later date is ahead,
\* even where the clocks change.
ASSUME ZoneAssumption ==
  /\ Instants \subseteq Int
  /\ \A i \in Instants :
       /\ LocalDate(i) \in Dates
       /\ \A k \in 0..Horizon : FirstDay(MonthOf(LocalDate(i))) + k \in Dates
  /\ \A t \in RunTimes, d \in Dates : Aware(d, t) \in Int
  /\ \A t \in RunTimes, i \in Instants, d \in Dates :
       /\ d < LocalDate(i) => Aware(d, t) <= i
       /\ d > LocalDate(i) => Aware(d, t) > i

\* A run time falls on the day it was combined with: the clocks are not moved
\* across midnight, nor is a run time that they skip.
ASSUME RoundTripAssumption ==
  \A t \in RunTimes, d \in Dates : LocalDate(Aware(d, t)) = d

ASSUME RaisesAssumption == Raises \notin Int

--------------------------------------------------------------------------------
(* Seeded faults; the specification uses none of them. *)

\* `<` where the code has `<=`: a run time that is exactly now is kept.
FaultDailyStrict(s, after) ==
  LET today == LocalDate(after) IN
  IF Aware(today, s.time) < after THEN today + 1 ELSE today

\* The day is not clamped to the length of the month.
FaultNoClamp(s, m) == FirstDay(m) + s.day - 1

--------------------------------------------------------------------------------
(* compute_next_run *)

\* Today's run time if it is still ahead, else tomorrow's.
DailyDate(s, after) ==
  LET today == LocalDate(after) IN
  IF Aware(today, s.time) <= after THEN today + 1 ELSE today

\* The next day of the week, today included; if that has passed, a week later.
WeeklyDate(s, after) ==
  LET today == LocalDate(after)
      ahead == (s.weekday - Weekday(today)) % 7
  IN IF Aware(today + ahead, s.time) <= after THEN today + ahead + 7
                                              ELSE today + ahead

\* A day past the end of the month becomes its last day.
InMonth(s, m) == FirstDay(m) + (IF s.day < Length(m) THEN s.day ELSE Length(m)) - 1

\* The loop over 36 months stops at the first candidate that is ahead.
Tried(s, after) ==
  {k \in 0..35 : /\ Aware(InMonth(s, MonthOf(LocalDate(after)) + k), s.time) > after
                 /\ \A i \in 0..(k - 1) :
                      Aware(InMonth(s, MonthOf(LocalDate(after)) + i), s.time) <= after}

MonthlyDate(s, after) ==
  InMonth(s, MonthOf(LocalDate(after)) + (CHOOSE k \in Tried(s, after) : TRUE))

Refused(s) == s.frequency = "monthly" /\ s.day = 0

NextDate(s, after) ==
  CASE s.frequency = "daily"   -> DailyDate(s, after)
    [] s.frequency = "weekly"  -> WeeklyDate(s, after)
    [] s.frequency = "monthly" -> MonthlyDate(s, after)

ComputeNextRun(s, after) ==
  IF Refused(s) THEN Raises ELSE Aware(NextDate(s, after), s.time)

--------------------------------------------------------------------------------
(* What the schedule asks for, stated without the algorithm. *)

\* The dates a schedule names; a month too short is served on its last day.
Named(s, d) ==
  CASE s.frequency = "daily"   -> TRUE
    [] s.frequency = "weekly"  -> Weekday(d) = s.weekday
    [] s.frequency = "monthly" ->
         \/ DayOf(d) = s.day
         \/ DayOf(d) = Length(MonthOf(d)) /\ s.day > DayOf(d)

IsFirstAfter(s, after, d) ==
  /\ Named(s, d)
  /\ Aware(d, s.time) > after
  /\ \A c \in Dates : Named(s, c) /\ Aware(c, s.time) > after => d <= c

--------------------------------------------------------------------------------
(* The dates of one schedule, from the save that enables it on. *)

VARIABLES
  schedule,  \* what was saved
  now,       \* the `after` of the last computation
  next       \* next_run_at

dateVars == <<schedule, now, next>>

CONSTANT Late  \* bound: how late, after next_run_at, the scheduler looks

\* equipment_schedule: compute_next_run(saved), from the time of the save.
DInit ==
  /\ schedule \in Schedules
  /\ now \in Instants
  /\ next = ComputeNextRun(schedule, now)

\* process_due_schedules finds it due and computes from the time it looked.
Look(i) ==
  /\ next # Raises
  /\ next <= i /\ i <= next + Late
  /\ now' = i
  /\ next' = ComputeNextRun(schedule, i)
  /\ UNCHANGED schedule

DNext == \E i \in Instants : Look(i)

DSpec == DInit /\ [][DNext]_dateVars

\* next_run_at is the run time of the first date, in the zone of the server,
\* that the schedule names and whose run time is still ahead: none is skipped
\* and none is past, at the ends of months and at clock changes too.
NextIsFirst ==
  ~Refused(schedule) =>
    \E d \in Dates : next = Aware(d, schedule.time) /\ IsFirstAfter(schedule, now, d)

Period(d) ==
  CASE schedule.frequency = "daily"   -> d
    [] schedule.frequency = "weekly"  -> d \div 7
    [] schedule.frequency = "monthly" -> MonthOf(d)

\* From one date to the next a schedule enters a later day, week or month, and
\* the very next one if the scheduler looked before the period of the date was
\* over: the hour that a clock change repeats does not run it twice.
OncePerPeriod ==
  [][LET this == Period(LocalDate(next))
         then == Period(LocalDate(next'))
     IN  next' # Raises => /\ this < then
                           /\ Period(LocalDate(now')) = this => then = this + 1]_dateVars

================================================================================
