----------------------------- MODULE NextRunProofs -----------------------------
(***************************************************************************)
(* compute_next_run returns the first date the schedule names, for every   *)
(* schedule, instant, calendar and zone that meet the assumptions of       *)
(* NextRun. One lemma per frequency; the invariant of DSpec follows.       *)
(***************************************************************************)
EXTENDS NextRun, TLAPS

\* Each computed date is kept with the schedule and the time it came from.
Computed ==
  /\ schedule \in Schedules
  /\ now \in Instants
  /\ next = ComputeNextRun(schedule, now)

\* A run time still ahead is not of a day before today, and one of a later day
\* is ahead: today's is the only one compute_next_run has to compare.
LEMMA OnlyTodayIsOpen ==
  ASSUME NEW i \in Instants, NEW t \in RunTimes, NEW c \in Dates
  PROVE  /\ Aware(c, t) > i => LocalDate(i) <= c
         /\ LocalDate(i) < c => Aware(c, t) > i
<1>1. i \in Int /\ c \in Int /\ LocalDate(i) \in Int /\ Aware(c, t) \in Int
  BY CalendarAssumption, ZoneAssumption
<1>2. /\ c < LocalDate(i) => Aware(c, t) <= i
      /\ c > LocalDate(i) => Aware(c, t) > i
  BY ZoneAssumption
<1> QED BY <1>1, <1>2

\* The two weeks from today are dates of the calendar.
LEMMA FortnightAhead ==
  ASSUME NEW i \in Instants, NEW k \in 0..13
  PROVE  LocalDate(i) + k \in Dates
<1> DEFINE first == FirstDay(MonthOf(LocalDate(i)))
           gone  == LocalDate(i) - first
<1>1. LocalDate(i) \in Dates /\ LocalDate(i) \in Int
  BY CalendarAssumption, ZoneAssumption
<1>2. first \in Int /\ gone \in 0..30
  BY <1>1, CalendarAssumption
<1>3. gone + k \in 0..Horizon
  BY <1>2 DEF Horizon
<1>4. first + (gone + k) \in Dates
  BY <1>3, ZoneAssumption
<1>5. first + (gone + k) = LocalDate(i) + k
  BY <1>1, <1>2
<1> QED BY <1>4, <1>5

\* Every day: today, or tomorrow when today's run time has passed.
LEMMA DailyIsFirst ==
  ASSUME NEW s \in Schedules, s.frequency = "daily", s.time \in RunTimes,
         NEW i \in Instants
  PROVE  DailyDate(s, i) \in Dates /\ IsFirstAfter(s, i, DailyDate(s, i))
<1> DEFINE today == LocalDate(i)
<1>1. today \in Dates /\ today + 1 \in Dates
  BY FortnightAhead, ZoneAssumption
<1>2. Dates \subseteq Int /\ i \in Int /\ today \in Int /\ Aware(today, s.time) \in Int
  BY <1>1, CalendarAssumption, ZoneAssumption
<1>3. \A d \in Dates : Named(s, d)
  BY DEF Named
<1>4. CASE Aware(today, s.time) <= i
  <2>1. DailyDate(s, i) = today + 1
    BY <1>4 DEF DailyDate
  <2>2. Aware(today + 1, s.time) > i
    <3>1. today < today + 1
      BY <1>2
    <3> QED BY <1>1, <3>1, OnlyTodayIsOpen
  <2>3. \A c \in Dates : Aware(c, s.time) > i => today + 1 <= c
    <3> SUFFICES ASSUME NEW c \in Dates, Aware(c, s.time) > i
                 PROVE  today + 1 <= c
      OBVIOUS
    <3>1. today <= c
      BY OnlyTodayIsOpen
    <3>2. c # today
      BY <1>2, <1>4
    <3>3. c \in Int /\ today \in Int
      BY <1>1, <1>2
    <3> QED BY <3>1, <3>2, <3>3
  <2> QED BY <1>1, <1>3, <2>1, <2>2, <2>3 DEF IsFirstAfter
<1>5. CASE ~(Aware(today, s.time) <= i)
  <2>1. DailyDate(s, i) = today
    BY <1>5 DEF DailyDate
  <2>2. Aware(today, s.time) > i
    BY <1>2, <1>5
  <2> QED BY <1>1, <1>3, <2>1, <2>2, OnlyTodayIsOpen DEF IsFirstAfter
<1> QED BY <1>4, <1>5

\* Every week: the day `ahead` is the first of its weekday from today on, and
\* the one a week later is the next.
LEMMA WeeklyIsFirst ==
  ASSUME NEW s \in Schedules, s.frequency = "weekly", s.time \in RunTimes,
         s.weekday \in Weekdays, NEW i \in Instants
  PROVE  WeeklyDate(s, i) \in Dates /\ IsFirstAfter(s, i, WeeklyDate(s, i))
<1> DEFINE today == LocalDate(i)
           ahead == (s.weekday - Weekday(today)) % 7
           first == today + ahead
<1>1. Dates \subseteq Int /\ i \in Int /\ today \in Int
  BY CalendarAssumption, ZoneAssumption
<1>2. ahead \in 0..6
  BY <1>1 DEF Weekday, Weekdays
<1>3. first \in Dates /\ first + 7 \in Dates
  <2>1. ahead \in 0..13 /\ ahead + 7 \in 0..13
    BY <1>2
  <2>2. today + ahead \in Dates /\ today + (ahead + 7) \in Dates
    BY <2>1, FortnightAhead
  <2>3. today + (ahead + 7) = first + 7
    BY <1>1, <1>2
  <2> QED BY <2>2, <2>3
<1>4. Weekday(first) = s.weekday /\ Weekday(first + 7) = s.weekday
  BY <1>1 DEF Weekday, Weekdays
<1>5. ASSUME NEW c \in Int, Weekday(c) = s.weekday, today <= c
      PROVE  first <= c /\ (c # first => first + 7 <= c)
  BY <1>1, <1>5 DEF Weekday, Weekdays
<1>6. Aware(first, s.time) \in Int /\ (Aware(first, s.time) > i => today <= first)
  BY <1>3, ZoneAssumption, OnlyTodayIsOpen
<1>7. \A d \in Dates : Named(s, d) <=> Weekday(d) = s.weekday
  BY DEF Named
<1>8. CASE Aware(first, s.time) <= i
  <2>1. WeeklyDate(s, i) = first + 7
    BY <1>8 DEF WeeklyDate
  <2>2. Aware(first + 7, s.time) > i
    <3>1. today < first + 7
      BY <1>1, <1>2
    <3> QED BY <1>3, <3>1, OnlyTodayIsOpen
  <2>3. \A c \in Dates : Weekday(c) = s.weekday /\ Aware(c, s.time) > i => first + 7 <= c
    <3> SUFFICES ASSUME NEW c \in Dates, Weekday(c) = s.weekday, Aware(c, s.time) > i
                 PROVE  first + 7 <= c
      OBVIOUS
    <3>1. today <= c
      BY OnlyTodayIsOpen
    <3>2. c # first
      BY <1>1, <1>6, <1>8
    <3> QED BY <1>1, <1>5, <3>1, <3>2
  <2> QED BY <1>3, <1>4, <1>7, <2>1, <2>2, <2>3 DEF IsFirstAfter
<1>9. CASE ~(Aware(first, s.time) <= i)
  <2>1. WeeklyDate(s, i) = first
    BY <1>9 DEF WeeklyDate
  <2>2. Aware(first, s.time) > i
    BY <1>1, <1>6, <1>9
  <2>3. \A c \in Dates : Weekday(c) = s.weekday /\ Aware(c, s.time) > i => first <= c
    BY <1>1, <1>5, OnlyTodayIsOpen
  <2> QED BY <1>3, <1>4, <1>7, <2>1, <2>2, <2>3 DEF IsFirstAfter
<1> QED BY <1>8, <1>9

--------------------------------------------------------------------------------
(* Every month *)

\* The dates of a later month come later.
LEMMA MonthsAreOrdered ==
  ASSUME NEW c \in Dates, NEW d \in Dates, MonthOf(c) < MonthOf(d)
  PROVE  c < d
<1>1. c \in Int /\ d \in Int /\ MonthOf(c) \in Int /\ MonthOf(d) \in Int
  BY CalendarAssumption
<1>2. d <= c => MonthOf(d) <= MonthOf(c)
  BY CalendarAssumption
<1> QED BY <1>1, <1>2

\* The month of an instant, as a number.
LEMMA ThisMonth ==
  ASSUME NEW i \in Instants
  PROVE  /\ LocalDate(i) \in Dates /\ LocalDate(i) \in Int
         /\ MonthOf(LocalDate(i)) \in Int
         /\ MonthOf(LocalDate(i)) + 0 = MonthOf(LocalDate(i))
<1>1. LocalDate(i) \in Dates
  BY ZoneAssumption
<1>2. LocalDate(i) \in Int /\ MonthOf(LocalDate(i)) \in Int
  BY <1>1, CalendarAssumption
<1> QED BY <1>1, <1>2

\* The candidate of this month, or of the next, is a date of that month, and
\* the one date of that month that the schedule names.
LEMMA CandidateOfMonth ==
  ASSUME NEW s \in Schedules, s.frequency = "monthly", s.day \in Nat \ {0},
         NEW i \in Instants, NEW k \in {0, 1}
  PROVE  LET m == MonthOf(LocalDate(i)) + k
             d == InMonth(s, m)
         IN  /\ d \in Dates /\ MonthOf(d) = m /\ Named(s, d)
             /\ \A c \in Dates : MonthOf(c) = m /\ Named(s, c) => c = d
<1> DEFINE today == LocalDate(i)
           this  == MonthOf(today)
           m     == this + k
           d     == InMonth(s, m)
           day   == IF s.day < Length(m) THEN s.day ELSE Length(m)
<1>1. today \in Dates /\ today \in Int
  BY CalendarAssumption, ZoneAssumption
<1>2. /\ this \in Int /\ FirstDay(this) \in Int
      /\ Length(this) \in 28..31 /\ Length(this + 1) \in 28..31
      /\ FirstDay(this + 1) = FirstDay(this) + Length(this)
  BY <1>1, CalendarAssumption
<1>3. /\ m \in Int /\ FirstDay(m) \in Int /\ Length(m) \in 28..31
      /\ FirstDay(m) - FirstDay(this) \in 0..31
      /\ k = 0 => FirstDay(m) = FirstDay(this)
  <2>1. CASE k = 0
    <3>1. m = this
      BY <1>2, <2>1
    <3> QED BY <1>2, <2>1, <3>1
  <2>2. CASE k = 1
    BY <1>2, <2>2
  <2> QED BY <2>1, <2>2
<1>4. day \in 1..31 /\ day <= Length(m) /\ d = FirstDay(m) + day - 1
  BY <1>3 DEF InMonth
<1>5. d \in Dates
  <2> DEFINE gap == FirstDay(m) - FirstDay(this) + day - 1
  <2>1. gap \in 0..Horizon /\ FirstDay(this) + gap = d
    BY <1>2, <1>3, <1>4 DEF Horizon
  <2>2. FirstDay(this) + gap \in Dates
    BY <2>1, ZoneAssumption
  <2> QED BY <2>1, <2>2
<1>6. MonthOf(d) = m
  <2>1. FirstDay(m) <= d /\ d < FirstDay(m) + Length(m)
    BY <1>3, <1>4
  <2>2. m \in {MonthOf(today), MonthOf(today) + 1}
    <3>1. this + 0 = this
      BY <1>2
    <3> QED BY <3>1
  <2> QED BY <1>1, <1>5, <2>1, <2>2, CalendarAssumption
<1>7. DayOf(d) = day
  BY <1>3, <1>4, <1>6 DEF DayOf
<1>8. Named(s, d)
  BY <1>3, <1>4, <1>6, <1>7 DEF Named
<1>9. ASSUME NEW c \in Dates, MonthOf(c) = m, Named(s, c)
      PROVE  c = d
  <2>1. /\ c \in Int /\ FirstDay(m) <= c /\ c < FirstDay(m) + Length(m)
        /\ DayOf(c) = c - FirstDay(m) + 1
    BY <1>9, CalendarAssumption DEF DayOf
  <2>2. DayOf(c) = s.day \/ (DayOf(c) = Length(m) /\ s.day > DayOf(c))
    BY <1>9 DEF Named
  <2>3. DayOf(c) = day
    BY <1>3, <2>1, <2>2
  <2> QED BY <1>3, <1>4, <2>1, <2>3
<1> QED BY <1>5, <1>6, <1>8, <1>9

\* The loop over the months stops at this month or at the next one.
LEMMA LoopStops ==
  ASSUME NEW s \in Schedules, s.frequency = "monthly", s.day \in Nat \ {0},
         s.time \in RunTimes, NEW i \in Instants
  PROVE  LET this == MonthOf(LocalDate(i))
         IN  MonthlyDate(s, i) = IF Aware(InMonth(s, this), s.time) > i
                                 THEN InMonth(s, this) ELSE InMonth(s, this + 1)
<1> DEFINE this == MonthOf(LocalDate(i))
           ahead(k) == Aware(InMonth(s, this + k), s.time) > i
<1>1. LocalDate(i) \in Dates /\ LocalDate(i) \in Int /\ this \in Int /\ this + 0 = this
  BY ThisMonth
<1>2. Tried(s, i) = {k \in 0..35 : ahead(k) /\ \A j \in 0..(k - 1) :
                       Aware(InMonth(s, this + j), s.time) <= i}
  BY DEF Tried
<1>3. i \in Int /\ Aware(InMonth(s, this), s.time) \in Int
              /\ Aware(InMonth(s, this + 1), s.time) \in Int
  BY <1>1, CandidateOfMonth, ZoneAssumption
<1>4. ahead(1)
  <2>1. InMonth(s, this + 1) \in Dates /\ MonthOf(InMonth(s, this + 1)) = this + 1
    BY CandidateOfMonth
  <2>2. LocalDate(i) < InMonth(s, this + 1)
    <3>1. MonthOf(LocalDate(i)) < MonthOf(InMonth(s, this + 1))
      BY <1>1, <2>1
    <3> QED BY <1>1, <2>1, <3>1, MonthsAreOrdered
  <2> QED BY <2>1, <2>2, OnlyTodayIsOpen
<1>5. CASE Aware(InMonth(s, this), s.time) > i
  <2>1. 0 \in Tried(s, i)
    BY <1>1, <1>2, <1>5
  <2>2. \A k \in Tried(s, i) : k = 0
    BY <1>1, <1>2, <1>3, <1>5
  <2>3. (CHOOSE k \in Tried(s, i) : TRUE) \in Tried(s, i)
    BY <2>1
  <2>4. (CHOOSE k \in Tried(s, i) : TRUE) = 0
    BY <2>2, <2>3
  <2>5. MonthlyDate(s, i) = InMonth(s, this + 0)
    BY <2>4, Zenon DEF MonthlyDate
  <2> QED BY <1>1, <1>5, <2>5
<1>6. CASE ~(Aware(InMonth(s, this), s.time) > i)
  <2>1. 1 \in Tried(s, i)
    BY <1>1, <1>2, <1>3, <1>4, <1>6
  <2>2. \A k \in Tried(s, i) : k = 1
    <3> SUFFICES ASSUME NEW k \in Tried(s, i), k # 1
                 PROVE  FALSE
      OBVIOUS
    <3>1. k \in 0..35 /\ ahead(k)
      BY <1>2
    <3>2. k # 0
      BY <1>1, <1>6, <3>1
    <3>3. 1 \in 0..(k - 1)
      BY <3>1, <3>2
    <3>4. Aware(InMonth(s, this + 1), s.time) <= i
      BY <1>2, <3>3
    <3> QED BY <1>3, <1>4, <3>4
  <2>3. (CHOOSE k \in Tried(s, i) : TRUE) \in Tried(s, i)
    BY <2>1
  <2>4. (CHOOSE k \in Tried(s, i) : TRUE) = 1
    BY <2>2, <2>3
  <2>5. MonthlyDate(s, i) = InMonth(s, this + 1)
    BY <2>4, Zenon DEF MonthlyDate
  <2> QED BY <1>1, <1>6, <2>5
<1> QED BY <1>5, <1>6

\* Every month: this month's date if it is ahead, else next month's.
LEMMA MonthlyIsFirst ==
  ASSUME NEW s \in Schedules, s.frequency = "monthly", s.day \in Nat \ {0},
         s.time \in RunTimes, NEW i \in Instants
  PROVE  MonthlyDate(s, i) \in Dates /\ IsFirstAfter(s, i, MonthlyDate(s, i))
<1> DEFINE today == LocalDate(i)
           this  == MonthOf(today)
           d0    == InMonth(s, this)
           d1    == InMonth(s, this + 1)
<1>1. today \in Dates /\ today \in Int /\ this \in Int /\ this + 0 = this
  BY ThisMonth
<1>2. /\ d0 \in Dates /\ MonthOf(d0) = this /\ Named(s, d0)
      /\ \A c \in Dates : MonthOf(c) = this /\ Named(s, c) => c = d0
  BY <1>1, CandidateOfMonth
<1>3. /\ d1 \in Dates /\ MonthOf(d1) = this + 1 /\ Named(s, d1)
      /\ \A c \in Dates : MonthOf(c) = this + 1 /\ Named(s, c) => c = d1
  BY CandidateOfMonth
<1>4. /\ i \in Int /\ Aware(d0, s.time) \in Int /\ Aware(d1, s.time) \in Int
      /\ Dates \subseteq Int /\ \A c \in Dates : MonthOf(c) \in Int
  BY <1>2, <1>3, CalendarAssumption, ZoneAssumption
<1>5. ASSUME NEW c \in Dates, Named(s, c), Aware(c, s.time) > i, c # d0
      PROVE  d1 <= c
  <2>1. today <= c
    BY <1>5, OnlyTodayIsOpen
  <2>2. this <= MonthOf(c)
    BY <1>1, <2>1, CalendarAssumption
  <2>3. MonthOf(c) # this
    BY <1>2, <1>5
  <2>4. CASE MonthOf(c) = this + 1
    BY <1>3, <1>4, <1>5, <2>4
  <2>5. CASE MonthOf(c) > this + 1
    <3>1. c \in Int /\ d1 \in Int /\ MonthOf(d1) < MonthOf(c)
      BY <1>1, <1>3, <1>4, <2>5
    <3> QED BY <1>3, <3>1, MonthsAreOrdered
  <2> QED BY <1>1, <1>4, <2>2, <2>3, <2>4, <2>5
<1>6. d0 < d1
  <2>1. MonthOf(d0) < MonthOf(d1)
    BY <1>1, <1>2, <1>3
  <2> QED BY <1>2, <1>3, <2>1, MonthsAreOrdered
<1>7. CASE Aware(d0, s.time) > i
  <2>1. MonthlyDate(s, i) = d0
    BY <1>7, LoopStops
  <2>2. ASSUME NEW c \in Dates, Named(s, c), Aware(c, s.time) > i
        PROVE  d0 <= c
    <3>1. c \in Int /\ d0 \in Int /\ d1 \in Int
      BY <1>2, <1>3, <1>4
    <3>2. c # d0 => d1 <= c
      BY <1>5, <2>2
    <3> QED BY <1>6, <3>1, <3>2
  <2> QED BY <1>2, <1>7, <2>1, <2>2 DEF IsFirstAfter
<1>8. CASE ~(Aware(d0, s.time) > i)
  <2>1. MonthlyDate(s, i) = d1
    BY <1>8, LoopStops
  <2>2. Aware(d1, s.time) > i
    <3>1. today < d1
      <4>1. MonthOf(today) < MonthOf(d1)
        BY <1>1, <1>3
      <4> QED BY <1>1, <1>3, <4>1, MonthsAreOrdered
    <3> QED BY <1>3, <3>1, OnlyTodayIsOpen
  <2>3. \A c \in Dates : Named(s, c) /\ Aware(c, s.time) > i => d1 <= c
    BY <1>5, <1>8
  <2> QED BY <1>3, <2>1, <2>2, <2>3 DEF IsFirstAfter
<1> QED BY <1>7, <1>8

--------------------------------------------------------------------------------
(* compute_next_run, and the dates of a schedule *)

\* Whatever the schedule, unless its day of the month is 0.
LEMMA NextDateIsFirst ==
  ASSUME NEW s \in Schedules, ~Refused(s), NEW i \in Instants
  PROVE  NextDate(s, i) \in Dates /\ IsFirstAfter(s, i, NextDate(s, i))
<1>1. s.time \in RunTimes
  BY DEF Schedules
<1>2. CASE s.frequency = "daily"
  BY <1>1, <1>2, DailyIsFirst DEF NextDate
<1>3. CASE s.frequency = "weekly"
  <2>1. s.weekday \in Weekdays
    BY <1>3 DEF Schedules
  <2>2. NextDate(s, i) = WeeklyDate(s, i)
    BY <1>3 DEF NextDate
  <2> QED BY <1>1, <1>3, <2>1, <2>2, WeeklyIsFirst
<1>4. CASE s.frequency = "monthly"
  <2>1. s.day \in Nat \ {0}
    BY <1>4, CalendarAssumption DEF Schedules, Refused
  <2>2. NextDate(s, i) = MonthlyDate(s, i)
    BY <1>4 DEF NextDate
  <2> QED BY <1>1, <1>4, <2>1, <2>2, MonthlyIsFirst
<1> QED BY <1>2, <1>3, <1>4 DEF Schedules

\* Computed holds from the save on: each look of the scheduler recomputes.
LEMMA ComputedAlways == DSpec => []Computed
<1>1. DInit => Computed
  BY DEF DInit, Computed
<1>2. Computed /\ [DNext]_dateVars => Computed'
  BY DEF Computed, DNext, Look, dateVars
<1> QED BY <1>1, <1>2, PTL DEF DSpec

\* next_run_at is at every moment the first date that the schedule names after
\* the time it was computed from, whatever the calendar and the zone.
THEOREM NextRunIsFirst == DSpec => []NextIsFirst
<1>1. Computed => NextIsFirst
  BY NextDateIsFirst DEF Computed, NextIsFirst, ComputeNextRun
<1> QED BY <1>1, ComputedAlways, PTL

--------------------------------------------------------------------------------
(* From one date to the next *)

\* A schedule names one date of a month at most.
LEMMA OneDatePerMonth ==
  ASSUME NEW s \in Schedules, s.frequency = "monthly",
         NEW c \in Dates, NEW d \in Dates,
         Named(s, c), Named(s, d), MonthOf(c) = MonthOf(d)
  PROVE  c = d
<1> DEFINE m == MonthOf(c)
<1>1. s.day \in Nat
  BY CalendarAssumption DEF Schedules
<1>2. /\ c \in Int /\ d \in Int /\ FirstDay(m) \in Int /\ Length(m) \in 28..31
      /\ FirstDay(m) <= c /\ c < FirstDay(m) + Length(m)
      /\ FirstDay(m) <= d /\ d < FirstDay(m) + Length(m)
  BY CalendarAssumption
<1>3. DayOf(c) = c - FirstDay(m) + 1 /\ DayOf(d) = d - FirstDay(m) + 1
  BY DEF DayOf
<1>4. /\ DayOf(c) = s.day \/ (DayOf(c) = Length(m) /\ s.day > DayOf(c))
      /\ DayOf(d) = s.day \/ (DayOf(d) = Length(m) /\ s.day > DayOf(d))
  BY DEF Named
<1> QED BY <1>1, <1>2, <1>3, <1>4

\* A later date of a schedule is of a later day, week or month.
LEMMA LaterPeriod ==
  ASSUME schedule \in Schedules, NEW c \in Dates, NEW d \in Dates,
         Named(schedule, c), Named(schedule, d), c < d
  PROVE  Period(c) < Period(d)
<1>1. c \in Int /\ d \in Int
  BY CalendarAssumption
<1>2. CASE schedule.frequency = "daily"
  BY <1>2 DEF Period
<1>3. CASE schedule.frequency = "weekly"
  <2>1. c % 7 = d % 7
    BY <1>3 DEF Named, Weekday
  <2>2. c \div 7 < d \div 7
    BY <1>1, <2>1
  <2> QED BY <1>3, <2>2 DEF Period
<1>4. CASE schedule.frequency = "monthly"
  <2>1. MonthOf(c) \in Int /\ MonthOf(d) \in Int /\ MonthOf(c) <= MonthOf(d)
    BY <1>1, CalendarAssumption
  <2>2. MonthOf(c) # MonthOf(d)
    BY <1>1, <1>4, OneDatePerMonth
  <2> QED BY <1>4, <2>1, <2>2 DEF Period
<1> QED BY <1>2, <1>3, <1>4 DEF Schedules

\* Looked at after its run time, a date is followed by one of a later period.
LEMMA NextIsLater ==
  ASSUME schedule \in Schedules, ~Refused(schedule), NEW d \in Dates, NEW i \in Instants,
         Named(schedule, d), Aware(d, schedule.time) <= i
  PROVE  Period(d) < Period(NextDate(schedule, i))
<1> DEFINE then == NextDate(schedule, i)
<1>1. then \in Dates /\ Named(schedule, then) /\ Aware(then, schedule.time) > i
  BY NextDateIsFirst DEF IsFirstAfter
<1>2. schedule.time \in RunTimes
  BY DEF Schedules
<1>3. /\ d \in Int /\ then \in Int /\ LocalDate(i) \in Int /\ i \in Int
      /\ Aware(d, schedule.time) \in Int /\ Aware(then, schedule.time) \in Int
  BY <1>1, <1>2, CalendarAssumption, ZoneAssumption
<1>4. d <= LocalDate(i)
  BY <1>2, <1>3, OnlyTodayIsOpen
<1>5. LocalDate(i) <= then
  BY <1>1, <1>2, OnlyTodayIsOpen
<1>6. d # then
  BY <1>1, <1>3
<1>7. d < then
  BY <1>3, <1>4, <1>5, <1>6
<1> QED BY <1>1, <1>7, LaterPeriod

\* Looked at before its period is over, it is followed by one of the next.
LEMMA NextIsNextPeriod ==
  ASSUME schedule \in Schedules, ~Refused(schedule), NEW d \in Dates, NEW i \in Instants,
         Named(schedule, d), Aware(d, schedule.time) <= i,
         Period(LocalDate(i)) = Period(d)
  PROVE  Period(NextDate(schedule, i)) = Period(d) + 1
<1> DEFINE today == LocalDate(i)
           then  == NextDate(schedule, i)
<1>1. then \in Dates /\ Named(schedule, then) /\ IsFirstAfter(schedule, i, then)
  BY NextDateIsFirst DEF IsFirstAfter
<1>2. schedule.time \in RunTimes
  BY DEF Schedules
<1>3. /\ today \in Dates /\ today \in Int /\ d \in Int /\ then \in Int
      /\ MonthOf(today) \in Int
  BY <1>1, ThisMonth, CalendarAssumption
<1>4. CASE schedule.frequency = "daily"
  <2>1. today = d
    BY <1>4 DEF Period
  <2>2. then = d + 1
    BY <1>4, <2>1 DEF NextDate, DailyDate
  <2> QED BY <1>4, <2>2 DEF Period
<1>5. CASE schedule.frequency = "weekly"
  <2>1. today \div 7 = d \div 7
    BY <1>5 DEF Period
  <2>2. (d + 7) - today \in 1..13
    BY <1>3, <2>1
  <2>3. d + 7 \in Dates
    <3>1. (d + 7) - today \in 0..13
      BY <2>2
    <3>2. today + ((d + 7) - today) \in Dates
      BY <3>1, FortnightAhead
    <3>3. today + ((d + 7) - today) = d + 7
      BY <1>3
    <3> QED BY <3>2, <3>3
  <2>4. Named(schedule, d + 7)
    <3>1. Weekday(d + 7) = Weekday(d)
      BY <1>3 DEF Weekday
    <3> QED BY <1>5, <3>1 DEF Named
  <2>5. Aware(d + 7, schedule.time) > i
    <3>1. today < d + 7
      BY <1>3, <2>2
    <3> QED BY <1>2, <2>3, <3>1, OnlyTodayIsOpen
  <2>6. then <= d + 7
    BY <1>1, <2>3, <2>4, <2>5 DEF IsFirstAfter
  <2>7. d \div 7 < then \div 7
    BY <1>5, NextIsLater DEF Period
  <2>8. then \div 7 = d \div 7 + 1
    BY <1>3, <2>6, <2>7
  <2> QED BY <1>5, <2>8 DEF Period
<1>6. CASE schedule.frequency = "monthly"
  <2>1. schedule.day \in Nat \ {0}
    BY <1>6, CalendarAssumption DEF Schedules, Refused
  <2>2. MonthOf(today) = MonthOf(d) /\ MonthOf(today) + 0 = MonthOf(d)
    BY <1>3, <1>6 DEF Period
  <2>3. InMonth(schedule, MonthOf(today)) = d
    <3>1. \A c \in Dates : MonthOf(c) = MonthOf(today) + 0 /\ Named(schedule, c) =>
                            c = InMonth(schedule, MonthOf(today) + 0)
      BY <1>6, <2>1, CandidateOfMonth
    <3> QED BY <2>2, <3>1
  <2>4. ~(Aware(d, schedule.time) > i)
    BY <1>2, ZoneAssumption
  <2>5. then = InMonth(schedule, MonthOf(today) + 1)
    BY <1>2, <1>6, <2>1, <2>3, <2>4, LoopStops DEF NextDate
  <2>6. MonthOf(then) = MonthOf(today) + 1
    BY <1>6, <2>1, <2>5, CandidateOfMonth
  <2> QED BY <1>6, <2>2, <2>6 DEF Period
<1> QED BY <1>4, <1>5, <1>6 DEF Schedules

\* No day, week or month is served twice, and none is left out as long as the
\* scheduler looks before it is over, clock changes included.
THEOREM ServedOncePerPeriod == DSpec => OncePerPeriod
<1>1. ASSUME Computed, [DNext]_dateVars
      PROVE  [LET this == Period(LocalDate(next))
                  then == Period(LocalDate(next'))
              IN  next' # Raises => /\ this < then
                                    /\ Period(LocalDate(now')) = this => then = this + 1]_dateVars
  <2>1. CASE UNCHANGED dateVars
    BY <2>1
  <2>2. ASSUME NEW i \in Instants, Look(i), next' # Raises
        PROVE  LET this == Period(LocalDate(next))
                   then == Period(LocalDate(next'))
               IN  this < then /\ (Period(LocalDate(now')) = this => then = this + 1)
    <3> DEFINE d == NextDate(schedule, now)
               c == NextDate(schedule, i)
    <3>1. /\ schedule \in Schedules /\ now \in Instants /\ now' = i
          /\ next = ComputeNextRun(schedule, now) /\ next' = ComputeNextRun(schedule, i)
          /\ next <= i
      BY <1>1, <2>2 DEF Computed, Look
    <3>2. ~Refused(schedule)
      BY <2>2, <3>1 DEF ComputeNextRun
    <3>3. schedule.time \in RunTimes
      BY <3>1 DEF Schedules
    <3>4. d \in Dates /\ Named(schedule, d) /\ c \in Dates
      BY <3>1, <3>2, NextDateIsFirst DEF IsFirstAfter
    <3>5. next = Aware(d, schedule.time) /\ next' = Aware(c, schedule.time)
      BY <3>1, <3>2 DEF ComputeNextRun
    <3>6. LocalDate(next) = d /\ LocalDate(next') = c
      BY <3>3, <3>4, <3>5, RoundTripAssumption
    <3>7. Period(d) < Period(c)
      BY <3>1, <3>2, <3>4, <3>5, NextIsLater
    <3>8. Period(LocalDate(i)) = Period(d) => Period(c) = Period(d) + 1
      BY <3>1, <3>2, <3>4, <3>5, NextIsNextPeriod
    <3> QED BY <3>1, <3>6, <3>7, <3>8
  <2> QED BY <1>1, <2>1, <2>2 DEF DNext
<1> QED BY <1>1, ComputedAlways, PTL DEF DSpec, OncePerPeriod

================================================================================
