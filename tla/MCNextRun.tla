------------------------------- MODULE MCNextRun -------------------------------
(***************************************************************************)
(* NextRun on the calendar of 2027 from Monday 1 February, day 0, with     *)
(* instants in hours, in a zone that leaves summer time on day 20 and      *)
(* enters it on day 55, both at 01:00 UTC, as Europe/Paris does on other   *)
(* days of the year.                                                       *)
(***************************************************************************)
EXTENDS NextRun

Lengths == <<28, 31, 30, 31, 30, 31>>  \* February to July
Starts  == <<0, 28, 59, 89, 120, 150>>

MCDates == 0..149
MCMonthOf(d) == CHOOSE m \in 1..6 : Starts[m] <= d /\ d < Starts[m] + Lengths[m]

\* No date of a run falls after July: the later months are only there for the
\* candidates that compute_next_run would look at last.
MCLength(m)   == IF m <= 6 THEN Lengths[m] ELSE 30
MCFirstDay(m) == IF m <= 6 THEN Starts[m] ELSE 181 + 30 * (m - 7)

Back    == 20 * 24 + 1  \* 03:00 becomes 02:00
Forward == 55 * 24 + 1  \* 02:00 becomes 03:00

MCLocalDate(i) == (i + (IF Back <= i /\ i < Forward THEN 1 ELSE 2)) \div 24

\* fold = 0: a repeated hour is the first one, a skipped one counts from before.
MCAware(d, t) ==
  LET naive == d * 24 + t
  IN  naive - (IF Back + 2 <= naive /\ naive < Forward + 2 THEN 1 ELSE 2)

\* Around the clock changes and the ends of months, hourly through the night.
MCInstants ==
  {d * 24 + h : d \in (17..32) \cup (53..62), h \in {-2, -1, 0, 1, 2, 10, 21}}

================================================================================
