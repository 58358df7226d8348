----------------------- MODULE ScheduleAccountingProofs -----------------------
(***************************************************************************)
(* How many backups a scheduled date causes, for every instance.           *)
(***************************************************************************)
EXTENDS ScheduleAccounting, BackupOrchestrationProofs

\* An exception loses the date in progress, and only that one.
LEMMA AbortKeepsAccounts ==
  ASSUME IInv, AccountsOK, Count, AbortBatch, UNCHANGED <<due, created>>
  PROVE  AccountsOK'
<1>. USE DEF AbortBatch, NoBatch
<1>1. \A e \in Equipments :
        /\ runs'[e] = runs[e] /\ dates'[e] = dates[e]
        /\ lost'[e] = lost[e] + One(InProgress(e))
  BY DEF Count, AccountsOK, IInv, TypeOK, One, Runs
<1>2. \A e \in Equipments : Owed(e)' <=> due[e]
  BY DEF Owed, InProgress
<1>3. \A e \in Equipments : due[e] => Owed(e) \/ InProgress(e)
  BY DEF Owed
<1>4. \A e \in Equipments : runs'[e] + One(Owed(e)') <= dates'[e] + lost'[e]
  BY <1>1, <1>2, <1>3 DEF AccountsOK, One
<1>5. /\ dates' \in [Equipments -> Nat]
      /\ runs'  \in [Equipments -> Nat]
      /\ lost'  \in [Equipments -> Nat]
  BY DEF Count, AccountsOK, One
<1>. QED
  BY <1>4, <1>5 DEF AccountsOK, One

\* Every step keeps the accounts: a job is only created by a schedule the batch
\* has read, and a date leaves the books when its job is advanced or lost.
LEMMA StepKeepsAccounts ==
  IInv /\ AccountsOK /\ [ANext]_<<vars, counters>> => AccountsOK'
<1>. SUFFICES ASSUME IInv, AccountsOK, Next, Count PROVE AccountsOK'
  BY DEF ANext, AccountsOK, counters, vars, plans, loopVars, Owed, InProgress, One
<1>. USE OrchestrationAssumption
     DEF IInv, TypeOK, LoopOK, AccountsOK, Count, One, Owed, InProgress, InBatch, Runs,
         rows, plans, webVars, loopVars, Jobs, Scheduled, NoBatch
<1>1. ASSUME NEW f \in Equipments, PostBackup(f) PROVE AccountsOK'
  BY <1>1 DEF PostBackup, Insert
<1>2. ASSUME NEW f \in Equipments, NEW on \in BOOLEAN, NEW c \in Configs,
             SaveSchedule(f, on, c)
      PROVE  AccountsOK'
  BY <1>2, NotDueFacts DEF SaveSchedule
<1>3. ASSUME NEW f \in Equipments, NEW on \in BOOLEAN, NEW c \in Configs,
             NEW n \in Configs \cup {None}, NEW d \in BOOLEAN,
             AdminSaveSchedule(f, on, c, n, d)
      PROVE  AccountsOK'
  BY <1>3, AdminDateFacts DEF AdminSaveSchedule
<1>4. ASSUME NEW f \in Equipments, DeleteEquipment(f) PROVE AccountsOK'
  BY <1>4, NotDueFacts DEF DeleteEquipment, Exists
<1>5. ASSUME NEW j \in Jobs, DeleteJob(j) PROVE AccountsOK'
  BY <1>5 DEF DeleteJob, Exists
<1>6. ASSUME NEW j \in Jobs, WorkerDies(j) PROVE AccountsOK'
  BY <1>6 DEF WorkerDies
<1>7. ASSUME NEW j \in Jobs, RunBegin(j) PROVE AccountsOK'
  BY <1>7 DEF RunBegin
<1>8. ASSUME NEW j \in Jobs, NEW o \in Outcomes, AdapterReturns(j, o)
      PROVE  AccountsOK'
  BY <1>8 DEF AdapterReturns
<1>9. ASSUME NEW j \in Jobs, RunEnd(j) PROVE AccountsOK'
  BY <1>9 DEF RunEnd, Close
<1>10. ASSUME NEW j \in Jobs, RunRaises(j) PROVE AccountsOK'
  <2>1. CASE Scheduled(j)
    BY <1>10, <2>1, AbortKeepsAccounts DEF RunRaises
  <2>2. CASE ~Scheduled(j)
    BY <1>10, <2>2 DEF RunRaises
  <2>. QED
    BY <2>1, <2>2
<1>11. ASSUME WebStop PROVE AccountsOK'
  BY <1>11 DEF WebStop
<1>12. ASSUME WebStart PROVE AccountsOK'
  BY <1>12 DEF WebStart, Recoverable
<1>13. ASSUME RecoverDone PROVE AccountsOK'
  BY <1>13 DEF RecoverDone
<1>14. ASSUME NEW j \in Jobs, RecoverOne(j) PROVE AccountsOK'
  BY <1>14 DEF RecoverOne, Close
<1>15. ASSUME Tick PROVE AccountsOK'
  BY <1>15 DEF Tick
<1>16. ASSUME NEW f \in Equipments, Skip(f) PROVE AccountsOK'
  BY <1>16 DEF Skip, IsNext
<1>17. ASSUME NEW f \in Equipments, Admit(f) PROVE AccountsOK'
  BY <1>17 DEF Admit, IsNext
<1>18. ASSUME CreateInvalid PROVE AccountsOK'
  BY <1>18 DEF CreateInvalid, Insert
<1>19. ASSUME CreateJob PROVE AccountsOK'
  BY <1>19 DEF CreateJob, Insert
<1>20. ASSUME CreateFails PROVE AccountsOK'
  BY <1>20, AbortKeepsAccounts DEF CreateFails
<1>21. ASSUME Advance PROVE AccountsOK'
  BY <1>21, NotDueFacts DEF Advance
<1>22. ASSUME AdvanceRaises PROVE AccountsOK'
  BY <1>22, AbortKeepsAccounts DEF AdvanceRaises
<1>23. ASSUME EndBatch PROVE AccountsOK'
  BY <1>23 DEF EndBatch
<1>24. ASSUME SchedulerStop PROVE AccountsOK'
  BY <1>24 DEF SchedulerStop
<1>25. ASSUME SchedulerStart PROVE AccountsOK'
  BY <1>25 DEF SchedulerStart
<1>26. ASSUME Age PROVE AccountsOK'
  BY <1>26 DEF Age
<1>27. ASSUME NEW f \in Equipments, ClockDue(f) PROVE AccountsOK'
  BY <1>27, DueAfterFacts DEF ClockDue
<1> HIDE DEF IInv, AccountsOK, Jobs, Outcomes
<1>. QED
  BY <1>1, <1>2, <1>3, <1>4, <1>5, <1>6, <1>7, <1>8, <1>9, <1>10, <1>11, <1>12,
     <1>13, <1>14, <1>15, <1>16, <1>17, <1>18, <1>19, <1>20, <1>21, <1>22,
     <1>23, <1>24, <1>25, <1>26, <1>27
  DEF Next, Users, Runner, Recovery, Scheduler

\* The books are right in every reachable state.
THEOREM AccountsInvariance == ASpec => [](IInv /\ AccountsOK)
<1>1. AInit => IInv /\ AccountsOK
  <2>. SUFFICES ASSUME AInit PROVE IInv /\ AccountsOK
    OBVIOUS
  <2>1. IInv
    BY InitGivesIInv DEF AInit
  <2>2. \A e \in Equipments : ~due[e] /\ batch[e] = None
    BY DEF AInit, Init, NoBatch
  <2>. QED
    BY <2>1, <2>2 DEF AInit, AccountsOK, Owed, One
<1>2. [ANext]_<<vars, counters>> => [Next]_vars
  BY DEF ANext
<1>. QED
  BY <1>1, <1>2, StepKeepsIInv, StepKeepsAccounts, PTL DEF ASpec

\* A date that comes causes one scheduled job, and one more each time the
\* scheduler was lost between creating a job and saving next_run_at: for any
\* number of equipments, jobs and dates, whatever users and containers do.
THEOREM DatesAccountForRuns == ASpec => []OneRunPerDateAndLoss
<1>1. AccountsOK => OneRunPerDateAndLoss
  <2>. SUFFICES ASSUME AccountsOK, NEW e \in Equipments
                PROVE  runs[e] <= dates[e] + lost[e]
    BY DEF OneRunPerDateAndLoss
  <2>1. One(Owed(e)) \in Nat /\ runs[e] \in Nat /\ dates[e] \in Nat /\ lost[e] \in Nat
    BY DEF AccountsOK, One
  <2>2. runs[e] + One(Owed(e)) <= dates[e] + lost[e]
    BY DEF AccountsOK
  <2>. QED
    BY <2>1, <2>2
<1>. QED
  BY <1>1, AccountsInvariance, PTL

(***************************************************************************)
(* Whose turn it is.                                                       *)
(***************************************************************************)

\* A date that leaves the order, or enters it anywhere, leaves an order.
LEMMA NotDueKeepsOrder ==
  ASSUME TypeOK, NEW g \in Equipments, NotDue(g),
         \A e, f \in Equipments : f \in older[e] => due[f] /\ e \notin older[f]
  PROVE  \A e, f \in Equipments : f \in older'[e] => due'[f] /\ e \notin older'[f]
BY DEF TypeOK, NotDue

LEMMA DueAfterKeepsOrder ==
  ASSUME TypeOK, NEW g \in Equipments, NEW S \in SUBSET OthersDue(g), DueAfter(g, S),
         \A e, f \in Equipments : f \in older[e] => due[f] /\ e \notin older[f]
  PROVE  \A e, f \in Equipments : f \in older'[e] => due'[f] /\ e \notin older'[f]
BY DEF TypeOK, DueAfter, OthersDue

\* Every step keeps the order of the dates.
LEMMA StepKeepsOrder == IInv /\ OrderOK /\ Next => OrderOK'
<1>. SUFFICES ASSUME IInv, OrderOK, Next PROVE OrderOK'
  OBVIOUS
<1>. USE OrchestrationAssumption DEF IInv, TypeOK, OrderOK
<1>1. ASSUME NEW g \in Equipments, NEW on \in BOOLEAN, NEW c \in Configs,
             SaveSchedule(g, on, c)
      PROVE  OrderOK'
  BY <1>1, NotDueKeepsOrder DEF SaveSchedule
<1>2. ASSUME NEW g \in Equipments, NEW on \in BOOLEAN, NEW c \in Configs,
             NEW n \in Configs \cup {None}, NEW d \in BOOLEAN,
             AdminSaveSchedule(g, on, c, n, d)
      PROVE  OrderOK'
  <2>1. \A e \in Equipments : enabled'[e] => config'[e] # None
    BY <1>2 DEF AdminSaveSchedule
  <2>2. CASE d
    BY <1>2, <2>1, <2>2, DueAfterKeepsOrder DEF AdminSaveSchedule
  <2>3. CASE ~d
    BY <1>2, <2>1, <2>3, NotDueKeepsOrder DEF AdminSaveSchedule
  <2>. QED
    BY <2>2, <2>3
<1>3. ASSUME NEW g \in Equipments, DeleteEquipment(g) PROVE OrderOK'
  BY <1>3, NotDueKeepsOrder DEF DeleteEquipment
<1>4. ASSUME Advance PROVE OrderOK'
  BY <1>4, NotDueKeepsOrder DEF Advance, LoopOK, InBatch
<1>5. ASSUME NEW g \in Equipments, ClockDue(g) PROVE OrderOK'
  BY <1>5, DueAfterKeepsOrder DEF ClockDue
<1>6. ASSUME UNCHANGED plans PROVE OrderOK'
  BY <1>6 DEF plans
<1> HIDE DEF IInv, OrderOK
<1>7. Users => OrderOK'
  BY <1>1, <1>2, <1>3, <1>6 DEF Users, PostBackup
<1>8. ASSUME NEW j \in Jobs, DeleteJob(j) \/ WorkerDies(j) \/ Runner(j) PROVE OrderOK'
  BY <1>6, <1>8 DEF DeleteJob, WorkerDies, Runner, RunBegin, AdapterReturns, RunEnd, RunRaises
<1>9. WebStop \/ WebStart \/ Recovery \/ Age => OrderOK'
  BY <1>6 DEF WebStop, WebStart, Recovery, RecoverDone, RecoverOne, Age
<1>10. Scheduler \/ SchedulerStop \/ SchedulerStart => OrderOK'
  BY <1>4, <1>6
  DEF Scheduler, Tick, Skip, Admit, CreateInvalid, CreateJob, CreateFails, AdvanceRaises,
      EndBatch, SchedulerStop, SchedulerStart
<1>. QED
  BY <1>5, <1>7, <1>8, <1>9, <1>10 DEF Next

\* A schedule that has passed e comes after e until the batch reaches e, is cut, or
\* a date is written that puts it before.
LEMMA PassedComesAfter ==
  ASSUME IInv, OrderOK, Next, NEW e \in Equipments, NEW f \in Equipments,
         Waits(e), ComesAfter(f, e), Waits(e)', ~Reached(e), ~BatchCut, ~PutBefore(f, e)
  PROVE  ComesAfter(f, e)'
<1>. USE OrchestrationAssumption
     DEF IInv, TypeOK, LoopOK, InBatch, OrderOK, Waits, ComesAfter, InProgress, plans, loopVars
<1>. DEFINE Still == UNCHANGED <<due, older, pc, batch, ahead, cur>>
<1>1. ASSUME Still PROVE ComesAfter(f, e)'
  BY <1>1
<1>2. ASSUME NEW g \in Equipments, NotDue(g), UNCHANGED loopVars
      PROVE  ComesAfter(f, e)'
  <2>1. e # g
    BY <1>2 DEF NotDue
  <2>2. due'[f] => due[f] /\ (e \in older[f] => e \in older'[f])
    BY <1>2, <2>1 DEF NotDue
  <2>. QED
    BY <1>2, <2>2
<1>3. ASSUME NEW g \in Equipments, NEW S \in SUBSET OthersDue(g), DueAfter(g, S),
             UNCHANGED loopVars
      PROVE  ComesAfter(f, e)'
  <2>1. due'[f] => InProgress(f) \/ e \in older'[f]
    <3>1. CASE g = f
      <4>1. e \in S \/ f \in older'[e] \/ e = f
        BY <1>3, <3>1 DEF DueAfter, OthersDue
      <4>2. e \in S => e \in older'[f]
        BY <1>3, <3>1 DEF DueAfter
      <4>3. f \in older'[e] => due[f] /\ e \notin older[f]
        BY DEF PutBefore
      <4>4. e = f => due[f] /\ e \notin older[f]
        OBVIOUS
      <4>. QED
        BY <4>1, <4>2, <4>3, <4>4
    <3>2. CASE g = e /\ g # f
      <4>1. due'[f] => due[f]
        BY <1>3, <3>2 DEF DueAfter
      <4>2. due[f] => f \in S \/ e \in older'[f]
        BY <1>3, <3>2 DEF DueAfter, OthersDue
      <4>3. f \in S => f \in older[e]
        BY <1>3, <3>2 DEF DueAfter, PutBefore
      <4>. QED
        BY <4>1, <4>2, <4>3
    <3>3. CASE g # e /\ g # f
      BY <1>3, <3>3 DEF DueAfter
    <3>. QED
      BY <3>1, <3>2, <3>3
  <2>. QED
    BY <1>3, <2>1
<1>4. ASSUME NEW g \in Equipments, NEW on \in BOOLEAN, NEW c \in Configs,
             SaveSchedule(g, on, c)
      PROVE  ComesAfter(f, e)'
  BY <1>2, <1>4 DEF SaveSchedule
<1>5. ASSUME NEW g \in Equipments, NEW on \in BOOLEAN, NEW c \in Configs,
             NEW n \in Configs \cup {None}, NEW d \in BOOLEAN,
             AdminSaveSchedule(g, on, c, n, d)
      PROVE  ComesAfter(f, e)'
  <2>1. UNCHANGED loopVars
    BY <1>5 DEF AdminSaveSchedule
  <2>2. CASE d
    <3>1. PICK S \in SUBSET OthersDue(g) : DueAfter(g, S)
      BY <1>5, <2>2 DEF AdminSaveSchedule
    <3>. QED
      BY <1>3, <2>1, <3>1
  <2>3. CASE ~d
    BY <1>2, <1>5, <2>1, <2>3 DEF AdminSaveSchedule
  <2>. QED
    BY <2>2, <2>3
<1>6. ASSUME NEW g \in Equipments, DeleteEquipment(g) PROVE ComesAfter(f, e)'
  BY <1>2, <1>6 DEF DeleteEquipment
<1>7. ASSUME NEW g \in Equipments, ClockDue(g) PROVE ComesAfter(f, e)'
  BY <1>3, <1>7 DEF ClockDue
<1>8. ASSUME NEW j \in Jobs, RunEnd(j) PROVE ComesAfter(f, e)'
  BY <1>8 DEF RunEnd, LiveOK, Live, Outcomes, Terminal
<1>9. ASSUME AbortBatch, InBatch PROVE FALSE
  BY <1>9 DEF AbortBatch, BatchCut, NoBatch
<1>10. ASSUME NEW j \in Jobs, RunRaises(j) PROVE ComesAfter(f, e)'
  <2>1. Scheduled(j) => InBatch
    BY <1>10 DEF RunRaises, LiveOK, Live, Outcomes, Terminal
  <2>. QED
    BY <1>1, <1>9, <1>10, <2>1 DEF RunRaises
<1>11. ASSUME Tick PROVE ComesAfter(f, e)'
  <2>1. due[f] => e \in older[f]
    BY <1>11 DEF Tick
  <2>2. batch'[f] # None => due[f]
    BY <1>11 DEF Tick
  <2>3. batch'[e] # None
    BY <1>11 DEF Tick
  <2>. QED
    BY <1>11, <2>1, <2>2, <2>3 DEF Tick
<1>12. ASSUME NEW g \in Equipments, Skip(g) PROVE ComesAfter(f, e)'
  <2>1. g # e
    BY <1>12 DEF Skip, IsNext, Reached
  <2>. QED
    BY <1>12, <2>1 DEF Skip
<1>13. ASSUME NEW g \in Equipments, Admit(g) PROVE ComesAfter(f, e)'
  <2>1. g # f
    BY <1>13 DEF Admit, IsNext
  <2>. QED
    BY <1>13, <2>1 DEF Admit
<1>14. CreateInvalid \/ CreateJob => ComesAfter(f, e)'
  BY DEF CreateInvalid, CreateJob
<1>15. CreateFails \/ AdvanceRaises => ComesAfter(f, e)'
  BY <1>9 DEF CreateFails, AdvanceRaises
<1>16. ASSUME Advance PROVE ComesAfter(f, e)'
  <2>1. cur # e
    BY <1>16 DEF Advance, Reached
  <2>2. due'[f] => due[f] /\ f # cur /\ (e \in older[f] => e \in older'[f])
    BY <1>16, <2>1 DEF Advance, NotDue
  <2>. QED
    BY <1>16, <2>1, <2>2 DEF Advance
<1>17. ASSUME EndBatch PROVE ComesAfter(f, e)'
  BY <1>17 DEF EndBatch, NoBatch
<1>18. ASSUME SchedulerStop PROVE ComesAfter(f, e)'
  BY <1>18 DEF SchedulerStop, BatchCut, NoBatch
<1>19. ASSUME SchedulerStart PROVE ComesAfter(f, e)'
  BY <1>19 DEF SchedulerStart
<1> HIDE DEF IInv, OrderOK, ComesAfter, Waits, Still
<1>20. Users => ComesAfter(f, e)'
  BY <1>1, <1>4, <1>5, <1>6 DEF Users, PostBackup, Still
<1>21. ASSUME NEW j \in Jobs, DeleteJob(j) \/ WorkerDies(j) \/ Runner(j)
       PROVE  ComesAfter(f, e)'
  BY <1>1, <1>8, <1>10, <1>21 DEF DeleteJob, WorkerDies, Runner, RunBegin, AdapterReturns, Still
<1>22. WebStop \/ WebStart \/ Recovery \/ Age => ComesAfter(f, e)'
  BY <1>1 DEF WebStop, WebStart, Recovery, RecoverDone, RecoverOne, Age, Still
<1>23. Scheduler \/ SchedulerStop \/ SchedulerStart => ComesAfter(f, e)'
  BY <1>11, <1>12, <1>13, <1>14, <1>15, <1>16, <1>17, <1>18, <1>19 DEF Scheduler
<1>. QED
  BY <1>7, <1>20, <1>21, <1>22, <1>23 DEF Next

\* A schedule that runs is in progress, and so comes after the ones it passes.
LEMMA RunIsInProgress ==
  ASSUME IInv, Next, NEW f \in Equipments, Runs(f)
  PROVE  pc = "create" /\ cur = f /\ InProgress(f)'
<1>. USE OrchestrationAssumption DEF IInv, TypeOK, Runs, InProgress
<1>1. CreateInvalid \/ CreateJob => pc = "create" /\ cur = f /\ InProgress(f)'
  BY DEF CreateInvalid, CreateJob, Insert, Jobs
<1>2. \A g \in Equipments : ~PostBackup(g)
  BY DEF PostBackup, Insert, Jobs
<1>3. UNCHANGED created => FALSE
  OBVIOUS
<1>4. Next => CreateInvalid \/ CreateJob \/ (\E g \in Equipments : PostBackup(g))
              \/ UNCHANGED created
  <2>1. Next => WritesJobs \/ UNCHANGED rows
    BY OnlyWritersWrite
  <2>. QED
    BY <2>1 DEF WritesJobs, rows, DeleteEquipment, DeleteJob, RunBegin, RunEnd, RecoverOne,
                Close
<1>. QED
  BY <1>1, <1>2, <1>3, <1>4

\* Every step keeps the turns.
LEMMA StepKeepsTurns == IInv /\ TurnsOK /\ [ANext]_<<vars, counters>> => TurnsOK'
<1>1. ASSUME UNCHANGED <<vars, counters>>, TurnsOK PROVE TurnsOK'
  BY <1>1 DEF vars, counters, plans, loopVars, TurnsOK, OrderOK, ComesAfter, Waits, InProgress
<1>. SUFFICES ASSUME IInv, TurnsOK, Next, Count PROVE TurnsOK'
  BY <1>1 DEF ANext
<1>2. OrderOK'
  BY StepKeepsOrder DEF TurnsOK
<1>3. passed' \in [Equipments -> SUBSET Equipments]
  BY DEF Count
<1>4. ASSUME NEW e \in Equipments, NEW f \in passed'[e] PROVE Waits(e)' /\ ComesAfter(f, e)'
  <2>1. /\ Waits(e)' /\ ~Reached(e) /\ ~BatchCut /\ ~PutBefore(f, e)
        /\ f \in Equipments /\ (f \in passed[e] \/ Runs(f))
    BY <1>4 DEF Count
  <2>2. CASE f \in passed[e]
    BY <2>1, <2>2, PassedComesAfter DEF TurnsOK
  <2>3. CASE Runs(f)
    BY <2>1, <2>3, RunIsInProgress DEF ComesAfter
  <2>. QED
    BY <2>1, <2>2, <2>3
<1>. QED
  BY <1>2, <1>3, <1>4 DEF TurnsOK

\* No schedule runs twice while another waits, unless the batch was cut, or an edit or
\* a date counted from an earlier batch made it the older one: for any number of
\* equipments, jobs and dates.
THEOREM SchedulesServedInTurn == ASpec => ServedInTurn
<1>. DEFINE Turn == \A e, f \in Equipments : Waits(e) /\ Runs(f) => f \notin passed[e]
<1>1. AInit => TurnsOK
  BY DEF AInit, Init, TurnsOK, OrderOK, NoOrder
<1>2. ASSUME IInv, TurnsOK, ANext PROVE Turn
  <2>. SUFFICES ASSUME NEW e \in Equipments, NEW f \in Equipments, Runs(f), f \in passed[e]
                PROVE  FALSE
    OBVIOUS
  <2>1. pc = "create" /\ cur = f
    BY <1>2, RunIsInProgress DEF ANext
  <2>2. batch[f] # None
    BY <1>2, <2>1 DEF IInv, LoopOK, InBatch
  <2>. QED
    BY <1>2, <2>1, <2>2 DEF TurnsOK, ComesAfter, InProgress
<1>3. IInv /\ TurnsOK /\ [ANext]_<<vars, counters>> => [Turn]_<<vars, counters>>
  BY <1>2
<1>. HIDE DEF Turn
<1>4. ASpec => [][Turn]_<<vars, counters>>
  BY <1>1, <1>3, AccountsInvariance, StepKeepsTurns, PTL DEF ASpec
<1>. QED
  BY <1>4 DEF Turn, ServedInTurn

===============================================================================
