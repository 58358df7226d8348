---------------------- MODULE BackupOrchestrationProofs ----------------------
(***************************************************************************)
(* Theorems about BackupOrchestration, for every set of equipments, every  *)
(* number of jobs, every set of disruptions and both values of BoundedRuns. *)
(***************************************************************************)
EXTENDS BackupOrchestration, TLAPS

(***************************************************************************)
(* The invariant.                                                          *)
(***************************************************************************)

\* A date that is written leaves the others what they are.
LEMMA NotDueFacts ==
  ASSUME TypeOK, NEW e \in Equipments, NotDue(e)
  PROVE  /\ due' \in [Equipments -> BOOLEAN] /\ older' \in [Equipments -> SUBSET Equipments]
         /\ ~due'[e] /\ \A f \in Equipments \ {e} : due'[f] = due[f]
BY DEF TypeOK, NotDue

LEMMA DueAfterFacts ==
  ASSUME TypeOK, NEW e \in Equipments, NEW S \in SUBSET OthersDue(e), DueAfter(e, S)
  PROVE  /\ due' \in [Equipments -> BOOLEAN] /\ older' \in [Equipments -> SUBSET Equipments]
         /\ due'[e] /\ \A f \in Equipments \ {e} : due'[f] = due[f]
<1>1. S \subseteq Equipments
  BY DEF OthersDue
<1>. QED
  BY <1>1 DEF TypeOK, DueAfter

\* The two branches of a save in the admin.
LEMMA AdminDateFacts ==
  ASSUME TypeOK, NEW e \in Equipments, NEW on, NEW c, NEW n, NEW d \in BOOLEAN,
         AdminSaveSchedule(e, on, c, n, d)
  PROVE  /\ due' \in [Equipments -> BOOLEAN] /\ older' \in [Equipments -> SUBSET Equipments]
         /\ due'[e] = d /\ \A f \in Equipments \ {e} : due'[f] = due[f]
<1>1. CASE d
  BY <1>1, DueAfterFacts DEF AdminSaveSchedule
<1>2. CASE ~d
  BY <1>2, NotDueFacts DEF AdminSaveSchedule, TypeOK
<1>. QED
  BY <1>1, <1>2

\* The empty tables, with both containers down, satisfy the invariant.
LEMMA InitGivesIInv == Init => IInv
BY OrchestrationAssumption
   DEF Init, IInv, TypeOK, RowsOK, LiveOK, StaleOK, LoopOK, OrphansHaveACause,
       Jobs, Terminal, Outcomes, Statuses, Triggers, Positions, Locations,
       NoBatch, NoOrder, Live, Scheduled, InBatch

\* Every statement of the web container, of recovery, of a backup and of the
\* scheduler keeps the invariant, whatever happens between two of them.
LEMMA StepKeepsIInv == IInv /\ [Next]_vars => IInv'
<1>. SUFFICES ASSUME IInv, [Next]_vars PROVE IInv'
  OBVIOUS
<1>. USE OrchestrationAssumption
     DEF IInv, TypeOK, RowsOK, LiveOK, StaleOK, LoopOK, OrphansHaveACause,
         rows, plans, webVars, loopVars, Jobs, Terminal, Outcomes,
         Statuses, Triggers, Positions, Locations, NoBatch, NoOrder, Live, Scheduled,
         Outlasts, MayBeRevised, InBatch, Happens
<1>1. ASSUME NEW e \in Equipments, PostBackup(e) PROVE IInv'
  BY <1>1 DEF PostBackup, Insert
<1>2. ASSUME NEW e \in Equipments, NEW on \in BOOLEAN, NEW c \in Configs,
             SaveSchedule(e, on, c)
      PROVE  IInv'
  BY <1>2, NotDueFacts DEF SaveSchedule
<1>3. ASSUME NEW e \in Equipments, NEW on \in BOOLEAN, NEW c \in Configs,
             NEW n \in Configs \cup {None}, NEW d \in BOOLEAN,
             AdminSaveSchedule(e, on, c, n, d)
      PROVE  IInv'
  BY <1>3, AdminDateFacts DEF AdminSaveSchedule
<1>4. ASSUME NEW e \in Equipments, DeleteEquipment(e) PROVE IInv'
  BY <1>4, NotDueFacts DEF DeleteEquipment, Exists
<1>5. ASSUME NEW j \in Jobs, DeleteJob(j) PROVE IInv'
  BY <1>5 DEF DeleteJob, Exists
<1>6. ASSUME NEW j \in Jobs, WorkerDies(j) PROVE IInv'
  BY <1>6 DEF WorkerDies
<1>7. ASSUME NEW j \in Jobs, RunBegin(j) PROVE IInv'
  BY <1>7 DEF RunBegin
<1>8. ASSUME NEW j \in Jobs, NEW o \in Outcomes, AdapterReturns(j, o) PROVE IInv'
  BY <1>8 DEF AdapterReturns
<1>9. ASSUME NEW j \in Jobs, RunEnd(j) PROVE IInv'
  BY <1>9 DEF RunEnd, Close
<1>10. ASSUME NEW j \in Jobs, RunRaises(j) PROVE IInv'
  BY <1>10 DEF RunRaises, AbortBatch
<1>11. ASSUME WebStop PROVE IInv'
  BY <1>11 DEF WebStop
<1>12. ASSUME WebStart PROVE IInv'
  BY <1>12 DEF WebStart, Recoverable
<1>13. ASSUME RecoverDone PROVE IInv'
  BY <1>13 DEF RecoverDone
<1>14. ASSUME NEW j \in Jobs, RecoverOne(j) PROVE IInv'
  BY <1>14 DEF RecoverOne, Close
<1>15. ASSUME Tick PROVE IInv'
  BY <1>15 DEF Tick
<1>16. ASSUME NEW e \in Equipments, Skip(e) PROVE IInv'
  BY <1>16 DEF Skip, IsNext
<1>17. ASSUME NEW e \in Equipments, Admit(e) PROVE IInv'
  BY <1>17 DEF Admit, IsNext
<1>18. ASSUME CreateInvalid PROVE IInv'
  <2>. DEFINE new == created + 1
  <2>1. new \in Jobs /\ created' = new /\ job' = new /\ pc' = "advance"
    BY <1>18 DEF CreateInvalid, Insert
  <2>2. /\ status'   = [status   EXCEPT ![new] = "failed"]
        /\ finished' = [finished EXCEPT ![new] = TRUE]
        /\ trigger'  = [trigger  EXCEPT ![new] = "scheduled"]
        /\ target'   = [target   EXCEPT ![new] = cur]
        /\ exec'     = [exec     EXCEPT ![new] = "idle"]
    BY <1>18 DEF CreateInvalid, Insert
  <2>3. UNCHANGED <<aged, equipment, plans, webVars, batch, ahead, cur>> /\ pc = "create"
    BY <1>18 DEF CreateInvalid
  <2>4. TypeOK' /\ StaleOK'
    BY <2>1, <2>2, <2>3
  <2>5. RowsOK'
    BY <2>1, <2>2, <2>3
  <2>6. LiveOK'
    BY <2>1, <2>2, <2>3
  <2>7. LoopOK'
    BY <2>1, <2>2, <2>3
  <2>8. OrphansHaveACause'
    BY <2>1, <2>2, <2>3
  <2>. QED
    BY <2>4, <2>5, <2>6, <2>7, <2>8
<1>19. ASSUME CreateJob PROVE IInv'
  BY <1>19 DEF CreateJob, Insert
<1>20. ASSUME CreateFails PROVE IInv'
  BY <1>20 DEF CreateFails, AbortBatch
<1>21. ASSUME Advance PROVE IInv'
  BY <1>21, NotDueFacts DEF Advance
<1>22. ASSUME AdvanceRaises PROVE IInv'
  BY <1>22 DEF AdvanceRaises, AbortBatch
<1>23. ASSUME EndBatch PROVE IInv'
  BY <1>23 DEF EndBatch
<1>24. ASSUME SchedulerStop PROVE IInv'
  BY <1>24 DEF SchedulerStop
<1>25. ASSUME SchedulerStart PROVE IInv'
  BY <1>25 DEF SchedulerStart
<1>26. ASSUME Age PROVE IInv'
  BY <1>26 DEF Age
<1>27. ASSUME NEW e \in Equipments, ClockDue(e) PROVE IInv'
  BY <1>27, DueAfterFacts DEF ClockDue
<1>28. CASE UNCHANGED vars
  BY <1>28 DEF vars
<1> HIDE DEF IInv, Jobs, Outcomes
<1>. QED
  BY <1>1, <1>2, <1>3, <1>4, <1>5, <1>6, <1>7, <1>8, <1>9, <1>10, <1>11, <1>12,
     <1>13, <1>14, <1>15, <1>16, <1>17, <1>18, <1>19, <1>20, <1>21, <1>22,
     <1>23, <1>24, <1>25, <1>26, <1>27, <1>28 DEF Next, Users, Runner, Recovery,
     Scheduler

\* The inductive invariant holds in every reachable state.
THEOREM Invariance == Spec => []IInv
BY InitGivesIInv, StepKeepsIInv, PTL DEF Spec

\* The types of all variables are those of TypeOK.
THEOREM TypeCorrect == Spec => []TypeOK
<1>1. IInv => TypeOK
  BY DEF IInv
<1>. QED
  BY <1>1, Invariance, PTL

\* process_due_schedules never has two backups going at once, whatever the
\* scheduler container, the users and the web container do.
THEOREM SchedulerRunsOneBackup == Spec => []OneScheduledRun
<1>1. IInv => OneScheduledRun
  BY DEF IInv, LiveOK, OneScheduledRun
<1>. QED
  BY <1>1, Invariance, PTL

\* A pending or running row that nobody executes has a cause of its own kind.
THEOREM OrphansExplained == Spec => []OrphansHaveACause
<1>1. IInv => OrphansHaveACause
  BY DEF IInv
<1>. QED
  BY <1>1, Invariance, PTL

(***************************************************************************)
(* What a step never does.                                                 *)
(***************************************************************************)

\* The statements that write to equipment_backupjob; all others leave it alone.
WritesJobs ==
  \/ \E e \in Equipments : PostBackup(e) \/ DeleteEquipment(e)
  \/ \E j \in Jobs : DeleteJob(j) \/ RunBegin(j) \/ RunEnd(j) \/ RecoverOne(j)
  \/ CreateInvalid \/ CreateJob

\* Any other statement leaves the rows of the history as they are.
LEMMA OnlyWritersWrite == [Next]_vars => WritesJobs \/ UNCHANGED rows
<1>1. /\ \A e \in Equipments, on \in BOOLEAN, c \in Configs :
           SaveSchedule(e, on, c) => UNCHANGED rows
      /\ \A e \in Equipments, on, d \in BOOLEAN, c \in Configs, n \in Configs \cup {None} :
           AdminSaveSchedule(e, on, c, n, d) => UNCHANGED rows
  BY DEF SaveSchedule, AdminSaveSchedule
<1>2. /\ \A j \in Jobs : WorkerDies(j) \/ RunRaises(j) => UNCHANGED rows
      /\ \A j \in Jobs, o \in Outcomes : AdapterReturns(j, o) => UNCHANGED rows
  BY DEF WorkerDies, AdapterReturns, RunRaises
<1>3. \A e \in Equipments : Skip(e) \/ Admit(e) \/ ClockDue(e) => UNCHANGED rows
  BY DEF Skip, Admit, ClockDue
<1>4. WebStop \/ WebStart \/ RecoverDone \/ Age => UNCHANGED rows
  BY DEF WebStop, WebStart, RecoverDone, Age
<1>5. (Tick \/ CreateFails \/ Advance \/ AdvanceRaises \/ EndBatch
         \/ SchedulerStop \/ SchedulerStart) => UNCHANGED rows
  BY DEF Tick, CreateFails, Advance, AdvanceRaises, EndBatch, SchedulerStop,
         SchedulerStart
<1>6. UNCHANGED vars => UNCHANGED rows
  BY DEF vars
<1>7. Users => WritesJobs \/ UNCHANGED rows
  BY <1>1 DEF Users, WritesJobs
<1>8. \A j \in Jobs : Runner(j) => WritesJobs \/ UNCHANGED rows
  BY <1>2 DEF Runner, WritesJobs
<1>9. Recovery => WritesJobs \/ UNCHANGED rows
  BY <1>2, <1>4 DEF Recovery, WritesJobs
<1>10. Scheduler => WritesJobs \/ UNCHANGED rows
  BY <1>3, <1>5 DEF Scheduler, WritesJobs
<1>. QED
  BY <1>2, <1>3, <1>4, <1>5, <1>6, <1>7, <1>8, <1>9, <1>10 DEF Next, WritesJobs

\* No step takes back an outcome: a run writes one only while its row says
\* RUNNING, and the rows recovery has read are RUNNING until it saves them.
LEMMA StepKeepsOutcomes == IInv /\ [Next]_vars => KeepsOutcomes
<1>. SUFFICES ASSUME IInv, [Next]_vars,
                     NEW j \in Jobs, status[j] \in Terminal, ~Outlasts(j)
              PROVE  status'[j] \in {status[j], "deleted"}
  BY DEF KeepsOutcomes
<1>. USE OrchestrationAssumption
     DEF IInv, TypeOK, RowsOK, LiveOK, StaleOK, Jobs, Terminal, Live, MayBeRevised
<1>1. ASSUME NEW e \in Equipments, PostBackup(e) PROVE status'[j] = status[j]
  BY <1>1 DEF PostBackup, Insert
<1>2. ASSUME NEW e \in Equipments, DeleteEquipment(e)
      PROVE  status'[j] \in {status[j], "deleted"}
  BY <1>2 DEF DeleteEquipment
<1>3. ASSUME NEW k \in Jobs, DeleteJob(k)
      PROVE  status'[j] \in {status[j], "deleted"}
  BY <1>3 DEF DeleteJob
<1>4. ASSUME NEW k \in Jobs, RunBegin(k) PROVE status'[j] = status[j]
  BY <1>4 DEF RunBegin
<1>5. ASSUME NEW k \in Jobs, RunEnd(k) PROVE status'[j] = status[j]
  BY <1>5 DEF RunEnd, Close, Outcomes
<1>6. ASSUME NEW k \in Jobs, RecoverOne(k) PROVE status'[j] = status[j]
  BY <1>6 DEF RecoverOne, Close
<1>7. CreateInvalid => status'[j] = status[j]
  BY DEF CreateInvalid, Insert
<1>8. CreateJob => status'[j] = status[j]
  BY DEF CreateJob, Insert
<1>9. UNCHANGED rows => status'[j] = status[j]
  BY DEF rows
<1> HIDE DEF IInv, Jobs, Terminal
<1>. QED
  BY <1>1, <1>2, <1>3, <1>4, <1>5, <1>6, <1>7, <1>8, <1>9, OnlyWritersWrite
  DEF WritesJobs

\* The history never takes back an outcome it showed: that of a manual job
\* without condition, that of a scheduled one if backups end within the cutoff
\* of recovery.
THEOREM OutcomesAreFinal == Spec => TerminalFinal
<1>1. IInv /\ [Next]_vars => [KeepsOutcomes]_vars
  BY StepKeepsOutcomes
<1>. QED
  BY <1>1, Invariance, PTL DEF Spec, TerminalFinal

\* A row in the hands of recovery that is still being executed can only be one
\* that may outlast the cutoff (StaleOK).
LEMMA StepClosesOnlyDead == IInv /\ [Next]_vars => ClosesOnlyDead
<1>. SUFFICES ASSUME IInv, NEW j \in stale, ~Outlasts(j) PROVE ~Live(j)
  BY DEF ClosesOnlyDead
<1>. QED
  BY DEF IInv, StaleOK

\* recover_stale_backup_jobs, which looks at no process, never closes a manual
\* job that is being executed, nor a scheduled one that ends within the cutoff.
THEOREM RecoveryClosesOnlyDead == Spec => RecoverySparesLive
<1>1. IInv /\ [Next]_vars => [ClosesOnlyDead]_vars
  BY StepClosesOnlyDead
<1>. QED
  BY <1>1, Invariance, PTL DEF Spec, RecoverySparesLive

\* Only Advance moves both the scheduler and next_run_at of a due schedule, and
\* LoopOK says what became of its job.
LEMMA StepMovesOnAfterRun == IInv /\ [Next]_vars => MovesOnAfterRun
<1>. SUFFICES ASSUME IInv, [Next]_vars, NEW e \in Equipments,
                     <<pc, batch>>' # <<pc, batch>>, due[e], ~due'[e]
              PROVE  job \in Jobs /\ EndedRun(job, e)
  BY DEF MovesOnAfterRun
<1>1. ASSUME Advance PROVE job \in Jobs /\ EndedRun(job, e)
  <2>1. e = cur
    BY <1>1, NotDueFacts DEF Advance, IInv, TypeOK, LoopOK, InBatch
  <2>. QED
    BY <1>1, <2>1 DEF Advance, IInv, TypeOK, LoopOK, EndedRun, Jobs
<1>. DEFINE Same == UNCHANGED <<pc, batch>> \/ UNCHANGED due
<1>2. /\ \A f \in Equipments : PostBackup(f) \/ DeleteEquipment(f) => Same
      /\ \A f \in Equipments, on \in BOOLEAN, c \in Configs :
           SaveSchedule(f, on, c) => Same
      /\ \A f \in Equipments, on, d \in BOOLEAN, c \in Configs, n \in Configs \cup {None} :
           AdminSaveSchedule(f, on, c, n, d) => Same
  BY DEF PostBackup, DeleteEquipment, SaveSchedule, AdminSaveSchedule, loopVars, plans
<1>3. /\ \A j \in Jobs : DeleteJob(j) \/ WorkerDies(j) \/ RunBegin(j) \/ RunEnd(j) => Same
      /\ \A j \in Jobs : RunRaises(j) \/ RecoverOne(j) => Same
      /\ \A j \in Jobs, o \in Outcomes : AdapterReturns(j, o) => Same
  BY DEF DeleteJob, WorkerDies, RunBegin, RunEnd, RunRaises, RecoverOne,
         AdapterReturns, loopVars, plans
<1>4. \A f \in Equipments : Skip(f) \/ Admit(f) \/ ClockDue(f) => Same
  BY DEF Skip, Admit, ClockDue, plans, loopVars
<1>5. (WebStop \/ WebStart \/ RecoverDone \/ Age) => Same
  BY DEF WebStop, WebStart, RecoverDone, Age, plans
<1>6. (Tick \/ CreateInvalid \/ CreateJob \/ CreateFails \/ AdvanceRaises \/ EndBatch
         \/ SchedulerStop \/ SchedulerStart) => Same
  BY DEF Tick, CreateInvalid, CreateJob, CreateFails, AdvanceRaises, EndBatch,
         SchedulerStop, SchedulerStart, plans
<1>7. UNCHANGED vars => Same
  BY DEF vars, plans
<1>8. Same => FALSE
  OBVIOUS
<1>9. Users => Same
  BY <1>2 DEF Users
<1>10. \A j \in Jobs : Runner(j) => Same
  BY <1>3 DEF Runner
<1>11. Recovery => Same
  BY <1>3, <1>5 DEF Recovery
<1>12. Scheduler => Same \/ Advance
  BY <1>4, <1>6 DEF Scheduler
<1> HIDE DEF Same
<1>. QED
  BY <1>1, <1>3, <1>4, <1>5, <1>6, <1>7, <1>8, <1>9, <1>10, <1>11, <1>12 DEF Next

\* next_run_at leaves a due date only after a job of this batch ended.
THEOREM DatesMoveAfterRuns == Spec => DueClearedByRun
<1>1. IInv /\ [Next]_vars => [MovesOnAfterRun]_vars
  BY StepMovesOnAfterRun
<1>. QED
  BY <1>1, Invariance, PTL DEF Spec, DueClearedByRun

(***************************************************************************)
(* The history implements JobLifecycle.                                    *)
(***************************************************************************)

\* No row yet: the abstract history is empty.
LEMMA InitRefines == Init => Lifecycle!LInit
BY DEF Init, Lifecycle!LInit

\* Every write to the history is one step of JobLifecycle; RunBegin on a row a
\* view created RUNNING is a stutter.
LEMMA StepRefines == IInv /\ [Next]_vars => [Lifecycle!LNext]_(Lifecycle!lifecycle)
<1>. SUFFICES ASSUME IInv, [Next]_vars
              PROVE  Lifecycle!LNext \/ UNCHANGED <<status, trigger, finished>>
  BY DEF Lifecycle!lifecycle
<1>. USE OrchestrationAssumption
     DEF IInv, TypeOK, RowsOK, LiveOK, StaleOK, Jobs, Terminal, Live, Scheduled,
         Outlasts, MayBeRevised, Lifecycle!Outcome
<1>. DEFINE new == created + 1
<1>1. ASSUME NEW e \in Equipments, PostBackup(e)
      PROVE  Lifecycle!Open(new, "manual", "running") /\ new \in Jobs
  BY <1>1 DEF PostBackup, Insert, Lifecycle!Open
<1>2. ASSUME NEW e \in Equipments, DeleteEquipment(e)
      PROVE  \E S \in SUBSET Jobs : Lifecycle!Remove(S)
  <2>. DEFINE S == {j \in Jobs : Exists(j) /\ target[j] = e}
  <2>1. Lifecycle!Remove(S)
    BY <1>2 DEF DeleteEquipment, Exists, Lifecycle!Remove
  <2>. QED
    BY <2>1
<1>3. ASSUME NEW j \in Jobs, DeleteJob(j) PROVE Lifecycle!Remove({j})
  BY <1>3 DEF DeleteJob, Exists, Lifecycle!Remove
<1>4. ASSUME NEW j \in Jobs, RunBegin(j)
      PROVE  Lifecycle!Start(j) \/ UNCHANGED <<status, trigger, finished>>
  BY <1>4 DEF RunBegin, Lifecycle!Start
<1>5. ASSUME NEW j \in Jobs, RunEnd(j)
      PROVE  \E o \in {"success", "failed"} : Lifecycle!Finish(j, o) \/ Lifecycle!Revise(j, o)
  BY <1>5 DEF RunEnd, Close, Outcomes, Lifecycle!Finish, Lifecycle!Revise
<1>6. ASSUME NEW j \in Jobs, RecoverOne(j)
      PROVE  Lifecycle!Finish(j, "failed") \/ Lifecycle!Revise(j, "failed")
  BY <1>6 DEF RecoverOne, Close, Lifecycle!Finish, Lifecycle!Revise
<1>7. ASSUME CreateInvalid
      PROVE  Lifecycle!Open(new, "scheduled", "failed") /\ new \in Jobs
  BY <1>7 DEF CreateInvalid, Insert, Lifecycle!Open
<1>8. ASSUME CreateJob
      PROVE  Lifecycle!Open(new, "scheduled", "pending") /\ new \in Jobs
  BY <1>8 DEF CreateJob, Insert, Lifecycle!Open
<1>9. UNCHANGED rows => UNCHANGED <<status, trigger, finished>>
  BY DEF rows
<1> HIDE DEF IInv, Jobs, Terminal, new
<1>. QED
  BY <1>1, <1>2, <1>3, <1>4, <1>5, <1>6, <1>7, <1>8, <1>9, OnlyWritersWrite
  DEF WritesJobs, Lifecycle!LNext

\* Each row of the job history follows JobLifecycle, whoever writes to it.
THEOREM HistoryRefinesLifecycle == Spec => HistoryFollowsLifecycle
BY InitRefines, StepRefines, Invariance, PTL
   DEF Spec, HistoryFollowsLifecycle, Lifecycle!LSpec

==============================================================================
