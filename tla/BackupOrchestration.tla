-------------------------- MODULE BackupOrchestration --------------------------
(***************************************************************************)
(* How Vaultis runs backups: the rows of BackupJob and BackupSchedule, the *)
(* daemon threads of the web container that run manual backups, the single *)
(* loop of the scheduler container, and recover_stale_backup_jobs, which   *)
(* the web container runs each time it starts.                             *)
(*                                                                         *)
(* Every action is one statement of the code that the database or another  *)
(* process can see: the processes share nothing but the database and no    *)
(* transaction spans two of these statements.                              *)
(***************************************************************************)
EXTENDS Naturals

CONSTANTS
  Equipments,   \* the equipment rows there may be
  Configs,      \* what a schedule may say: frequency, time, weekday, day
  BadConfigs,   \* monthly schedules for day 0: compute_next_run raises on them
  None,         \* the SQL NULL
  MaxJobs,      \* bound: how many BackupJob rows are ever created
  Disruptions,  \* which events, beyond normal use, may happen
  BoundedRuns   \* every backup ends within BACKUP_JOB_STALE_MINUTES

DisruptionKinds == {"web", "worker", "scheduler", "delete", "admin", "adapter"}

ASSUME OrchestrationAssumption ==
  /\ BadConfigs \subseteq Configs
  /\ None \notin Equipments \cup Configs
  /\ MaxJobs \in Nat
  /\ Disruptions \subseteq DisruptionKinds
  /\ BoundedRuns \in BOOLEAN

VARIABLES
  \* table equipment_backupjob, row j
  status,     \* status, "none" before the row exists, "deleted" after
  finished,   \* whether finished_at is set
  trigger,    \* trigger
  target,     \* equipment_id
  created,    \* rows 1..created have been inserted
  aged,       \* rows 1..aged have started_at before the cutoff of recovery
  \* table equipment_equipment
  equipment,  \* the rows present
  \* table equipment_backupschedule, row of equipment e
  config,     \* frequency, run_time, weekday, day_of_month; None: no row
  enabled,    \* is_enabled
  nextRun,    \* next_run_at: the config it was computed from, None if NULL
  due,        \* next_run_at <= now
  older,      \* older[e]: the due schedules whose next_run_at is before that of e
  \* processes
  exec,       \* exec[j]: where the execution of run_backup_job(j) stands
  web,        \* the web container
  stale,      \* the rows recover_stale_backup_jobs has read and not yet saved
  pc,         \* the scheduler container, position in process_due_schedules
  batch,      \* batch[e]: the config e had when `due` was read, None if not in it
  ahead,      \* ahead[e]: the schedules that came before e when `due` was read
  cur,        \* the equipment of the schedule being processed, or saved last
  job         \* the job run_scheduled_backup created for it, 0 if none

rows     == <<status, finished, trigger, target, created>>
plans    == <<config, enabled, nextRun, due, older>>
webVars  == <<web, stale>>
loopVars == <<pc, batch, ahead, cur, job>>
vars     == <<rows, aged, equipment, plans, exec, webVars, loopVars>>

Jobs        == 1..MaxJobs
Terminal    == {"success", "failed"}
Outcomes    == Terminal
Statuses    == {"none", "pending", "running", "deleted"} \cup Terminal
Triggers    == {"manual", "scheduled"}
Positions   == {"idle", "begin", "adapter"} \cup Outcomes
Locations   == {"down", "sleep", "loop", "create", "run", "advance"}
NoBatch     == [e \in Equipments |-> None]
NoOrder     == [e \in Equipments |-> {}]

Exists(j)   == status[j] \notin {"none", "deleted"}
Live(j)     == exec[j] # "idle"
Scheduled(j) == trigger[j] = "scheduled"
Happens(k)  == k \in Disruptions

--------------------------------------------------------------------------------
(* Rows *)

\* BackupJob.objects.create: a row with a final status gets its finished_at.
Insert(e, how, st, where) ==
  LET j == created + 1 IN
  /\ created < MaxJobs
  /\ created'  = j
  /\ status'   = [status   EXCEPT ![j] = st]
  /\ finished' = [finished EXCEPT ![j] = st \in Terminal]
  /\ trigger'  = [trigger  EXCEPT ![j] = how]
  /\ target'   = [target   EXCEPT ![j] = e]
  /\ exec'     = [exec     EXCEPT ![j] = where]

\* job.save(update_fields=["status", "message", "finished_at"])
Close(j, st) ==
  /\ status'   = [status   EXCEPT ![j] = st]
  /\ finished' = [finished EXCEPT ![j] = TRUE]
  /\ UNCHANGED <<trigger, target, created>>

RunningRow(e) == \E j \in Jobs : target[j] = e /\ status[j] = "running"

\* process_due_schedules ends with an exception, the shell loop goes on.
AbortBatch ==
  /\ pc'    = "sleep"
  /\ batch' = NoBatch
  /\ ahead' = NoOrder
  /\ cur'   = None
  /\ job'   = 0

OthersDue(e) == {f \in Equipments \ {e} : due[f]}

\* next_run_at of e is written and lies ahead, or is NULL.
NotDue(e) ==
  /\ due'   = [due EXCEPT ![e] = FALSE]
  /\ older' = [f \in Equipments |-> IF f = e THEN {} ELSE older[f] \ {e}]

\* next_run_at of e has come, and of the others those of S are before it, which are
\* the first ones by their dates.
DueAfter(e, S) ==
  /\ \A f \in S : older[f] \ {e} \subseteq S
  /\ due'   = [due EXCEPT ![e] = TRUE]
  /\ older' = [f \in Equipments |->
                 IF f = e THEN S
                 ELSE IF f \in OthersDue(e) \ S THEN older[f] \cup {e}
                 ELSE older[f] \ {e}]

\* `for schedule in due`: e is the next one of the batch.
IsNext(e) == batch[e] # None /\ \A f \in ahead[e] : batch[f] = None

--------------------------------------------------------------------------------
(* Seeded faults: plausible mistakes in the code, each a variant of a definition *)
(* below. The specification uses none of them; they show that the properties can *)
(* fail.                                                                         *)

\* Recovery that also closes PENDING rows.
FaultRecoverPending == {j \in 1..aged : status[j] \in {"pending", "running"}}

\* Recovery without the started_at cutoff.
FaultRecoverAnyAge == {j \in 1..created : status[j] = "running"}

\* Recovery that filters on the jobs of the web container.
FaultRecoverManual == {j \in 1..aged : status[j] = "running" /\ ~Scheduled(j)}

\* A new web container that starts while the old one still serves.
FaultRollingWebStop ==
  /\ Happens("web")
  /\ web # "down"
  /\ web'   = "down"
  /\ stale' = {}
  /\ UNCHANGED <<rows, aged, equipment, plans, exec, loopVars>>

\* The query without order_by: schedules in any order.
FaultTick ==
  /\ pc = "sleep"
  /\ pc'    = "loop"
  /\ batch' = [e \in Equipments |->
                 IF enabled[e] /\ due[e] THEN config[e] ELSE None]
  /\ ahead' = NoOrder
  /\ UNCHANGED <<rows, aged, equipment, plans, exec, webVars, cur, job>>

\* next_run_at is moved on before `continue`.
FaultSkipAdvances(e) ==
  /\ pc = "loop"
  /\ IsNext(e)
  /\ RunningRow(e)
  /\ batch'   = [batch   EXCEPT ![e] = None]
  /\ nextRun' = [nextRun EXCEPT ![e] = batch[e]]
  /\ NotDue(e)
  /\ cur' = None
  /\ UNCHANGED <<rows, aged, equipment, config, enabled, exec, webVars, pc, ahead, job>>

\* run_scheduled_backup starts a thread, as the view does.
FaultCreateAsync ==
  /\ pc = "create"
  /\ cur \in equipment
  /\ Insert(cur, "scheduled", "pending", "begin")
  /\ job' = created'
  /\ pc'  = "advance"
  /\ UNCHANGED <<aged, equipment, plans, webVars, batch, ahead, cur>>

\* `except Exception` is missing: a technical error of the adapter goes through.
FaultUncaught(j) ==
  /\ \/ exec[j] \in {"begin"} \cup Outcomes /\ status[j] = "deleted"
     \/ exec[j] = "adapter"
  /\ exec' = [exec EXCEPT ![j] = "idle"]
  /\ IF Scheduled(j) THEN AbortBatch ELSE UNCHANGED loopVars
  /\ UNCHANGED <<rows, aged, equipment, plans, webVars>>

\* The last save without update_fields: it inserts a row that was deleted again.
FaultResave(j) ==
  /\ exec[j] \in Outcomes
  /\ Close(j, exec[j])
  /\ exec' = [exec EXCEPT ![j] = "idle"]
  /\ pc'   = IF Scheduled(j) THEN "advance" ELSE pc
  /\ UNCHANGED <<aged, equipment, plans, webVars, batch, ahead, cur, job>>

\* next_run_at is kept due after a failed run, to try again.
FaultRetryFailed ==
  /\ pc = "advance"
  /\ batch[cur] \notin BadConfigs
  /\ config[cur] # None
  /\ IF status[job] = "failed" THEN UNCHANGED <<nextRun, due, older>>
     ELSE /\ nextRun' = [nextRun EXCEPT ![cur] = batch[cur]]
          /\ NotDue(cur)
  /\ batch'   = [batch   EXCEPT ![cur] = None]
  /\ pc'  = "loop"
  /\ job' = 0
  /\ UNCHANGED <<rows, aged, equipment, config, enabled, exec, webVars, ahead, cur>>

\* A cutoff computed ahead of the clock.
FaultAgeAhead ==
  /\ aged < MaxJobs
  /\ aged' = aged + 1
  /\ UNCHANGED <<rows, equipment, plans, exec, webVars, loopVars>>

--------------------------------------------------------------------------------
(* The web container: equipment_backup, the worker threads, the schedule form. *)

\* equipment_backup: the row is created already RUNNING and its thread started;
\* nothing looks at the other jobs of the equipment.
PostBackup(e) ==
  /\ web = "up"
  /\ e \in equipment
  /\ Insert(e, "manual", "running", "begin")
  /\ UNCHANGED <<aged, equipment, plans, webVars, loopVars>>

\* BackupScheduleForm.clean: the day is only checked if the schedule is enabled.
FormAccepts(on, c) == on => c \notin BadConfigs

\* equipment_schedule
SaveSchedule(e, on, c) ==
  /\ web = "up"
  /\ e \in equipment
  /\ FormAccepts(on, c)
  /\ config'  = [config  EXCEPT ![e] = c]
  /\ enabled' = [enabled EXCEPT ![e] = on]
  /\ nextRun' = [nextRun EXCEPT ![e] = IF on THEN c ELSE None]
  /\ NotDue(e)
  /\ UNCHANGED <<rows, aged, equipment, exec, webVars, loopVars>>

\* BackupScheduleAdmin: no check of the day, and next_run_at is a plain field: a
\* date of the past may come before or after that of any other schedule.
AdminSaveSchedule(e, on, c, n, d) ==
  /\ Happens("admin")
  /\ web = "up"
  /\ e \in equipment
  /\ n = None => ~d
  /\ config'  = [config  EXCEPT ![e] = c]
  /\ enabled' = [enabled EXCEPT ![e] = on]
  /\ nextRun' = [nextRun EXCEPT ![e] = n]
  /\ IF d THEN \E S \in SUBSET OthersDue(e) : DueAfter(e, S) ELSE NotDue(e)
  /\ UNCHANGED <<rows, aged, equipment, exec, webVars, loopVars>>

\* BackupJobAdmin keeps the delete permission, even on a job that is running.
DeleteJob(j) ==
  /\ Happens("delete")
  /\ web = "up"
  /\ Exists(j)
  /\ status' = [status EXCEPT ![j] = "deleted"]
  /\ UNCHANGED <<finished, trigger, target, created>>
  /\ UNCHANGED <<aged, equipment, plans, exec, webVars, loopVars>>

\* Deleting an equipment cascades to its jobs and its schedule.
DeleteEquipment(e) ==
  /\ Happens("delete")
  /\ web = "up"
  /\ e \in equipment
  /\ equipment' = equipment \ {e}
  /\ status'  = [j \in Jobs |->
                   IF Exists(j) /\ target[j] = e THEN "deleted" ELSE status[j]]
  /\ config'  = [config  EXCEPT ![e] = None]
  /\ enabled' = [enabled EXCEPT ![e] = FALSE]
  /\ nextRun' = [nextRun EXCEPT ![e] = None]
  /\ NotDue(e)
  /\ UNCHANGED <<finished, trigger, target, created>>
  /\ UNCHANGED <<aged, exec, webVars, loopVars>>

\* A gunicorn worker dies and the daemon thread that runs j with it.
WorkerDies(j) ==
  /\ Happens("worker")
  /\ Live(j) /\ ~Scheduled(j)
  /\ exec' = [exec EXCEPT ![j] = "idle"]
  /\ UNCHANGED <<rows, aged, equipment, plans, webVars, loopVars>>

\* The web container stops, serving or still recovering: its threads end.
WebStop ==
  /\ Happens("web")
  /\ web # "down"
  /\ web'   = "down"
  /\ stale' = {}
  /\ exec'  = [j \in Jobs |-> IF Scheduled(j) THEN exec[j] ELSE "idle"]
  /\ UNCHANGED <<rows, aged, equipment, plans, loopVars>>

--------------------------------------------------------------------------------
(* recover_stale_backup_jobs, run by entrypoint.sh before gunicorn starts. *)

Recoverable == {j \in 1..aged : status[j] = "running"}

\* The query: the rows are read once, `for job in stale` then saves each of them.
WebStart ==
  /\ web = "down"
  /\ web'   = "recovering"
  /\ stale' = Recoverable
  /\ UNCHANGED <<rows, aged, equipment, plans, exec, loopVars>>

\* One turn of the loop, newest first: saved FAILED whatever the row says now.
\* No row of `stale` is deleted meanwhile: the admin is not served yet.
RecoverOne(j) ==
  /\ web = "recovering"
  /\ j \in stale /\ \A k \in stale : k <= j
  /\ stale' = stale \ {j}
  /\ Close(j, "failed")
  /\ UNCHANGED <<aged, equipment, plans, exec, web, loopVars>>

RecoverDone ==
  /\ web = "recovering"
  /\ stale = {}
  /\ web' = "up"
  /\ UNCHANGED <<rows, aged, equipment, plans, exec, stale, loopVars>>

--------------------------------------------------------------------------------
(* run_backup_job, in a web thread or inside the scheduler. *)

\* First save: RUNNING. The thread does not look at the status it overwrites.
RunBegin(j) ==
  /\ exec[j] = "begin"
  /\ status[j] # "deleted"
  /\ status' = [status EXCEPT ![j] = "running"]
  /\ exec'   = [exec   EXCEPT ![j] = "adapter"]
  /\ UNCHANGED <<finished, trigger, target, created>>
  /\ UNCHANGED <<aged, equipment, plans, webVars, loopVars>>

\* adapter.run_backup returns its message or raises; both are caught.
AdapterReturns(j, o) ==
  /\ exec[j] = "adapter"
  /\ exec' = [exec EXCEPT ![j] = o]
  /\ UNCHANGED <<rows, aged, equipment, plans, webVars, loopVars>>

\* Last save: the outcome and finished_at.
RunEnd(j) ==
  /\ exec[j] \in Outcomes
  /\ status[j] # "deleted"
  /\ Close(j, exec[j])
  /\ exec' = [exec EXCEPT ![j] = "idle"]
  /\ pc'   = IF Scheduled(j) THEN "advance" ELSE pc
  /\ UNCHANGED <<aged, equipment, plans, webVars, batch, ahead, cur, job>>

\* An exception nothing catches: a save on a deleted row, or get_adapter, which
\* is called outside the try, on a key import_module refuses.
RunRaises(j) ==
  /\ \/ exec[j] \in {"begin"} \cup Outcomes /\ status[j] = "deleted"
     \/ exec[j] = "adapter" /\ Happens("adapter")
  /\ exec' = [exec EXCEPT ![j] = "idle"]
  /\ IF Scheduled(j) THEN AbortBatch ELSE UNCHANGED loopVars
  /\ UNCHANGED <<rows, aged, equipment, plans, webVars>>

--------------------------------------------------------------------------------
(* scheduler-loop.sh and process_due_schedules. *)

\* The query: every schedule of the batch is read here, once, by next_run_at.
Tick ==
  /\ pc = "sleep"
  /\ pc'    = "loop"
  /\ batch' = [e \in Equipments |->
                 IF enabled[e] /\ due[e] THEN config[e] ELSE None]
  /\ ahead' = [e \in Equipments |-> {f \in older[e] : batch'[f] # None}]
  /\ UNCHANGED <<rows, aged, equipment, plans, exec, webVars, cur, job>>

\* A job of the equipment is RUNNING: `continue`, next_run_at stays due.
Skip(e) ==
  /\ pc = "loop"
  /\ IsNext(e)
  /\ RunningRow(e)
  /\ batch' = [batch EXCEPT ![e] = None]
  /\ cur'   = None
  /\ UNCHANGED <<rows, aged, equipment, plans, exec, webVars, pc, ahead, job>>

Admit(e) ==
  /\ pc = "loop"
  /\ IsNext(e)
  /\ ~RunningRow(e)
  /\ pc'  = "create"
  /\ cur' = e
  /\ UNCHANGED <<rows, aged, equipment, plans, exec, webVars, batch, ahead, job>>

\* validate_schedule_runnable objects: a FAILED row says why.
CreateInvalid ==
  /\ pc = "create"
  /\ cur \in equipment
  /\ Insert(cur, "scheduled", "failed", "idle")
  /\ job' = created'
  /\ pc'  = "advance"
  /\ UNCHANGED <<aged, equipment, plans, webVars, batch, ahead, cur>>

\* A PENDING row, then run_backup_job in the same process.
CreateJob ==
  /\ pc = "create"
  /\ cur \in equipment
  /\ Insert(cur, "scheduled", "pending", "begin")
  /\ job' = created'
  /\ pc'  = "run"
  /\ UNCHANGED <<aged, equipment, plans, webVars, batch, ahead, cur>>

\* The equipment of the snapshot is gone, or its host: the foreign key is refused.
\* Hosts are left out, so any deletion may have been that of a host.
CreateFails ==
  /\ pc = "create"
  /\ cur \notin equipment \/ Happens("delete")
  /\ AbortBatch
  /\ UNCHANGED <<rows, aged, equipment, plans, exec, webVars>>

\* compute_next_run and save, both from the schedule as the batch read it.
Advance ==
  /\ pc = "advance"
  /\ batch[cur] \notin BadConfigs
  /\ config[cur] # None
  /\ nextRun' = [nextRun EXCEPT ![cur] = batch[cur]]
  /\ NotDue(cur)
  /\ batch'   = [batch   EXCEPT ![cur] = None]
  /\ pc'  = "loop"
  /\ job' = 0
  /\ UNCHANGED <<rows, aged, equipment, config, enabled, exec, webVars, ahead, cur>>

\* compute_next_run raises, or the row was deleted and save raises.
AdvanceRaises ==
  /\ pc = "advance"
  /\ batch[cur] \in BadConfigs \/ config[cur] = None
  /\ AbortBatch
  /\ UNCHANGED <<rows, aged, equipment, plans, exec, webVars>>

EndBatch ==
  /\ pc = "loop"
  /\ batch = NoBatch
  /\ pc'    = "sleep"
  /\ ahead' = NoOrder
  /\ cur'   = None
  /\ UNCHANGED <<rows, aged, equipment, plans, exec, webVars, batch, job>>

\* The scheduler container stops, in the middle of anything.
SchedulerStop ==
  /\ Happens("scheduler")
  /\ pc # "down"
  /\ pc'    = "down"
  /\ batch' = NoBatch
  /\ ahead' = NoOrder
  /\ cur'   = None
  /\ job'   = 0
  /\ exec'  = [j \in Jobs |-> IF Scheduled(j) THEN "idle" ELSE exec[j]]
  /\ UNCHANGED <<rows, aged, equipment, plans, webVars>>

\* scheduler-loop.sh waits for the database and migrates; it recovers nothing.
SchedulerStart ==
  /\ pc = "down"
  /\ pc' = "sleep"
  /\ UNCHANGED <<rows, aged, equipment, plans, exec, webVars, batch, ahead, cur, job>>

--------------------------------------------------------------------------------
(* Time *)

\* The batch has not left the schedule whose date it has saved.
JustSaved(e) == pc = "loop" /\ cur = e

\* next_run_at of one schedule is reached, after those that are due. The order of
\* the steps stands for that of the keys where two dates are equal. A date that was
\* just saved counts from when the batch was read, and may have passed by then: as it
\* is left open how long ago that was, it comes anywhere among the others.
ClockDue(e) ==
  /\ nextRun[e] # None
  /\ ~due[e]
  /\ \E S \in SUBSET OthersDue(e) :
       /\ S = OthersDue(e) \/ JustSaved(e)
       /\ DueAfter(e, S)
  /\ UNCHANGED <<rows, aged, equipment, config, enabled, nextRun, exec, webVars,
                 loopVars>>

\* The oldest young row passes the cutoff: started_at grows with the row number.
Age ==
  /\ aged < created
  /\ BoundedRuns => ~Live(aged + 1)
  /\ aged' = aged + 1
  /\ UNCHANGED <<rows, equipment, plans, exec, webVars, loopVars>>

--------------------------------------------------------------------------------
Init ==
  /\ status   = [j \in Jobs |-> "none"]
  /\ finished = [j \in Jobs |-> FALSE]
  /\ trigger  = [j \in Jobs |-> "manual"]
  /\ target   = [j \in Jobs |-> None]
  /\ created = 0 /\ aged = 0
  /\ equipment = Equipments
  /\ config  = [e \in Equipments |-> None]
  /\ enabled = [e \in Equipments |-> FALSE]
  /\ nextRun = [e \in Equipments |-> None]
  /\ due     = [e \in Equipments |-> FALSE]
  /\ older   = NoOrder
  /\ exec = [j \in Jobs |-> "idle"]
  /\ web = "down" /\ stale = {}
  /\ pc = "down" /\ batch = NoBatch /\ ahead = NoOrder /\ cur = None /\ job = 0

Users ==
  \E e \in Equipments :
    \/ PostBackup(e)
    \/ \E on \in BOOLEAN, c \in Configs : SaveSchedule(e, on, c)
    \/ \E on, d \in BOOLEAN, c \in Configs, n \in Configs \cup {None} :
         AdminSaveSchedule(e, on, c, n, d)
    \/ DeleteEquipment(e)

Recovery ==
  RecoverDone \/ \E j \in Jobs : RecoverOne(j)

Runner(j) ==
  \/ RunBegin(j)
  \/ \E o \in Outcomes : AdapterReturns(j, o)
  \/ RunEnd(j)
  \/ RunRaises(j)

Scheduler ==
  \/ Tick
  \/ \E e \in Equipments : Skip(e) \/ Admit(e)
  \/ CreateInvalid \/ CreateJob \/ CreateFails
  \/ Advance \/ AdvanceRaises \/ EndBatch

Next ==
  \/ Users
  \/ \E j \in Jobs : DeleteJob(j) \/ WorkerDies(j) \/ Runner(j)
  \/ WebStop \/ WebStart \/ Recovery
  \/ Scheduler \/ SchedulerStop \/ SchedulerStart
  \/ Age
  \/ \E e \in Equipments : ClockDue(e)

Spec == Init /\ [][Next]_vars

(* Docker restarts both containers, threads and the loop are scheduled by the   *)
(* system, time passes. WF(Runner(j)) adds that device calls return: an         *)
(* assumption on the devices and the network, not something the code enforces.  *)
Fairness ==
  /\ WF_vars(WebStart) /\ WF_vars(Recovery)
  /\ WF_vars(SchedulerStart) /\ WF_vars(Scheduler)
  /\ \A j \in Jobs : WF_vars(Runner(j))
  /\ WF_vars(Age)

FairSpec == Spec /\ Fairness

--------------------------------------------------------------------------------
(* Properties *)

\* Every variable keeps its type; batch and job only mean something while the
\* scheduler is in the middle of a batch.
TypeOK ==
  /\ status   \in [Jobs -> Statuses]
  /\ finished \in [Jobs -> BOOLEAN]
  /\ trigger  \in [Jobs -> Triggers]
  /\ target   \in [Jobs -> Equipments \cup {None}]
  /\ created \in 0..MaxJobs /\ aged \in 0..created
  /\ equipment \subseteq Equipments
  /\ config  \in [Equipments -> Configs \cup {None}]
  /\ enabled \in [Equipments -> BOOLEAN]
  /\ nextRun \in [Equipments -> Configs \cup {None}]
  /\ due     \in [Equipments -> BOOLEAN]
  /\ older   \in [Equipments -> SUBSET Equipments]
  /\ exec \in [Jobs -> Positions]
  /\ web \in {"down", "recovering", "up"} /\ stale \subseteq Jobs
  /\ pc \in Locations
  /\ batch \in [Equipments -> Configs \cup {None}]
  /\ ahead \in [Equipments -> SUBSET Equipments]
  /\ cur \in Equipments \cup {None}
  /\ job \in 0..MaxJobs

\* Whether recovery can meet a backup that is still running.
Outlasts(j) == Scheduled(j) /\ ~BoundedRuns

KeepsOutcomes ==
  \A j \in Jobs : status[j] \in Terminal /\ ~Outlasts(j)
                  => status'[j] \in {status[j], "deleted"}

ClosesOnlyDead ==
  \A j \in stale : j \notin stale' /\ status'[j] = "failed" /\ ~Outlasts(j)
                   => ~Live(j)

EndedRun(j, e) ==
  /\ target[j] = e /\ Scheduled(j) /\ ~Live(j)
  /\ status[j] \in Terminal \cup {"deleted"}

MovesOnAfterRun ==
  \A e \in Equipments : <<pc, batch>>' # <<pc, batch>> /\ due[e] /\ ~due'[e]
                        => job \in Jobs /\ EndedRun(job, e)

\* A job the history shows as succeeded or failed keeps that status: nothing
\* the threads, the scheduler, recovery or a restart do later changes it. For
\* scheduled jobs this needs backups to end before the recovery cutoff, since
\* recovery runs in the web container while the scheduler goes on; for manual
\* ones it needs nothing (run_backup_job, recover_stale_backup_jobs).
TerminalFinal == [][KeepsOutcomes]_vars

\* recover_stale_backup_jobs closes a job of a kind that cannot outlast it only
\* when nobody executes that job any more, although it saves rows it read
\* earlier and looks at no process.
RecoverySparesLive == [][ClosesOnlyDead]_vars

\* The scheduler executes one backup at a time, across crashes, restarts and
\* aborted batches: the sessions of two scheduled backups never overlap
\* (process_due_schedules runs each backup inside its loop).
OneScheduledRun ==
  \A j, k \in Jobs :
    Live(j) /\ Live(k) /\ Scheduled(j) /\ Scheduled(k) => j = k

\* A row left pending or running with nobody executing it has a cause of its
\* kind: a dead thread or web container for a manual job, a stopped scheduler
\* for a scheduled one, an adapter that cannot be loaded for either. In
\* particular no outcome of an adapter, deletion or edit leaves one behind.
OrphansHaveACause ==
  \A j \in Jobs :
    status[j] \in {"pending", "running"} /\ ~Live(j)
      => \/ status[j] = "running" /\ Happens("adapter")
         \/ Scheduled(j) /\ Happens("scheduler")
         \/ ~Scheduled(j) /\ (Happens("web") \/ Happens("worker"))

\* The scheduler moves next_run_at of a schedule past a due date only after a
\* job it created for that equipment in this batch has ended (or was deleted
\* meanwhile): a skipped, aborted or interrupted run leaves the date due.
DueClearedByRun == [][MovesOnAfterRun]_vars

\* The rows of the history follow JobLifecycle, whoever writes them.
Lifecycle == INSTANCE JobLifecycle
  WITH Job <- Jobs, Late <- ~BoundedRuns,
       state <- status, kind <- trigger, closed <- finished

HistoryFollowsLifecycle == Lifecycle!LSpec

SchedulerStays == <>[](pc # "down")
WebKeepsRestarting == []<>(web = "down") /\ []<>(web = "up")

Served(e) == ~due[e] \/ ~enabled[e] \/ created = MaxJobs

\* An enabled schedule whose date has come is eventually run and moved on as
\* long as the scheduler stays up (README.md:299; MaxJobs bounds the model).
DueServed ==
  SchedulerStays => \A e \in Equipments : due[e] /\ enabled[e] ~> Served(e)

\* A job does not stay RUNNING for ever if the web container starts again from
\* time to time, whatever happened to the process that executed it.
RunningCleared ==
  WebKeepsRestarting =>
    \A j \in Jobs : status[j] = "running" ~> status[j] # "running"

--------------------------------------------------------------------------------
(* The inductive invariant behind the theorems of BackupOrchestrationProofs. *)

InBatch == pc \in {"create", "run", "advance"}

MayBeRevised(j) == Outlasts(j) /\ status[j] \in Terminal

\* Rows 1..created exist or existed; finished_at is set with the outcome.
RowsOK ==
  \A j \in Jobs :
    /\ status[j] = "none" <=> j > created
    /\ status[j] \in Terminal => finished[j]
    /\ status[j] \in {"none", "pending", "running"} => ~finished[j]
    /\ status[j] = "pending" => Scheduled(j)
    /\ status[j] = "none" => ~Live(j)

\* Who executes a job, and what its row can say meanwhile.
LiveOK ==
  \A j \in Jobs : Live(j) =>
    /\ Scheduled(j) => pc = "run" /\ job = j
    /\ ~Scheduled(j) => web = "up"
    /\ exec[j] = "begin" =>
         status[j] \in {"deleted", IF Scheduled(j) THEN "pending" ELSE "running"}
    /\ exec[j] # "begin" =>
         status[j] \in {"deleted", "running"} \/ MayBeRevised(j)
    /\ BoundedRuns => j > aged

\* The rows recovery still has to save, and what became of them.
StaleOK ==
  /\ stale # {} => web = "recovering"
  /\ \A j \in stale :
       /\ j <= aged
       /\ status[j] = "running" \/ MayBeRevised(j)
       /\ Live(j) => Outlasts(j)

\* What the scheduler's position says of its schedule and of its job.
LoopOK ==
  /\ InBatch => cur \in Equipments /\ batch[cur] # None
  /\ pc \in {"run", "advance"} =>
       /\ job \in 1..created
       /\ Scheduled(job) /\ target[job] = cur
  /\ pc = "run" => Live(job)
  /\ pc = "advance" => ~Live(job) /\ status[job] \in Terminal \cup {"deleted"}

IInv == TypeOK /\ RowsOK /\ LiveOK /\ StaleOK /\ LoopOK /\ OrphansHaveACause

--------------------------------------------------------------------------------
(* What documents and messages of the repository say and the code does not do. *)

\* views.py:229: once a schedule is saved, its next execution is the one the
\* saved frequency, day and time give.
NextRunFollowsConfig ==
  \A e \in Equipments :
    enabled[e] /\ nextRun[e] # None => nextRun[e] = config[e]

================================================================================
