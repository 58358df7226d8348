# Vaultis: formal models of the backup orchestration

This directory holds TLA+ models of Vaultis, the Django application that backs up network equipments (NetHSM, Arbor AED, F5 BIG-IP). They cover the rows and processes that run backups, the computation of the next run, the pipelines of the three families of adapters, and the page that follows a backup. TLC checks small instances. TLAPS proves the main results for every value of the constants.

```
tlc -workers 2 -config core_safety.cfg MCScheduleAccounting
tlapm BackupOrchestrationProofs.tla
```

Paths below are relative to the repository, `equipment/` unless they say otherwise.

## 1. The system

| part | state | operations | talks to |
|---|---|---|---|
| job history (`models.py`) | `BackupJob` rows: status, trigger, started_at, finished_at | created, saved field by field, deleted alone or with the equipment | every other part, through the database only |
| job execution (`services.py`) | the job object it was given | `run_backup_job`: RUNNING, call the adapter, outcome; `run_backup_job_async`: the same in a daemon thread | adapters, job rows |
| scheduler (`scheduler.py`, `run_backup_schedules.py`, `docker/scheduler-loop.sh`) | `BackupSchedule.next_run_at`, the batch it has read | one pass over due schedules: skip, create and run, save the next date | job execution in its own process, `compute_next_run` |
| `compute_next_run` (`scheduler.py`) | none | daily, weekly and monthly dates in the zone of the server | the schedule form, the scheduler |
| recovery (`recover_stale_backup_jobs.py`, `docker/entrypoint.sh`) | the rows it has read | closes old RUNNING rows when the web container starts | job rows |
| web views and forms (`views.py`, `forms.py`) | none | start a manual backup, save a schedule, show the history | threads, schedule rows |
| administration (`admin.py`) | none | delete jobs and equipments, edit schedules without the form's checks | rows |
| Arbor adapter (`adapters/arbor_aed.py`, `arbor_aed_*.py`, `scp_transfer.py`) | directories: incoming, staging, archive, the Windows host | scan, stage, upload, archive, release, per data centre | the device, which writes into incoming; other Arbor jobs |
| F5 adapters (`adapters/f5*.py`, `f5_*.py`) | archives on the device, locally and on Windows | find the active member, save, download, delete, transfer | devices |
| NetHSM adapter (`adapters/nitrokey.py`) | local file, Windows | download, choose a transfer, send | device |
| history page (`job_history.py`, `static/js/app.js`) | polling timer | show five jobs, poll while one runs | job rows |
| containers (`docker/`) | process lifetimes | start, stop, restart | all |

**What is hard.** The web and scheduler containers share nothing but the database, no transaction spans two statements of a run, and saves write chosen fields over whatever the row says by then. Threads are daemons and die with their gunicorn worker. Recovery looks at the age of a row and not at who executes it. The scheduler uses a snapshot of its schedules for as long as the backups of the batch take. Files are deleted at one end on the strength of a copy at the other.

**What makes each part correct.**

* History: a row follows one life cycle, an outcome is final, no row stays open without a cause.
* Scheduler: one scheduled backup at a time; a date is left only after its run; a date causes one run; schedules run in the order of their dates; every due date is served.
* Next run: the first date that the schedule names, and one date per period.
* Recovery: closes only what nobody executes, and does so eventually.
* Arbor: executions of the adapter overlap only with manual backups; a complete file is always retrievable, is released only once delivered, and a success means delivery.
* F5: the active member is the one saved, an archive left on the device has a cause, an archive is deleted only once it is downloaded, what the view accepts runs.
* NetHSM: a success without a transfer means that none was asked for or that none could be selected.
* F5 and NetHSM: the local copy comes first and survives, and the message of a success says which copies there are.
* Page: it asks for a job as long as it shows it open, an outcome it shows names its host and is never taken back.

`PROJECT.json` lists every hazard at its line with the properties that cover it.

## 2. Modules

| module | what it is |
|---|---|
| `BackupOrchestration` | rows, web container, threads, recovery, scheduler loop, time |
| `JobLifecycle` | the abstract life of a job; `BackupOrchestration` implements it |
| `ScheduleAccounting` | `BackupOrchestration` with counters of dates, runs and losses, and with whose turn it is |
| `NextRun` | `compute_next_run` and the chain of dates it gives |
| `AdapterContract` | what an adapter that fetches an archive promises; the next two implement it |
| `F5Backup` | the F5 adapters: the active member, the archive on the device, its copies, for several jobs |
| `NetHsmTransfer` | the NetHSM adapter: the local file and the choice of a transfer, for several jobs |
| `ArborTransfer` | the Arbor adapter: devices, directories, jobs in turn or at once |
| `ArborOrchestration` | the jobs of `BackupOrchestration` with `ArborTransfer` inside them |
| `HistoryPage` | the history on the page of an equipment and its polling, against the rows of `JobLifecycle` |
| `...Proofs` | the theorems about a module and their proofs |
| `MC...` | small instances for TLC |

`BackupOrchestration` and `HistoryPage` meet in `JobLifecycle`: the first implements it, the second takes it as the behaviour of the rows it shows. The adapters are the `adapter` step of `run_backup_job`, seen from inside. For Arbor, whose jobs share directories, `ArborOrchestration` puts the two together and implements both `BackupOrchestration` and `ArborTransfer`.

A section "Seeded faults" in each module holds plausible mistakes of the code, as variants of definitions. No specification uses them. Each serves to show that a property fails when the code is wrong.

### 2.1 BackupOrchestration

An action is one statement that the database or another process can see.

| state | code |
|---|---|
| `status`, `finished`, `trigger`, `target` | `BackupJob.status`, `finished_at` set or not, `trigger`, `equipment_id` |
| `created`, `aged` | how many rows were inserted; how many have `started_at` before the cutoff of recovery |
| `config`, `enabled`, `nextRun`, `due`, `older` | the schedule row; `next_run_at` is modelled by the configuration it was computed from, by whether it has passed, and by which of the others that have passed are before it (`older`) |
| `exec[j]` | where `run_backup_job(j)` stands: before its first save, in the adapter, before its last save with an outcome |
| `web`, `stale` | the web container, and the rows that recovery has read |
| `pc`, `batch`, `ahead`, `cur`, `job` | the position in `process_due_schedules`, its snapshot and the order of it (`order_by("next_run_at", "pk")`), its current or last schedule and its job |

| actions | code |
|---|---|
| `PostBackup`, `SaveSchedule` | `equipment_backup`, `equipment_schedule` |
| `AdminSaveSchedule`, `DeleteJob`, `DeleteEquipment` | the admin |
| `RunBegin`, `AdapterReturns`, `RunEnd`, `RunRaises` | `run_backup_job` |
| `Tick`, `Skip`, `Admit`, `CreateInvalid`, `CreateJob`, `CreateFails`, `Advance`, `AdvanceRaises`, `EndBatch` | `process_due_schedules`, `run_scheduled_backup` |
| `WebStart`, `RecoverOne`, `RecoverDone` | `entrypoint.sh`, `recover_stale_backup_jobs` |
| `WebStop`, `WorkerDies`, `SchedulerStop`, `SchedulerStart` | containers and workers |
| `ClockDue`, `Age` | time |

Simplifications:

* `compute_next_run` counts from the time the batch was read, so that the date `Advance` saves may have passed already: `ClockDue` may then come before the next schedule of the batch is taken (`JustSaved`), and put the date anywhere among those of the others, as how long ago the batch was read is left open. This allows more than the code;
* of two equal dates the one that comes due first in the model is the older;
* the `count()` and the iteration of recovery are one read;
* an administrator who deletes a schedule row alone is not modelled, only the cascade from its equipment;
* there is one scheduler container, as in `docker-compose.yml`;
* hosts, their choice and the validation of a form only decide whether an action happens: where deletions are among the disruptions, `CreateFails` may happen to any scheduled job, because its host may have been deleted.

`BoundedRuns` says whether every backup ends before the cutoff of recovery (`BACKUP_JOB_STALE_MINUTES`). Nothing enforces this: both cases are checked. `Disruptions` selects which unusual events may happen, so that a run can say which of them a property needs to be spared.

`JobLifecycle` is the promise: a job opens, starts, finishes once with an outcome, and `finished_at` comes with the outcome. With `Late`, that is without `BoundedRuns`, a scheduled row may see one outcome overwritten by another, because recovery and a live scheduler both write it.

### 2.2 ScheduleAccounting

What the code does not keep: the counters `dates[e]` reached, `runs[e]` inserted, `lost[e]` jobs whose `next_run_at` was never saved; and `passed[e]`, the schedules that have run since `e` waits for its turn. A batch that is cut begins the wait anew, and a schedule that gets an older date, by an edit or by a save that counts from a batch read before `e` came due, may run again. The step relation is that of `BackupOrchestration` with their updates.

### 2.3 NextRun

Dates are numbered days, instants are UTC, and the calendar and the zone are constants with four assumptions. `CalendarAssumption`: months are adjacent intervals of 28 to 31 days. `ZoneAssumption`: a run time of an earlier local date is past and one of a later date is ahead, which holds in every zone whose clock changes stay within a day. `RoundTripAssumption`: a run time of a local date, turned into an instant and back, is of that date, also where a clock change skips it, unless it skips midnight too. `RaisesAssumption`: the value for an exception is not an instant. `DailyDate`, `WeeklyDate`, `InMonth` and `MonthlyDate` are the branches of `compute_next_run`. `IsFirstAfter` says what is asked without the algorithm. `Look(i)` is a scheduler that finds the date due at `i`, as late as `Late` allows.

### 2.4 ArborTransfer

State: what the device has produced of each file (`written`), and what incoming, the staging of each job, the Windows host and the archive hold of it: nothing, a part, or the whole. `pc`, `at`, `files`, `todo`, `cur`, `taken` and `kept` are the control of `Adapter.run_backup`. Each loop over files is one action per file (`Copy`, `OpenRemote` and `WriteRemote`, `Release`). `shutil.move` between two mounts is a copy followed by a deletion (`Copy`, `Unlink`), and an upload truncates the remote file before it writes it.

The variable `site` is the installation, fixed in the initial state: the settings `ARBOR_AED_MOVE_SOURCE` and `ARBOR_AED_ARCHIVE_AFTER_UPLOAD`, whether files appear in incoming before they are complete (`slow`), and whether a job is ever started while another one runs (`overlap`). Properties name the installations they are about: `Default` copies, has complete files and no overlap; `Orderly` has complete files, and jobs that take turns or move. `Failures` says which steps may fail. `Begin(j)` and `Work(j)` are the adapter, `Start(j)` adds what `overlap` asks. `Killed(S)` ends several jobs at once, as a container does.

Simplifications:

* the configuration is valid and gives each data centre a directory of its own;
* names are recognized, and files of other names, which the code ignores, are left out;
* the order of files in a loop is open;
* the archive is one step, since nothing reads it;
* each job starts with an empty staging directory because job numbers are not reused;
* `archive_processed_files`, which nothing calls, is left out.

### 2.5 AdapterContract

`outcome` and `held` are what an adapter has answered and where the archive of the execution is, whole. `shared` are the executions whose file name is also that of another one: names have a resolution of one second, and such executions write, truncate and delete the same files. `Share`, `Store`, `Deliver`, `Succeed` and `Fail` are all that may happen. `Share` may come at any time, also to executions that are over, and from then on only an answer is promised. `Copies` reads the message of a success: "enregistré et transféré" means a local and a Windows copy, "enregistré" a local one, the demonstration none.

### 2.6 F5Backup

| state | code |
|---|---|
| `debug` | `settings.DEBUG` |
| `active`, `view`, `failovers` | the cluster: its active member and what each member reports |
| `device`, `local`, `remote` | archives on each device, in each `backup_root`, on the Windows host |
| `job[j]` | the position in the adapter, the peer asked, the target, the name of the archive, whether the deletion was given up with a warning (`warned`); `calm` is not in the code: nothing has changed in the cluster since the job began |

| actions | code |
|---|---|
| `Submit` | `equipment_backup` or `run_scheduled_backup`, then the choice of `run_backup` between the demonstration, a refusal and a session |
| `Answered`, `NextPeer`, `AskRaises` | `resolve_active_mgmt_ip`, `_attach_resolved_host` |
| `HostGone`, `Connect`, `ConnectFails` | `resolve_standalone_host`, `F5SSHSession`, `ucs_filename` |
| `Save`, `Saved`, `Download`, `Downloaded`, `Delete` and their failures | `f5_ssh_core.py` |
| `NoTransfer`, `Upload`, `Uploaded`, `Announce`, `UploadFails` | the transfer to Windows, and what may still fail when all is sent |
| `Failover`, `Learn` | the devices |

Simplifications: the settings are chosen anew for each job, which allows more than the code; of the second in a name only matters whether another job has the same one (`Shared`), and any job may have; what a file holds that two jobs write is then open (`Ends`); iControl and SSH are their outcomes. `FailureKinds` lists the steps that may fail.

### 2.7 NetHsmTransfer

`site` holds the settings of the transfer (`mode` and what is configured of SMB, SCP and a mounted directory), `local` and `remote` the files, `pc` and `name` the position and the file of each execution. `Submit` is the acceptance and the choice between the API and the demonstration; `Fetched`, `Write`, `Written` the download and the local file; `SelectRaises`, `Select`, `Send`, `Sent`, `Announce` the transfer. What is configured of SMB or SCP is `complete`; `incomplete`, which raises whatever the mode; `ignored`, a host without its share (`nitrokey.py:147`) or username (`:167`), which is read as no configuration at all; or `absent`. `Selected` is the order in which the automatic mode looks at them: it takes the first that is there and tries no other. Names may be shared as in `F5Backup`. The settings are read once per container and do not change during a run; the credentials are chosen anew for each job.

### 2.8 HistoryPage

| state | code |
|---|---|
| `state`, `kind`, `closed` | the rows, by an instance of `JobLifecycle` |
| `host`, `scheduleOn` | the address of the host that each row refers to, or none; `is_enabled` |
| `shown`, `print` | the rows of the table, `lastFingerprint` |
| `pollActive`, `timer` | `data-poll-active`, a poll that is scheduled |
| `asked`, `answers` | requests under way, answers under way |
| `failed`, `edited` | not in the code: a request of this page has failed; the finished jobs whose host the administration has edited or deleted since the page was loaded |

`Load` is `equipment_detail` with `initBackupHistoryPolling`, `Poll`, `Render` and `RequestFails` are `refreshHistory`, `Answer` is `equipment_jobs_json`. `Attach` is the HA adapter, which writes the host it found into the row. `EditHost` is the administration, which may at any time change the address of a host or delete it: all rows that refer to it, also those of finished jobs, then name the new address or none (`SET_NULL`). `Recent` is the query for the last five rows; `Fingerprint` leaves out the host, as the code does. The server and the browser take separate steps, so an answer may be old when it arrives. The delays of 10 and 20 seconds are "some time later". One browser is modelled: pages do not influence one another.

### 2.9 ArborOrchestration

The variables are those of `BackupOrchestration` and of `ArborTransfer`, with `step` for its `pc` and `hand` for its `cur`. While `exec[j]` is `adapter`, `AdapterRuns(j)` makes the steps of the adapter, whatever the other jobs do.

| actions | code |
|---|---|
| `AdapterRuns` | `Adapter.run_backup` and its loops, inside `run_backup_job` |
| `Answers` | the `try` of `run_backup_job`: success if the adapter has returned, failure if it has raised, or raises before its first step on a setting that is missing |
| `Raises` | exceptions outside the `try`: an adapter that cannot be loaded, a row that is gone |
| `Losses` | worker, web and scheduler stops: the adapters inside stop where they stand |
| `Manual` | `equipment_backup`, if users of the installation start manual backups |
| `Elsewhere`, `Device` | all other actions of the two modules |

`install` replaces `site`: instead of whether jobs overlap it says whether users start manual backups of an Arbor (`manual`). That jobs overlap, or are killed, and which of them together, then follows from the threads, the loop and the containers. Every equipment is an Arbor, since jobs of other adapters share nothing with it but the scheduler, which they delay.

## 3. Runs

| run | question | bounds | result |
|---|---|---|---|
| `core_safety` | `OrphansHaveACause`, `OneRunPerDateAndLoss`, `TerminalFinal`, `RecoverySparesLive`, `DueClearedByRun`, `HistoryFollowsLifecycle`, `ServedInTurn` | 2 equipments, 2 jobs, 2 dates each; web and worker losses, deletions; backups within the cutoff | pass |
| `restarts` | `TypeOK`, `OneScheduledRun`, `RecoverySparesLive`, `HistoryFollowsLifecycle`, `RunningCleared` | 1 equipment, 2 jobs; every disruption, a daily schedule and one for day 0; backups of any length | pass |
| `next_run` | `NextIsFirst`, `OncePerPeriod` | 5 months, both clock changes, days 0, 1, 28 and 31 of the month, looks up to 30 hours late | pass |
| `arbor_transfer` | `TypeOK`, `Retrievable`, `DeliveredStays`, `ReleasedAfterDelivery`, `SuccessDelivers` | all 16 installations, 3 files, 2 data centres, 2 jobs, every failure | pass |
| `arbor_jobs` | `SuccessRowsDelivered`, `NothingLost`, `JobsTakeTurns` | 1 equipment, 2 jobs, 2 files of 1 data centre, uploads that fail, losses of threads and of both containers, backups of any length; scheduled backups that copy, scheduled and manual ones that move | pass |
| `f5_pipeline` | `TypeOK`, `ActiveUnlessDisturbed`, `LeftoverExplained`, `AcceptedRuns`, `DeletedAfterDownload`, `KeepsContract` | a cluster of 2 and a DN, 2 jobs, 2 seconds, 1 failover, all settings, every failure, names that differ or not | pass |
| `nethsm_pipeline` | `TypeOK`, `RecordedOnlyIfNothingToSend`, `AcceptedNotRefused`, `KeepsContract` | 3 jobs, 2 devices, 3 seconds, all settings, every failure, names that differ or not | pass |
| `history_page` | `TypeOK`, `WatchedWhileOpen`, `ClosedRowsComplete`, `NeverReopens`, `OutcomeShown`, `ScheduledPageCatchesUp` | 2 jobs, a table of 1 row, 1 address or none, hosts edited and deleted, backups that outlast their recovery | pass |
| `stale_next_run` | `NextRunFollowsConfig` | 1 job, 2 configurations | violated |
| `scheduler_crash_starves` | `DueServed` | 2 jobs, a scheduler that stops | violated |
| `arbor_move_strands` | `NeverStranded` | moved sources, a failed transfer | violated |
| `nethsm_demo` | `NoFalseSuccess` | as `nethsm_pipeline` | violated |

**Why the bounds are enough.** A hazard of the core involves two processes and one or two rows: a job and its recovery, a scheduled and a manual job of one equipment, a job and an edit. Two equipments give a batch of two schedules, the second processed after the snapshot has aged, and are enough for one to jump the queue of the other; the dates of two due schedules come in both orders, as time and late saves leave them. `core_safety` leaves out the loss of the scheduler and the adapter that cannot be loaded, so that `OrphansHaveACause` has no excuse to offer for a scheduled row; a batch is interrupted by a deletion instead. `restarts` includes every disruption, and backups that outlast their recovery, for one equipment. A third job, or all of this for two equipments, is more than TLC visits in a few minutes: two jobs are an orphan and the job it blocks, and the proofs include everything. The proofs remove the bounds for everything but liveness. In `next_run` the months have 28, 30 and 31 days, and the instants surround the ends of months and both clock changes. For Arbor, two files of one data centre and one of the other separate "some", "all" and "the other directory", and two jobs are the fewest that overlap or follow each other. `arbor_jobs` multiplies the states of two modules and takes the two installations that differ in what is claimed: scheduled backups that copy, where jobs must take turns, and backups that move, where manual ones may overlap. Manual backups that copy are left out because only `JobsTakeTurns` says anything of them, and it then allows every overlap. The other installations, other failures and deletions of rows multiply the states beyond a few minutes; `arbor_transfer`, `core_safety` and `restarts` have them, and so have the proofs. For F5, two members are the fewest that can disagree, the failover may come before, during or after a job, and a second job on the same or the other device has every order with the first; a second failover brings no state that the proofs leave out. For NetHSM every combination of settings is an initial state, and three jobs are two for one device and one for the other. For the page, one row and two jobs give the case the limit of five is about: a row pushed out by a newer one and brought back by a deletion. One address and none are two values for a host, which is what it takes for a row to show an old one. `OutcomeShown` makes larger instances slow: three jobs and one row take minutes with the same result, and the proofs of the invariants are for any numbers.

Runs that use symmetry check safety only: invariants, action properties and, in `arbor_jobs`, a refinement without fairness, whose specification treats the files alike. The adapter runs and `next_run` switch the deadlock check off: jobs and instants are finite, so a behaviour ends.

`MaxJobs` bounds the rows. `DueServed` counts a schedule as served once no row is left, which only the model can reach: the seeded faults still violate it with rows to spare. A schedule for day 0 is never moved on: in `restarts` it is there for the safety properties and for `RunningCleared`. `DueServed` is not claimed of anything but a single daily schedule. `MaxDates` bounds the dates of `ScheduleAccounting`.

### What the violated runs show

* `stale_next_run`: a user saves a schedule during its backup, and the scheduler then overwrites the `next_run_at` that the page has just announced with one of the old configuration. This lasts until that date.
* `scheduler_crash_starves`: a scheduler that stops during a run leaves the row RUNNING. It skips that equipment from then on, until the web container happens to start. `restarts` shows that starts of the web container clear such rows. They are not all that can starve a schedule, see below.
* `arbor_move_strands`: with `ARBOR_AED_MOVE_SOURCE` a failed transfer leaves the files in the staging directory of a job that is over.
* `nethsm_demo`: the view and the scheduler accept a NetHSM job once the default credentials are set. Without `NITROKEY_INTEGRATION=nethsm` the adapter then answers from its demonstration: a success in production, and no backup.

### Limits of the properties

Some properties are stated for part of the system because the rest does not have them:

* Recovery that runs during a scheduled backup longer than the cutoff closes the row of a live job, and the scheduler later writes its own outcome over it. `RecoverySparesLive` and `TerminalFinal` exclude exactly this, and `JobLifecycle` allows it as `Late`.
* The admin accepts day 0 of the month. `compute_next_run` raises after the backup, the date stays due, and each turn of the loop runs it again: `OneRunPerDateAndLoss` counts these as losses. Such a schedule keeps the oldest `next_run_at`, so it soon heads every batch, and its exception (`scheduler.py:158`) cuts the batch: the schedules that come after it are not served until it is corrected or disabled. `ServedInTurn` therefore starts anew with each batch that is cut, and no liveness is claimed of a scheduler with such a schedule.
* Two copying Arbor jobs at once: the second truncates a remote file whose source the first has deleted, and may fail. `DeliveredStays` is about installations without this.
* A device that writes slowly into incoming: nothing tells a complete file from one that is still being written. `ReleasedAfterDelivery` and `SuccessDelivers` exclude it.
* For the same reasons `SuccessRowsDelivered` is about installations whose jobs move files or are started by the scheduler alone. The scheduler's test on RUNNING rows does not see to that: it looks at one equipment, and `equipment_backup` makes no such test.
* Two F5 or NetHSM jobs for one device in the same second form the same name (`f5_variant.py:175`, `nitrokey.py:117`), and nothing locks the device or the file. One may open the local file again, and truncate it, before the other deletes the archive from the device: the only whole copy is then lost, and both jobs may report a success or a failure. `DeletedAfterDownload` speaks of names that one job has, and `KeepsContract` promises jobs that share a name an answer and nothing else. The model has all of this and excludes no interleaving; it is what is claimed that stops there.
* The automatic mode of the NetHSM transfer (`README.md:159`: "essaie `smb`, puis `scp`, puis `dir`") does not try one after the other: it takes the first that is configured, and when that fails the job fails. The local file is kept (`KeepsContract`).
* Settings of a transfer without the share (SMB) or the username (SCP) are passed over in silence, and the job is a success without a transfer. `RecordedOnlyIfNothingToSend` counts them as none; an explicit mode `smb` or `scp` does raise.
* A host that is edited or deleted in the admin keeps its old address in the rows a page shows, because the fingerprint ignores hosts, until the table changes otherwise or the page is reloaded; after that the row of a finished job names the new address, or none. `ClosedRowsComplete` excludes the rows whose host was changed since the page was loaded.
* An open job that five newer ones push out of the table is not asked for (`job_history.py:10`): if a deletion brings it back, a page without a schedule that has stopped asking shows it only after a reload.
* A peer of the cluster that accepts a request and never answers ends the job (`f5_ha.py:77`), without asking the others.
* A manual backup on a page without a schedule: one failed request ends the polling (`app.js:638`), and the page shows "En cours" until it is reloaded. `WatchedWhileOpen` and `OutcomeShown` exclude exactly this.

## 4. Fairness

`FairSpec` assumes weak fairness of the start of both containers (Docker restarts them), of recovery and the scheduler loop (they are sequential programs), of each execution of `run_backup_job`, and of the clock. The fairness of an execution assumes that device calls return. The code does not enforce that everywhere: `recv_exit_status` in `f5_ssh_core.py` has no timeout. There is none on users, deletions, losses or due dates.

`FairSpec` of `HistoryPage` assumes that timers run out and answers under way are received (weak fairness of `Poll` and `Receive`), and that the server does not fail every request for ever (strong fairness of `Answer`, since a request may fail each time it is sent). Nothing is assumed of jobs, users, reloads or the schedule. The other modules state no fairness: what a failing device owes nobody can say.

`DueServed` also assumes that the scheduler stays up from some point on. `RunningCleared` assumes that the web container starts again and again, which is what ends the RUNNING rows of lost jobs. These are hypotheses of the properties and not of the specification, because an operator may leave the web container up for months. A PENDING row whose creator died is never recovered. It blocks nothing, as the scheduler looks at RUNNING rows only, and `OrphansHaveACause` says when it can exist.

## 5. Proofs

| theorem | states |
|---|---|
| `TypeCorrect`, `SchedulerRunsOneBackup`, `OrphansExplained` | `TypeOK`, `OneScheduledRun`, `OrphansHaveACause` are invariants |
| `OutcomesAreFinal`, `RecoveryClosesOnlyDead`, `DatesMoveAfterRuns` | `TerminalFinal`, `RecoverySparesLive`, `DueClearedByRun` |
| `HistoryRefinesLifecycle` | `BackupOrchestration` implements `JobLifecycle` |
| `DatesAccountForRuns`, `SchedulesServedInTurn` | `OneRunPerDateAndLoss`, `ServedInTurn` |
| `NextRunIsFirst`, `ServedOncePerPeriod` | `NextIsFirst`, `OncePerPeriod`, for every calendar, zone and schedule that meet the assumptions |
| `ArborTransferProofs`: `TypeCorrect`, `NothingStranded`, `ReleasesDelivered`, `SuccessMeansDelivered`, `DeliveredOnce` | `TypeOK`, `Retrievable`, `ReleasedAfterDelivery`, `SuccessDelivers`, `DeliveredStays` |
| `OrchestrationKept` | `ArborOrchestration` implements `BackupOrchestration` |
| `AdaptersTakeTurns` | `ArborOrchestration` implements `ArborTransfer` (`JobsTakeTurns`) |
| `SuccessRowsMeanDelivery`, `NothingIsLost` | `SuccessRowsDelivered`, `NothingLost` |
| `F5BackupProofs`: `TypeCorrect`, `ActiveMemberSaved`, `LeftoversExplained`, `AcceptedJobsRun`, `NoArchiveLost`, `AdapterKeepsContract` | `TypeOK`, `ActiveUnlessDisturbed`, `LeftoverExplained`, `AcceptedRuns`, `DeletedAfterDownload`, `KeepsContract` |
| `NetHsmTransferProofs`: `TypeCorrect`, `RecordedOnlyThen`, `AcceptedAreNotRefused`, `AdapterKeepsContract` | `TypeOK`, `RecordedOnlyIfNothingToSend`, `AcceptedNotRefused`, `KeepsContract` |
| `HistoryPageProofs`: `TypeCorrect`, `OpenIsWatched`, `ClosedIsComplete`, `NothingReopens` | `TypeOK`, `WatchedWhileOpen`, `ClosedRowsComplete`, `NeverReopens` |

Each module names the assumptions on its constants; but for those of `NextRun` (2.3) they say only what sets these are taken from. The theorems about the core hold for any equipments, configurations, bound on jobs and set of disruptions, from `OrchestrationAssumption` (and `AccountingAssumption`).

**The inductive invariant of the core.** None of the properties is inductive. Recovery saves rows it read earlier, so `RecoverySparesLive` needs to know what may have become of them (`StaleOK`). That depends on who executes a job and what its row can then say (`LiveOK`): only one process does, a scheduled job is executed only at the position `run` of the loop and only as its current job, and a manual one only while the web container is up. `DueClearedByRun` needs the relation between the position of the loop and its job (`LoopOK`), and the rows need to be numbered and closed consistently (`RowsOK`). `IInv` is their conjunction with `TypeOK` and `OrphansHaveACause`. Each action property is then a lemma `IInv /\ [Next]_vars => ...`, and the refinement maps each step to a step of `JobLifecycle` or to a stutter.

**Accounting.** A date that is due, or has been read into the batch, is owed one run unless that run is in progress. `AccountsOK` says that runs plus those owed never exceed dates plus losses, and is inductive with `IInv`. For the turns, `passed[e]` must only hold schedules that cannot run before `e`: they are later than `e` in the table, and in the batch if they are in it (`ComesAfter`). That needs `older` to be an order among due schedules (`OrderOK`). `TurnsOK` is their conjunction, and `ServedInTurn` follows because the schedule whose job is created has nobody of the batch ahead of it.

**Next run.** The daily and weekly cases follow from `OnlyTodayIsOpen`: only today's run time may be on either side of now. The monthly case shows that the loop over 36 months stops within two (`LoopStops`), that the candidate of a month is the only date it names in that month (`CandidateOfMonth`), and that later months only name later dates (`MonthsAreOrdered`). `OncePerPeriod` is about two such dates in a row: a date ahead of the look lies in a later period than the one that was due (`NextIsLater`), because a period names one date (`OneDatePerMonth`), and a look within the period finds the date of the next one (`NextIsNextPeriod`).

**Arbor.** `TInv` adds to the types that a job at work has a data centre and that the file in hand belongs to its loop. `QInv`, for `Orderly` installations, says for each step where the files of the job are (`Progress`): in staging, on the Windows host, gone from incoming. What is delivered remains so for good, whichever job makes the next step (`DeliveredRemains`, `MovedRemains`), so `SuccessDelivers` speaks of every job that has ever succeeded. `Retrievable` needs that by default a complete file is in incoming or delivered even when no job runs (`InPlace`). `DeliveredStays` has two reasons. Moving jobs may overlap because the deletion of the source lets one of them through, so a file in hand is held by one job and not yet sent (`MovedOnce`); copying jobs that take turns (`Alone`) still have in incoming what they send (`CopiedInPlace`).

**Composition.** `Coupled(j)` says where the adapter of a job can stand by what the job and its row say: it runs only inside the job, has not begun before the job has, and has succeeded if the job or its row says success; without manual backups every live job is a scheduled one. `AInv` is inductive with `IInv` and `TInv`, which come from the proofs of the parts. When an adapter begins and no backup is manual, the job is the current one of the loop (`IInv`), so no other adapter is active (`StartsAlone`): that is the guard of `Start`. Each step is then a step of `ArborTransfer` or a stutter (`StepOfArbor`), a loss being `Killed` of the adapters it ends, and the invariants of the Arbor proofs hold of the composition (`TransferInvariance`). `SuccessRowsDelivered` follows with `Coupled`, since recovery writes no success. `NothingLost` is stronger than `Retrievable`: it does not count the staging of a job that runs.

**F5.** A job is one record, and a step of one job changes no other, so the invariant speaks of a record (`Good`) and `JobStepKeeps` covers the steps that change nothing else. `CalmWell` carries what every member reports through the discovery. An archive has a reason to be on the device (`Reason`) only up to its deletion. For the contract, `Stage` says which copies a job alone with its name has at each step, `Fresh` that a name nobody has taken has no files, `Frame` what a step leaves to the other jobs, and `SharingGrows` that a name once shared stays so. `StagesOK` (`Fresh`, and `Stage` of every job whose name is its own) is inductive with the invariant; each step is then a step of the contract, `Share` where a job forms the name of another, or a stutter.

**NetHSM.** `SelectionOK`: a job that sends has found its destination complete, and the settings do not change. `NamedLate`: a job has a name only from the step that forms it. The contract is proved as for F5.

**Page.** `HInv`: there is one poll, request or answer at a time (`OneRequest`); rows the server has answered say of an ended job what is still so (`Past`, by `EndedStays` from `JobLifecycle`); the answer under way is newer than the table (`Newer`); and the fingerprint is that of the table, so a table that is not replaced differs from the answer in hosts of open rows alone (`SamePrint`).

**Only model-checked:** liveness (`RunningCleared`, `OutcomeShown`, `ScheduledPageCatchesUp`), which is out of reach of the prover; and of course the violated runs.

## 6. Not modelled

* Authentication, permissions, host selection, wording and layout: no property depends on them. The dialogs, forms and sidebar of `app.js` keep nothing that outlives a page.
* Permission scripts and waits of the containers: they end or delay a start, which `WebStop` and `SchedulerStop` include.
* Migrations: the database runs each in a transaction. Both containers run them when they start (`scheduler-loop.sh:35`); the one that loses ends and is restarted.
* The normalization of F5 addresses and labels, the checks of the Arbor configuration, and one source directory shared by both data centres.
* Settings and routes: constants.
* Tests and vendored files.

## 7. Plan

Done: the core with its accounting, the next run, the three families of adapters, the page, the Arbor adapter inside the jobs, and proofs for each. What is left, in this order:

1. The migration of both containers at once.
2. The checks of the Arbor configuration, with one source directory for both data centres.
