-------------------------- MODULE ArborOrchestration --------------------------
(***************************************************************************)
(* The jobs of BackupOrchestration with the Arbor adapter inside them: each *)
(* execution of run_backup_job that stands in its adapter makes the steps   *)
(* of ArborTransfer. Overlap and kills are no longer given but come from    *)
(* the processes: jobs overlap if the threads of the web container and the  *)
(* loop of the scheduler bring it about, and one is killed when the thread  *)
(* or the container that executes it ends.                                  *)
(*                                                                          *)
(* Every equipment is an Arbor here: jobs of other adapters share nothing   *)
(* with these but the scheduler, which they delay.                          *)
(***************************************************************************)
EXTENDS BackupOrchestration, Sequences

CONSTANTS
  ActiveDcs, Files, DcOf, NoFile,  \* as in ArborTransfer
  Installations,                   \* the installations there may be
  Failures                         \* which steps of the adapter may fail

AdapterFailures == {"read", "upload", "archive", "release"}

ASSUME CompositionAssumption ==
  /\ ActiveDcs \in Seq({ActiveDcs[i] : i \in DOMAIN ActiveDcs})
  /\ NoFile \notin Files
  /\ DcOf \in [Files -> {ActiveDcs[i] : i \in DOMAIN ActiveDcs}]
  /\ Installations \subseteq [move : BOOLEAN, archive : BOOLEAN, slow : BOOLEAN, manual : BOOLEAN]
  /\ Failures \subseteq AdapterFailures

VARIABLES
  install,   \* settings, the way of the device, whether users start manual backups
  written, incoming, remote, archive, staging,  \* as in ArborTransfer
  step,      \* its pc
  at, files, todo,
  hand,      \* its cur
  taken, kept

inside    == <<written, incoming, remote, archive, staging, step, at, files, todo, hand,
               taken, kept>>
arborVars == <<install, inside>>
allVars   == <<vars, arborVars>>

\* Jobs of the adapter may overlap only where users start manual backups.
Arbor == INSTANCE ArborTransfer
  WITH Sites    <- [move : BOOLEAN, archive : BOOLEAN, slow : BOOLEAN, overlap : BOOLEAN],
       Failures <- Failures \cup {"kill"},
       site     <- [move |-> install.move, archive |-> install.archive,
                    slow |-> install.slow, overlap |-> install.manual],
       pc       <- step,
       cur      <- hand

--------------------------------------------------------------------------------
(* Seeded faults: variants of the definitions below that the specification does *)
(* not use.                                                                     *)

\* An exception of the adapter is logged, and the job goes on to its success.
FaultAnswerSwallowed(j) ==
  /\ \E o \in Outcomes :
       /\ AdapterReturns(j, o)
       /\ o = "success" => step[j] \in {"success", "stopped"}
       /\ o = "failed"  => step[j] = "idle"
  /\ UNCHANGED arborVars

\* The adapter runs in a thread or a process that survives the loss of its job.
FaultAdapterLingers ==
  /\ WebStop \/ SchedulerStop \/ \E j \in Jobs : WorkerDies(j)
  /\ UNCHANGED arborVars

--------------------------------------------------------------------------------
(* run_backup_job around the adapter *)

\* run_backup and its loops, whatever other jobs do.
AdapterRuns(j) ==
  /\ exec[j] = "adapter"
  /\ UNCHANGED <<vars, install>>
  /\ Arbor!Begin(j) \/ Arbor!Work(j)

\* It returns a message at its end; it raises before its first step, on a setting
\* that is missing, or from any other.
Answers(j) ==
  /\ \E o \in Outcomes :
       /\ AdapterReturns(j, o)
       /\ o = "success" => step[j] = "success"
       /\ o = "failed"  => step[j] \in {"idle", "stopped"}
  /\ UNCHANGED arborVars

\* An exception outside the try: get_adapter, before the adapter, or a save.
Raises(j) ==
  /\ RunRaises(j)
  /\ exec[j] = "adapter" => step[j] = "idle"
  /\ UNCHANGED arborVars

\* The adapter ends with the thread or the container that executes it.
Losses ==
  /\ WebStop \/ SchedulerStop \/ \E j \in Jobs : WorkerDies(j)
  /\ step' = [j \in Jobs |-> IF exec'[j] = "idle" /\ Arbor!Active(j) THEN "stopped" ELSE step[j]]
  /\ UNCHANGED <<install, written, incoming, remote, archive, staging, at, files, todo, hand,
                 taken, kept>>

Manual ==
  /\ install.manual
  /\ \E e \in Equipments : PostBackup(e)
  /\ UNCHANGED arborVars

\* The other statements do not concern the adapter.
Elsewhere ==
  /\ \/ \E e \in Equipments :
          \/ \E on \in BOOLEAN, c \in Configs : SaveSchedule(e, on, c)
          \/ \E on, d \in BOOLEAN, c \in Configs, n \in Configs \cup {None} :
               AdminSaveSchedule(e, on, c, n, d)
          \/ DeleteEquipment(e) \/ ClockDue(e)
     \/ \E j \in Jobs : DeleteJob(j) \/ RunBegin(j) \/ RunEnd(j)
     \/ WebStart \/ Recovery \/ Scheduler \/ SchedulerStart \/ Age
  /\ UNCHANGED arborVars

Device == UNCHANGED <<vars, install>> /\ Arbor!Device

AInit ==
  /\ Init
  /\ install \in Installations
  /\ Arbor!Init

ANext ==
  \/ \E j \in Jobs : AdapterRuns(j) \/ Answers(j) \/ Raises(j)
  \/ Losses \/ Manual \/ Elsewhere \/ Device

ASpec == AInit /\ [][ANext]_allVars

--------------------------------------------------------------------------------
(* Properties *)

\* Whatever dies, restarts and is recovered, executions of the adapter overlap only if
\* users start manual backups: the scheduler alone never has two, nor does what is left
\* of a lost one go on (process_due_schedules, recover_stale_backup_jobs).
JobsTakeTurns == Arbor!Spec

\* A row that the history shows as a success is of a job whose files are all on the
\* Windows host, whole, and have left incoming, at any time after it: recovery, restarts
\* and later jobs included.
SuccessRowsDelivered ==
  Arbor!Orderly => \A j \in Jobs : status[j] = "success" =>
    /\ taken[j] # {}
    /\ \A f \in taken[j] : incoming[f] = "none" /\ remote[f] = "whole"

\* In the default installation, with scheduled backups only, whatever happens to jobs,
\* threads and containers, a complete file is in incoming, where the next job finds it,
\* or on the Windows host.
NothingLost ==
  Arbor!Default =>
    \A f \in Files : written[f] = "whole" => incoming[f] = "whole" \/ remote[f] = "whole"

--------------------------------------------------------------------------------
(* The inductive invariant behind the theorems of ArborOrchestrationProofs: where the *)
(* adapter of a job can stand, by what the job and its row say.                       *)

Coupled(j) ==
  /\ Arbor!Active(j) => exec[j] = "adapter"
  /\ status[j] = "none" \/ exec[j] = "begin" => step[j] = "idle"
  /\ exec[j] = "success" \/ status[j] = "success" => step[j] = "success"
  /\ Live(j) /\ ~install.manual => Scheduled(j)

AInv == \A j \in Jobs : Coupled(j)

================================================================================
