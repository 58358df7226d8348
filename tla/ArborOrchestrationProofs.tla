----------------------- MODULE ArborOrchestrationProofs -----------------------
(***************************************************************************)
(* The composition implements both of its parts, so what is proved of each *)
(* holds of it: the invariant of BackupOrchestration keeps executions      *)
(* apart, and the theorems about ArborTransfer then speak of the rows of    *)
(* the history.                                                             *)
(***************************************************************************)
EXTENDS ArborOrchestration, BackupOrchestrationProofs

\* The theorems about the adapter, for the constants and variables of this module.
P == INSTANCE ArborTransferProofs
  WITH Sites    <- [move : BOOLEAN, archive : BOOLEAN, slow : BOOLEAN, overlap : BOOLEAN],
       Failures <- Failures \cup {"kill"},
       site     <- [move |-> install.move, archive |-> install.archive,
                    slow |-> install.slow, overlap |-> install.manual],
       pc       <- step,
       cur      <- hand

LEMMA PartAssumption == P!TransferAssumption
BY CompositionAssumption DEF P!TransferAssumption, P!FailureKinds, AdapterFailures

\* Both instances are the same adapter.
LEMMA SameInit == Arbor!Init => P!Init
BY DEF Arbor!Init, P!Init, Arbor!Nothing, P!Nothing

LEMMA SameStep == [Arbor!Next]_(Arbor!vars) => [P!Next]_(P!vars)
<1>. USE DEF Arbor!Goto, P!Goto, Arbor!Fails, P!Fails, Arbor!Dc, P!Dc, Arbor!Scan, P!Scan,
             Arbor!Raise, P!Raise, Arbor!Active, P!Active, Arbor!disks, P!disks,
             Arbor!control, P!control, Arbor!vars, P!vars, Arbor!Nothing, P!Nothing
<1>1. Arbor!Device => P!Device
  BY DEF Arbor!Device, P!Device, Arbor!Arrive, P!Arrive, Arbor!Complete, P!Complete
<1>2. ASSUME NEW j \in Jobs, Arbor!Start(j) PROVE P!Start(j)
  BY <1>2 DEF Arbor!Start, P!Start, Arbor!Begin, P!Begin
<1>3. ASSUME NEW j \in Jobs, Arbor!Work(j) PROVE P!Work(j)
  BY <1>3 DEF Arbor!Work, P!Work, Arbor!SkipDc, P!SkipDc, Arbor!ScanDc, P!ScanDc,
     Arbor!ScanRaises, P!ScanRaises, Arbor!Finish, P!Finish, Arbor!Copy, P!Copy,
     Arbor!OpenRemote, P!OpenRemote, Arbor!Release, P!Release, Arbor!CopyRaises, P!CopyRaises,
     Arbor!Unlink, P!Unlink, Arbor!UnlinkRaises, P!UnlinkRaises, Arbor!Staged, P!Staged,
     Arbor!WriteRemote, P!WriteRemote, Arbor!UploadRaises, P!UploadRaises,
     Arbor!Uploaded, P!Uploaded, Arbor!Archive, P!Archive, Arbor!ArchiveRaises, P!ArchiveRaises,
     Arbor!ReleaseDenied, P!ReleaseDenied, Arbor!Released, P!Released
<1>4. ASSUME NEW S \in SUBSET Jobs, Arbor!Killed(S) PROVE P!Killed(S)
  BY <1>4 DEF Arbor!Killed, P!Killed
<1>5. UNCHANGED Arbor!vars => UNCHANGED P!vars
  OBVIOUS
<1>. QED
  BY <1>1, <1>2, <1>3, <1>4, <1>5 DEF Arbor!Next, P!Next, Arbor!Run, P!Run

(***************************************************************************)
(* The jobs, their rows and the steps of their adapters.                   *)
(***************************************************************************)

\* The adapter is inside run_backup_job: what it does changes no row and no process, and
\* nothing else that happens is new to BackupOrchestration.
LEMMA StepOfOrchestration == [ANext]_allVars => [Next]_vars
<1>1. ASSUME NEW j \in Jobs, AdapterRuns(j) \/ Answers(j) \/ Raises(j)
      PROVE  [Next]_vars
  BY <1>1 DEF AdapterRuns, Answers, Raises, Next, Runner
<1>2. Losses \/ Manual => Next
  BY DEF Losses, Manual, Next, Users
<1>3. Elsewhere => Next
  BY DEF Elsewhere, Next, Users, Runner
<1>4. Device \/ UNCHANGED allVars => UNCHANGED vars
  BY DEF Device, allVars
<1>. QED
  BY <1>1, <1>2, <1>3, <1>4 DEF ANext

\* Every behaviour of the composition is one of BackupOrchestration: its theorems hold.
THEOREM OrchestrationKept == ASpec => Spec
BY StepOfOrchestration, PTL DEF ASpec, AInit, Spec

LEMMA InitGivesAInv == AInit => AInv
BY DEF AInit, Init, AInv, Coupled, Arbor!Init, Arbor!Active, Live

\* A step that leaves adapters, processes and rows of jobs alone.
LEMMA QuietKeepsAInv ==
  ASSUME AInv, UNCHANGED <<status, trigger, exec, step, install>>
  PROVE  AInv'
BY DEF AInv, Coupled, Arbor!Active, Live, Scheduled

\* A new row has no adapter yet; it is a manual one only where users start them.
LEMMA InsertKeepsAInv ==
  ASSUME IInv, AInv, UNCHANGED <<step, install>>,
         NEW e, NEW how \in Triggers, NEW st \in {"pending", "running", "failed"},
         NEW where \in {"idle", "begin"}, Insert(e, how, st, where),
         how = "scheduled" \/ install.manual
  PROVE  AInv'
<1>1. PICK new \in Jobs :
      /\ status[new] = "none" /\ ~Live(new)
      /\ status' = [status EXCEPT ![new] = st] /\ exec' = [exec EXCEPT ![new] = where]
      /\ trigger' = [trigger EXCEPT ![new] = how]
      /\ status \in [Jobs -> Statuses] /\ exec \in [Jobs -> Positions]
      /\ trigger \in [Jobs -> Triggers]
  <2>1. created + 1 \in Jobs
    BY OrchestrationAssumption DEF Insert, IInv, TypeOK, Jobs
  <2>2. status[created + 1] = "none" /\ ~Live(created + 1)
    BY <2>1 DEF IInv, TypeOK, RowsOK, Jobs
  <2>. QED
    BY <2>1, <2>2 DEF Insert, IInv, TypeOK
<1>2. Coupled(new)'
  BY <1>1 DEF AInv, Coupled, Arbor!Active, Live, Scheduled
<1>3. ASSUME NEW j \in Jobs \ {new} PROVE Coupled(j)'
  BY <1>1 DEF AInv, Coupled, Arbor!Active, Live, Scheduled
<1>. QED
  BY <1>2, <1>3 DEF AInv

LEMMA StepKeepsAInv == IInv /\ P!TInv /\ AInv /\ [ANext]_allVars => AInv'
<1>. SUFFICES ASSUME IInv, P!TInv, AInv, [ANext]_allVars PROVE AInv'
  OBVIOUS
<1>t. /\ status \in [Jobs -> Statuses] /\ exec \in [Jobs -> Positions]
      /\ step \in [Jobs -> P!Locations]
  BY DEF IInv, TypeOK, P!TInv, P!TypeOK
<1>. USE <1>t DEF Positions, Outcomes, Terminal, P!Locations
<1>1. ASSUME NEW j \in Jobs, AdapterRuns(j) PROVE AInv'
  <2>1. /\ exec[j] = "adapter" /\ UNCHANGED <<status, trigger, exec, install>>
        /\ status[j] # "none" /\ (status[j] = "success" => step[j] = "success")
    BY <1>1 DEF AdapterRuns, vars, rows, IInv, RowsOK, Live, AInv, Coupled
  <2>2. step[j] # "success" /\ \A k \in Jobs \ {j} : step'[k] = step[k]
    BY <1>1 DEF AdapterRuns, Arbor!Goto, Arbor!Raise, Arbor!Begin, Arbor!Work, Arbor!SkipDc,
       Arbor!ScanDc, Arbor!ScanRaises, Arbor!Finish, Arbor!Copy, Arbor!OpenRemote,
       Arbor!Release, Arbor!CopyRaises, Arbor!Unlink, Arbor!UnlinkRaises, Arbor!Staged,
       Arbor!WriteRemote, Arbor!UploadRaises, Arbor!Uploaded, Arbor!Archive,
       Arbor!ArchiveRaises, Arbor!ReleaseDenied, Arbor!Released
  <2>3. Coupled(j)'
    BY <2>1, <2>2 DEF AInv, Coupled, Live, Scheduled
  <2>4. ASSUME NEW k \in Jobs \ {j} PROVE Coupled(k)'
    BY <2>1, <2>2 DEF AInv, Coupled, Arbor!Active, Live, Scheduled
  <2>. QED
    BY <2>3, <2>4 DEF AInv
<1>2. ASSUME NEW j \in Jobs, Answers(j) PROVE AInv'
  <2>1. /\ UNCHANGED <<status, trigger, step, install>> /\ exec[j] = "adapter"
        /\ \A k \in Jobs \ {j} : exec'[k] = exec[k]
        /\ ~Arbor!Active(j) /\ exec'[j] \in Outcomes
        /\ exec'[j] = "success" => step[j] = "success"
    BY <1>2 DEF Answers, AdapterReturns, arborVars, inside, rows, Arbor!Active
  <2>2. ASSUME NEW k \in Jobs PROVE Coupled(k)'
    BY <2>1 DEF AInv, Coupled, Arbor!Active, Live, Scheduled
  <2>. QED
    BY <2>2 DEF AInv
<1>3. ASSUME NEW j \in Jobs, Raises(j) PROVE AInv'
  <2>1. /\ UNCHANGED <<status, trigger, step, install>> /\ exec'[j] = "idle"
        /\ \A k \in Jobs \ {j} : exec'[k] = exec[k]
        /\ exec[j] = "adapter" => step[j] = "idle"
    BY <1>3 DEF Raises, RunRaises, arborVars, inside, rows
  <2>2. ASSUME NEW k \in Jobs PROVE Coupled(k)'
    BY <2>1 DEF AInv, Coupled, Arbor!Active, Live, Scheduled
  <2>. QED
    BY <2>2 DEF AInv
<1>4. ASSUME Losses PROVE AInv'
  <2>1. UNCHANGED <<status, trigger, install>> /\ \A k \in Jobs : exec'[k] \in {"idle", exec[k]}
    BY <1>4 DEF Losses, WebStop, SchedulerStop, WorkerDies, rows
  <2>2. \A k \in Jobs : step'[k] = IF exec'[k] = "idle" /\ Arbor!Active(k) THEN "stopped"
                                                                         ELSE step[k]
    BY <1>4 DEF Losses
  <2>3. ASSUME NEW k \in Jobs PROVE Coupled(k)'
    BY <2>1, <2>2 DEF AInv, Coupled, Arbor!Active, Live, Scheduled
  <2>. QED
    BY <2>3 DEF AInv
<1>5. ASSUME Manual PROVE AInv'
  <2>1. PICK e \in Equipments : PostBackup(e)
    BY <1>5 DEF Manual
  <2>2. install.manual /\ UNCHANGED <<step, install>>
    BY <1>5 DEF Manual, arborVars, inside
  <2>. QED
    BY <2>1, <2>2, InsertKeepsAInv DEF PostBackup, Triggers
<1>6. ASSUME Elsewhere PROVE AInv'
  <2>. UNCHANGED <<step, install>>
    BY <1>6 DEF Elsewhere, arborVars, inside
  <2>1. ASSUME NEW e \in Equipments,
               \/ \E on \in BOOLEAN, c \in Configs : SaveSchedule(e, on, c)
               \/ \E on, d \in BOOLEAN, c \in Configs, n \in Configs \cup {None} :
                    AdminSaveSchedule(e, on, c, n, d)
               \/ ClockDue(e) \/ Skip(e) \/ Admit(e)
        PROVE  AInv'
    BY <2>1, QuietKeepsAInv
       DEF SaveSchedule, AdminSaveSchedule, ClockDue, Skip, Admit, rows
  <2>2. ASSUME WebStart \/ RecoverDone \/ SchedulerStart \/ Age \/ Tick \/ CreateFails
                 \/ Advance \/ AdvanceRaises \/ EndBatch
        PROVE  AInv'
    BY <2>2, QuietKeepsAInv DEF WebStart, RecoverDone, SchedulerStart, Age, Tick, CreateFails,
       Advance, AdvanceRaises, EndBatch, rows
  <2>3. ASSUME NEW e \in Equipments, DeleteEquipment(e) PROVE AInv'
    <3>1. /\ UNCHANGED <<trigger, exec>>
          /\ \A k \in Jobs : status'[k] \in {status[k], "deleted"}
      BY <2>3 DEF DeleteEquipment
    <3>. QED
      BY <3>1 DEF AInv, Coupled, Arbor!Active, Live, Scheduled
  <2>4. ASSUME NEW j \in Jobs, DeleteJob(j) PROVE AInv'
    BY <2>4 DEF DeleteJob, AInv, Coupled, Arbor!Active, Live, Scheduled
  <2>5. ASSUME NEW j \in Jobs, RunBegin(j) PROVE AInv'
    BY <2>5 DEF RunBegin, AInv, Coupled, Arbor!Active, Live, Scheduled
  <2>6. ASSUME NEW j \in Jobs, RunEnd(j) PROVE AInv'
    BY <2>6 DEF RunEnd, Close, AInv, Coupled, Arbor!Active, Live, Scheduled
  <2>7. ASSUME NEW j \in Jobs, RecoverOne(j) PROVE AInv'
    BY <2>7 DEF RecoverOne, Close, AInv, Coupled, Arbor!Active, Live, Scheduled
  <2>8. CreateInvalid \/ CreateJob => AInv'
    BY InsertKeepsAInv DEF CreateInvalid, CreateJob, Triggers
  <2>. QED
    BY <1>6, <2>1, <2>2, <2>3, <2>4, <2>5, <2>6, <2>7, <2>8
       DEF Elsewhere, Recovery, Scheduler
<1>7. Device \/ UNCHANGED allVars => AInv'
  BY QuietKeepsAInv DEF Device, Arbor!Device, Arbor!Arrive, Arbor!Complete, Arbor!control,
     allVars, vars, rows, arborVars, inside
<1>. QED
  BY <1>1, <1>2, <1>3, <1>4, <1>5, <1>6, <1>7 DEF ANext

(***************************************************************************)
(* The adapters implement ArborTransfer.                                   *)
(***************************************************************************)

\* An adapter that starts is alone unless users start backups: only the scheduler
\* executes jobs, and one at a time.
LEMMA StartsAlone ==
  ASSUME IInv, AInv, NEW j \in Jobs, exec[j] = "adapter", step[j] = "idle"
  PROVE  install.manual \/ \A k \in Jobs : ~Arbor!Active(k)
<1>. SUFFICES ASSUME ~install.manual, NEW k \in Jobs, Arbor!Active(k) PROVE FALSE
  OBVIOUS
<1>1. k # j /\ Live(k) /\ Live(j)
  BY DEF AInv, Coupled, Arbor!Active, Live
<1>2. Scheduled(k) /\ Scheduled(j)
  BY <1>1 DEF AInv, Coupled
<1>. QED
  BY <1>1, <1>2 DEF IInv, LiveOK

LEMMA StepOfArbor ==
  IInv /\ P!TInv /\ AInv /\ [ANext]_allVars => [Arbor!Next]_(Arbor!vars)
<1>. SUFFICES ASSUME IInv, P!TInv, AInv, [ANext]_allVars PROVE [Arbor!Next]_(Arbor!vars)
  OBVIOUS
<1>1. ASSUME NEW j \in Jobs, AdapterRuns(j) PROVE Arbor!Next
  <2>1. CASE Arbor!Begin(j)
    <3>1. exec[j] = "adapter" /\ step[j] = "idle"
      BY <1>1, <2>1 DEF AdapterRuns, Arbor!Begin
    <3>2. Arbor!Start(j)
      BY <2>1, <3>1, StartsAlone DEF Arbor!Start
    <3>. QED
      BY <3>2 DEF Arbor!Next, Arbor!Run
  <2>2. CASE Arbor!Work(j)
    BY <2>2 DEF Arbor!Next, Arbor!Run
  <2>. QED
    BY <1>1, <2>1, <2>2 DEF AdapterRuns
<1>2. ASSUME Losses PROVE [Arbor!Next]_(Arbor!vars)
  <2>. DEFINE S == {j \in Jobs : exec'[j] = "idle" /\ Arbor!Active(j)}
  <2>1. /\ step' = [j \in Jobs |-> IF j \in S THEN "stopped" ELSE step[j]]
        /\ UNCHANGED <<install, written, incoming, remote, archive, staging, at, files, todo,
                       hand, taken, kept>>
    BY <1>2 DEF Losses
  <2>2. CASE S = {}
    <3>1. step' = step
      BY <2>1, <2>2 DEF P!TInv, P!TypeOK
    <3>. QED
      BY <2>1, <3>1 DEF Arbor!vars, Arbor!disks, Arbor!control
  <2>3. CASE S # {}
    <3>1. Arbor!Killed(S)
      BY <2>1, <2>3 DEF Arbor!Killed, Arbor!Fails, Arbor!disks
    <3>2. S \in SUBSET Jobs
      OBVIOUS
    <3>. QED
      BY <3>1, <3>2 DEF Arbor!Next
  <2>. QED
    BY <2>2, <2>3
<1>3. ASSUME Device PROVE Arbor!Next
  BY <1>3 DEF Device, Arbor!Next
<1>4. UNCHANGED arborVars => UNCHANGED Arbor!vars
  BY DEF arborVars, inside, Arbor!vars, Arbor!disks, Arbor!control
<1>5. UNCHANGED arborVars => [Arbor!Next]_(Arbor!vars)
  BY <1>4
<1>6. ASSUME NEW j \in Jobs, Answers(j) \/ Raises(j) PROVE [Arbor!Next]_(Arbor!vars)
  BY <1>5, <1>6 DEF Answers, Raises
<1>7. Manual \/ Elsewhere \/ UNCHANGED allVars => [Arbor!Next]_(Arbor!vars)
  BY <1>5 DEF Manual, Elsewhere, allVars
<1>. QED
  BY <1>1, <1>2, <1>3, <1>6, <1>7 DEF ANext

\* The types of the adapter are kept, and so is what ties its steps to the jobs.
LEMMA CoupledInvariance == ASpec => [](IInv /\ P!TInv /\ AInv)
<1>1. AInit => IInv /\ P!TInv /\ AInv
  <2>1. P!Init => P!TInv
    BY P!InitGivesTInv, PartAssumption
  <2>. QED
    BY <2>1, SameInit, InitGivesIInv, InitGivesAInv DEF AInit
<1>2. (IInv /\ P!TInv /\ AInv) /\ [ANext]_allVars => (IInv /\ P!TInv /\ AInv)'
  <2>1. P!TInv /\ [P!Next]_(P!vars) => P!TInv'
    BY P!StepKeepsTInv, PartAssumption
  <2>2. IInv /\ [ANext]_allVars => IInv'
    BY StepOfOrchestration, StepKeepsIInv
  <2>. QED
    BY <2>1, <2>2, StepOfArbor, SameStep, StepKeepsAInv
<1>. QED
  BY <1>1, <1>2, PTL DEF ASpec

\* Executions of the adapter overlap only where users start manual backups, and a loss of
\* threads or containers is no more than a kill: whatever dies, restarts and is recovered,
\* what happens to the files is a behaviour of ArborTransfer.
THEOREM AdaptersTakeTurns == ASpec => JobsTakeTurns
<1>1. AInit => Arbor!Init
  BY DEF AInit
<1>. QED
  BY <1>1, StepOfArbor, CoupledInvariance, PTL DEF ASpec, JobsTakeTurns, Arbor!Spec

\* So what is proved of ArborTransfer holds of the jobs.
LEMMA TransferInvariance == ASpec => [](P!QInv)
<1>1. P!Spec => [](P!TInv /\ P!MInv /\ P!QInv)
  BY P!QInvariance, PartAssumption
<1>2. ASpec => P!Spec
  BY AdaptersTakeTurns, SameInit, SameStep, PTL DEF JobsTakeTurns, Arbor!Spec, P!Spec
<1>. QED
  BY <1>1, <1>2, PTL

\* A row that says success is of a job whose files are all on the Windows host, now and
\* at any later time.
THEOREM SuccessRowsMeanDelivery == ASpec => []SuccessRowsDelivered
<1>1. AInv /\ P!QInv => SuccessRowsDelivered
  BY DEF AInv, Coupled, SuccessRowsDelivered, Arbor!Orderly, P!QInv, P!Orderly, P!Progress,
     P!Delivered
<1>. QED
  BY <1>1, CoupledInvariance, TransferInvariance, PTL

\* Nothing that may happen to scheduled backups of the default installation strands a
\* file or loses it.
THEOREM NothingIsLost == ASpec => []NothingLost
<1>1. P!QInv => NothingLost
  BY DEF NothingLost, Arbor!Default, Arbor!Copies, P!QInv, P!Orderly, P!Copies, P!InPlace
<1>. QED
  BY <1>1, TransferInvariance, PTL

===============================================================================
