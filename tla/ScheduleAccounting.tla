-------------------------- MODULE ScheduleAccounting --------------------------
(***************************************************************************)
(* BackupOrchestration with what the code does not keep of each schedule:   *)
(* three counters, to say how many backups one date may cause, and whose    *)
(* turn it was while the schedule waited.                                   *)
(***************************************************************************)
EXTENDS BackupOrchestration

CONSTANT MaxDates  \* bound: how often a schedule comes due in a behaviour

ASSUME AccountingAssumption == MaxDates \in Nat

VARIABLES
  dates,  \* dates[e]: times next_run_at of e was reached
  runs,   \* runs[e]: scheduled rows inserted for e
  lost,   \* lost[e]: of these, those whose next_run_at was never saved
  passed  \* passed[e]: the schedules that have run since e waits for its turn

counters == <<dates, runs, lost, passed>>

One(b) == IF b THEN 1 ELSE 0

\* The job of e was created in this batch and next_run_at is not saved yet.
InProgress(e) == pc \in {"run", "advance"} /\ cur = e

\* A scheduled row is inserted for e.
Runs(e) == created' # created /\ trigger'[created'] = "scheduled" /\ target'[created'] = e

Waits(e) == due[e] /\ enabled[e]

\* The batch has come to e: it was run, or its equipment was busy.
Reached(e) == batch[e] # None /\ batch'[e] = None

\* The batch ends before its last schedule.
BatchCut == pc' \in {"sleep", "down"} /\ pc \notin {"sleep", "down"} /\ batch # NoBatch

\* f gets a date before that of e: from an edit, or from the scheduler, which counts
\* from when it read the batch, if e came due after that.
PutBefore(f, e) == f \in older'[e] /\ f \notin older[e]

Count ==
  /\ dates' = [e \in Equipments |-> dates[e] + One(~due[e] /\ due'[e])]
  /\ runs'  = [e \in Equipments |-> runs[e] + One(Runs(e))]
  /\ lost'  = [e \in Equipments |-> lost[e] +
                 One(InProgress(e) /\ pc' \in {"sleep", "down"})]
  /\ passed' = [e \in Equipments |->
                  IF Waits(e)' /\ ~Reached(e) /\ ~BatchCut
                  THEN {f \in Equipments : (f \in passed[e] \/ Runs(f)) /\ ~PutBefore(f, e)}
                  ELSE {}]

AInit ==
  /\ Init
  /\ dates = [e \in Equipments |-> 0]
  /\ runs  = [e \in Equipments |-> 0]
  /\ lost  = [e \in Equipments |-> 0]
  /\ passed = [e \in Equipments |-> {}]

ANext == Next /\ Count /\ \A e \in Equipments : dates'[e] <= MaxDates

ASpec == AInit /\ [][ANext]_<<vars, counters>>

\* Each date of a schedule causes one scheduled job, and one more for each time
\* the scheduler was interrupted, or failed, between creating the job and saving
\* next_run_at: the edits of users, the other jobs of the equipment and the
\* other schedules of the batch cause none (process_due_schedules).
OneRunPerDateAndLoss ==
  \A e \in Equipments : runs[e] <= dates[e] + lost[e]

\* While a schedule waits, no other one runs twice before the scheduler comes to it:
\* neither a date that comes due again, nor an edit, nor the batch in progress lets
\* it jump the queue, unless it gets an older date from an edit, or from a batch that
\* was read before the waiting one came due (scheduler.py:157). A batch that is cut
\* gives everyone a turn again, so a schedule whose runs always cut the batch, such
\* as one for day 0, keeps all that come after it waiting (scheduler.py:142-159).
ServedInTurn ==
  [][\A e, f \in Equipments : Waits(e) /\ Runs(f) => f \notin passed[e]]_<<vars, counters>>

\* What makes it inductive: a date that is due, or that the batch has read, will
\* cause one more job, unless that job is the one in progress.
Owed(e) == (due[e] \/ batch[e] # None) /\ ~InProgress(e)

AccountsOK ==
  /\ dates \in [Equipments -> Nat]
  /\ runs  \in [Equipments -> Nat]
  /\ lost  \in [Equipments -> Nat]
  /\ \A e \in Equipments : runs[e] + One(Owed(e)) <= dates[e] + lost[e]

\* And for the turns: next_run_at is an order on the due schedules.
OrderOK ==
  /\ \A e, f \in Equipments : f \in older[e] => due[f] /\ e \notin older[f]
  /\ \A e \in Equipments : enabled[e] => config[e] # None

\* f comes after e, in the table and in the batch, unless f is being run.
ComesAfter(f, e) ==
  /\ due[f] => InProgress(f) \/ e \in older[f]
  /\ batch[f] # None =>
       InProgress(f) \/ (e \in ahead[f] /\ batch[e] # None /\ ~(pc = "create" /\ cur = f))

TurnsOK ==
  /\ passed \in [Equipments -> SUBSET Equipments]
  /\ OrderOK
  /\ \A e \in Equipments : \A f \in passed[e] : Waits(e) /\ ComesAfter(f, e)

================================================================================
