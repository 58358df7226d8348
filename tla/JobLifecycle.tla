----------------------------- MODULE JobLifecycle -----------------------------
(***************************************************************************)
(* What the job history promises of each BackupJob row, whoever executes   *)
(* it: a job is opened, started, finished once with an outcome, and its    *)
(* finished_at is set exactly when its outcome is.                         *)
(***************************************************************************)
CONSTANTS
  Job,   \* the rows
  Late   \* a scheduled backup may answer after recovery has closed its row

VARIABLES state, kind, closed

lifecycle == <<state, kind, closed>>

Outcome == {"success", "failed"}

LInit ==
  /\ state  = [j \in Job |-> "none"]
  /\ kind   = [j \in Job |-> "manual"]
  /\ closed = [j \in Job |-> FALSE]

\* A manual job is shown running at once; a scheduled one waits, or is refused.
Open(j, k, s) ==
  /\ state[j] = "none"
  /\ <<k, s>> \in {<<"manual", "running">>, <<"scheduled", "pending">>,
                   <<"scheduled", "failed">>}
  /\ state'  = [state  EXCEPT ![j] = s]
  /\ kind'   = [kind   EXCEPT ![j] = k]
  /\ closed' = [closed EXCEPT ![j] = s \in Outcome]

Start(j) ==
  /\ state[j] = "pending"
  /\ state' = [state EXCEPT ![j] = "running"]
  /\ UNCHANGED <<kind, closed>>

Finish(j, o) ==
  /\ state[j] = "running"
  /\ state'  = [state  EXCEPT ![j] = o]
  /\ closed' = [closed EXCEPT ![j] = TRUE]
  /\ UNCHANGED kind

\* Only a scheduled job, and only if backups may outlast the recovery cutoff.
Revise(j, o) ==
  /\ Late /\ kind[j] = "scheduled"
  /\ state[j] \in Outcome
  /\ state' = [state EXCEPT ![j] = o]
  /\ UNCHANGED <<kind, closed>>

\* An administrator deletes one job, or an equipment and with it several.
Remove(S) ==
  /\ \A j \in S : state[j] \notin {"none", "deleted"}
  /\ state' = [j \in Job |-> IF j \in S THEN "deleted" ELSE state[j]]
  /\ UNCHANGED <<kind, closed>>

LNext ==
  \/ \E j \in Job :
       \/ \E k \in {"manual", "scheduled"}, s \in {"pending", "running", "failed"} :
            Open(j, k, s)
       \/ Start(j)
       \/ \E o \in Outcome : Finish(j, o) \/ Revise(j, o)
  \/ \E S \in SUBSET Job : Remove(S)

LSpec == LInit /\ [][LNext]_lifecycle

===============================================================================
