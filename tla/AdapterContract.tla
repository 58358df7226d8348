---------------------------- MODULE AdapterContract ----------------------------
(***************************************************************************)
(* What an adapter that fetches an archive promises run_backup_job: the    *)
(* archive is kept locally before it is sent anywhere, a copy once made    *)
(* stays whatever becomes of the job, and the message of a success says    *)
(* which copies there are. F5Backup and NetHsmTransfer implement it.       *)
(*                                                                         *)
(* All of this is promised to an execution alone with its file name. Names *)
(* are formed from the second: executions that form the same one write the *)
(* same files, and are promised an answer and nothing else.                *)
(***************************************************************************)
CONSTANT Job   \* the executions of the adapter

VARIABLES
  outcome,   \* what the adapter has answered
  held,      \* where the archive of the execution is, whole
  shared     \* the executions whose file name is also that of another

contract == <<outcome, held, shared>>

\* "Backup enregistré et transféré", "Backup enregistré", "Sauvegarde — host."
Copies == [transferred |-> {"local", "windows"}, recorded |-> {"local"}, simulated |-> {}]

CInit ==
  /\ outcome = [j \in Job |-> "pending"]
  /\ held    = [j \in Job |-> {}]
  /\ shared  = {}

\* An execution forms a name that others have, running or not: what they hold is no
\* longer theirs.
Share(S) ==
  /\ \E j, k \in S : j # k
  /\ shared' = shared \cup S
  /\ held'   = [j \in Job |-> IF j \in S THEN {} ELSE held[j]]
  /\ UNCHANGED outcome

Store(j) ==
  /\ outcome[j] = "pending" /\ j \notin shared
  /\ held' = [held EXCEPT ![j] = {"local"}]
  /\ UNCHANGED <<outcome, shared>>

Deliver(j) ==
  /\ outcome[j] = "pending" /\ held[j] = {"local"}
  /\ held' = [held EXCEPT ![j] = {"local", "windows"}]
  /\ UNCHANGED <<outcome, shared>>

Succeed(j, message) ==
  /\ outcome[j] = "pending" /\ (j \in shared \/ held[j] = Copies[message])
  /\ outcome' = [outcome EXCEPT ![j] = message]
  /\ UNCHANGED <<held, shared>>

\* At any time, after the transfer too: closing the connection may fail.
Fail(j) ==
  /\ outcome[j] = "pending"
  /\ outcome' = [outcome EXCEPT ![j] = "failed"]
  /\ UNCHANGED <<held, shared>>

CNext ==
  \/ \E S \in SUBSET Job : Share(S)
  \/ \E j \in Job : Store(j) \/ Deliver(j) \/ Fail(j) \/ \E m \in DOMAIN Copies : Succeed(j, m)

CSpec == CInit /\ [][CNext]_contract

================================================================================
