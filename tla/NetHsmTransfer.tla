---------------------------- MODULE NetHsmTransfer ----------------------------
(***************************************************************************)
(* The NetHSM adapter: the backup of a device is fetched over its API,     *)
(* written to the backup directory and sent to Windows over the transfer   *)
(* that the settings of the site select. Several jobs may run at once.     *)
(* Of the second in a file's name only matters whether two jobs share it:  *)
(* nothing keeps two jobs of a host out of the same second.                *)
(***************************************************************************)
EXTENDS Naturals

CONSTANTS
  Jobs,         \* bound: the executions there may be
  Hosts,        \* the addresses of the devices
  Stamps,       \* bound: the seconds there are
  NoName,
  Failures      \* which steps may fail

Names        == Hosts \X Stamps
FailureKinds == {"host", "fetch", "write", "send", "kill"}

ASSUME NetHsmAssumption ==
  /\ NoName \notin Names
  /\ Failures \subseteq FailureKinds

VARIABLES
  site,     \* the settings of the containers
  local,    \* the files of NITROKEY_BACKUP_ROOT
  remote,   \* what each Windows destination holds
  pc,       \* where each execution stands
  name      \* the file of each execution

vars == <<site, local, remote, pc, name>>

Destinations == {"smb", "scp", "dir"}
Contents     == {"none", "part", "whole"}
Over         == {"refused", "stopped", "simulated", "recorded", "transferred"}
Steps        == {"idle", "fetch", "write", "writing", "select", "send", "sending",
                 "sent"} \cup Over

Fails(k)        == k \in Failures
Goto(j, where)  == pc' = [pc EXCEPT ![j] = where]
Raise(j)        == Goto(j, "stopped") /\ UNCHANGED <<site, local, remote, name>>

\* Another job has, or had, a file of the same name.
Shared(j)       == name[j] # NoName /\ \E k \in Jobs \ {j} : name[k] = name[j]

\* What a file holds when j has written c to it: where others write it too, one may
\* have truncated it since.
Ends(j, c)      == IF Shared(j) THEN {"part", c} ELSE {c}

--------------------------------------------------------------------------------
(* Settings *)

\* Settings of a transfer may be all there, or none, or not enough: with a host and
\* no share (SMB), or a host and no username (SCP), they are ignored as if there
\* were none; with these and no password (or SMB username) they are incomplete.
Site == [debug : BOOLEAN,
         mode  : {"auto", "none", "other"} \cup Destinations,   \* NITROKEY_TRANSFER_MODE
         smb   : {"absent", "ignored", "incomplete", "complete"},
         scp   : {"absent", "ignored", "incomplete", "complete"},
         dir   : {"absent", "complete"}]

\* What decides whether the API is called: .env, extra, the form.
Access == [envPair   : BOOLEAN,                        \* NITROKEY_NETHSM_USER and _PASSWORD
           envMode   : BOOLEAN,                        \* NITROKEY_INTEGRATION=nethsm
           extraMode : {"nethsm", "demo", "none"},     \* extra.integration
           extraPair : BOOLEAN]                        \* extra.nethsm_user and _password

\* equipment_backup, validate_schedule_runnable: by the slug of the type, which
\* another type with this adapter does not have.
Accepted(custom, known, a) == ~known \/ custom \/ a.envPair

IntegrationMode(form, a) ==
  IF form THEN "nethsm"
  ELSE IF a.extraMode # "none" THEN a.extraMode
  ELSE IF a.envMode THEN "nethsm"
  ELSE "demo"

HasCredentials(form, a) == form \/ a.extraPair \/ a.envPair

\* Seeded fault: the credentials of .env are left to the field extra alone.
FaultDispatch(form, a) ==
  IF IntegrationMode(form, a) = "demo" THEN "simulated"
  ELSE IF HasCredentials(form, [a EXCEPT !.envPair = FALSE]) THEN "fetch"
  ELSE "refused"

\* _run_demo answers a success, in production too.
Dispatch(form, a) ==
  IF IntegrationMode(form, a) = "demo" THEN "simulated"
  ELSE IF HasCredentials(form, a) THEN "fetch"
  ELSE "refused"

\* _windows_smb_config and _windows_scp_config raise, whatever the mode.
Incomplete == site.smb = "incomplete" \/ site.scp = "incomplete"

\* README.md:159 has the automatic mode try SMB, then SCP, then the directory. The
\* code tries one: the first of them whose settings are there.
Selected ==
  IF site.mode # "auto" THEN site.mode
  ELSE IF site.smb = "complete" THEN "smb"
  ELSE IF site.scp = "complete" THEN "scp"
  ELSE IF site.dir = "complete" THEN "dir"
  ELSE "none"

--------------------------------------------------------------------------------
(* Seeded faults *)

\* A destination that is asked for and not configured is passed over.
FaultSelectRaises(j) ==
  /\ pc[j] = "select"
  /\ IF Incomplete \/ Selected = "other" THEN Goto(j, "stopped")
     ELSE Selected \in Destinations /\ site[Selected] # "complete" /\ Goto(j, "recorded")
  /\ UNCHANGED <<site, local, remote, name>>

\* A transfer that fails leaves no local file behind.
FaultSendFails(j) ==
  /\ pc[j] \in {"send", "sending", "sent"} /\ Fails("send")
  /\ local' = [local EXCEPT ![name[j]] = "none"]
  /\ Goto(j, "stopped")
  /\ UNCHANGED <<site, remote, name>>

\* The name is formed before the request, when there is no file yet.
FaultFetched(j) ==
  /\ pc[j] = "fetch"
  /\ Goto(j, "writing")
  /\ UNCHANGED <<site, local, remote, name>>

--------------------------------------------------------------------------------
(* Actions *)

\* A request or a due schedule is accepted, a job created, its adapter called.
Submit(j, custom, known) ==
  /\ pc[j] = "idle"
  /\ \E next \in {Dispatch(custom /\ known, a) : a \in {a \in Access : Accepted(custom, known, a)}} :
       Goto(j, next)
  /\ UNCHANGED <<site, local, remote, name>>

\* The host of the job was deleted, or its address is none.
HostGone(j) ==
  /\ pc[j] \in {"idle", "fetch"} /\ Fails("host")
  /\ Raise(j)

\* POST /system/backup
Fetched(j) ==
  /\ pc[j] = "fetch"
  /\ Goto(j, "write")
  /\ UNCHANGED <<site, local, remote, name>>

\* Refused credentials, any other status, no connection, no answer, nothing in it.
FetchFails(j) ==
  /\ pc[j] = "fetch" /\ Fails("fetch")
  /\ Raise(j)

\* path.write_bytes
Write(j, h) ==
  /\ pc[j] = "write"
  /\ \E stamp \in Stamps :
       /\ name'  = [name  EXCEPT ![j] = <<h, stamp>>]
       /\ local' = [local EXCEPT ![<<h, stamp>>] = "part"]
  /\ Goto(j, "writing")
  /\ UNCHANGED <<site, remote>>

Written(j) ==
  /\ pc[j] = "writing"
  /\ \E c \in Ends(j, "whole") : local' = [local EXCEPT ![name[j]] = c]
  /\ Goto(j, "select")
  /\ UNCHANGED <<site, remote, name>>

WriteFails(j) ==
  /\ pc[j] \in {"write", "writing"} /\ Fails("write")
  /\ Raise(j)

\* The local file is written when the settings of the transfer are first looked at.
SelectRaises(j) ==
  /\ pc[j] = "select"
  /\ \/ Incomplete \/ Selected = "other"
     \/ Selected \in Destinations /\ site[Selected] # "complete"
  /\ Raise(j)

Select(j) ==
  /\ pc[j] = "select" /\ ~Incomplete
  /\ \/ Selected \in Destinations /\ site[Selected] = "complete" /\ Goto(j, "send")
     \/ Selected = "none" /\ Goto(j, "recorded")
  /\ UNCHANGED <<site, local, remote, name>>

\* storeFile, sftp.file(..., "wb") and copy2 all truncate what was there.
Send(j) ==
  /\ pc[j] = "send"
  /\ remote' = [remote EXCEPT ![Selected][name[j]] = "part"]
  /\ Goto(j, "sending")
  /\ UNCHANGED <<site, local, name>>

\* SMB and SFTP send the payload that was fetched, copy2 the local file.
Sent(j) ==
  /\ pc[j] = "sending"
  /\ \E c \in Ends(j, IF Selected = "dir" THEN local[name[j]] ELSE "whole") :
       remote' = [remote EXCEPT ![Selected][name[j]] = c]
  /\ Goto(j, "sent")
  /\ UNCHANGED <<site, local, name>>

\* The connection is closed, or the times of the file are copied.
Announce(j) ==
  /\ pc[j] = "sent"
  /\ Goto(j, "transferred")
  /\ UNCHANGED <<site, local, remote, name>>

\* "Backup local ok, transfert Windows impossible": no other destination is tried,
\* in the automatic mode either. Closing is part of the transfer.
SendFails(j) ==
  /\ pc[j] \in {"send", "sending", "sent"} /\ Fails("send")
  /\ Raise(j)

\* The thread or the container of the job ends.
Killed(j) ==
  /\ pc[j] \notin {"idle"} \cup Over /\ Fails("kill")
  /\ Raise(j)

--------------------------------------------------------------------------------
Init ==
  /\ site \in Site
  /\ local  = [n \in Names |-> "none"]
  /\ remote = [d \in Destinations |-> [n \in Names |-> "none"]]
  /\ pc   = [j \in Jobs |-> "idle"]
  /\ name = [j \in Jobs |-> NoName]

Run(j) ==
  \/ \E custom, known \in BOOLEAN : Submit(j, custom, known)
  \/ HostGone(j) \/ Fetched(j) \/ FetchFails(j)
  \/ \E h \in Hosts : Write(j, h)
  \/ Written(j) \/ WriteFails(j) \/ SelectRaises(j) \/ Select(j)
  \/ Send(j) \/ Sent(j) \/ Announce(j) \/ SendFails(j)

Next == \E j \in Jobs : Run(j) \/ Killed(j)

Spec == Init /\ [][Next]_vars

--------------------------------------------------------------------------------
(* Properties *)

Named(j) == pc[j] \in {"writing", "select", "send", "sending", "sent", "recorded", "transferred"}

\* Types; an execution has a file name from its write on.
TypeOK ==
  /\ site \in Site
  /\ local \in [Names -> Contents] /\ remote \in [Destinations -> [Names -> Contents]]
  /\ pc \in [Jobs -> Steps]
  /\ name \in [Jobs -> Names \cup {NoName}]
  /\ \A j \in Jobs : Named(j) => name[j] \in Names

\* A success that names no transfer (nitrokey.py:377) means that none was asked for, or
\* that the automatic mode found no destination it could use, whatever else fails and
\* whatever the others do. What it could not use may be configured in part: a host
\* without its share or username counts as none (nitrokey.py:147, :167), silently; only
\* the settings that lack a password stop the job.
RecordedOnlyIfNothingToSend ==
  (\E j \in Jobs : pc[j] = "recorded") =>
    /\ site.mode \in {"none", "auto"}
    /\ site.smb # "incomplete" /\ site.scp # "incomplete"
    /\ site.mode = "auto" => \A d \in Destinations : site[d] \in {"absent", "ignored"}

\* What the view and the scheduler accept is never refused for want of credentials.
AcceptedNotRefused ==
  [][\A j \in Jobs : pc'[j] = "refused" =>
       \A custom \in BOOLEAN : ~Submit(j, custom, TRUE)]_vars

\* README.md:247: in production an accepted job that succeeds has saved a backup.
\* It does not hold: without NITROKEY_INTEGRATION the default credentials satisfy
\* the checks and not the adapter, which answers from its demonstration.
NoFalseSuccess ==
  [][\A j \in Jobs : pc'[j] = "simulated" =>
       site.debug \/ \A custom \in BOOLEAN : ~Submit(j, custom, TRUE)]_vars

Answer(j) == CASE pc[j] \in {"simulated", "recorded", "transferred"} -> pc[j]
               [] pc[j] \in {"stopped", "refused"} -> "failed"
               [] OTHER -> "pending"

Copies(j) == IF name[j] = NoName \/ Shared(j) THEN {}
             ELSE {c \in {"local", "windows"} :
                     \/ c = "local"   /\ local[name[j]] = "whole"
                     \/ c = "windows" /\ \E d \in Destinations : remote[d][name[j]] = "whole"}

Sharing == {j \in Jobs : Shared(j)}

Contract == INSTANCE AdapterContract
              WITH Job <- Jobs, outcome <- [j \in Jobs |-> Answer(j)],
                   held <- [j \in Jobs |-> Copies(j)], shared <- Sharing

\* The pipeline implements the contract of an adapter: the local file comes first
\* and is kept when the transfer fails, and the message says what there is, until
\* another job forms the same name, from when on nothing is promised of either.
KeepsContract == Contract!CSpec

================================================================================
