------------------------------- MODULE F5Backup -------------------------------
(***************************************************************************)
(* The F5 adapters. The job is checked and created, the active member of   *)
(* the cluster is asked for over iControl (HA) or the host is taken as it  *)
(* is (DN1, DN2), then over SSH an archive is saved on the device,         *)
(* downloaded, deleted from the device and, if configured, sent to the     *)
(* Windows host. Several jobs may run at once; nothing locks the device.   *)
(*                                                                         *)
(* Time is abstracted: of the second in an archive's name only matters     *)
(* whether another job has the same. It is one of local time, and nothing  *)
(* keeps two jobs of a device out of the same second.                      *)
(***************************************************************************)
EXTENDS Naturals, Sequences

CONSTANTS
  Jobs,         \* bound: the executions there may be
  Peers,        \* ha_peer_addresses: the members of the cluster, in order
  Standalone,   \* the devices of the types F5-DN1 and F5-DN2
  Hostname,     \* the short host name a device answers
  Label,        \* the one that is made of its label when it does not answer
  Stamps,       \* bound: the seconds there are
  NoDevice, NoName,
  MaxFailovers, \* bound: how often the cluster changes its active member
  Failures      \* which steps may fail

Members == {Peers[i] : i \in DOMAIN Peers}
Devices == Members \cup Standalone
Names   == ({Hostname[d] : d \in Devices} \cup {Label[d] : d \in Devices}) \X Stamps

FailureKinds == {"host", "ask", "hang", "row", "connect", "hostname", "save", "download",
                 "delete", "channel", "upload", "kill"}

ASSUME F5Assumption ==
  /\ Peers \in Seq(Members) /\ Len(Peers) > 0
  /\ Members \cap Standalone = {}
  /\ NoDevice \notin Devices /\ NoName \notin Names
  /\ MaxFailovers \in Nat
  /\ Failures \subseteq FailureKinds

VARIABLES
  debug,      \* settings.DEBUG
  active,     \* the active member of the cluster
  view,       \* the one that each member reports as active
  failovers,  \* how often that has changed
  device,     \* the archives on each device
  local,      \* the files in the backup directory of each variant
  remote,     \* the files in the directory of the Windows host
  job         \* where each execution stands

cluster == <<active, view, failovers>>
disks   == <<device, local, remote>>
vars    == <<debug, cluster, disks, job>>

Contents == {"none", "part", "whole"}
Over     == {"refused", "stopped", "simulated", "recorded", "transferred"}
Steps    == {"idle", "ask", "connect", "save", "saving", "download", "reading",
             "delete", "transfer", "writing", "sent"} \cup Over
Roots    == {"f5"} \cup Standalone

\* backup_root(variant): one directory for the cluster, one for each DN.
Root(d) == IF d \in Standalone THEN d ELSE "f5"
Path(j) == <<Root(job[j].target), job[j].name>>

Fails(k)     == k \in Failures
At(j, pc)    == job[j].pc = pc
Running(j)   == job[j].pc \notin {"idle"} \cup Over
Goto(j, pc)  == job' = [job EXCEPT ![j].pc = pc]
Archive(j)   == device[job[j].target][job[j].name]

Named(j)     == job[j].name # NoName

\* The steps from the end of the download on.
Stored       == {"delete", "transfer", "writing", "sent", "recorded", "transferred"}

\* Another job has, or had, an archive of the same name.
Shared(j)    == Named(j) /\ \E k \in Jobs \ {j} : job[k].name = job[j].name

\* What a file holds when j has written c to it: where others write it too, one may
\* have truncated it since.
Ends(j, c)   == IF Shared(j) THEN {"part", c} ELSE {c}

PutDevice(j, c) == device' = [device EXCEPT ![job[j].target][job[j].name] = c]
PutLocal(j, c)  == local'  = [local  EXCEPT ![Path(j)] = c]
PutRemote(j, c) == remote' = [remote EXCEPT ![job[j].name] = c]

--------------------------------------------------------------------------------
(* Settings: what .env, the field extra of the equipment and the form may say. *)

Settings == [envPair   : BOOLEAN,                            \* F5_SSH_* or F5_API_*
             envMode   : BOOLEAN,                            \* F5_INTEGRATION=ssh
             extraMode : {"ssh", "demo", "none"},            \* extra.integration
             extraPair : {"ssh", "api", "icontrol", "none"}] \* user and password in extra

\* equipment_backup and validate_schedule_runnable test the default credentials,
\* by the slug of the type: a type of another slug may have this adapter too.
Accepted(custom, known, s) == ~known \/ custom \/ s.envPair

\* Seeded fault: the credentials of the form do not reach the adapter.
FaultFormLost(custom, known) == FALSE

\* credentials_from_job: the view passes the form on for the slugs it knows.
FormCredentials(custom, known) == custom /\ known

IntegrationMode(form, s) ==
  IF form \/ s.extraMode = "ssh" \/ s.envMode \/ s.extraPair \in {"ssh", "icontrol"} \/ s.envPair
  THEN "ssh" ELSE "demo"

HasCredentials(form, s) == form \/ s.extraPair # "none" \/ s.envPair

\* What the adapter does: the HA adapter may simulate, the standalone ones not.
Dispatch(ha, form, s) ==
  IF ha /\ IntegrationMode(form, s) = "demo" THEN (IF debug THEN "simulated" ELSE "refused")
  ELSE IF ~HasCredentials(form, s) THEN "refused"
  ELSE IF ha THEN "ask" ELSE "connect"

--------------------------------------------------------------------------------
(* Seeded faults: variants of the definitions below that the specification does *)
(* not use.                                                                     *)

\* The member that answers is taken for the active one.
FaultAnswered(j) ==
  /\ At(j, "ask")
  /\ job' = [job EXCEPT ![j].pc = "connect", ![j].at = 1,
                        ![j].target = Peers[job[j].at]]
  /\ UNCHANGED <<debug, cluster, disks>>

\* The loop over the peers goes one too far.
FaultNextPeer(j) ==
  /\ At(j, "ask") /\ Fails("ask")
  /\ job' = [job EXCEPT ![j].at = @ + 1]
  /\ UNCHANGED <<debug, cluster, disks>>

\* A failed download is logged like a failed deletion, and the job goes on.
FaultDownloadFails(j) ==
  /\ At(j, "reading") /\ Fails("download")
  /\ Goto(j, "delete")
  /\ UNCHANGED <<debug, cluster, disks>>

\* The deletion is given up at once when the command fails, without a trace.
FaultDeleteFails(j) ==
  /\ At(j, "delete") /\ Fails("delete")
  /\ Goto(j, "transfer")
  /\ UNCHANGED <<debug, cluster, disks>>

\* The local file is removed when the transfer fails.
FaultUploadFails(j) ==
  /\ job[j].pc \in {"transfer", "writing", "sent"} /\ Fails("upload")
  /\ PutLocal(j, "none")
  /\ Goto(j, "stopped")
  /\ UNCHANGED <<debug, cluster, device, remote>>

--------------------------------------------------------------------------------
(* The cluster *)

\* Another member takes over; the members learn of it one by one.
Failover(d) ==
  /\ failovers < MaxFailovers /\ d # active
  /\ active' = d /\ failovers' = failovers + 1
  /\ job' = [j \in Jobs |-> [job[j] EXCEPT !.calm = FALSE]]
  /\ UNCHANGED <<debug, view, disks>>

Learn(p) ==
  /\ view[p] # active
  /\ view' = [view EXCEPT ![p] = active]
  /\ UNCHANGED <<debug, active, failovers, disks, job>>

--------------------------------------------------------------------------------
(* The executions *)

\* A request or a due schedule is accepted, a job created, its adapter called.
\* For this step to the last: an exception ends the job where it stands.
Submit(j, ha, custom, known) ==
  /\ At(j, "idle")
  /\ \E then \in {Dispatch(ha, FormCredentials(custom, known), s) :
                   s \in {s \in Settings : Accepted(custom, known, s)}},
        d \in IF ha THEN {NoDevice} ELSE Standalone :
       job' = [job EXCEPT ![j].pc = then, ![j].target = d,
                          ![j].calm = \A p \in Members : view[p] = active]
  /\ UNCHANGED <<debug, cluster, disks>>

Raise(j) ==
  /\ Goto(j, "stopped")
  /\ UNCHANGED <<debug, cluster, disks>>

\* resolve_standalone_host: the host of the job was deleted and several remain, or
\* the row of the job was.
HostGone(j) ==
  /\ At(j, "connect") /\ job[j].target \in Standalone
  /\ Fails("host") \/ Fails("row")
  /\ Raise(j)

\* resolve_active_mgmt_ip: the first peer that names an active member decides;
\* _attach_resolved_host then saves it in the row of the job.
Answered(j) ==
  /\ At(j, "ask")
  /\ job' = [job EXCEPT ![j].pc = "connect", ![j].at = 1,
                        ![j].target = view[Peers[job[j].at]]]
  /\ UNCHANGED <<debug, cluster, disks>>

\* A peer that refuses, answers nonsense or names no active member is skipped.
NextPeer(j) ==
  /\ At(j, "ask") /\ Fails("ask")
  /\ IF job[j].at < Len(Peers) THEN job' = [job EXCEPT ![j].at = @ + 1] ELSE Goto(j, "stopped")
  /\ UNCHANGED <<debug, cluster, disks>>

\* One that accepts the request and never answers raises TimeoutError, which is no
\* URLError: the others are not asked. So does the save of a row deleted meanwhile.
AskRaises(j) ==
  /\ At(j, "ask") /\ (Fails("hang") \/ Fails("row"))
  /\ Raise(j)

ConnectFails(j) ==
  /\ At(j, "connect") /\ Fails("connect")
  /\ Raise(j)

\* F5SSHSession, _read_short_hostname_ssh and ucs_filename.
Connect(j) ==
  /\ At(j, "connect")
  /\ \E stamp \in Stamps,
        short \in {Hostname[job[j].target]}
                  \cup (IF Fails("hostname") THEN {Label[job[j].target]} ELSE {}) :
       job' = [job EXCEPT ![j].pc = "save", ![j].name = <<short, stamp>>]
  /\ UNCHANGED <<debug, cluster, disks>>

\* tmsh save sys ucs: the device writes until the command ends.
Save(j) ==
  /\ At(j, "save")
  /\ PutDevice(j, "part")
  /\ Goto(j, "saving")
  /\ UNCHANGED <<debug, cluster, local, remote>>

Saved(j) ==
  /\ At(j, "saving")
  /\ \E c \in Ends(j, "whole") : PutDevice(j, c)
  /\ Goto(j, "download")
  /\ UNCHANGED <<debug, cluster, local, remote>>

SaveFails(j) ==
  /\ job[j].pc \in {"save", "saving"} /\ Fails("save")
  /\ Raise(j)

\* sftp.get opens the local file for writing before it looks at the remote one.
Download(j) ==
  /\ At(j, "download")
  /\ PutLocal(j, "part")
  /\ Goto(j, "reading")
  /\ UNCHANGED <<debug, cluster, device, remote>>

Downloaded(j) ==
  /\ At(j, "reading")
  /\ Archive(j) # "none"
  /\ \E c \in Ends(j, Archive(j)) : PutLocal(j, c)
  /\ Goto(j, "delete")
  /\ UNCHANGED <<debug, cluster, device, remote>>

\* An empty local file is an error too: another job may have just opened it again.
DownloadFails(j) ==
  /\ At(j, "reading") /\ (Fails("download") \/ Archive(j) = "none" \/ Shared(j))
  /\ Raise(j)

\* tmsh delete sys ucs, then the SSH session is closed.
Delete(j) ==
  /\ At(j, "delete")
  /\ Archive(j) # "none"
  /\ PutDevice(j, "none")
  /\ Goto(j, "transfer")
  /\ UNCHANGED <<debug, cluster, local, remote>>

\* A command that fails is a BackupAdapterError, and only a warning.
DeleteFails(j) ==
  /\ At(j, "delete") /\ (Fails("delete") \/ Archive(j) = "none")
  /\ job' = [job EXCEPT ![j].pc = "transfer", ![j].warned = TRUE]
  /\ UNCHANGED <<debug, cluster, disks>>

\* A command that times out is not, and ends the job: the local file is kept.
DeleteRaises(j) ==
  /\ At(j, "delete") /\ Fails("channel")
  /\ Raise(j)

\* windows_scp_config: with any of host, user and password missing, no transfer.
NoTransfer(j) ==
  /\ At(j, "transfer")
  /\ Goto(j, "recorded")
  /\ UNCHANGED <<debug, cluster, disks>>

\* _upload_to_windows truncates the remote file and writes it in pieces.
Upload(j) ==
  /\ At(j, "transfer")
  /\ PutRemote(j, "part")
  /\ Goto(j, "writing")
  /\ UNCHANGED <<debug, cluster, device, local>>

Uploaded(j) ==
  /\ At(j, "writing")
  /\ \E c \in Ends(j, local[Path(j)]) : PutRemote(j, c)
  /\ Goto(j, "sent")
  /\ UNCHANGED <<debug, cluster, device, local>>

\* The connection is closed, the size read, the message returned.
Announce(j) ==
  /\ At(j, "sent")
  /\ Goto(j, "transferred")
  /\ UNCHANGED <<debug, cluster, disks>>

\* Closing is part of the transfer: it may be called impossible when all is sent.
UploadFails(j) ==
  /\ job[j].pc \in {"transfer", "writing", "sent"} /\ Fails("upload")
  /\ Raise(j)

\* The thread or the container of the job ends.
Killed(j) ==
  /\ Running(j) /\ Fails("kill")
  /\ Raise(j)

--------------------------------------------------------------------------------
Init ==
  /\ debug \in BOOLEAN
  /\ active \in Members /\ view = [p \in Members |-> active] /\ failovers = 0
  /\ device = [d \in Devices |-> [n \in Names |-> "none"]]
  /\ local  = [p \in Roots \X Names |-> "none"]
  /\ remote = [n \in Names |-> "none"]
  /\ job = [j \in Jobs |-> [pc |-> "idle", at |-> 1, target |-> NoDevice, name |-> NoName,
                            calm |-> FALSE, warned |-> FALSE]]

Run(j) ==
  \/ \E ha, custom, known \in BOOLEAN : Submit(j, ha, custom, known)
  \/ HostGone(j) \/ Answered(j) \/ NextPeer(j) \/ AskRaises(j)
  \/ ConnectFails(j) \/ Connect(j) \/ Save(j) \/ Saved(j) \/ SaveFails(j)
  \/ Download(j) \/ Downloaded(j) \/ DownloadFails(j)
  \/ Delete(j) \/ DeleteFails(j) \/ DeleteRaises(j)
  \/ NoTransfer(j) \/ Upload(j) \/ Uploaded(j) \/ Announce(j) \/ UploadFails(j)

Next ==
  \/ \E d \in Members : Failover(d) \/ Learn(d)
  \/ \E j \in Jobs : Run(j) \/ Killed(j)

Spec == Init /\ [][Next]_vars

--------------------------------------------------------------------------------
(* Properties *)

\* Types; a job has a target from its connection on and a name from its save on.
TypeOK ==
  /\ debug \in BOOLEAN
  /\ active \in Members /\ view \in [Members -> Members] /\ failovers \in 0..MaxFailovers
  /\ device \in [Devices -> [Names -> Contents]]
  /\ local  \in [Roots \X Names -> Contents]
  /\ remote \in [Names -> Contents]
  /\ job \in [Jobs -> [pc : Steps, at : DOMAIN Peers, target : Devices \cup {NoDevice},
                       name : Names \cup {NoName},
                       calm : BOOLEAN, warned : BOOLEAN]]
  /\ \A j \in Jobs :
       /\ At(j, "connect") \/ Named(j) => job[j].target # NoDevice
       /\ job[j].pc \in Stored \cup {"save", "saving", "download", "reading"} => Named(j)

\* f5_ha.py:96: the archive is one of the active member of the cluster, whichever
\* peers answered, unless the cluster changed during the job or before it in a way
\* that some member had not yet learnt: the discovery happens once, the save later.
ActiveUnlessDisturbed ==
  \A j \in Jobs : job[j].calm /\ job[j].target \in Members => job[j].target = active

\* An archive stays on a device only for a reason: a job that needs it is running,
\* or failed, or reported that it could not delete it (f5_ssh_core.py:194).
LeftoverExplained ==
  \A d \in Devices, n \in Names : device[d][n] # "none" =>
    \E j \in Jobs :
      /\ job[j].target = d /\ job[j].name = n
      /\ Running(j) \/ At(j, "stopped") \/ job[j].warned

\* The checks of the view and of the scheduler agree with the adapter's own reading
\* of the same settings: what they accept is neither refused nor simulated.
AcceptedRuns ==
  [][\A j \in Jobs : job'[j].pc \in {"refused", "simulated"} =>
       \A ha, custom \in BOOLEAN : ~Submit(j, ha, custom, TRUE)]_vars

Removed(d, n) == device[d][n] # "none" /\ device'[d][n] = "none"

\* The name is that of one job at most.
Alone(n) == \A j, k \in Jobs : job[j].name = n /\ job[k].name = n => j = k

\* An archive leaves the device only when the download of the job that made it is
\* complete, whatever fails, as long as no other job has its name. One of the same
\* second opens the local file again, and truncates it, before this one deletes the
\* archive: nothing is claimed of them (f5_variant.py:175, f5_ssh_core.py:70).
DeletedAfterDownload ==
  [][\A d \in Devices, n \in Names :
       Removed(d, n) /\ Alone(n) => local[<<Root(d), n>>] = "whole"]_vars

Answer(j) == CASE job[j].pc \in {"simulated", "recorded", "transferred"} -> job[j].pc
               [] job[j].pc \in {"stopped", "refused"} -> "failed"
               [] OTHER -> "pending"

Copies(j) == IF ~Named(j) \/ Shared(j) THEN {}
             ELSE {c \in {"local", "windows"} :
                     \/ c = "local"   /\ local[Path(j)] = "whole"
                     \/ c = "windows" /\ remote[job[j].name] = "whole"}

Sharing == {j \in Jobs : Shared(j)}

Contract == INSTANCE AdapterContract
              WITH Job <- Jobs, outcome <- [j \in Jobs |-> Answer(j)],
                   held <- [j \in Jobs |-> Copies(j)], shared <- Sharing

\* The pipeline implements the contract of an adapter: the local file comes first,
\* no copy is lost afterwards, and the message of the job says what there is, until
\* another job forms the same name, from when on nothing is promised of either.
KeepsContract == Contract!CSpec

================================================================================
