---------------------------- MODULE F5BackupProofs ----------------------------
(***************************************************************************)
(* Theorems about F5Backup, for every set of jobs, devices and seconds,    *)
(* every number of failovers and every set of steps that may fail.         *)
(***************************************************************************)
EXTENDS F5Backup, TLAPS

(***************************************************************************)
(* The invariant.                                                          *)
(***************************************************************************)

JobRecord == [pc : Steps, at : DOMAIN Peers, target : Devices \cup {NoDevice},
              name : Names \cup {NoName}, calm : BOOLEAN, warned : BOOLEAN]

DiskTypes ==
  /\ device \in [Devices -> [Names -> Contents]]
  /\ local \in [Roots \X Names -> Contents]
  /\ remote \in [Names -> Contents]

ClusterTypes ==
  /\ debug \in BOOLEAN /\ active \in Members
  /\ view \in [Members -> Members] /\ failovers \in 0..MaxFailovers

\* An execution has a target once it connects and a name once it saves.
NamedWell(r) ==
  /\ r.name # NoName \/ r.pc = "connect" => r.target \in Devices
  /\ r.pc \in Stored \cup {"save", "saving", "download", "reading"} => r.name # NoName
  /\ r.pc \in {"idle", "ask", "connect", "refused", "simulated"} => r.name = NoName

\* While nothing disturbs its discovery every member knows the active one.
CalmWell(r) ==
  r.calm => /\ \A p \in Members : view[p] = active
            /\ r.target \in Members => r.target = active

Good(r) == NamedWell(r) /\ CalmWell(r)

\* The execution has the archive still to delete, or it said or shows that it did
\* not: one that only sends its file to Windows is no reason.
Reason(r, d, n) ==
  /\ r.target = d /\ r.name = n
  /\ r.pc \in {"saving", "download", "reading", "delete", "stopped"} \/ r.warned

LeftoverOK ==
  \A d \in Devices, n \in Names :
    device[d][n] # "none" => \E j \in Jobs : Reason(job[j], d, n)

IInv ==
  /\ DiskTypes /\ ClusterTypes
  /\ job \in [Jobs -> JobRecord] /\ \A j \in Jobs : Good(job[j])
  /\ LeftoverOK

\* The initial states satisfy the invariant.
LEMMA InitGivesIInv == Init => IInv
<1>. SUFFICES ASSUME Init PROVE IInv
  OBVIOUS
<1>. USE F5Assumption DEF Init
<1>1. job \in [Jobs -> JobRecord]
  BY DEF JobRecord, Steps, Over
<1>2. DiskTypes /\ ClusterTypes
  BY DEF DiskTypes, ClusterTypes, Contents
<1>3. \A j \in Jobs : Good(job[j])
  BY DEF Good, NamedWell, CalmWell, Stored
<1>4. LeftoverOK
  BY DEF LeftoverOK
<1>. QED
  BY <1>1, <1>2, <1>3, <1>4 DEF IInv

\* A step of one job that leaves the cluster and the devices alone, by its effect.
LEMMA JobStepKeeps ==
  ASSUME IInv, NEW j \in Jobs, NEW r \in JobRecord, job' = [job EXCEPT ![j] = r],
         DiskTypes', UNCHANGED <<debug, cluster, device>>, Good(r),
         \A d \in Devices, n \in Names : Reason(job[j], d, n) => Reason(r, d, n)
  PROVE  IInv'
<1>1. job' \in [Jobs -> JobRecord] /\ job'[j] = r
      /\ \A k \in Jobs \ {j} : job'[k] = job[k]
  BY DEF IInv
<1>2. ClusterTypes'
  BY DEF IInv, ClusterTypes, cluster
<1>3. \A k \in Jobs : Good(job'[k])
  BY <1>1 DEF IInv
<1>4. (\A k \in Jobs : Good(job[k]))'
  BY <1>3 DEF Good, CalmWell, cluster
<1>5. LeftoverOK'
  <2>. SUFFICES ASSUME NEW d \in Devices, NEW n \in Names, device[d][n] # "none"
                PROVE  \E k \in Jobs : Reason(job'[k], d, n)
    BY DEF LeftoverOK, Reason
  <2>. PICK k \in Jobs : Reason(job[k], d, n)
    BY DEF IInv, LeftoverOK
  <2>. QED
    BY <1>1
<1>. QED
  BY <1>1, <1>2, <1>4, <1>5 DEF IInv

\* A step of one job that changes the archive of its name on its device.
LEMMA DeviceStepKeeps ==
  ASSUME IInv, NEW j \in Jobs, NEW r \in JobRecord, job' = [job EXCEPT ![j] = r],
         NEW c \in Contents, PutDevice(j, c), UNCHANGED <<debug, cluster, local, remote>>,
         Good(r), r.target = job[j].target, r.name = job[j].name,
         r.target \in Devices, r.name \in Names,
         c = "none" \/ Reason(r, r.target, r.name)
  PROVE  IInv'
<1>1. job' \in [Jobs -> JobRecord] /\ job'[j] = r
      /\ \A k \in Jobs \ {j} : job'[k] = job[k]
  BY DEF IInv
<1>2. ClusterTypes' /\ DiskTypes'
  BY DEF IInv, ClusterTypes, DiskTypes, cluster, PutDevice
<1>3. \A k \in Jobs : Good(job'[k])
  BY <1>1 DEF IInv
<1>4. (\A k \in Jobs : Good(job[k]))'
  BY <1>3 DEF Good, CalmWell, cluster
<1>5. LeftoverOK'
  <2>. SUFFICES ASSUME NEW d \in Devices, NEW n \in Names, device'[d][n] # "none"
                PROVE  \E k \in Jobs : Reason(job'[k], d, n)
    BY DEF LeftoverOK, Reason
  <2>1. CASE d = r.target /\ n = r.name
    <3>1. device'[d][n] = c
      BY <2>1 DEF IInv, DiskTypes, PutDevice
    <3>. QED
      BY <1>1, <2>1, <3>1
  <2>2. CASE ~(d = r.target /\ n = r.name)
    <3>1. device'[d][n] = device[d][n]
      BY <2>2 DEF IInv, DiskTypes, PutDevice
    <3>2. PICK k \in Jobs : Reason(job[k], d, n)
      BY <3>1 DEF IInv, LeftoverOK
    <3>3. k # j
      BY <2>2, <3>2 DEF Reason
    <3>. QED
      BY <1>1, <3>2, <3>3
  <2>. QED
    BY <2>1, <2>2
<1>. QED
  BY <1>1, <1>2, <1>4, <1>5 DEF IInv

\* An execution that only moves on.
LEMMA GotoKeeps ==
  ASSUME IInv, NEW j \in Jobs, NEW to \in Steps, Goto(j, to),
         DiskTypes', UNCHANGED <<debug, cluster, device>>,
         to # "connect",
         to \in {"idle", "ask", "refused", "simulated"} => ~Named(j),
         to \in Stored \cup {"save", "saving", "download", "reading"} => Named(j),
         \/ to \in {"saving", "download", "reading", "delete", "stopped"}
         \/ job[j].pc \notin {"saving", "download", "reading", "delete", "stopped"}
  PROVE  IInv'
<1>. DEFINE r == [job[j] EXCEPT !.pc = to]
<1>1. job[j] \in JobRecord /\ Good(job[j])
  BY DEF IInv
<1>2. /\ r \in JobRecord /\ r.pc = to /\ r.target = job[j].target /\ r.name = job[j].name
      /\ r.calm = job[j].calm /\ r.warned = job[j].warned
  BY <1>1 DEF JobRecord
<1>3. job' = [job EXCEPT ![j] = r]
  BY DEF Goto
<1>. HIDE DEF r
<1>4. Good(r)
  BY <1>1, <1>2 DEF Good, NamedWell, CalmWell, Named
<1>5. \A d \in Devices, n \in Names : Reason(job[j], d, n) => Reason(r, d, n)
  BY <1>2 DEF Reason
<1>. QED
  BY <1>2, <1>3, <1>4, <1>5, JobStepKeeps

LEMMA RaiseKeeps ==
  ASSUME IInv, NEW j \in Jobs, Raise(j)
  PROVE  IInv'
<1>1. DiskTypes'
  BY DEF IInv, DiskTypes, Raise, disks
<1>2. "stopped" \in Steps /\ "stopped" \notin Stored
  BY DEF Steps, Over, Stored
<1>. QED
  BY <1>1, <1>2, GotoKeeps DEF Raise, disks

\* Every step of the cluster, of a job, and its end from outside keeps the invariant.
LEMMA StepKeepsIInv == IInv /\ [Next]_vars => IInv'
<1>. SUFFICES ASSUME IInv, [Next]_vars PROVE IInv'
  OBVIOUS
<1>0. /\ job \in [Jobs -> JobRecord] /\ \A j \in Jobs : Good(job[j])
      /\ DiskTypes /\ ClusterTypes
  BY DEF IInv
<1>file. ASSUME NEW j \in Jobs, job[j].pc \in Stored \cup {"save", "saving", "download", "reading"}
         PROVE  /\ job[j].target \in Devices /\ job[j].name \in Names /\ Named(j)
                /\ Path(j) \in Roots \X Names
  <2>1. job[j].target \in Devices /\ job[j].name \in Names /\ Named(j)
    BY <1>0, <1>file DEF Good, NamedWell, JobRecord, Named
  <2>. QED
    BY <2>1 DEF Path, Root, Roots
<1>1. ASSUME NEW d \in Members, Failover(d) PROVE IInv'
  <2>1. job' \in [Jobs -> JobRecord]
    <3>1. \A j \in Jobs : [job[j] EXCEPT !.calm = FALSE] \in JobRecord
      BY <1>0 DEF JobRecord
    <3>. QED
      BY <1>1, <3>1 DEF Failover
  <2>2. \A j \in Jobs : /\ job'[j].pc = job[j].pc /\ job'[j].target = job[j].target
                        /\ job'[j].name = job[j].name /\ job'[j].warned = job[j].warned
                        /\ ~job'[j].calm
    <3>1. \A j \in Jobs : job[j] \in JobRecord /\ job'[j] = [job[j] EXCEPT !.calm = FALSE]
      BY <1>0, <1>1 DEF Failover
    <3>. QED
      BY <3>1 DEF JobRecord
  <2>3. (DiskTypes /\ ClusterTypes)'
    BY <1>0, <1>1, F5Assumption DEF Failover, DiskTypes, ClusterTypes, disks
  <2>4. (\A j \in Jobs : Good(job[j]))'
    BY <1>0, <1>1, <2>2 DEF Failover, Good, NamedWell, CalmWell
  <2>5. LeftoverOK'
    BY <1>1, <2>2 DEF Failover, IInv, LeftoverOK, Reason, disks
  <2>. QED
    BY <2>1, <2>3, <2>4, <2>5 DEF IInv
<1>2. ASSUME NEW d \in Members, Learn(d) PROVE IInv'
  <2>1. (DiskTypes /\ ClusterTypes)'
    BY <1>0, <1>2 DEF Learn, DiskTypes, ClusterTypes, disks
  <2>2. (\A j \in Jobs : Good(job[j]))'
    BY <1>0, <1>2 DEF Learn, Good, NamedWell, CalmWell, ClusterTypes
  <2>3. LeftoverOK'
    BY <1>2 DEF Learn, IInv, LeftoverOK, Reason, disks
  <2>. QED
    BY <1>2, <2>1, <2>2, <2>3 DEF Learn, IInv
<1>3. ASSUME NEW j \in Jobs, NEW ha \in BOOLEAN, NEW custom \in BOOLEAN,
             NEW known \in BOOLEAN, Submit(j, ha, custom, known)
      PROVE  IInv'
  <2>. DEFINE calm == \A p \in Members : view[p] = active
  <2>1. PICK to \in {"simulated", "refused", "ask", "connect"},
             d \in IF ha THEN {NoDevice} ELSE Standalone :
          /\ job' = [job EXCEPT ![j].pc = to, ![j].target = d, ![j].calm = calm]
          /\ to = "connect" => ~ha
    BY <1>3 DEF Submit, Dispatch
  <2>2. /\ d \in Devices \cup {NoDevice} /\ d \notin Members
        /\ to = "connect" => d \in Devices
    BY <2>1, F5Assumption DEF Devices
  <2>3. At(j, "idle") /\ UNCHANGED <<debug, cluster, disks>>
    BY <1>3 DEF Submit
  <2>. DEFINE r == [job[j] EXCEPT !.pc = to, !.target = d, !.calm = calm]
  <2>4. /\ r \in JobRecord /\ r.pc = to /\ r.target = d /\ r.calm = calm
        /\ r.name = job[j].name /\ r.warned = job[j].warned
    BY <1>0, <2>2 DEF JobRecord, Steps, Over
  <2>5. job' = [job EXCEPT ![j] = r]
    BY <2>1
  <2>6. r.name = NoName
    BY <1>0, <2>3, <2>4 DEF At, Good, NamedWell
  <2>7. Good(r)
    BY <2>1, <2>2, <2>4, <2>6 DEF Good, NamedWell, CalmWell, Stored
  <2>8. \A dd \in Devices, n \in Names : ~Reason(job[j], dd, n)
    BY <2>4, <2>6, F5Assumption DEF Reason
  <2>9. DiskTypes'
    BY <1>0, <2>3 DEF DiskTypes, disks
  <2>. HIDE DEF r
  <2>. QED
    BY <2>3, <2>4, <2>5, <2>7, <2>8, <2>9, JobStepKeeps DEF disks
<1>4. ASSUME NEW j \in Jobs, HostGone(j) PROVE IInv'
  BY <1>4, RaiseKeeps DEF HostGone
<1>5. ASSUME NEW j \in Jobs, Answered(j) PROVE IInv'
  <2>1. 1 \in DOMAIN Peers
    BY F5Assumption
  <2>2. job[j].at \in DOMAIN Peers
    BY <1>0 DEF JobRecord
  <2>3. Peers[job[j].at] \in Members
    BY <2>2 DEF Members
  <2>. DEFINE d == view[Peers[job[j].at]]
              r == [job[j] EXCEPT !.pc = "connect", !.at = 1, !.target = d]
  <2>4. d \in Members /\ d \in Devices
    BY <1>0, <2>3 DEF ClusterTypes, Devices
  <2>5. /\ r \in JobRecord /\ r.pc = "connect" /\ r.target = d /\ r.calm = job[j].calm
        /\ r.name = job[j].name /\ r.warned = job[j].warned
    BY <1>0, <2>1, <2>4 DEF JobRecord, Steps, Over
  <2>6. job' = [job EXCEPT ![j] = r]
    BY <1>5 DEF Answered
  <2>7. At(j, "ask") /\ UNCHANGED <<debug, cluster, disks>>
    BY <1>5 DEF Answered
  <2>8. r.name = NoName
    BY <1>0, <2>7, <2>5 DEF At, Good, NamedWell
  <2>9. r.calm => d = active
    BY <1>0, <2>3, <2>5 DEF Good, CalmWell
  <2>10. Good(r)
    BY <1>0, <2>4, <2>5, <2>8, <2>9 DEF Good, NamedWell, CalmWell, Stored
  <2>11. \A dd \in Devices, n \in Names : ~Reason(job[j], dd, n)
    BY <2>5, <2>8, F5Assumption DEF Reason
  <2>12. DiskTypes'
    BY <1>0, <2>7 DEF DiskTypes, disks
  <2>. HIDE DEF r
  <2>. QED
    BY <2>5, <2>6, <2>7, <2>10, <2>11, <2>12, JobStepKeeps DEF disks
<1>6. ASSUME NEW j \in Jobs, NextPeer(j) PROVE IInv'
  <2>1. CASE job[j].at < Len(Peers)
    <3>. DEFINE r == [job[j] EXCEPT !.at = @ + 1]
    <3>1. job[j].at + 1 \in DOMAIN Peers
      BY <1>0, <2>1, F5Assumption DEF JobRecord
    <3>2. /\ r \in JobRecord /\ r.pc = job[j].pc /\ r.target = job[j].target
          /\ r.calm = job[j].calm /\ r.name = job[j].name /\ r.warned = job[j].warned
      BY <1>0, <3>1 DEF JobRecord
    <3>3. job' = [job EXCEPT ![j] = r] /\ UNCHANGED <<debug, cluster, disks>>
      BY <1>6, <2>1 DEF NextPeer
    <3>4. Good(r) /\ \A d \in Devices, n \in Names : Reason(job[j], d, n) => Reason(r, d, n)
      BY <1>0, <3>2 DEF Good, NamedWell, CalmWell, Reason
    <3>5. DiskTypes'
      BY <1>0, <3>3 DEF DiskTypes, disks
    <3>. HIDE DEF r
    <3>. QED
      BY <3>2, <3>3, <3>4, <3>5, JobStepKeeps DEF disks
  <2>2. CASE ~(job[j].at < Len(Peers))
    BY <1>6, <2>2, RaiseKeeps DEF NextPeer, Raise
  <2>. QED
    BY <2>1, <2>2
<1>7. ASSUME NEW j \in Jobs, AskRaises(j) \/ ConnectFails(j) \/ SaveFails(j) \/ DownloadFails(j)
             \/ DeleteRaises(j) \/ UploadFails(j) \/ Killed(j)
      PROVE  IInv'
  BY <1>7, RaiseKeeps DEF AskRaises, ConnectFails, SaveFails, DownloadFails, DeleteRaises,
     UploadFails, Killed
<1>8. ASSUME NEW j \in Jobs, Connect(j) PROVE IInv'
  <2>1. At(j, "connect") /\ UNCHANGED <<debug, cluster, disks>>
    BY <1>8 DEF Connect
  <2>2. job[j].target \in Devices /\ job[j].name = NoName
    BY <1>0, <2>1 DEF At, Good, NamedWell
  <2>3. PICK n \in Names : job' = [job EXCEPT ![j].pc = "save", ![j].name = n]
    <3>1. PICK stamp \in Stamps, short \in {Hostname[job[j].target], Label[job[j].target]} :
            job' = [job EXCEPT ![j].pc = "save", ![j].name = <<short, stamp>>]
      BY <1>8 DEF Connect
    <3>2. <<short, stamp>> \in Names
      BY <2>2 DEF Names
    <3>. QED
      BY <3>1, <3>2
  <2>. DEFINE r == [job[j] EXCEPT !.pc = "save", !.name = n]
  <2>4. /\ r \in JobRecord /\ r.pc = "save" /\ r.target = job[j].target
        /\ r.calm = job[j].calm /\ r.name = n /\ r.warned = job[j].warned
    BY <1>0 DEF JobRecord, Steps
  <2>5. job' = [job EXCEPT ![j] = r]
    BY <2>3
  <2>6. Good(r) /\ \A d \in Devices, nn \in Names : ~Reason(job[j], d, nn)
    BY <1>0, <2>2, <2>4, F5Assumption DEF Good, NamedWell, CalmWell, Reason
  <2>7. DiskTypes'
    BY <1>0, <2>1 DEF DiskTypes, disks
  <2>. HIDE DEF r
  <2>. QED
    BY <2>1, <2>4, <2>5, <2>6, <2>7, JobStepKeeps DEF disks
<1>9. ASSUME NEW j \in Jobs, Save(j) \/ Saved(j) \/ Delete(j) PROVE IInv'
  <2>1. PICK c \in Contents, to \in {"saving", "download", "transfer"} :
          PutDevice(j, c) /\ Goto(j, to) /\ (to = "transfer" => c = "none")
    BY <1>9 DEF Save, Saved, Delete, Contents, Ends
  <2>2. job[j].target \in Devices /\ job[j].name \in Names /\ Named(j)
    BY <1>9, <1>file DEF Save, Saved, Delete, At, Stored
  <2>. DEFINE r == [job[j] EXCEPT !.pc = to]
  <2>3. /\ r \in JobRecord /\ r.pc = to /\ r.target = job[j].target
        /\ r.calm = job[j].calm /\ r.name = job[j].name /\ r.warned = job[j].warned
    BY <1>0 DEF JobRecord, Steps
  <2>4. job' = [job EXCEPT ![j] = r] /\ UNCHANGED <<debug, cluster, local, remote>>
    BY <1>9, <2>1 DEF Save, Saved, Delete, Goto
  <2>5. Good(r)
    BY <1>0, <2>2, <2>3 DEF Good, NamedWell, CalmWell, Named
  <2>6. c = "none" \/ Reason(r, r.target, r.name)
    BY <2>1, <2>3 DEF Reason
  <2>. HIDE DEF r
  <2>. QED
    BY <2>1, <2>2, <2>3, <2>4, <2>5, <2>6, DeviceStepKeeps
<1>10. ASSUME NEW j \in Jobs, Download(j) \/ Downloaded(j) PROVE IInv'
  <2>1. job[j].target \in Devices /\ job[j].name \in Names /\ Named(j) /\ Path(j) \in Roots \X Names
    BY <1>10, <1>file DEF Download, Downloaded, At
  <2>2. \E c \in Contents : PutLocal(j, c)
    BY <1>0, <1>10, <2>1 DEF Download, Downloaded, Archive, Contents, DiskTypes, Ends
  <2>3. UNCHANGED <<debug, cluster, device, remote>>
    BY <1>10 DEF Download, Downloaded
  <2>4. DiskTypes'
    BY <1>0, <2>1, <2>2, <2>3 DEF DiskTypes, PutLocal
  <2>5. PICK to \in {"reading", "delete"} : Goto(j, to)
    BY <1>10 DEF Download, Downloaded
  <2>6. to \in Steps
    BY DEF Steps
  <2>. QED
    BY <2>1, <2>3, <2>4, <2>5, <2>6, GotoKeeps
<1>11. ASSUME NEW j \in Jobs, DeleteFails(j) PROVE IInv'
  <2>. DEFINE r == [job[j] EXCEPT !.pc = "transfer", !.warned = TRUE]
  <2>1. Named(j)
    BY <1>11, <1>file DEF DeleteFails, At, Stored
  <2>2. /\ r \in JobRecord /\ r.pc = "transfer" /\ r.target = job[j].target
        /\ r.calm = job[j].calm /\ r.name = job[j].name /\ r.warned
    BY <1>0 DEF JobRecord, Steps
  <2>3. job' = [job EXCEPT ![j] = r] /\ UNCHANGED <<debug, cluster, disks>>
    BY <1>11 DEF DeleteFails
  <2>4. Good(r) /\ \A d \in Devices, n \in Names : Reason(job[j], d, n) => Reason(r, d, n)
    BY <1>0, <2>1, <2>2 DEF Good, NamedWell, CalmWell, Reason, Named
  <2>5. DiskTypes'
    BY <1>0, <2>3 DEF DiskTypes, disks
  <2>. HIDE DEF r
  <2>. QED
    BY <2>2, <2>3, <2>4, <2>5, JobStepKeeps DEF disks
<1>12. ASSUME NEW j \in Jobs, NoTransfer(j) \/ Announce(j) PROVE IInv'
  <2>1. Named(j) /\ job[j].pc \in {"transfer", "sent"}
    BY <1>12, <1>file DEF NoTransfer, Announce, At, Stored
  <2>2. DiskTypes' /\ UNCHANGED <<debug, cluster, device>>
    BY <1>0, <1>12 DEF NoTransfer, Announce, DiskTypes, disks
  <2>3. PICK to \in {"recorded", "transferred"} : Goto(j, to)
    BY <1>12 DEF NoTransfer, Announce
  <2>4. to \in Steps
    BY DEF Steps, Over
  <2>. QED
    BY <2>1, <2>2, <2>3, <2>4, GotoKeeps
<1>13. ASSUME NEW j \in Jobs, Upload(j) \/ Uploaded(j) PROVE IInv'
  <2>1. /\ job[j].name \in Names /\ Named(j) /\ Path(j) \in Roots \X Names
        /\ job[j].pc \in {"transfer", "writing"}
    BY <1>13, <1>file DEF Upload, Uploaded, At, Stored
  <2>2. \E c \in Contents : PutRemote(j, c)
    BY <1>0, <1>13, <2>1 DEF Upload, Uploaded, Contents, DiskTypes, Ends
  <2>3. UNCHANGED <<debug, cluster, device, local>>
    BY <1>13 DEF Upload, Uploaded
  <2>4. DiskTypes'
    BY <1>0, <2>1, <2>2, <2>3 DEF DiskTypes, PutRemote
  <2>5. PICK to \in {"writing", "sent"} : Goto(j, to)
    BY <1>13 DEF Upload, Uploaded
  <2>6. to \in Steps
    BY DEF Steps, Over
  <2>. QED
    BY <2>1, <2>3, <2>4, <2>5, <2>6, GotoKeeps
<1>14. CASE UNCHANGED vars
  BY <1>14 DEF vars, cluster, disks, IInv, DiskTypes, ClusterTypes, Good, CalmWell, LeftoverOK
<1>. QED
  BY <1>1, <1>2, <1>3, <1>4, <1>5, <1>6, <1>7, <1>8, <1>9, <1>10, <1>11, <1>12, <1>13,
     <1>14 DEF Next, Run

LEMMA Invariance == Spec => []IInv
BY InitGivesIInv, StepKeepsIInv, PTL DEF Spec

\* Every variable keeps its type; a job has a target once it connects, a name once it
\* saves.
THEOREM TypeCorrect == Spec => []TypeOK
<1>1. IInv => TypeOK
  <2>. SUFFICES ASSUME IInv PROVE TypeOK
    OBVIOUS
  <2>1. /\ DiskTypes /\ ClusterTypes
        /\ job \in [Jobs -> [pc : Steps, at : DOMAIN Peers, target : Devices \cup {NoDevice},
                             name : Names \cup {NoName}, calm : BOOLEAN, warned : BOOLEAN]]
        /\ \A j \in Jobs : Good(job[j])
    BY DEF IInv, JobRecord
  <2>2. ASSUME NEW j \in Jobs
        PROVE  /\ At(j, "connect") \/ Named(j) => job[j].target # NoDevice
               /\ job[j].pc \in Stored \cup {"save", "saving", "download", "reading"} => Named(j)
    BY <2>1, F5Assumption DEF Good, NamedWell, At, Named
  <2>. QED
    BY <2>1, <2>2 DEF TypeOK, DiskTypes, ClusterTypes
<1>. QED
  BY <1>1, Invariance, PTL

\* An archive of a cluster is one of its active member, unless a failover disturbed
\* the job or was not known to every member before it.
THEOREM ActiveMemberSaved == Spec => []ActiveUnlessDisturbed
<1>1. IInv => ActiveUnlessDisturbed
  BY DEF IInv, ActiveUnlessDisturbed, Good, CalmWell
<1>. QED
  BY <1>1, Invariance, PTL

\* No archive stays on a device without a job that runs, failed or said so, even if
\* two jobs give their archives the same name.
THEOREM LeftoversExplained == Spec => []LeftoverExplained
<1>1. IInv => LeftoverExplained
  BY DEF IInv, LeftoverExplained, LeftoverOK, Reason, Running, At, Over
<1>. QED
  BY <1>1, Invariance, PTL

\* What the checks before the job accept the adapter does not refuse or simulate: any
\* of the settings that satisfies them also satisfies its own reading of them.
THEOREM AcceptedJobsRun == Spec => AcceptedRuns
<1>1. ASSUME IInv, NEW j \in Jobs, job'[j].pc \in {"refused", "simulated"},
             NEW ha \in BOOLEAN, NEW custom \in BOOLEAN
      PROVE  ~Submit(j, ha, custom, TRUE)
  <2>. SUFFICES ASSUME Submit(j, ha, custom, TRUE) PROVE FALSE
    OBVIOUS
  <2>1. job[j] \in JobRecord
    BY <1>1 DEF IInv
  <2>2. PICK s \in Settings, d \in IF ha THEN {NoDevice} ELSE Standalone :
          /\ Accepted(custom, TRUE, s)
          /\ job' = [job EXCEPT ![j].pc = Dispatch(ha, FormCredentials(custom, TRUE), s),
                                ![j].target = d,
                                ![j].calm = \A p \in Members : view[p] = active]
    BY DEF Submit
  <2>3. job'[j].pc = Dispatch(ha, custom, s)
    BY <1>1, <2>1, <2>2 DEF IInv, JobRecord, FormCredentials
  <2>4. Dispatch(ha, custom, s) \in {"ask", "connect"}
    BY <2>2 DEF Accepted, Dispatch, IntegrationMode, HasCredentials
  <2>. QED
    BY <1>1, <2>3, <2>4
<1>2. IInv /\ [Next]_vars =>
        [\A j \in Jobs : job'[j].pc \in {"refused", "simulated"} =>
           \A ha, custom \in BOOLEAN : ~Submit(j, ha, custom, TRUE)]_vars
  BY <1>1
<1>. QED
  BY <1>2, Invariance, PTL DEF Spec, AcceptedRuns

(***************************************************************************)
(* Copies of the archives, for the executions that share their name with   *)
(* no other one.                                                           *)
(***************************************************************************)

\* There is no file of a name that no execution has taken.
Fresh ==
  \A n \in Names : (\A j \in Jobs : job[j].name # n) =>
    /\ \A d \in Devices : device[d][n] = "none"
    /\ \A r \in Roots : local[<<r, n>>] = "none"
    /\ remote[n] = "none"

\* Which copies there are of the archive of an execution, by its step.
Stage(j) ==
  /\ job[j].pc \in {"download", "reading"} => Archive(j) = "whole"
  /\ job[j].pc \in {"save", "saving", "download", "reading"} => local[Path(j)] # "whole"
  /\ job[j].pc \in {"delete", "transfer", "writing", "sent", "recorded"} =>
       local[Path(j)] = "whole"
  /\ job[j].pc \in {"save", "saving", "download", "reading", "delete", "transfer", "writing",
                    "recorded"} => remote[job[j].name] # "whole"
  /\ job[j].pc = "sent" => remote[job[j].name] = "whole"

StagesOK == Fresh /\ \A j \in Jobs : ~Shared(j) => Stage(j)

\* What a step of one execution leaves alone.
Frame(j) ==
  /\ \A k \in Jobs \ {j} : job'[k] = job[k]
  /\ job'[j].name = job[j].name \/ job[j].name = NoName
  /\ \A n \in Names \ {job'[j].name} :
       /\ \A d \in Devices : device'[d][n] = device[d][n]
       /\ \A r \in Roots : local'[<<r, n>>] = local[<<r, n>>]
       /\ remote'[n] = remote[n]

\* What an execution that only moves on does to its record.
LEMMA MovesOn ==
  ASSUME IInv, NEW j \in Jobs, NEW to, Goto(j, to)
  PROVE  /\ job'[j].pc = to /\ job'[j].name = job[j].name /\ job'[j].target = job[j].target
         /\ Path(j)' = Path(j) /\ (Named(j) <=> Named(j)')
<1>1. job \in [Jobs -> JobRecord]
  BY DEF IInv
<1>2. job'[j].pc = to /\ job'[j].name = job[j].name /\ job'[j].target = job[j].target
  BY <1>1 DEF Goto, JobRecord
<1>. QED
  BY <1>2 DEF Path, Named

\* An execution takes its name when it connects, and once.
LEMMA NameKept ==
  ASSUME IInv, NEW j \in Jobs, Run(j) \/ Killed(j), ~Connect(j)
  PROVE  job'[j].name = job[j].name
<1>0. job \in [Jobs -> JobRecord]
  BY DEF IInv
<1>. USE DEF Goto
<1>1. ASSUME NEW ha \in BOOLEAN, NEW custom \in BOOLEAN, NEW known \in BOOLEAN,
             Submit(j, ha, custom, known)
      PROVE  job'[j].name = job[j].name
  BY <1>0, <1>1 DEF Submit, JobRecord
<1>2. ASSUME Answered(j) \/ NextPeer(j) \/ DeleteFails(j) PROVE job'[j].name = job[j].name
  BY <1>0, <1>2 DEF Answered, NextPeer, DeleteFails, JobRecord
<1>3. ASSUME NEW to, job' = [job EXCEPT ![j].pc = to] PROVE job'[j].name = job[j].name
  BY <1>0, <1>3 DEF JobRecord
<1>. QED
  BY <1>1, <1>2, <1>3 DEF Run, HostGone, Raise, AskRaises, ConnectFails, Save, Saved,
     SaveFails, Download, Downloaded, DownloadFails, Delete, DeleteRaises, NoTransfer, Upload,
     Uploaded, Announce, UploadFails, Killed

LEMMA StepKeepsFrame ==
  ASSUME IInv, NEW j \in Jobs, Run(j) \/ Killed(j)
  PROVE  Frame(j)
<1>0. job \in [Jobs -> JobRecord] /\ DiskTypes
  BY DEF IInv
<1>. USE DEF DiskTypes, disks, Goto, At
<1>1. \A k \in Jobs \ {j} : job'[k] = job[k]
  BY <1>0 DEF Run, Submit, HostGone, Raise, Answered, NextPeer, AskRaises, ConnectFails,
     Connect, Save, Saved, SaveFails, Download, Downloaded, DownloadFails, Delete,
     DeleteFails, DeleteRaises, NoTransfer, Upload, Uploaded, Announce, UploadFails, Killed
<1>2. CASE Connect(j)
  <2>1. job[j].name = NoName
    BY <1>2 DEF Connect, IInv, Good, NamedWell
  <2>. QED
    BY <1>1, <1>2, <2>1 DEF Connect, Frame
<1>3. CASE UNCHANGED disks /\ ~Connect(j)
  BY <1>1, <1>3, NameKept DEF Frame
<1>4. CASE Save(j) \/ Saved(j) \/ Delete(j)
  <2>1. job'[j].name = job[j].name
    BY <1>0, <1>4 DEF Save, Saved, Delete, JobRecord
  <2>2. UNCHANGED <<local, remote>> /\ \E c : PutDevice(j, c)
    BY <1>4 DEF Save, Saved, Delete
  <2>. QED
    BY <1>0, <1>1, <2>1, <2>2 DEF Frame, PutDevice
<1>5. CASE Download(j) \/ Downloaded(j)
  <2>1. job'[j].name = job[j].name
    BY <1>0, <1>5 DEF Download, Downloaded, JobRecord
  <2>2. UNCHANGED <<device, remote>> /\ \E c : PutLocal(j, c)
    BY <1>5 DEF Download, Downloaded
  <2>. QED
    BY <1>0, <1>1, <2>1, <2>2 DEF Frame, PutLocal, Path
<1>6. CASE Upload(j) \/ Uploaded(j)
  <2>1. job'[j].name = job[j].name
    BY <1>0, <1>6 DEF Upload, Uploaded, JobRecord
  <2>2. UNCHANGED <<device, local>> /\ \E c : PutRemote(j, c)
    BY <1>6 DEF Upload, Uploaded
  <2>. QED
    BY <1>0, <1>1, <2>1, <2>2 DEF Frame, PutRemote
<1>. QED
  BY <1>2, <1>3, <1>4, <1>5, <1>6 DEF Run, Submit, HostGone, Raise, Answered, NextPeer,
     AskRaises, ConnectFails, SaveFails, DownloadFails, DeleteFails, DeleteRaises, NoTransfer,
     Announce, UploadFails, Killed

\* Who shares its name goes on sharing it.
LEMMA SharingGrows ==
  ASSUME IInv, NEW j \in Jobs, Frame(j), NEW k \in Jobs, Shared(k)
  PROVE  Shared(k)'
<1>1. PICK i \in Jobs \ {k} : job[i].name = job[k].name /\ job[k].name # NoName
  BY DEF Shared, Named
<1>2. job'[i].name = job[i].name /\ job'[k].name = job[k].name
  BY <1>1 DEF Frame
<1>. QED
  BY <1>1, <1>2 DEF Shared, Named

\* The files of a job as its record names them.
LEMMA FilesOf ==
  ASSUME IInv, NEW j \in Jobs, Named(j)
  PROVE  /\ job[j].name \in Names /\ job[j].target \in Devices
         /\ Root(job[j].target) \in Roots /\ Path(j) \in Roots \X Names
<1>1. job[j] \in JobRecord /\ Good(job[j])
  BY DEF IInv
<1>2. job[j].name \in Names /\ job[j].target \in Devices
  BY <1>1 DEF Good, NamedWell, JobRecord, Named
<1>. QED
  BY <1>2 DEF Path, Root, Roots

LEMMA InSteps ==
  ASSUME IInv, NEW j \in Jobs,
         job[j].pc \in Stored \cup {"save", "saving", "download", "reading"}
  PROVE  Named(j)
BY DEF IInv, Good, NamedWell, Named

\* A file of another name is not touched.
LEMMA OthersFiles ==
  ASSUME IInv, NEW j \in Jobs, Frame(j), NEW k \in Jobs \ {j}, Named(k), ~Shared(k)'
  PROVE  /\ Archive(k)' = Archive(k) /\ local'[Path(k)'] = local[Path(k)]
         /\ remote'[job'[k].name] = remote[job[k].name]
<1>1. job'[k] = job[k]
  BY DEF Frame
<1>2. /\ job[k].name \in Names /\ job[k].target \in Devices /\ Root(job[k].target) \in Roots
  BY FilesOf
<1>3. job[k].name # job'[j].name
  BY <1>1 DEF Shared, Named
<1>4. /\ device'[job[k].target][job[k].name] = device[job[k].target][job[k].name]
      /\ local'[<<Root(job[k].target), job[k].name>>] = local[<<Root(job[k].target), job[k].name>>]
      /\ remote'[job[k].name] = remote[job[k].name]
  BY <1>2, <1>3 DEF Frame
<1>. QED
  BY <1>1, <1>4 DEF Archive, Path

\* It is enough to look at the files of the execution that makes the step.
LEMMA StagesFollow ==
  ASSUME IInv, IInv', StagesOK, NEW j \in Jobs, Frame(j), ~Shared(j)' => Stage(j)'
  PROVE  StagesOK'
<1>1. \A k \in Jobs \ {j} : job'[k] = job[k]
  BY DEF Frame
<1>2. Fresh'
  <2>. SUFFICES ASSUME NEW n \in Names, \A k \in Jobs : job'[k].name # n
                PROVE  /\ \A d \in Devices : device'[d][n] = "none"
                       /\ \A r \in Roots : local'[<<r, n>>] = "none"
                       /\ remote'[n] = "none"
    BY DEF Fresh
  <2>1. \A k \in Jobs : job[k].name # n
    BY <1>1, F5Assumption DEF Frame
  <2>. QED
    BY <2>1 DEF Frame, StagesOK, Fresh
<1>3. ASSUME NEW k \in Jobs, k # j, ~Shared(k)' PROVE Stage(k)'
  <2>1. job'[k] = job[k]
    BY <1>1, <1>3
  <2>2. CASE ~Named(k)
    <3>1. job[k].pc \notin Stored \cup {"save", "saving", "download", "reading"}
      BY <2>2, InSteps
    <3>. QED
      BY <2>1, <3>1 DEF Stage, Stored
  <2>3. CASE Named(k)
    <3>1. Stage(k)
      BY <1>3, SharingGrows DEF StagesOK
    <3>. QED
      BY <1>3, <2>1, <2>3, <3>1, OthersFiles DEF Stage
  <2>. QED
    BY <2>2, <2>3
<1>. QED
  BY <1>2, <1>3 DEF StagesOK

LEMMA InitGivesStages == Init => StagesOK
BY DEF Init, StagesOK, Fresh, Stage

\* A step of an execution keeps its own stage, as long as it is alone.
LEMMA StepKeepsStage ==
  ASSUME IInv, StagesOK, NEW j \in Jobs, Run(j) \/ Killed(j), ~Shared(j)'
  PROVE  Stage(j)'
<1>0. job \in [Jobs -> JobRecord] /\ DiskTypes
  BY DEF IInv
<1>3. Frame(j) /\ ~Shared(j) /\ Stage(j)
  BY StepKeepsFrame, SharingGrows DEF StagesOK
<1>4. ASSUME NEW ha \in BOOLEAN, NEW custom \in BOOLEAN, NEW known \in BOOLEAN,
             Submit(j, ha, custom, known)
      PROVE  Stage(j)'
  <2>1. job'[j].pc \in {"simulated", "refused", "ask", "connect"}
    BY <1>0, <1>4 DEF Submit, Dispatch, JobRecord
  <2>. QED
    BY <2>1 DEF Stage
<1>5. ASSUME Raise(j) PROVE Stage(j)'
  <2>1. job'[j].pc = "stopped"
    BY <1>5, MovesOn DEF Raise
  <2>. QED
    BY <2>1 DEF Stage
<1>6. ASSUME Answered(j) \/ NextPeer(j) PROVE Stage(j)'
  <2>1. job'[j].pc \in {"connect", "ask", "stopped"}
    BY <1>0, <1>6 DEF Answered, NextPeer, Goto, At, JobRecord
  <2>. QED
    BY <2>1 DEF Stage
<1>7. ASSUME Connect(j) PROVE Stage(j)'
  <2>1. job[j].name = NoName /\ job[j].target \in Devices
    BY <1>7 DEF Connect, At, IInv, Good, NamedWell
  <2>2. PICK stamp \in Stamps, short \in {Hostname[job[j].target], Label[job[j].target]} :
          job' = [job EXCEPT ![j].pc = "save", ![j].name = <<short, stamp>>]
    BY <1>7 DEF Connect
  <2>. DEFINE n == <<short, stamp>>
  <2>3. n \in Names /\ Root(job[j].target) \in Roots
    BY <2>1 DEF Names, Root, Roots
  <2>4. job'[j].pc = "save" /\ job'[j].name = n /\ job'[j].target = job[j].target
    BY <1>0, <2>2 DEF JobRecord
  <2>. HIDE DEF n
  <2>5. \A k \in Jobs : job[k].name # n
    BY <1>3, <2>1, <2>3, <2>4, F5Assumption DEF Frame, Shared, Named
  <2>6. local[<<Root(job[j].target), n>>] = "none" /\ remote[n] = "none"
    BY <2>3, <2>5 DEF StagesOK, Fresh
  <2>. QED
    BY <1>7, <2>4, <2>6 DEF Connect, Stage, Path, disks
<1>8. ASSUME Save(j) \/ Saved(j) PROVE Stage(j)'
  <2>1. /\ job[j].pc \in {"save", "saving"} /\ UNCHANGED <<local, remote>>
        /\ \/ Goto(j, "saving")
           \/ Goto(j, "download") /\ PutDevice(j, "whole")
    BY <1>3, <1>8 DEF Save, Saved, At, Ends
  <2>2. Named(j) /\ job[j].name \in Names /\ job[j].target \in Devices
    BY <2>1, InSteps, FilesOf
  <2>3. /\ job'[j].pc \in {"saving", "download"}
        /\ job'[j].name = job[j].name /\ job'[j].target = job[j].target /\ Path(j)' = Path(j)
    BY <2>1, MovesOn
  <2>4. job'[j].pc = "download" => Archive(j)' = "whole"
    <3>1. ASSUME job'[j].pc = "download" PROVE PutDevice(j, "whole")
      BY <2>1, <3>1, MovesOn
    <3>. QED
      BY <1>0, <2>2, <2>3, <3>1 DEF PutDevice, Archive, DiskTypes
  <2>. QED
    BY <1>3, <2>1, <2>3, <2>4 DEF Stage
<1>9. ASSUME Download(j) \/ Downloaded(j) PROVE Stage(j)'
  <2>1. /\ job[j].pc \in {"download", "reading"} /\ UNCHANGED <<device, remote>>
        /\ \/ Goto(j, "reading") /\ PutLocal(j, "part")
           \/ Goto(j, "delete") /\ PutLocal(j, Archive(j))
    BY <1>3, <1>9 DEF Download, Downloaded, At, Ends
  <2>2. Path(j) \in Roots \X Names
    BY <2>1, InSteps, FilesOf
  <2>3. /\ job'[j].name = job[j].name /\ job'[j].target = job[j].target /\ Path(j)' = Path(j)
        /\ \/ job'[j].pc = "reading" /\ PutLocal(j, "part")
           \/ job'[j].pc = "delete" /\ PutLocal(j, Archive(j))
    BY <2>1, MovesOn
  <2>4. Archive(j) = "whole" /\ Archive(j)' = "whole"
    BY <1>3, <2>1, <2>3 DEF Stage, Archive
  <2>5. \/ job'[j].pc = "reading" /\ local'[Path(j)] = "part"
        \/ job'[j].pc = "delete" /\ local'[Path(j)] = "whole"
    BY <1>0, <2>2, <2>3, <2>4 DEF PutLocal, DiskTypes
  <2>. QED
    BY <1>3, <2>1, <2>3, <2>4, <2>5 DEF Stage
<1>10. ASSUME Delete(j) \/ DeleteFails(j) \/ NoTransfer(j) \/ Announce(j) PROVE Stage(j)'
  <2>1. job[j].pc \in {"delete", "transfer", "sent"} /\ UNCHANGED <<local, remote>>
    BY <1>10 DEF Delete, DeleteFails, NoTransfer, Announce, At, disks
  <2>2. /\ \/ job[j].pc # "sent" /\ job'[j].pc \in {"transfer", "recorded"}
           \/ job'[j].pc = "transferred"
        /\ job'[j].name = job[j].name /\ job'[j].target = job[j].target
    BY <1>0, <1>10 DEF Delete, DeleteFails, NoTransfer, Announce, Goto, At, JobRecord
  <2>. QED
    BY <1>3, <2>1, <2>2 DEF Stage, Path
<1>11. ASSUME Upload(j) \/ Uploaded(j) PROVE Stage(j)'
  <2>1. /\ job[j].pc \in {"transfer", "writing"} /\ UNCHANGED <<device, local>>
        /\ \/ Goto(j, "writing") /\ PutRemote(j, "part")
           \/ Goto(j, "sent") /\ PutRemote(j, local[Path(j)])
    BY <1>3, <1>11 DEF Upload, Uploaded, At, Ends
  <2>2. job[j].name \in Names /\ local[Path(j)] = "whole"
    BY <1>3, <2>1, InSteps, FilesOf DEF Stored, Stage
  <2>3. /\ job'[j].name = job[j].name /\ job'[j].target = job[j].target /\ Path(j)' = Path(j)
        /\ \/ job'[j].pc = "writing" /\ PutRemote(j, "part")
           \/ job'[j].pc = "sent" /\ PutRemote(j, "whole")
    BY <2>1, <2>2, MovesOn
  <2>4. \/ job'[j].pc = "writing" /\ remote'[job[j].name] = "part"
        \/ job'[j].pc = "sent" /\ remote'[job[j].name] = "whole"
    BY <1>0, <2>2, <2>3 DEF PutRemote, DiskTypes
  <2>. QED
    BY <1>3, <2>1, <2>2, <2>3, <2>4 DEF Stage
<1>. QED
  BY <1>4, <1>5, <1>6, <1>7, <1>8, <1>9, <1>10, <1>11
     DEF Run, HostGone, AskRaises, ConnectFails, SaveFails, DownloadFails, DeleteRaises,
         UploadFails, Killed

LEMMA StepKeepsStages == IInv /\ IInv' /\ StagesOK /\ [Next]_vars => StagesOK'
<1>. SUFFICES ASSUME IInv, IInv', StagesOK, [Next]_vars PROVE StagesOK'
  OBVIOUS
<1>1. ASSUME NEW d \in Members, Failover(d) \/ Learn(d) PROVE StagesOK'
  <2>1. \A j \in Jobs : /\ job'[j].pc = job[j].pc /\ job'[j].target = job[j].target
                        /\ job'[j].name = job[j].name
    BY <1>1 DEF Failover, Learn, IInv, JobRecord
  <2>2. UNCHANGED disks
    BY <1>1 DEF Failover, Learn
  <2>. QED
    BY <2>1, <2>2 DEF StagesOK, Fresh, Stage, Shared, Named, Archive, Path, disks
<1>2. CASE UNCHANGED vars
  BY <1>2 DEF vars, disks, StagesOK, Fresh, Stage, Shared, Named, Archive, Path
<1>3. ASSUME NEW j \in Jobs, Run(j) \/ Killed(j) PROVE StagesOK'
  BY <1>3, StepKeepsFrame, StepKeepsStage, StagesFollow
<1>. QED
  BY <1>1, <1>2, <1>3 DEF Next

LEMMA StagesInvariance == Spec => [](IInv /\ StagesOK)
<1>1. Init => IInv /\ StagesOK
  BY InitGivesIInv, InitGivesStages
<1>2. (IInv /\ StagesOK) /\ [Next]_vars => (IInv /\ StagesOK)'
  BY StepKeepsIInv, StepKeepsStages
<1>. QED
  BY <1>1, <1>2, PTL DEF Spec

\* An archive whose name is that of one job is removed from its device by the deletion
\* of that job only, and then the whole of it is in the backup directory. No assumption
\* keeps two jobs from having one name: of those nothing is said.
THEOREM NoArchiveLost == Spec => DeletedAfterDownload
<1>1. ASSUME IInv, StagesOK, [Next]_vars, NEW d \in Devices, NEW n \in Names, Removed(d, n),
             Alone(n)
      PROVE  local[<<Root(d), n>>] = "whole"
  <2>0. DiskTypes
    BY <1>1 DEF IInv
  <2>1. device' # device
    BY <1>1 DEF Removed
  <2>2. PICK j \in Jobs : Run(j)
    BY <1>1, <2>1 DEF Next, vars, disks, Failover, Learn, Killed, Raise
  <2>3. Save(j) \/ Saved(j) \/ Delete(j)
    BY <2>1, <2>2 DEF disks, Run, Submit, HostGone, Raise, Answered, NextPeer, AskRaises,
       ConnectFails, Connect, SaveFails, Download, Downloaded, DownloadFails, DeleteFails,
       DeleteRaises, NoTransfer, Upload, Uploaded, Announce, UploadFails
  <2>4. Named(j)
    BY <1>1, <2>3, InSteps DEF Save, Saved, Delete, At, Stored
  <2>5. job[j].name \in Names /\ job[j].target \in Devices
    BY <1>1, <2>4, FilesOf
  <2>6. d = job[j].target /\ n = job[j].name /\ job[j].pc = "delete"
    <3>1. ASSUME NEW c, PutDevice(j, c) PROVE d = job[j].target /\ n = job[j].name /\ c = "none"
      BY <1>1, <2>0, <2>5, <3>1 DEF PutDevice, Removed, DiskTypes
    <3>. QED
      BY <2>3, <3>1 DEF Save, Saved, Delete, At, Ends
  <2>7. ~Shared(j)
    BY <1>1, <2>6 DEF Alone, Shared
  <2>. QED
    BY <1>1, <2>6, <2>7 DEF StagesOK, Stage, Path
<1>2. (IInv /\ StagesOK) /\ [Next]_vars =>
        [\A d \in Devices, n \in Names :
           Removed(d, n) /\ Alone(n) => local[<<Root(d), n>>] = "whole"]_vars
  BY <1>1
<1>. QED
  BY <1>2, StagesInvariance, PTL DEF Spec, DeletedAfterDownload

(***************************************************************************)
(* The contract of an adapter.                                             *)
(***************************************************************************)

\* The answers and the copies of the other executions stay what they are.
LEMMA OthersKeep ==
  ASSUME IInv, NEW j \in Jobs, Frame(j), NEW k \in Jobs \ {j}, Shared(k)' <=> Shared(k)
  PROVE  Answer(k)' = Answer(k) /\ Copies(k)' = Copies(k)
<1>1. job'[k] = job[k]
  BY DEF Frame
<1>2. CASE ~Named(k) \/ Shared(k)
  BY <1>1, <1>2 DEF Answer, Copies, Named
<1>3. CASE Named(k) /\ ~Shared(k)
  BY <1>1, <1>3, OthersFiles DEF Answer, Copies, Named
<1>. QED
  BY <1>2, <1>3

\* An execution that makes a step has not answered before.
LEMMA Answers ==
  ASSUME IInv, IInv', NEW j \in Jobs, Run(j) \/ Killed(j)
  PROVE  /\ Answer(j) = "pending"
         /\ Answer(j)' \in {"pending", "failed", "simulated", "recorded", "transferred"}
<1>1. job[j].pc \notin Over
  BY DEF Run, Submit, HostGone, Answered, NextPeer, AskRaises, ConnectFails, Connect, Save,
     Saved, SaveFails, Download, Downloaded, DownloadFails, Delete, DeleteFails, DeleteRaises,
     NoTransfer, Upload, Uploaded, Announce, UploadFails, Killed, Running, At, Over
<1>2. job'[j].pc \in Steps
  BY DEF IInv, JobRecord
<1>. QED
  BY <1>1, <1>2 DEF Answer, Over, Steps

\* A step that makes a name one of several is the connection of one of them.
LEMMA ShareStep ==
  ASSUME IInv, IInv', NEW j \in Jobs, Run(j) \/ Killed(j), Sharing' # Sharing
  PROVE  Contract!CNext
<1>. DEFINE S == {k \in Jobs : job'[k].name = job'[j].name}
<1>0. Frame(j)
  BY StepKeepsFrame
<1>1. \A k \in Jobs \ {j} : job'[k] = job[k]
  BY <1>0 DEF Frame
<1>2. \A k \in Jobs : Shared(k) => Shared(k)'
  BY <1>0, SharingGrows
<1>3. ASSUME NEW k \in Jobs, Shared(k)', ~Shared(k)
      PROVE  k \in S /\ job'[j].name # NoName /\ \E i \in S : i # k
  <2>1. PICK i \in Jobs \ {k} : job'[i].name = job'[k].name /\ job'[k].name # NoName
    BY <1>3 DEF Shared, Named
  <2>2. i = j \/ k = j
    BY <1>1, <1>3, <2>1 DEF Shared, Named
  <2>. QED
    BY <2>1, <2>2
<1>4. PICK k \in Jobs : Shared(k)' /\ ~Shared(k)
  BY <1>2 DEF Sharing
<1>5. k \in S /\ job'[j].name # NoName /\ \E i \in S : i # k
  BY <1>3, <1>4
<1>6. \A i \in S : Shared(i)'
  BY <1>5 DEF Shared, Named
<1>7. Sharing' = Sharing \cup S
  BY <1>2, <1>3, <1>6 DEF Sharing
<1>8. Connect(j)
  <2>1. ASSUME job'[j].name = job[j].name PROVE FALSE
    BY <1>1, <1>4, <2>1 DEF Shared, Named
  <2>. QED
    BY <2>1, NameKept
<1>9. Answer(j)' = Answer(j)
  <2>1. job[j].pc = "connect" /\ job'[j].pc = "save"
    BY <1>8 DEF Connect, At, IInv, JobRecord
  <2>. QED
    BY <2>1 DEF Answer
<1>. HIDE DEF S
<1>10. ASSUME NEW i \in Jobs
       PROVE  /\ Answer(i)' = Answer(i)
              /\ Copies(i)' = IF i \in S THEN {} ELSE Copies(i)
  <2>1. CASE i \in S
    BY <1>1, <1>6, <1>9, <2>1 DEF Copies, Answer
  <2>2. CASE i \notin S
    <3>1. i # j
      BY <2>2 DEF S
    <3>2. Shared(i)' <=> Shared(i)
      BY <1>2, <1>3, <2>2
    <3>. QED
      BY <1>0, <2>2, <3>1, <3>2, OthersKeep
  <2>. QED
    BY <2>1, <2>2
<1>11. S \in SUBSET Jobs /\ \E i, l \in S : i # l
  BY <1>5 DEF S
<1>12. Contract!Share(S)
  BY <1>7, <1>10, <1>11 DEF Contract!Share
<1>. QED
  BY <1>11, <1>12 DEF Contract!CNext

\* Any other step of the contract is told by what becomes of one execution.
LEMMA ContractStep ==
  ASSUME Sharing' = Sharing, NEW j \in Jobs, Answer(j) = "pending",
         \A k \in Jobs \ {j} : Answer(k)' = Answer(k) /\ Copies(k)' = Copies(k),
         \/ Answer(j)' = Answer(j) /\ Copies(j)' = Copies(j)
         \/ Answer(j)' = "pending" /\ j \notin Sharing /\ Copies(j)' = {"local"}
         \/ Answer(j)' = "pending" /\ Copies(j) = {"local"} /\ Copies(j)' = {"local", "windows"}
         \/ /\ Answer(j)' \in {"simulated", "recorded", "transferred"}
            /\ j \in Sharing \/ Copies(j) = Contract!Copies[Answer(j)']
            /\ Copies(j)' = Copies(j)
         \/ Answer(j)' = "failed" /\ Copies(j)' = Copies(j)
  PROVE  [Contract!CNext]_(Contract!contract)
<1>1. CASE Answer(j)' = Answer(j) /\ Copies(j)' = Copies(j)
  BY <1>1 DEF Contract!contract
<1>2. CASE Answer(j)' = "pending" /\ j \notin Sharing /\ Copies(j)' = {"local"}
  <2>. Contract!Store(j)
    BY <1>2 DEF Contract!Store
  <2>. QED
    BY DEF Contract!CNext
<1>3. CASE /\ Answer(j)' = "pending"
           /\ Copies(j) = {"local"} /\ Copies(j)' = {"local", "windows"}
  <2>. Contract!Deliver(j)
    BY <1>3 DEF Contract!Deliver
  <2>. QED
    BY DEF Contract!CNext
<1>4. CASE /\ Answer(j)' \in {"simulated", "recorded", "transferred"}
           /\ j \in Sharing \/ Copies(j) = Contract!Copies[Answer(j)']
           /\ Copies(j)' = Copies(j)
  <2>1. Contract!Succeed(j, Answer(j)')
    BY <1>4 DEF Contract!Succeed
  <2>2. Answer(j)' \in DOMAIN Contract!Copies
    BY <1>4 DEF Contract!Copies
  <2>. QED
    BY <2>1, <2>2 DEF Contract!CNext
<1>5. CASE Answer(j)' = "failed" /\ Copies(j)' = Copies(j)
  <2>. Contract!Fail(j)
    BY <1>5 DEF Contract!Fail
  <2>. QED
    BY DEF Contract!CNext
<1>. QED
  BY <1>1, <1>2, <1>3, <1>4, <1>5

\* A step of an execution that is alone with its name, and stays so.
LEMMA AloneStep ==
  ASSUME IInv, IInv', StagesOK, StagesOK', NEW j \in Jobs, Run(j) \/ Killed(j),
         Sharing' = Sharing, ~Shared(j)
  PROVE  [Contract!CNext]_(Contract!contract)
<1>0. job \in [Jobs -> JobRecord] /\ DiskTypes
  BY DEF IInv
<1>1. ~Shared(j)' /\ j \notin Sharing
  BY DEF Sharing
<1>2. Stage(j) /\ Stage(j)'
  BY <1>1 DEF StagesOK
<1>3. \A k \in Jobs \ {j} : Answer(k)' = Answer(k) /\ Copies(k)' = Copies(k)
  <2>1. \A k \in Jobs : Shared(k)' <=> Shared(k)
    BY DEF Sharing
  <2>. QED
    BY <2>1, StepKeepsFrame, OthersKeep
<1>4. Answer(j) = "pending"
  BY Answers
<1>5. ASSUME NEW ha \in BOOLEAN, NEW custom \in BOOLEAN, NEW known \in BOOLEAN,
             Submit(j, ha, custom, known)
      PROVE  [Contract!CNext]_(Contract!contract)
  <2>1. /\ job[j].pc = "idle" /\ job'[j].pc \in {"simulated", "refused", "ask", "connect"}
        /\ job'[j].name = job[j].name
    BY <1>0, <1>5 DEF Submit, Dispatch, JobRecord, At
  <2>2. job[j].name = NoName
    BY <2>1 DEF IInv, Good, NamedWell
  <2>3. Copies(j) = {} /\ Copies(j)' = {}
    BY <2>1, <2>2 DEF Copies, Named
  <2>4. \/ Answer(j)' = "simulated" \/ Answer(j)' = "failed" \/ Answer(j)' = "pending"
    BY <2>1 DEF Answer
  <2>5. Contract!Copies["simulated"] = {}
    BY DEF Contract!Copies
  <2>. QED
    BY <1>3, <1>4, <2>3, <2>4, <2>5, ContractStep
<1>6. ASSUME Raise(j) PROVE [Contract!CNext]_(Contract!contract)
  <2>1. job'[j].pc = "stopped" /\ job'[j].name = job[j].name /\ Path(j)' = Path(j)
    BY <1>6, MovesOn DEF Raise
  <2>2. Answer(j)' = "failed"
    BY <2>1 DEF Answer
  <2>3. Copies(j)' = Copies(j)
    BY <1>1, <1>6, <2>1 DEF Raise, Copies, Named, disks
  <2>. QED
    BY <1>3, <1>4, <2>2, <2>3, ContractStep
<1>7. ASSUME Answered(j) \/ (NextPeer(j) /\ ~Raise(j)) \/ Connect(j)
      PROVE  [Contract!CNext]_(Contract!contract)
  <2>1. job[j].pc \in {"ask", "connect"}
    BY <1>7 DEF Answered, NextPeer, Connect, At
  <2>2. job'[j].pc \in {"ask", "connect", "save"}
    BY <1>0, <1>7 DEF Answered, NextPeer, Connect, At, Raise, JobRecord
  <2>3. job[j].name = NoName
    BY <2>1 DEF IInv, Good, NamedWell
  <2>4. Answer(j)' = "pending" /\ Copies(j) = {}
    BY <2>2, <2>3 DEF Answer, Copies, Named
  <2>5. Copies(j)' = {}
    <3>1. CASE job'[j].pc = "save"
      BY <1>1, <1>2, <3>1 DEF Stage, Copies
    <3>2. CASE job'[j].pc # "save"
      BY <2>2, <3>2 DEF IInv, Good, NamedWell, Copies, Named
    <3>. QED
      BY <3>1, <3>2
  <2>. QED
    BY <1>3, <1>4, <2>4, <2>5, ContractStep
<1>8. ASSUME Save(j) \/ Saved(j) \/ Download(j) PROVE [Contract!CNext]_(Contract!contract)
  <2>1. job[j].pc \in {"save", "saving", "download"}
    BY <1>8 DEF Save, Saved, Download, At
  <2>2. job'[j].pc \in {"saving", "download", "reading"}
    BY <1>8, MovesOn DEF Save, Saved, Download
  <2>3. Answer(j)' = "pending"
    BY <2>2 DEF Answer
  <2>4. Copies(j) = {} /\ Copies(j)' = {}
    BY <1>1, <1>2, <2>1, <2>2 DEF Stage, Copies
  <2>. QED
    BY <1>3, <1>4, <2>3, <2>4, ContractStep
<1>9. ASSUME Downloaded(j) PROVE [Contract!CNext]_(Contract!contract)
  <2>1. job[j].pc = "reading" /\ job'[j].pc = "delete"
    BY <1>9, MovesOn DEF Downloaded, At
  <2>2. Answer(j)' = "pending"
    BY <2>1 DEF Answer
  <2>3. Named(j)'
    BY <2>1, InSteps, <1>9, MovesOn DEF Downloaded
  <2>4. Copies(j)' = {"local"}
    BY <1>1, <1>2, <2>1, <2>3 DEF Stage, Copies
  <2>. QED
    BY <1>1, <1>3, <1>4, <2>2, <2>4, ContractStep
<1>10. ASSUME Delete(j) \/ DeleteFails(j) \/ NoTransfer(j) \/ Upload(j)
       PROVE  [Contract!CNext]_(Contract!contract)
  <2>1. job[j].pc \in {"delete", "transfer"}
    BY <1>10 DEF Delete, DeleteFails, NoTransfer, Upload, At
  <2>2. job'[j].pc \in {"transfer", "recorded", "writing"} /\ job'[j].name = job[j].name
    BY <1>0, <1>10 DEF Delete, DeleteFails, NoTransfer, Upload, Goto, JobRecord
  <2>3. Named(j) /\ Named(j)'
    BY <2>1, <2>2, InSteps DEF Stored, Named
  <2>4. Answer(j)' = "pending" \/ Answer(j)' = "recorded"
    BY <2>2 DEF Answer
  <2>5. Copies(j) = {"local"} /\ Copies(j)' = {"local"}
    BY <1>1, <1>2, <2>1, <2>2, <2>3 DEF Stage, Copies
  <2>6. Contract!Copies["recorded"] = {"local"}
    BY DEF Contract!Copies
  <2>. QED
    BY <1>3, <1>4, <2>4, <2>5, <2>6, ContractStep
<1>11. ASSUME Uploaded(j) PROVE [Contract!CNext]_(Contract!contract)
  <2>1. job[j].pc = "writing" /\ job'[j].pc = "sent" /\ job'[j].name = job[j].name
    BY <1>11, MovesOn DEF Uploaded, At
  <2>2. Named(j) /\ Named(j)'
    BY <2>1, InSteps DEF Stored, Named
  <2>3. local'[Path(j)'] = "whole"
    BY <1>2, <1>11, <2>1, MovesOn DEF Uploaded, Stage
  <2>4. Copies(j) = {"local"} /\ Copies(j)' = {"local", "windows"}
    BY <1>1, <1>2, <2>1, <2>2, <2>3 DEF Stage, Copies
  <2>5. Answer(j)' = "pending"
    BY <2>1 DEF Answer
  <2>. QED
    BY <1>3, <1>4, <2>4, <2>5, ContractStep
<1>12. ASSUME Announce(j) PROVE [Contract!CNext]_(Contract!contract)
  <2>1. /\ job[j].pc = "sent" /\ job'[j].pc = "transferred" /\ job'[j].name = job[j].name
        /\ Path(j)' = Path(j) /\ UNCHANGED disks
    BY <1>12, MovesOn DEF Announce, At
  <2>2. Named(j)
    BY <2>1, InSteps DEF Stored
  <2>3. Copies(j) = {"local", "windows"}
    BY <1>2, <2>1, <2>2 DEF Stage, Copies
  <2>4. Copies(j)' = Copies(j)
    BY <1>1, <2>1 DEF Copies, Named, disks
  <2>5. Answer(j)' = "transferred"
    BY <2>1 DEF Answer
  <2>6. Contract!Copies["transferred"] = {"local", "windows"}
    BY DEF Contract!Copies
  <2>. QED
    BY <1>3, <1>4, <2>3, <2>4, <2>5, <2>6, ContractStep
<1>13. HostGone(j) \/ AskRaises(j) \/ ConnectFails(j) \/ SaveFails(j) \/ DownloadFails(j)
       \/ DeleteRaises(j) \/ UploadFails(j) \/ Killed(j) => Raise(j)
  BY DEF HostGone, AskRaises, ConnectFails, SaveFails, DownloadFails, DeleteRaises,
     UploadFails, Killed
<1>. QED
  BY <1>5, <1>6, <1>7, <1>8, <1>9, <1>10, <1>11, <1>12, <1>13 DEF Run

LEMMA StepRefines ==
  ASSUME IInv, IInv', StagesOK, StagesOK', [Next]_vars
  PROVE  [Contract!CNext]_(Contract!contract)
<1>1. ASSUME NEW d \in Members, Failover(d) \/ Learn(d)
      PROVE  [Contract!CNext]_(Contract!contract)
  <2>1. \A j \in Jobs : /\ job'[j].pc = job[j].pc /\ job'[j].target = job[j].target
                        /\ job'[j].name = job[j].name
    BY <1>1 DEF Failover, Learn, IInv, JobRecord
  <2>2. UNCHANGED disks
    BY <1>1 DEF Failover, Learn
  <2>3. \A j \in Jobs : Shared(j)' <=> Shared(j)
    BY <2>1 DEF Shared, Named
  <2>4. \A j \in Jobs : Answer(j)' = Answer(j) /\ Copies(j)' = Copies(j)
    BY <2>1, <2>2, <2>3 DEF Answer, Copies, Named, Path, disks
  <2>. QED
    BY <2>3, <2>4 DEF Contract!contract, Sharing
<1>2. CASE UNCHANGED vars
  BY <1>2 DEF vars, disks, Contract!contract, Answer, Copies, Sharing, Shared, Named, Path
<1>3. ASSUME NEW j \in Jobs, Run(j) \/ Killed(j), Sharing' = Sharing, Shared(j)
      PROVE  [Contract!CNext]_(Contract!contract)
  <2>1. \A k \in Jobs : Shared(k)' <=> Shared(k)
    BY <1>3 DEF Sharing
  <2>2. \A k \in Jobs \ {j} : Answer(k)' = Answer(k) /\ Copies(k)' = Copies(k)
    BY <1>3, <2>1, StepKeepsFrame, OthersKeep
  <2>3. Copies(j) = {} /\ Copies(j)' = {} /\ j \in Sharing
    BY <1>3, <2>1 DEF Copies, Sharing
  <2>4. /\ Answer(j) = "pending"
        /\ Answer(j)' \in {"pending", "failed", "simulated", "recorded", "transferred"}
    BY <1>3, Answers
  <2>. QED
    BY <1>3, <2>2, <2>3, <2>4, ContractStep
<1>. QED
  BY <1>1, <1>2, <1>3, AloneStep, ShareStep DEF Next

LEMMA InitRefines == Init => Contract!CInit
BY DEF Init, Contract!CInit, Answer, Copies, Sharing, Shared, Named

\* The adapters keep the contract of adapters: the local file comes first and stays,
\* whatever becomes of the transfer, and a success names the copies there are, until
\* another execution takes the same name. No assumption keeps two from doing so.
THEOREM AdapterKeepsContract == Spec => KeepsContract
<1>1. Init => Contract!CInit
  BY InitRefines
<1>2. (IInv /\ StagesOK) /\ (IInv /\ StagesOK)' /\ [Next]_vars
        => [Contract!CNext]_(Contract!contract)
  BY StepRefines
<1>. QED
  BY <1>1, <1>2, StagesInvariance, PTL DEF Spec, KeepsContract, Contract!CSpec

===============================================================================
