----------------------------- MODULE ArborTransfer -----------------------------
(***************************************************************************)
(* The Arbor AED adapter: files that the device drops into the incoming    *)
(* directory of a data centre are copied or moved to the staging directory *)
(* of the job, sent to the Windows host, archived, and released, that is,  *)
(* deleted from incoming. Jobs are executions of Adapter.run_backup, in    *)
(* whatever process; they share incoming and the Windows host.             *)
(*                                                                         *)
(* The loops over files take them in any order: the code sorts them by     *)
(* name, date and type, which no property depends on.                      *)
(***************************************************************************)
EXTENDS Naturals, Sequences, FiniteSets

CONSTANTS
  ActiveDcs,           \* arbor_active_dcs(): the data centres in turn
  Files,               \* the backup files there may be, all of known names
  DcOf,                \* whose incoming directory a file is dropped into
  NoFile,              \* no file
  Jobs,                \* bound: the jobs there may be
  Sites,               \* the installations there may be
  Failures             \* which steps may fail

FailureKinds == {"read", "upload", "archive", "release", "kill"}

ASSUME TransferAssumption ==
  /\ ActiveDcs \in Seq({ActiveDcs[i] : i \in DOMAIN ActiveDcs})
  /\ NoFile \notin Files
  /\ DcOf \in [Files -> {ActiveDcs[i] : i \in DOMAIN ActiveDcs}]
  /\ Sites \subseteq [move : BOOLEAN, archive : BOOLEAN, slow : BOOLEAN, overlap : BOOLEAN]
  /\ Failures \subseteq FailureKinds

VARIABLES
  site,      \* the installation: ARBOR_AED_MOVE_SOURCE, ARBOR_AED_ARCHIVE_AFTER_UPLOAD,
             \* whether files appear in incoming before they are complete, and
             \* whether a job is ever started while another one runs
  written,   \* what the device has produced of each file
  incoming,  \* what its incoming directory holds of it
  remote,    \* what the Windows host holds of it
  archive,   \* what the local archive holds of it
  staging,   \* what the staging directory of each job holds of it
  pc,        \* where run_backup of the job stands
  at,        \* the position in active_dcs
  files,     \* the files the scan of this data centre found
  todo,      \* those the current loop has not reached
  cur,       \* the file it is at, for steps in two parts
  taken,     \* the files of the data centres already done (total_files)
  kept       \* a file could not be deleted (errors of release_processed_files)

disks   == <<incoming, remote, archive, staging>>
control == <<pc, at, files, todo, cur, taken, kept>>
vars    == <<site, written, disks, control>>

Contents  == {"none", "part", "whole"}
Locations == {"idle", "dc", "copy", "unlink", "upload", "write", "archive",
              "release", "success", "stopped"}
Nothing   == [f \in Files |-> "none"]

Active(j) == pc[j] \notin {"idle", "success", "stopped"}
Fails(k)  == k \in Failures
Dc(j)     == ActiveDcs[at[j]]

\* scan_arbor_source: the recognized files of the data centre at hand.
Scan(j) == {f \in Files : DcOf[f] = Dc(j) /\ incoming[f] # "none"}

Goto(j, where) == pc' = [pc EXCEPT ![j] = where]

\* An exception leaves run_backup, with the staging directory as it is.
Raise(j) ==
  /\ Goto(j, "stopped")
  /\ UNCHANGED <<site, written, disks, at, files, todo, cur, taken, kept>>

--------------------------------------------------------------------------------
(* Seeded faults: variants of the definitions below that the specification does *)
(* not use.                                                                     *)

\* The transfer error is logged and the job goes on.
FaultUploadSwallowed(j) ==
  /\ pc[j] \in {"upload", "write"}
  /\ Fails("upload")
  /\ Goto(j, "upload")
  /\ todo' = [todo EXCEPT ![j] = {}]
  /\ UNCHANGED <<site, written, disks, at, files, cur, taken, kept>>

\* A whole directory is reported as sent after its first file.
FaultUploadsOne(j) ==
  /\ pc[j] = "write"
  /\ remote' = [remote EXCEPT ![cur[j]] = staging[j][cur[j]]]
  /\ todo'   = [todo EXCEPT ![j] = {}]
  /\ Goto(j, "upload")
  /\ UNCHANGED <<site, written, incoming, archive, staging, at, files, cur, taken, kept>>

\* A failed transfer empties the remote directory of the data centre.
FaultCleanupRemote(j) ==
  /\ pc[j] \in {"upload", "write"}
  /\ Fails("upload")
  /\ remote' = [f \in Files |-> IF DcOf[f] = Dc(j) THEN "none" ELSE remote[f]]
  /\ Goto(j, "stopped")
  /\ UNCHANGED <<site, written, incoming, archive, staging, at, files, todo, cur, taken, kept>>

\* Everything in incoming is released, not what the scan found.
FaultReleaseAll(j) ==
  /\ pc[j] = "archive"
  /\ archive' = [f \in Files |-> IF site.archive /\ staging[j][f] # "none"
                                 THEN staging[j][f] ELSE archive[f]]
  /\ todo' = [todo EXCEPT ![j] = Scan(j)]
  /\ Goto(j, "release")
  /\ UNCHANGED <<site, written, incoming, remote, staging, at, files, cur, taken, kept>>

--------------------------------------------------------------------------------
(* The device. *)

\* A file appears, whole if the device renames it into place.
Arrive(f) ==
  /\ written[f] = "none"
  /\ \E c \in {"part", "whole"} :
       /\ c = "part" => site.slow
       /\ written'  = [written  EXCEPT ![f] = c]
       /\ incoming' = [incoming EXCEPT ![f] = c]
  /\ UNCHANGED <<site, remote, archive, staging, control>>

\* What is written to a file that was deleted meanwhile goes nowhere.
Complete(f) ==
  /\ written[f] = "part"
  /\ written'  = [written EXCEPT ![f] = "whole"]
  /\ incoming' = [incoming EXCEPT ![f] = IF @ = "none" THEN @ ELSE "whole"]
  /\ UNCHANGED <<site, remote, archive, staging, control>>

--------------------------------------------------------------------------------
(* Adapter.run_backup *)

\* rmtree of the staging directory of the job, then the first data centre.
Begin(j) ==
  /\ pc[j] = "idle"
  /\ staging' = [staging EXCEPT ![j] = Nothing]
  /\ at'      = [at EXCEPT ![j] = 1]
  /\ Goto(j, "dc")
  /\ UNCHANGED <<site, written, incoming, remote, archive, files, todo, cur, taken, kept>>

\* A job starts while another one runs only where the installation has it so.
Start(j) ==
  /\ site.overlap \/ \A k \in Jobs : ~Active(k)
  /\ Begin(j)

\* No file for this data centre: `continue`.
SkipDc(j) ==
  /\ pc[j] = "dc" /\ at[j] <= Len(ActiveDcs)
  /\ Scan(j) = {}
  /\ at' = [at EXCEPT ![j] = @ + 1]
  /\ UNCHANGED <<site, written, disks, pc, files, todo, cur, taken, kept>>

ScanDc(j) ==
  /\ pc[j] = "dc" /\ at[j] <= Len(ActiveDcs)
  /\ Scan(j) # {}
  /\ files' = [files EXCEPT ![j] = Scan(j)]
  /\ todo'  = [todo  EXCEPT ![j] = Scan(j)]
  /\ Goto(j, "copy")
  /\ UNCHANGED <<site, written, disks, at, cur, taken, kept>>

\* The directory cannot be read, or one of its files: nothing is copied.
ScanRaises(j) ==
  /\ pc[j] = "dc" /\ at[j] <= Len(ActiveDcs)
  /\ Fails("read")
  /\ Raise(j)

\* organize_into_staging: copy2; shutil.move between two mounts begins with it.
Copy(j, f) ==
  /\ pc[j] = "copy"
  /\ f \in todo[j]
  /\ incoming[f] # "none"
  /\ staging' = [staging EXCEPT ![j][f] = incoming[f]]
  /\ todo'    = [todo EXCEPT ![j] = @ \ {f}]
  /\ cur'     = [cur  EXCEPT ![j] = f]
  /\ Goto(j, IF site.move THEN "unlink" ELSE "copy")
  /\ UNCHANGED <<site, written, incoming, remote, archive, at, files, taken, kept>>

\* A file of the scan is gone: another job released or moved it.
CopyRaises(j) ==
  /\ pc[j] = "copy"
  /\ Fails("read") \/ \E f \in todo[j] : incoming[f] = "none"
  /\ Raise(j)

\* The second half of shutil.move.
Unlink(j) ==
  /\ pc[j] = "unlink"
  /\ incoming[cur[j]] # "none"
  /\ incoming' = [incoming EXCEPT ![cur[j]] = "none"]
  /\ Goto(j, "copy")
  /\ UNCHANGED <<site, written, remote, archive, staging, at, files, todo, cur, taken, kept>>

UnlinkRaises(j) ==
  /\ pc[j] = "unlink"
  /\ incoming[cur[j]] = "none"
  /\ Raise(j)

Staged(j) ==
  /\ pc[j] = "copy"
  /\ todo[j] = {}
  /\ todo' = [todo EXCEPT ![j] = files[j]]
  /\ Goto(j, "upload")
  /\ UNCHANGED <<site, written, disks, at, files, cur, taken, kept>>

\* upload_tree: sftp.file(remote_path, "wb") truncates what was there.
OpenRemote(j, f) ==
  /\ pc[j] = "upload"
  /\ f \in todo[j]
  /\ remote' = [remote EXCEPT ![f] = "part"]
  /\ cur'    = [cur    EXCEPT ![j] = f]
  /\ Goto(j, "write")
  /\ UNCHANGED <<site, written, incoming, archive, staging, at, files, todo, taken, kept>>

\* The last chunk and the close.
WriteRemote(j) ==
  /\ pc[j] = "write"
  /\ remote' = [remote EXCEPT ![cur[j]] = staging[j][cur[j]]]
  /\ todo'   = [todo EXCEPT ![j] = @ \ {cur[j]}]
  /\ Goto(j, "upload")
  /\ UNCHANGED <<site, written, incoming, archive, staging, at, files, cur, taken, kept>>

UploadRaises(j) ==
  /\ pc[j] \in {"upload", "write"}
  /\ Fails("upload")
  /\ Raise(j)

Uploaded(j) ==
  /\ pc[j] = "upload"
  /\ todo[j] = {}
  /\ Goto(j, "archive")
  /\ UNCHANGED <<site, written, disks, at, files, todo, cur, taken, kept>>

\* archive_from_staging, if configured.
Archive(j) ==
  /\ pc[j] = "archive"
  /\ archive' = [f \in Files |->
                   IF site.archive /\ f \in files[j] /\ staging[j][f] # "none"
                   THEN staging[j][f] ELSE archive[f]]
  /\ todo' = [todo EXCEPT ![j] = files[j]]
  /\ Goto(j, "release")
  /\ UNCHANGED <<site, written, incoming, remote, staging, at, files, cur, taken, kept>>

ArchiveRaises(j) ==
  /\ pc[j] = "archive"
  /\ site.archive /\ Fails("archive")
  /\ Raise(j)

\* release_processed_files: one turn of its loop; a file that is gone is skipped
\* and one that cannot be deleted is remembered.
Release(j, f) ==
  /\ pc[j] = "release"
  /\ f \in todo[j]
  /\ todo' = [todo EXCEPT ![j] = @ \ {f}]
  /\ \/ /\ incoming' = [incoming EXCEPT ![f] = "none"]
        /\ UNCHANGED kept
     \/ /\ incoming[f] # "none" /\ Fails("release")
        /\ kept' = [kept EXCEPT ![j] = TRUE]
        /\ UNCHANGED incoming
  /\ UNCHANGED <<site, written, remote, archive, staging, pc, at, files, cur, taken>>

\* The directory is not writable: checked before the loop.
ReleaseDenied(j) ==
  /\ pc[j] = "release"
  /\ todo[j] = files[j]
  /\ Fails("release")
  /\ Raise(j)

\* rmtree of the staging of the data centre; then the errors, if any, are raised.
Released(j) ==
  /\ pc[j] = "release"
  /\ todo[j] = {}
  /\ staging' = [staging EXCEPT ![j] = [f \in Files |->
                   IF DcOf[f] = Dc(j) THEN "none" ELSE @[f]]]
  /\ IF kept[j] THEN Goto(j, "stopped") /\ UNCHANGED <<at, taken>>
     ELSE /\ Goto(j, "dc")
          /\ at'    = [at    EXCEPT ![j] = @ + 1]
          /\ taken' = [taken EXCEPT ![j] = @ \cup files[j]]
  /\ UNCHANGED <<site, written, incoming, remote, archive, files, todo, cur, kept>>

\* All data centres done: a job that found no file at all fails.
Finish(j) ==
  /\ pc[j] = "dc" /\ at[j] > Len(ActiveDcs)
  /\ Goto(j, IF taken[j] = {} THEN "stopped" ELSE "success")
  /\ UNCHANGED <<site, written, disks, at, files, todo, cur, taken, kept>>

\* A thread ends, or a container with all the jobs it runs.
Killed(S) ==
  /\ S # {} /\ \A j \in S : Active(j)
  /\ Fails("kill")
  /\ pc' = [j \in Jobs |-> IF j \in S THEN "stopped" ELSE pc[j]]
  /\ UNCHANGED <<site, written, disks, at, files, todo, cur, taken, kept>>

--------------------------------------------------------------------------------
Init ==
  /\ site \in Sites
  /\ written = Nothing /\ incoming = Nothing
  /\ remote  = Nothing /\ archive  = Nothing
  /\ staging = [j \in Jobs |-> Nothing]
  /\ pc    = [j \in Jobs |-> "idle"]
  /\ at    = [j \in Jobs |-> 1]
  /\ files = [j \in Jobs |-> {}]
  /\ todo  = [j \in Jobs |-> {}]
  /\ cur   = [j \in Jobs |-> NoFile]
  /\ taken = [j \in Jobs |-> {}]
  /\ kept  = [j \in Jobs |-> FALSE]

Device == \E f \in Files : Arrive(f) \/ Complete(f)

Work(j) ==
  \/ SkipDc(j) \/ ScanDc(j) \/ ScanRaises(j) \/ Finish(j)
  \/ \E f \in Files : Copy(j, f) \/ OpenRemote(j, f) \/ Release(j, f)
  \/ CopyRaises(j) \/ Unlink(j) \/ UnlinkRaises(j) \/ Staged(j)
  \/ WriteRemote(j) \/ UploadRaises(j) \/ Uploaded(j)
  \/ Archive(j) \/ ArchiveRaises(j) \/ ReleaseDenied(j) \/ Released(j)

Run(j) == Start(j) \/ Work(j)

Next == Device \/ (\E j \in Jobs : Run(j)) \/ (\E S \in SUBSET Jobs : Killed(S))

Spec == Init /\ [][Next]_vars

--------------------------------------------------------------------------------
(* Properties *)

\* Types; the loops of a job only reach files that its scan found.
TypeOK ==
  /\ site \in Sites
  /\ written \in [Files -> Contents] /\ incoming \in [Files -> Contents]
  /\ remote  \in [Files -> Contents] /\ archive  \in [Files -> Contents]
  /\ staging \in [Jobs -> [Files -> Contents]]
  /\ pc \in [Jobs -> Locations]
  /\ at \in [Jobs -> 1..(Len(ActiveDcs) + 1)]
  /\ files \in [Jobs -> SUBSET Files] /\ todo \in [Jobs -> SUBSET Files]
  /\ \A j \in Jobs : todo[j] \subseteq files[j]
  /\ cur \in [Jobs -> Files \cup {NoFile}]
  /\ taken \in [Jobs -> SUBSET Files]
  /\ kept \in [Jobs -> BOOLEAN]

\* The default installation: files are copied, they appear complete, and no job is
\* started while another one runs.
Copies == ~site.move
Default == Copies /\ ~site.slow /\ ~site.overlap

\* arbor_aed.py:7, SPECIFICATIONS_FONCTIONNELLES_ET_TECHNIQUES.txt:138: copied or moved
\* to staging, files leave incoming after a transfer that succeeded. So a file the
\* device has completed can always still be delivered: it is in incoming, where the
\* next job finds it, or with a job that is running, or on the Windows host. With
\* shutil.move it does not hold: a failed transfer leaves the file in staging.
NeverStranded ==
  \A f \in Files : written[f] = "whole" =>
    \/ incoming[f] = "whole" \/ remote[f] = "whole"
    \/ \E j \in Jobs : Active(j) /\ staging[j][f] = "whole"

\* A job that fails or is killed, at any step and in either data centre, does not
\* put a file where no later job looks; of the default installation only.
Retrievable == Default => NeverStranded

DeliveredFirst ==
  \A f \in Files : incoming[f] # "none" /\ incoming'[f] = "none"
                   => remote[f] = written[f]

Stays(f) == remote[f] = "whole" /\ incoming[f] = "none" => remote'[f] = "whole"

\* A backup that has been delivered and is no longer in incoming is the only one
\* there is: no job writes its remote copy again. When copying jobs overlap a second
\* one can; with shutil.move the deletion of the source lets one of them through.
DeliveredStays == [][(site.overlap => site.move) => \A f \in Files : Stays(f)]_vars

\* arbor_aed.py:7: files are deleted from incoming after their transfer; at that
\* moment the Windows host holds all that the device has written of them.
ReleasedAfterDelivery == [][Default => DeliveredFirst]_vars

\* Files appear complete, and jobs take turns or move them.
Orderly == ~site.slow /\ (site.overlap => site.move)

\* A job that has answered a success did find files, and of every one that it counts
\* as sent and released, in all data centres, the Windows host has held the whole ever
\* since and incoming nothing, whether it copied or moved them.
SuccessDelivers ==
  Orderly => \A j \in Jobs : pc[j] = "success" =>
    /\ taken[j] # {}
    /\ \A f \in taken[j] : incoming[f] = "none" /\ remote[f] = "whole"

================================================================================
