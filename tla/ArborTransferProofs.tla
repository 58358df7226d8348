-------------------------- MODULE ArborTransferProofs --------------------------
(***************************************************************************)
(* Theorems about ArborTransfer, for every sequence of data centres, every *)
(* set of files and of jobs, every set of installations and of steps that  *)
(* may fail.                                                               *)
(***************************************************************************)
EXTENDS ArborTransfer, TLAPS

(***************************************************************************)
(* Types and control.                                                      *)
(***************************************************************************)

Between == {"idle", "dc", "success", "stopped"}

\* A job at work has a data centre; the file in hand is one of its loop.
Control ==
  \A j \in Jobs :
    /\ pc[j] \notin Between => at[j] <= Len(ActiveDcs)
    /\ pc[j] = "unlink" => cur[j] \in files[j] \ todo[j] /\ site.move
    /\ pc[j] = "write"  => cur[j] \in todo[j]

TInv == TypeOK /\ Control

LEMMA InitGivesTInv == Init => TInv
BY TransferAssumption
   DEF Init, TInv, TypeOK, Control, Nothing, Contents, Locations, Between

LEMMA StepKeepsTInv == TInv /\ [Next]_vars => TInv'
<1>. SUFFICES ASSUME TInv, [Next]_vars PROVE TInv'
  OBVIOUS
<1>. Len(ActiveDcs) \in Nat
  BY TransferAssumption
<1>. USE DEF TInv, TypeOK, Control, Contents, Locations, Between, Goto, disks, control
<1>raise. ASSUME NEW j \in Jobs, Raise(j) PROVE TInv'
  BY <1>raise DEF Raise
<1>1. ASSUME NEW f \in Files, Arrive(f) PROVE TInv'
  BY <1>1 DEF Arrive
<1>2. ASSUME NEW f \in Files, Complete(f) PROVE TInv'
  BY <1>2 DEF Complete
<1>3. ASSUME NEW j \in Jobs, Start(j) PROVE TInv'
  BY <1>3 DEF Start, Begin, Nothing
<1>4. ASSUME NEW j \in Jobs, SkipDc(j) PROVE TInv'
  BY <1>4 DEF SkipDc
<1>5. ASSUME NEW j \in Jobs, ScanDc(j) PROVE TInv'
  <2>1. Scan(j) \subseteq Files
    BY DEF Scan
  <2>. QED
    BY <1>5, <2>1 DEF ScanDc
<1>6. ASSUME NEW j \in Jobs, NEW f \in Files, Copy(j, f) PROVE TInv'
  <2>1. staging' \in [Jobs -> [Files -> Contents]]
    BY <1>6 DEF Copy
  <2>2. PICK to \in {"unlink", "copy"} :
          pc' = [pc EXCEPT ![j] = to] /\ (to = "unlink" => site.move)
    BY <1>6 DEF Copy
  <2>3. f \in files[j]
    BY <1>6 DEF Copy
  <2>4. /\ pc[j] = "copy"
        /\ todo' = [todo EXCEPT ![j] = @ \ {f}]
        /\ cur' = [cur EXCEPT ![j] = f]
        /\ UNCHANGED <<site, written, incoming, remote, archive, at, files, taken, kept>>
    BY <1>6 DEF Copy
  <2>5. TypeOK'
    BY <2>1, <2>2, <2>3, <2>4
  <2>6. Control'
    BY <2>2, <2>3, <2>4
  <2>. QED
    BY <2>5, <2>6
<1>7. ASSUME NEW j \in Jobs, Unlink(j) PROVE TInv'
  BY <1>7 DEF Unlink
<1>8. ASSUME NEW j \in Jobs, Staged(j) PROVE TInv'
  BY <1>8 DEF Staged
<1>9. ASSUME NEW j \in Jobs, NEW f \in Files, OpenRemote(j, f) PROVE TInv'
  BY <1>9 DEF OpenRemote
<1>10. ASSUME NEW j \in Jobs, WriteRemote(j) PROVE TInv'
  BY <1>10 DEF WriteRemote
<1>11. ASSUME NEW j \in Jobs, Uploaded(j) PROVE TInv'
  BY <1>11 DEF Uploaded
<1>12. ASSUME NEW j \in Jobs, Archive(j) PROVE TInv'
  <2>1. archive' \in [Files -> Contents]
    BY <1>12 DEF Archive
  <2>. QED
    BY <1>12, <2>1 DEF Archive
<1>13. ASSUME NEW j \in Jobs, NEW f \in Files, Release(j, f) PROVE TInv'
  <2>1. incoming' \in [Files -> Contents] /\ kept' \in [Jobs -> BOOLEAN]
    BY <1>13 DEF Release
  <2>. QED
    BY <1>13, <2>1 DEF Release
<1>14. ASSUME NEW j \in Jobs, Released(j) PROVE TInv'
  <2>1. staging' \in [Jobs -> [Files -> Contents]]
    BY <1>14 DEF Released
  <2>2. CASE kept[j]
    BY <1>14, <2>1, <2>2 DEF Released
  <2>3. CASE ~kept[j]
    <3>1. /\ pc[j] = "release" /\ pc' = [pc EXCEPT ![j] = "dc"]
          /\ at' = [at EXCEPT ![j] = @ + 1]
          /\ taken' = [taken EXCEPT ![j] = @ \cup files[j]]
          /\ UNCHANGED <<site, written, incoming, remote, archive, files, todo, cur, kept>>
      BY <1>14, <2>3 DEF Released
    <3>2. at[j] \in 1..(Len(ActiveDcs) + 1) /\ at[j] <= Len(ActiveDcs)
      BY <3>1
    <3>3. at' \in [Jobs -> 1..(Len(ActiveDcs) + 1)]
      BY <3>1, <3>2
    <3>4. taken' \in [Jobs -> SUBSET Files] /\ pc' \in [Jobs -> Locations]
      BY <3>1
    <3>5. TypeOK'
      BY <2>1, <3>1, <3>3, <3>4
    <3>6. Control'
      BY <3>1
    <3>. QED
      BY <3>5, <3>6
  <2>. QED
    BY <2>2, <2>3
<1>15. ASSUME NEW j \in Jobs, Finish(j) PROVE TInv'
  BY <1>15 DEF Finish
<1>kill. ASSUME NEW S \in SUBSET Jobs, Killed(S) PROVE TInv'
  BY <1>kill DEF Killed
<1>16. CASE UNCHANGED vars
  BY <1>16 DEF vars
<1>. QED
  BY <1>raise, <1>kill, <1>1, <1>2, <1>3, <1>4, <1>5, <1>6, <1>7, <1>8, <1>9, <1>10, <1>11, <1>12,
     <1>13, <1>14, <1>15, <1>16
     DEF Next, Device, Run, Work, ScanRaises, CopyRaises, UnlinkRaises, UploadRaises,
         ArchiveRaises, ReleaseDenied

LEMMA TInvariance == Spec => []TInv
BY InitGivesTInv, StepKeepsTInv, PTL DEF Spec

\* Every variable keeps its type, and no loop reaches a file that its scan did not find.
THEOREM TypeCorrect == Spec => []TypeOK
BY TInvariance, PTL DEF TInv

(***************************************************************************)
(* Installations that move the files, or where jobs do not overlap.        *)
(***************************************************************************)

\* The job has taken the file from incoming.
Held(j, f) ==
  /\ f \in files[j]
  /\ \/ pc[j] = "copy" /\ f \notin todo[j]
     \/ pc[j] = "unlink" /\ f \notin todo[j] /\ f # cur[j]
     \/ pc[j] \in {"upload", "write"}

Unsent(j, f) == pc[j] \in {"copy", "unlink"} \/ f \in todo[j]

\* A moving job that holds a file is the only one, and has not sent it before.
MovedOnce ==
  \A f \in Files :
    /\ incoming[f] # "none" => remote[f] = "none"
    /\ written[f] = "none" => remote[f] = "none" /\ incoming[f] = "none"
    /\ \A j \in Jobs : Held(j, f) =>
         /\ incoming[f] = "none" /\ written[f] # "none"
         /\ Unsent(j, f) => remote[f] # "whole"
         /\ \A k \in Jobs : Held(k, f) => k = j

Alone == \A j, k \in Jobs : Active(j) /\ Active(k) => j = k

\* A copying job is alone, and what it has not released is in incoming.
CopiedInPlace ==
  /\ Alone
  /\ \A j \in Jobs : pc[j] \in {"copy", "upload", "write"} =>
       \A f \in files[j] : incoming[f] # "none"

MInv == (site.move => MovedOnce) /\ (~site.move /\ ~site.overlap => CopiedInPlace)

LEMMA InitGivesMInv == Init => MInv
BY DEF Init, MInv, MovedOnce, CopiedInPlace, Held, Alone, Active, Nothing

LEMMA SiteStays == [Next]_vars => site' = site
BY DEF Next, Device, Arrive, Complete, Run, Work, Start, Begin, SkipDc, ScanDc, ScanRaises, Finish, Copy,
   OpenRemote, Release, CopyRaises, Unlink, UnlinkRaises, Staged, WriteRemote, UploadRaises,
   Uploaded, Archive, ArchiveRaises, ReleaseDenied, Released, Killed, Raise, vars

LEMMA MovesKeepOne ==
  ASSUME TInv, MovedOnce, site.move, [Next]_vars
  PROVE  MovedOnce'
<1>t. /\ written \in [Files -> Contents] /\ incoming \in [Files -> Contents]
      /\ remote \in [Files -> Contents] /\ pc \in [Jobs -> Locations]
      /\ files \in [Jobs -> SUBSET Files] /\ todo \in [Jobs -> SUBSET Files]
      /\ \A j \in Jobs : todo[j] \subseteq files[j]
      /\ cur \in [Jobs -> Files \cup {NoFile}]
  BY DEF TInv, TypeOK
<1>. USE <1>t DEF Goto, disks, control, Held, Unsent
\* A step that takes no file from a directory and leaves a job with no more files.
<1>fewer. ASSUME UNCHANGED <<written, incoming, remote>>,
                 \A k \in Jobs, g \in Files : Held(k, g)' =>
                   Held(k, g) /\ (Unsent(k, g)' => Unsent(k, g))
          PROVE  MovedOnce'
  BY <1>fewer DEF MovedOnce
<1>raise. ASSUME NEW j \in Jobs, Raise(j) PROVE MovedOnce'
  BY <1>raise, <1>fewer DEF Raise
<1>1. ASSUME NEW f \in Files, Arrive(f) PROVE MovedOnce'
  BY <1>1 DEF Arrive, MovedOnce
<1>2. ASSUME NEW f \in Files, Complete(f) PROVE MovedOnce'
  BY <1>2 DEF Complete, MovedOnce
<1>3. ASSUME NEW j \in Jobs, Start(j) PROVE MovedOnce'
  BY <1>3, <1>fewer DEF Start, Begin
<1>4. ASSUME NEW j \in Jobs, SkipDc(j) PROVE MovedOnce'
  BY <1>4, <1>fewer DEF SkipDc
<1>5. ASSUME NEW j \in Jobs, ScanDc(j) PROVE MovedOnce'
  BY <1>5, <1>fewer DEF ScanDc, Scan
<1>6. ASSUME NEW j \in Jobs, NEW f \in Files, Copy(j, f) PROVE MovedOnce'
  <2>1. /\ pc' = [pc EXCEPT ![j] = "unlink"] /\ todo' = [todo EXCEPT ![j] = @ \ {f}]
        /\ cur' = [cur EXCEPT ![j] = f] /\ pc[j] = "copy"
        /\ UNCHANGED <<written, incoming, remote, files>>
    BY <1>6 DEF Copy
  <2>2. \A k \in Jobs, g \in Files : Held(k, g)' =>
                   Held(k, g) /\ (Unsent(k, g)' => Unsent(k, g))
    BY <2>1
  <2>. QED
    BY <2>1, <2>2, <1>fewer
<1>7. ASSUME NEW j \in Jobs, Unlink(j) PROVE MovedOnce'
  <2>1. /\ pc' = [pc EXCEPT ![j] = "copy"] /\ pc[j] = "unlink"
        /\ incoming[cur[j]] # "none" /\ incoming' = [incoming EXCEPT ![cur[j]] = "none"]
        /\ cur[j] \in Files
        /\ UNCHANGED <<written, remote, files, todo, cur>>
    BY <1>7 DEF Unlink, TInv, Control
  <2>2. \A k \in Jobs, g \in Files : Held(k, g)' =>
          \/ Held(k, g) /\ (Unsent(k, g)' => Unsent(k, g))
          \/ k = j /\ g = cur[j]
    <3>1. \A k \in Jobs \ {j}, g \in Files : Held(k, g)' =>
            Held(k, g) /\ (Unsent(k, g)' => Unsent(k, g))
      BY <2>1
    <3>2. \A g \in Files \ {cur[j]} : Held(j, g)' => Held(j, g) /\ Unsent(j, g)
      BY <2>1
    <3>. QED
      BY <3>1, <3>2
  <2>3. \A k \in Jobs : ~Held(k, cur[j])
    BY <2>1 DEF MovedOnce
  <2>4. remote[cur[j]] = "none" /\ written[cur[j]] # "none"
    BY <2>1 DEF MovedOnce
  <2>. QED
    BY <2>1, <2>2, <2>3, <2>4 DEF MovedOnce
<1>8. ASSUME NEW j \in Jobs, Staged(j) PROVE MovedOnce'
  BY <1>8, <1>fewer DEF Staged
<1>9. ASSUME NEW j \in Jobs, NEW f \in Files, OpenRemote(j, f) PROVE MovedOnce'
  <2>1. Held(j, f) /\ incoming[f] = "none" /\ written[f] # "none"
    BY <1>9 DEF OpenRemote, MovedOnce
  <2>2. \A k \in Jobs, g \in Files : Held(k, g)' =>
                   Held(k, g) /\ (Unsent(k, g)' => Unsent(k, g))
    BY <1>9 DEF OpenRemote
  <2>3. /\ remote' = [remote EXCEPT ![f] = "part"]
        /\ UNCHANGED <<written, incoming>>
    BY <1>9 DEF OpenRemote
  <2>. QED
    BY <2>1, <2>2, <2>3 DEF MovedOnce
<1>10. ASSUME NEW j \in Jobs, WriteRemote(j) PROVE MovedOnce'
  <2>0. PICK c \in todo[j] : c = cur[j] /\ c \in Files /\ pc[j] = "write"
    BY <1>10 DEF WriteRemote, TInv, Control
  <2>1. Held(j, c) /\ incoming[c] = "none" /\ written[c] # "none"
        /\ \A k \in Jobs : Held(k, c) => k = j
    BY <2>0 DEF MovedOnce
  <2>2. \A k \in Jobs, g \in Files : Held(k, g)' =>
                   Held(k, g) /\ (Unsent(k, g)' => Unsent(k, g))
    BY <1>10, <2>0 DEF WriteRemote
  <2>3. ~Unsent(j, c)'
    BY <1>10, <2>0 DEF WriteRemote
  <2>4. /\ \A g \in Files \ {c} : remote'[g] = remote[g]
        /\ UNCHANGED <<written, incoming>>
    BY <1>10, <2>0 DEF WriteRemote
  <2>5. \A g \in Files \ {c} :
          /\ incoming'[g] # "none" => remote'[g] = "none"
          /\ written'[g] = "none" => remote'[g] = "none" /\ incoming'[g] = "none"
          /\ \A k \in Jobs : Held(k, g)' =>
               /\ incoming'[g] = "none" /\ written'[g] # "none"
               /\ Unsent(k, g)' => remote'[g] # "whole"
               /\ \A l \in Jobs : Held(l, g)' => l = k
    <3>. HIDE DEF Held, Unsent
    <3>. QED
      BY <2>2, <2>4 DEF MovedOnce
  <2>6. /\ incoming'[c] = "none" /\ written'[c] # "none"
        /\ \A k \in Jobs : Held(k, c)' => k = j /\ ~Unsent(k, c)'
    <3>. HIDE DEF Held, Unsent
    <3>. QED
      BY <2>0, <2>1, <2>2, <2>3, <2>4
  <2>. HIDE DEF Held, Unsent
  <2>. QED
    BY <2>5, <2>6 DEF MovedOnce
<1>11. ASSUME NEW j \in Jobs, Uploaded(j) PROVE MovedOnce'
  BY <1>11, <1>fewer DEF Uploaded
<1>12. ASSUME NEW j \in Jobs, Archive(j) PROVE MovedOnce'
  BY <1>12, <1>fewer DEF Archive
<1>13. ASSUME NEW j \in Jobs, NEW f \in Files, Release(j, f) PROVE MovedOnce'
  <2>1. incoming' \in {incoming, [incoming EXCEPT ![f] = "none"]}
        /\ UNCHANGED <<written, remote>>
    BY <1>13 DEF Release
  <2>2. \A k \in Jobs, g \in Files : Held(k, g)' =>
                   Held(k, g) /\ (Unsent(k, g)' => Unsent(k, g))
    BY <1>13 DEF Release
  <2>. QED
    BY <2>1, <2>2 DEF MovedOnce
<1>14. ASSUME NEW j \in Jobs, Released(j) PROVE MovedOnce'
  <2>1. PICK to \in {"stopped", "dc"} : pc' = [pc EXCEPT ![j] = to]
    BY <1>14 DEF Released
  <2>. QED
    BY <1>14, <2>1, <1>fewer DEF Released
<1>15. ASSUME NEW j \in Jobs, Finish(j) PROVE MovedOnce'
  BY <1>15, <1>fewer DEF Finish
<1>kill. ASSUME NEW S \in SUBSET Jobs, Killed(S) PROVE MovedOnce'
  BY <1>kill, <1>fewer DEF Killed
<1>16. CASE UNCHANGED vars
  BY <1>16, <1>fewer DEF vars
<1>. QED
  BY <1>raise, <1>kill, <1>1, <1>2, <1>3, <1>4, <1>5, <1>6, <1>7, <1>8, <1>9, <1>10, <1>11, <1>12,
     <1>13, <1>14, <1>15, <1>16
     DEF Next, Device, Run, Work, ScanRaises, CopyRaises, UnlinkRaises, UploadRaises,
         ArchiveRaises, ReleaseDenied

LEMMA CopiesStayInPlace ==
  ASSUME TInv, CopiedInPlace, ~site.move, ~site.overlap, [Next]_vars
  PROVE  CopiedInPlace'
<1>t. /\ written \in [Files -> Contents] /\ incoming \in [Files -> Contents]
      /\ pc \in [Jobs -> Locations] /\ files \in [Jobs -> SUBSET Files]
      /\ todo \in [Jobs -> SUBSET Files]
  BY DEF TInv, TypeOK
<1>. USE <1>t DEF Goto, disks, control
\* The others are not at work.
<1>one. ASSUME NEW j \in Jobs, Active(j) \/ \A k \in Jobs : ~Active(k),
               \A k \in Jobs \ {j} : pc'[k] = pc[k],
               pc'[j] \in {"copy", "upload", "write"} =>
                 \A f \in files'[j] : incoming'[f] # "none"
        PROVE  CopiedInPlace'
  <2>1. \A k \in Jobs \ {j} : ~Active(k) /\ ~Active(k)'
    BY <1>one DEF CopiedInPlace, Alone, Active
  <2>. QED
    BY <1>one, <2>1 DEF CopiedInPlace, Alone, Active
<1>raise. ASSUME NEW j \in Jobs, Active(j), Raise(j) PROVE CopiedInPlace'
  BY <1>raise, <1>one DEF Raise
<1>1. ASSUME NEW f \in Files, Arrive(f) PROVE CopiedInPlace'
  BY <1>1 DEF Arrive, CopiedInPlace, Alone, Active
<1>2. ASSUME NEW f \in Files, Complete(f) PROVE CopiedInPlace'
  BY <1>2 DEF Complete, CopiedInPlace, Alone, Active
<1>3. ASSUME NEW j \in Jobs, Start(j) PROVE CopiedInPlace'
  BY <1>3, <1>one DEF Start, Begin
<1>4. ASSUME NEW j \in Jobs, SkipDc(j) PROVE CopiedInPlace'
  BY <1>4, <1>one DEF SkipDc, Active
<1>5. ASSUME NEW j \in Jobs, ScanDc(j) PROVE CopiedInPlace'
  BY <1>5, <1>one DEF ScanDc, Scan, Active
<1>6. ASSUME NEW j \in Jobs, NEW f \in Files, Copy(j, f) PROVE CopiedInPlace'
  BY <1>6, <1>one DEF Copy, Active, CopiedInPlace
<1>7. ASSUME NEW j \in Jobs, Unlink(j) PROVE CopiedInPlace'
  BY <1>7 DEF Unlink, TInv, Control
<1>8. ASSUME NEW j \in Jobs, Staged(j) PROVE CopiedInPlace'
  BY <1>8, <1>one DEF Staged, Active, CopiedInPlace
<1>9. ASSUME NEW j \in Jobs, NEW f \in Files, OpenRemote(j, f) PROVE CopiedInPlace'
  BY <1>9, <1>one DEF OpenRemote, Active, CopiedInPlace
<1>10. ASSUME NEW j \in Jobs, WriteRemote(j) PROVE CopiedInPlace'
  BY <1>10, <1>one DEF WriteRemote, Active, CopiedInPlace
<1>11. ASSUME NEW j \in Jobs, Uploaded(j) PROVE CopiedInPlace'
  BY <1>11, <1>one DEF Uploaded, Active
<1>12. ASSUME NEW j \in Jobs, Archive(j) PROVE CopiedInPlace'
  BY <1>12, <1>one DEF Archive, Active
<1>13. ASSUME NEW j \in Jobs, NEW f \in Files, Release(j, f) PROVE CopiedInPlace'
  BY <1>13, <1>one DEF Release, Active
<1>14. ASSUME NEW j \in Jobs, Released(j) PROVE CopiedInPlace'
  <2>1. PICK to \in {"stopped", "dc"} : pc' = [pc EXCEPT ![j] = to]
    BY <1>14 DEF Released
  <2>. QED
    BY <1>14, <2>1, <1>one DEF Released, Active
<1>15. ASSUME NEW j \in Jobs, Finish(j) PROVE CopiedInPlace'
  BY <1>15, <1>one DEF Finish, Active
<1>kill. ASSUME NEW S \in SUBSET Jobs, Killed(S) PROVE CopiedInPlace'
  BY <1>kill DEF Killed, CopiedInPlace, Alone, Active
<1>16. CASE UNCHANGED vars
  BY <1>16 DEF vars, CopiedInPlace, Alone, Active
<1>. QED
  BY <1>raise, <1>kill, <1>1, <1>2, <1>3, <1>4, <1>5, <1>6, <1>7, <1>8, <1>9, <1>10, <1>11, <1>12,
     <1>13, <1>14, <1>15, <1>16
     DEF Next, Device, Run, Work, ScanRaises, CopyRaises, UnlinkRaises, UploadRaises,
         ArchiveRaises, ReleaseDenied, Active

LEMMA MInvariance == Spec => [](TInv /\ MInv)
<1>1. (TInv /\ MInv) /\ [Next]_vars => (TInv /\ MInv)'
  <2>1. TInv /\ MInv /\ [Next]_vars => MInv'
    BY SiteStays, MovesKeepOne, CopiesStayInPlace DEF MInv
  <2>. QED
    BY <2>1, StepKeepsTInv
<1>. QED
  BY <1>1, InitGivesTInv, InitGivesMInv, PTL DEF Spec

\* Where jobs take turns or move their files, the remote copy of a file that has left
\* incoming stays.
LEMMA NoSecondWrite ==
  ASSUME TInv, MInv, [Next]_vars, site.overlap => site.move, NEW f \in Files
  PROVE  Stays(f)
<1>. SUFFICES ASSUME remote[f] = "whole", incoming[f] = "none", remote'[f] # "whole"
              PROVE  FALSE
  BY DEF Stays
<1>0. /\ site \in Sites /\ remote \in [Files -> Contents]
      /\ \A j \in Jobs : todo[j] \subseteq files[j]
  BY DEF TInv, TypeOK
<1>1. PICK j \in Jobs : OpenRemote(j, f) \/ WriteRemote(j)
  BY <1>0 DEF Next, vars, disks, Device, Arrive, Complete, Run, Work, Start, Begin, SkipDc, ScanDc,
     ScanRaises, Finish, Copy, OpenRemote, Release, CopyRaises, Unlink, UnlinkRaises, Staged,
     WriteRemote, UploadRaises, Uploaded, Archive, ArchiveRaises, ReleaseDenied, Released,
     Killed, Raise
<1>2. pc[j] \in {"upload", "write"} /\ f \in todo[j] /\ f \in files[j]
  BY <1>0, <1>1 DEF OpenRemote, WriteRemote, TInv, Control
<1>3. CASE site.move
  <2>1. MovedOnce
    BY <1>3 DEF MInv
  <2>. QED
    BY <2>1, <1>2 DEF MovedOnce, Held, Unsent
<1>4. CASE ~site.move
  <2>1. CopiedInPlace
    BY <1>4 DEF MInv
  <2>. QED
    BY <2>1, <1>2 DEF CopiedInPlace
<1>. QED
  BY <1>3, <1>4

\* No job writes again the remote copy of a file that has left incoming.
THEOREM DeliveredOnce == Spec => DeliveredStays
<1>1. (TInv /\ MInv) /\ [Next]_vars
        => [(site.overlap => site.move) => \A f \in Files : Stays(f)]_vars
  BY NoSecondWrite
<1>. QED
  BY <1>1, MInvariance, PTL DEF Spec, DeliveredStays

(***************************************************************************)
(* Orderly installations: what has been written, staged, sent and released *)
(* of each file, by the step its job is at.                                *)
(***************************************************************************)

WholeFiles == \A f \in Files : written[f] # "part" /\ incoming[f] \in {"none", written[f]}

\* The device has completed the file, it has left incoming and is on the Windows host.
Delivered(f) == incoming[f] = "none" /\ written[f] = "whole" /\ remote[f] = "whole"

\* Where the files of a job are, by its step.
Progress(j) ==
  /\ \A f \in taken[j] : Delivered(f)
  /\ pc[j] = "success" => taken[j] # {}
  /\ pc[j] \notin Between => \A f \in files[j] : written[f] = "whole"
  /\ pc[j] \in {"copy", "unlink"} => \A f \in files[j] \ todo[j] : staging[j][f] = "whole"
  /\ pc[j] \in {"copy", "upload", "write", "archive"} /\ Copies =>
       \A f \in files[j] : incoming[f] = "whole"
  /\ pc[j] \in {"archive", "release"} /\ ~Copies =>
       \A f \in files[j] : incoming[f] = "none"
  /\ pc[j] \in {"upload", "write", "archive"} => \A f \in files[j] : staging[j][f] = "whole"
  /\ pc[j] \in {"upload", "write"} => \A f \in files[j] \ todo[j] : remote[f] = "whole"
  /\ pc[j] \in {"archive", "release"} => \A f \in files[j] : remote[f] = "whole"
  /\ kept[j] => pc[j] \in {"release", "stopped"}
  /\ pc[j] = "release" /\ ~kept[j] => \A f \in files[j] \ todo[j] : incoming[f] = "none"

InPlace == \A f \in Files : written[f] = "whole" => incoming[f] = "whole" \/ remote[f] = "whole"

QInv == Orderly => WholeFiles /\ (\A j \in Jobs : Progress(j)) /\ (Copies => InPlace)

LEMMA InitGivesQInv == Init => QInv
BY DEF Init, QInv, WholeFiles, Progress, InPlace, Nothing, Between

\* What has been delivered stays so, whoever makes the step.
LEMMA DeliveredRemains ==
  ASSUME TInv, MInv, Orderly, WholeFiles, [Next]_vars, NEW f \in Files, Delivered(f)
  PROVE  Delivered(f)'
<1>1. remote'[f] = "whole"
  BY NoSecondWrite DEF Stays, Delivered, Orderly
<1>2. incoming'[f] = "none" /\ written'[f] = "whole"
  BY DEF Delivered, TInv, TypeOK, Next, vars, disks, Device, Arrive, Complete, Run, Work, Start, Begin,
     SkipDc, ScanDc, ScanRaises, Finish, Copy, OpenRemote, Release, CopyRaises, Unlink,
     UnlinkRaises, Staged, WriteRemote, UploadRaises, Uploaded, Archive, ArchiveRaises,
     ReleaseDenied, Released, Killed, Raise
<1>. QED
  BY <1>1, <1>2 DEF Delivered

\* A file that left incoming before it was sent, or its whole remote copy, is not
\* touched by another job.
LEMMA MovedRemains ==
  ASSUME TInv, MInv, Orderly, WholeFiles, [Next]_vars, NEW f \in Files,
         written[f] = "whole"
  PROVE  /\ written'[f] = "whole"
         /\ incoming[f] = "none" => incoming'[f] = "none"
         /\ incoming[f] = "none" /\ remote[f] = "whole" => remote'[f] = "whole"
<1>1. written'[f] = "whole" /\ (incoming[f] = "none" => incoming'[f] = "none")
  BY DEF TInv, TypeOK, Next, vars, disks, Device, Arrive, Complete, Run, Work, Start, Begin,
     SkipDc, ScanDc, ScanRaises, Finish, Copy, OpenRemote, Release, CopyRaises, Unlink,
     UnlinkRaises, Staged, WriteRemote, UploadRaises, Uploaded, Archive, ArchiveRaises,
     ReleaseDenied, Released, Killed, Raise
<1>. QED
  BY <1>1, NoSecondWrite DEF Stays, Orderly

\* It is enough to look at the job that makes the step: a copying job is alone, and
\* what a moving one holds no other touches.
LEMMA OneJobSteps ==
  ASSUME Orderly, TInv, MInv, WholeFiles, \A k \in Jobs : Progress(k), [Next]_vars,
         site' = site, NEW j \in Jobs,
         Active(j) \/ site.overlap \/ \A k \in Jobs : ~Active(k),
         \A k \in Jobs \ {j} :
           /\ pc'[k] = pc[k] /\ taken'[k] = taken[k] /\ kept'[k] = kept[k]
           /\ files'[k] = files[k] /\ todo'[k] = todo[k] /\ staging'[k] = staging[k],
         Progress(j)'
  PROVE  (\A k \in Jobs : Progress(k))'
<1>. SUFFICES ASSUME NEW k \in Jobs, k # j PROVE Progress(k)'
  OBVIOUS
<1>1. /\ pc'[k] = pc[k] /\ taken'[k] = taken[k] /\ kept'[k] = kept[k]
      /\ files'[k] = files[k] /\ todo'[k] = todo[k] /\ staging'[k] = staging[k]
      /\ taken[k] \subseteq Files /\ files[k] \subseteq Files /\ pc[k] \in Locations
  BY DEF TInv, TypeOK
<1>2. Progress(k)
  OBVIOUS
<1>3. \A f \in taken'[k] : Delivered(f)'
  BY <1>1, <1>2, DeliveredRemains DEF Progress
<1>4. CASE ~Active(k)
  <2>1. pc[k] \in {"idle", "success", "stopped"}
    BY <1>4 DEF Active
  <2>. QED
    BY <1>1, <1>2, <1>3, <2>1 DEF Progress, Between
<1>5. CASE Active(k)
  <2>1. ~Copies /\ ~Copies' /\ MovedOnce
    BY <1>5 DEF MInv, CopiedInPlace, Alone, Copies, Orderly
  <2>2. pc[k] \in {"upload", "write"} => \A f \in files[k] : incoming[f] = "none"
    BY <1>1, <2>1 DEF MovedOnce, Held
  <2>3. pc[k] \notin Between => \A f \in files[k] :
          /\ written'[f] = "whole"
          /\ incoming[f] = "none" => incoming'[f] = "none"
          /\ incoming[f] = "none" /\ remote[f] = "whole" => remote'[f] = "whole"
    BY <1>1, <1>2, MovedRemains DEF Progress
  <2>. QED
    BY <1>1, <1>2, <1>3, <2>1, <2>2, <2>3 DEF Progress, Between
<1>. QED
  BY <1>4, <1>5

LEMMA StepKeepsQInv == TInv /\ MInv /\ QInv /\ [Next]_vars => QInv'
<1>. SUFFICES ASSUME TInv, MInv, QInv, [Next]_vars, Orderly' PROVE QInv'
  BY DEF QInv
<1>0. site' = site /\ Orderly
  BY SiteStays DEF Orderly
<1>q. WholeFiles /\ (\A j \in Jobs : Progress(j)) /\ (Copies => InPlace)
  BY <1>0 DEF QInv
<1>d. \A j \in Jobs : \A f \in taken[j] : Delivered(f) /\ Delivered(f)'
  <2>1. ASSUME NEW j \in Jobs, NEW f \in taken[j] PROVE Delivered(f) /\ Delivered(f)'
    <3>1. Progress(j) /\ f \in Files
      BY <1>q DEF TInv, TypeOK
    <3>2. Delivered(f)
      BY <3>1 DEF Progress
    <3>. QED
      BY <1>0, <1>q, <3>1, <3>2, DeliveredRemains
  <2>. QED
    BY <2>1
<1>t. /\ written \in [Files -> Contents] /\ incoming \in [Files -> Contents]
      /\ remote \in [Files -> Contents] /\ staging \in [Jobs -> [Files -> Contents]]
      /\ pc \in [Jobs -> Locations] /\ files \in [Jobs -> SUBSET Files]
      /\ todo \in [Jobs -> SUBSET Files] /\ \A j \in Jobs : todo[j] \subseteq files[j]
      /\ taken \in [Jobs -> SUBSET Files] /\ kept \in [Jobs -> BOOLEAN]
      /\ cur \in [Jobs -> Files \cup {NoFile}]
  BY DEF TInv, TypeOK
<1>. USE <1>0, <1>t DEF Goto, disks, control
<1>1. ASSUME NEW f \in Files, Arrive(f) PROVE QInv'
  <2>1. /\ written[f] = "none" /\ written' = [written EXCEPT ![f] = "whole"]
        /\ incoming' = [incoming EXCEPT ![f] = "whole"]
        /\ UNCHANGED <<site, remote, archive, staging, control>>
    BY <1>1 DEF Arrive, Orderly
  <2>2. WholeFiles' /\ (Copies => InPlace)'
    BY <1>q, <2>1 DEF WholeFiles, InPlace, Copies
  <2>3. ASSUME NEW j \in Jobs PROVE Progress(j)'
    BY <1>q, <1>d, <2>1 DEF Progress, Between, Copies
  <2>. QED
    BY <2>2, <2>3 DEF QInv
<1>2. ASSUME NEW f \in Files, Complete(f) PROVE QInv'
  BY <1>q, <1>2 DEF Complete, WholeFiles
<1>raise. ASSUME NEW j \in Jobs, Active(j), Raise(j) PROVE QInv'
  <2>1. WholeFiles' /\ (Copies => InPlace)'
    BY <1>q, <1>raise DEF Raise, WholeFiles, InPlace, Copies
  <2>2. Progress(j)'
    BY <1>q, <1>d, <1>raise DEF Raise, Progress, Between
  <2>. QED
    BY <1>q, <1>raise, <2>1, <2>2, OneJobSteps DEF Raise, QInv
<1>3. ASSUME NEW j \in Jobs, Start(j) PROVE QInv'
  <2>1. WholeFiles' /\ (Copies => InPlace)'
    BY <1>q, <1>3 DEF Start, Begin, WholeFiles, InPlace, Copies
  <2>2. Progress(j)'
    BY <1>q, <1>d, <1>3 DEF Start, Begin, Progress, Between
  <2>. QED
    BY <1>q, <1>3, <2>1, <2>2, OneJobSteps DEF Start, Begin, QInv
<1>4. ASSUME NEW j \in Jobs, SkipDc(j) PROVE QInv'
  <2>1. WholeFiles' /\ (Copies => InPlace)'
    BY <1>q, <1>4 DEF SkipDc, WholeFiles, InPlace, Copies
  <2>2. Progress(j)' /\ Active(j)
    BY <1>q, <1>d, <1>4 DEF SkipDc, Progress, Active, Between
  <2>. QED
    BY <1>q, <1>4, <2>1, <2>2, OneJobSteps DEF SkipDc, QInv
<1>5. ASSUME NEW j \in Jobs, ScanDc(j) PROVE QInv'
  <2>1. WholeFiles' /\ (Copies => InPlace)'
    BY <1>q, <1>5 DEF ScanDc, WholeFiles, InPlace, Copies
  <2>2. \A f \in Scan(j) : incoming[f] = "whole" /\ written[f] = "whole"
    BY <1>q DEF Scan, WholeFiles, Contents
  <2>3. Active(j) /\ Progress(j)
    BY <1>q, <1>5 DEF ScanDc, Active
  <2>5. /\ pc'[j] = "copy" /\ files'[j] = Scan(j) /\ todo'[j] = Scan(j) /\ pc[j] = "dc"
        /\ UNCHANGED <<site, written, incoming, remote, archive, staging, at, cur, taken, kept>>
    BY <1>5 DEF ScanDc
  <2>6. Progress(j)'
    BY <1>d, <2>2, <2>3, <2>5 DEF Progress, Between
  <2>. QED
    BY <1>q, <1>5, <2>1, <2>3, <2>6, OneJobSteps DEF ScanDc, QInv
<1>6. ASSUME NEW j \in Jobs, NEW f \in Files, Copy(j, f) PROVE QInv'
  <2>1. WholeFiles' /\ (Copies => InPlace)'
    BY <1>q, <1>6 DEF Copy, WholeFiles, InPlace, Copies
  <2>2. Active(j) /\ Progress(j) /\ pc[j] = "copy"
    BY <1>q, <1>6 DEF Copy, Active
  <2>3. incoming[f] = "whole"
    BY <1>q, <1>6 DEF Copy, WholeFiles, Contents
  <2>4. /\ pc'[j] \in {"unlink", "copy"} /\ todo'[j] = todo[j] \ {f} /\ staging'[j][f] = "whole"
        /\ \A g \in Files \ {f} : staging'[j][g] = staging[j][g]
        /\ UNCHANGED <<site, written, incoming, remote, archive, at, files, taken, kept>>
    BY <1>6, <2>3 DEF Copy
  <2>5. Progress(j)'
    BY <1>d, <2>2, <2>4 DEF Progress, Between, Copies
  <2>. QED
    BY <1>q, <1>6, <2>1, <2>2, <2>5, OneJobSteps DEF Copy, QInv
<1>7. ASSUME NEW j \in Jobs, Unlink(j) PROVE QInv'
  <2>1. Active(j) /\ Progress(j) /\ pc[j] = "unlink" /\ ~Copies /\ cur[j] \in Files
    BY <1>q, <1>7 DEF Unlink, Active, TInv, Control, Copies
  <2>2. WholeFiles' /\ (Copies => InPlace)'
    BY <1>q, <1>7, <2>1 DEF Unlink, WholeFiles, Copies
  <2>4. /\ pc'[j] = "copy"
        /\ UNCHANGED <<site, written, remote, archive, staging, at, files, todo, cur, taken, kept>>
    BY <1>7 DEF Unlink
  <2>5. Progress(j)'
    BY <1>d, <2>1, <2>4 DEF Progress, Between, Copies
  <2>. QED
    BY <1>q, <1>7, <2>1, <2>2, <2>5, OneJobSteps DEF Unlink, QInv
<1>8. ASSUME NEW j \in Jobs, Staged(j) PROVE QInv'
  <2>1. WholeFiles' /\ (Copies => InPlace)'
    BY <1>q, <1>8 DEF Staged, WholeFiles, InPlace, Copies
  <2>2. Active(j) /\ Progress(j)
    BY <1>q, <1>8 DEF Staged, Active
  <2>3. Progress(j)'
    BY <1>d, <1>8, <2>2 DEF Staged, Progress, Between, Copies
  <2>. QED
    BY <1>q, <1>8, <2>1, <2>2, <2>3, OneJobSteps DEF Staged, QInv
<1>9. ASSUME NEW j \in Jobs, NEW f \in Files, OpenRemote(j, f) PROVE QInv'
  <2>1. Active(j) /\ Progress(j) /\ pc[j] = "upload" /\ f \in todo[j] /\ f \in files[j]
    BY <1>q, <1>9 DEF OpenRemote, Active
  <2>2. Copies => incoming[f] = "whole"
    BY <2>1 DEF Progress
  <2>3. WholeFiles' /\ (Copies => InPlace)'
    BY <1>q, <1>9, <2>2 DEF OpenRemote, WholeFiles, InPlace, Copies
  <2>4. /\ pc'[j] = "write" /\ \A g \in Files \ {f} : remote'[g] = remote[g]
        /\ UNCHANGED <<site, written, incoming, archive, staging, at, files, todo, taken, kept>>
    BY <1>9 DEF OpenRemote
  <2>6. Progress(j)'
    BY <1>d, <2>1, <2>4 DEF Progress, Between, Copies
  <2>. QED
    BY <1>q, <1>9, <2>1, <2>3, <2>6, OneJobSteps DEF OpenRemote, QInv
<1>10. ASSUME NEW j \in Jobs, WriteRemote(j) PROVE QInv'
  <2>1. /\ Active(j) /\ Progress(j) /\ pc[j] = "write"
        /\ cur[j] \in todo[j] /\ cur[j] \in files[j] /\ cur[j] \in Files
    BY <1>q, <1>10 DEF WriteRemote, Active, TInv, Control
  <2>2. staging[j][cur[j]] = "whole"
    BY <2>1 DEF Progress
  <2>3. /\ pc'[j] = "upload" /\ remote'[cur[j]] = "whole" /\ todo'[j] = todo[j] \ {cur[j]}
        /\ \A g \in Files \ {cur[j]} : remote'[g] = remote[g]
        /\ UNCHANGED <<site, written, incoming, archive, staging, at, files, cur, taken, kept>>
    BY <1>10, <2>1, <2>2 DEF WriteRemote
  <2>4. WholeFiles' /\ (Copies => InPlace)'
    BY <1>q, <2>3 DEF WholeFiles, InPlace, Copies
  <2>5. Progress(j)'
    BY <1>d, <2>1, <2>3 DEF Progress, Between, Copies
  <2>. QED
    BY <1>q, <1>10, <2>1, <2>4, <2>5, OneJobSteps DEF WriteRemote, QInv
<1>11. ASSUME NEW j \in Jobs, Uploaded(j) PROVE QInv'
  <2>1. WholeFiles' /\ (Copies => InPlace)'
    BY <1>q, <1>11 DEF Uploaded, WholeFiles, InPlace, Copies
  <2>2. Active(j) /\ Progress(j)
    BY <1>q, <1>11 DEF Uploaded, Active
  <2>3. ~Copies => \A f \in files[j] : incoming[f] = "none"
    BY <1>11 DEF Uploaded, MInv, MovedOnce, Held, Copies
  <2>4. Progress(j)'
    BY <1>d, <1>11, <2>2, <2>3 DEF Uploaded, Progress, Between, Copies
  <2>. QED
    BY <1>q, <1>11, <2>1, <2>2, <2>4, OneJobSteps DEF Uploaded, QInv
<1>12. ASSUME NEW j \in Jobs, Archive(j) PROVE QInv'
  <2>1. WholeFiles' /\ (Copies => InPlace)'
    BY <1>q, <1>12 DEF Archive, WholeFiles, InPlace, Copies
  <2>2. Active(j) /\ Progress(j)
    BY <1>q, <1>12 DEF Archive, Active
  <2>3. Progress(j)'
    BY <1>d, <1>12, <2>2 DEF Archive, Progress, Between, Copies
  <2>. QED
    BY <1>q, <1>12, <2>1, <2>2, <2>3, OneJobSteps DEF Archive, QInv
<1>13. ASSUME NEW j \in Jobs, NEW f \in Files, Release(j, f) PROVE QInv'
  <2>1. /\ Active(j) /\ Progress(j) /\ pc[j] = "release" /\ f \in todo[j] /\ f \in files[j]
        /\ pc' = pc /\ todo'[j] = todo[j] \ {f}
        /\ UNCHANGED <<site, written, remote, archive, staging, at, files, cur, taken>>
    BY <1>q, <1>13 DEF Release, Active
  <2>2. remote[f] = "whole" /\ written[f] = "whole"
    BY <2>1 DEF Progress, Between
  <2>3. \/ incoming' = [incoming EXCEPT ![f] = "none"] /\ kept' = kept
        \/ incoming' = incoming /\ kept' = [kept EXCEPT ![j] = TRUE]
    BY <1>13 DEF Release
  <2>4. WholeFiles' /\ (Copies => InPlace)'
    BY <1>q, <2>1, <2>2, <2>3 DEF WholeFiles, InPlace, Copies
  <2>5. Progress(j)'
    BY <1>d, <2>1, <2>3 DEF Progress, Between, Copies
  <2>6. \A k \in Jobs \ {j} : kept'[k] = kept[k] /\ todo'[k] = todo[k]
    BY <1>13 DEF Release
  <2>. QED
    BY <1>q, <2>1, <2>4, <2>5, <2>6, OneJobSteps DEF QInv
<1>14. ASSUME NEW j \in Jobs, Released(j) PROVE QInv'
  <2>1. WholeFiles' /\ (Copies => InPlace)'
    BY <1>q, <1>14 DEF Released, WholeFiles, InPlace, Copies
  <2>2. Active(j) /\ Progress(j) /\ pc[j] = "release" /\ todo[j] = {}
    BY <1>q, <1>14 DEF Released, Active
  <2>3. /\ UNCHANGED <<site, written, incoming, remote, files, todo, kept>>
        /\ \A k \in Jobs \ {j} : pc'[k] = pc[k] /\ taken'[k] = taken[k] /\ staging'[k] = staging[k]
        /\ \/ kept[j] /\ pc'[j] = "stopped" /\ taken'[j] = taken[j]
           \/ ~kept[j] /\ pc'[j] = "dc" /\ taken'[j] = taken[j] \cup files[j]
    BY <1>14 DEF Released
  <2>4. ~kept[j] => \A f \in files[j] : Delivered(f)'
    BY <2>2, <2>3 DEF Progress, Delivered, Between, Copies
  <2>5. Progress(j)'
    BY <1>d, <2>2, <2>3, <2>4 DEF Progress, Between, Copies
  <2>. QED
    BY <1>q, <2>1, <2>2, <2>3, <2>5, OneJobSteps DEF QInv
<1>15. ASSUME NEW j \in Jobs, Finish(j) PROVE QInv'
  <2>1. WholeFiles' /\ (Copies => InPlace)'
    BY <1>q, <1>15 DEF Finish, WholeFiles, InPlace, Copies
  <2>2. Active(j) /\ Progress(j)
    BY <1>q, <1>15 DEF Finish, Active
  <2>3. Progress(j)'
    BY <1>d, <1>15, <2>2 DEF Finish, Progress, Between, Copies
  <2>. QED
    BY <1>q, <1>15, <2>1, <2>2, <2>3, OneJobSteps DEF Finish, QInv
<1>kill. ASSUME NEW S \in SUBSET Jobs, Killed(S) PROVE QInv'
  <2>1. WholeFiles' /\ (Copies => InPlace)'
    BY <1>q, <1>kill DEF Killed, WholeFiles, InPlace, Copies
  <2>2. ASSUME NEW j \in Jobs PROVE Progress(j)'
    BY <1>q, <1>d, <1>kill DEF Killed, Progress, Between, Copies
  <2>. QED
    BY <2>1, <2>2 DEF QInv
<1>16. CASE UNCHANGED vars
  <2>1. WholeFiles' /\ (Copies => InPlace)'
    BY <1>q, <1>16 DEF vars, WholeFiles, InPlace, Copies
  <2>2. ASSUME NEW j \in Jobs PROVE Progress(j)'
    BY <1>q, <1>d, <1>16 DEF vars, Progress, Between, Copies
  <2>. QED
    BY <2>1, <2>2 DEF QInv
<1>. QED
  BY <1>raise, <1>kill, <1>1, <1>2, <1>3, <1>4, <1>5, <1>6, <1>7, <1>8, <1>9, <1>10, <1>11, <1>12,
     <1>13, <1>14, <1>15, <1>16
     DEF Next, Device, Run, Work, ScanRaises, CopyRaises, UnlinkRaises, UploadRaises,
         ArchiveRaises, ReleaseDenied, Active

LEMMA QInvariance == Spec => [](TInv /\ MInv /\ QInv)
<1>1. (TInv /\ MInv) /\ QInv /\ [Next]_vars => QInv'
  BY StepKeepsQInv
<1>. QED
  BY <1>1, InitGivesQInv, MInvariance, PTL DEF Spec

\* In the default installation no failure and no kill puts a file where no later job
\* looks: it is in incoming until the Windows host holds the whole of it.
THEOREM NothingStranded == Spec => []Retrievable
<1>1. QInv => Retrievable
  BY DEF QInv, Retrievable, NeverStranded, Default, Orderly, InPlace
<1>. QED
  BY <1>1, QInvariance, PTL

\* A file leaves incoming only when the Windows host holds all that was written of it.
THEOREM ReleasesDelivered == Spec => ReleasedAfterDelivery
<1>1. ASSUME TInv, QInv, [Next]_vars, Default PROVE DeliveredFirst
  <2>. SUFFICES ASSUME NEW f \in Files, incoming[f] # "none", incoming'[f] = "none"
                PROVE  remote[f] = written[f]
    BY DEF DeliveredFirst
  <2>0. incoming \in [Files -> Contents] /\ \A j \in Jobs : todo[j] \subseteq files[j]
    BY <1>1 DEF TInv, TypeOK
  <2>1. PICK j \in Jobs : Unlink(j) \/ \E g \in Files : Release(j, g)
    BY <2>0, <1>1 DEF Next, vars, disks, Device, Arrive, Complete, Run, Work, Start, Begin, SkipDc, ScanDc,
       ScanRaises, Finish, Copy, OpenRemote, CopyRaises, UnlinkRaises, Staged, WriteRemote,
       UploadRaises, Uploaded, Archive, ArchiveRaises, ReleaseDenied, Released, Killed, Raise
  <2>2. ~Unlink(j)
    BY <1>1 DEF Unlink, TInv, Control, Default, Copies
  <2>3. pc[j] = "release" /\ f \in files[j]
    BY <2>0, <2>1, <2>2 DEF Release
  <2>4. Progress(j)
    BY <1>1 DEF QInv, Default, Orderly
  <2>. QED
    BY <2>3, <2>4 DEF Progress, Between
<1>2. (TInv /\ QInv) /\ [Next]_vars => [Default => DeliveredFirst]_vars
  BY <1>1
<1>. QED
  BY <1>2, QInvariance, PTL DEF Spec, ReleasedAfterDelivery

\* What a job that has answered a success counts, in all data centres, is on the
\* Windows host and stays there, whether it was copied or moved.
THEOREM SuccessMeansDelivered == Spec => []SuccessDelivers
<1>1. QInv => SuccessDelivers
  BY DEF QInv, SuccessDelivers, Progress, Delivered
<1>. QED
  BY <1>1, QInvariance, PTL

===============================================================================
