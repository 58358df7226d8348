------------------------- MODULE NetHsmTransferProofs -------------------------
(***************************************************************************)
(* Theorems about NetHsmTransfer, for every set of jobs, hosts and seconds *)
(* and every set of steps that may fail.                                   *)
(***************************************************************************)
EXTENDS NetHsmTransfer, TLAPS

(***************************************************************************)
(* The transfer that is selected.                                          *)
(***************************************************************************)

\* A job that sends has found the settings of its destination complete, one that
\* only records has found none to send to: the settings do not change meanwhile.
SelectionOK ==
  \A j \in Jobs :
    /\ pc[j] \in {"send", "sending", "sent"} =>
         ~Incomplete /\ Selected \in Destinations /\ site[Selected] = "complete"
    /\ pc[j] = "recorded" => ~Incomplete /\ Selected = "none"

\* An execution has no name before its write.
NamedLate ==
  \A j \in Jobs :
    pc[j] \in {"idle", "fetch", "write", "refused", "simulated"} => name[j] = NoName

IInv == TypeOK /\ SelectionOK /\ NamedLate

\* The initial states satisfy the invariant.
LEMMA InitGivesIInv == Init => IInv
BY NetHsmAssumption DEF Init, IInv, TypeOK, SelectionOK, NamedLate, Named, Steps, Over, Contents

\* Every step of a job, and its end from outside, keeps the invariant.
LEMMA StepKeepsIInv == IInv /\ [Next]_vars => IInv'
<1>. SUFFICES ASSUME IInv, [Next]_vars PROVE IInv'
  OBVIOUS
<1>. USE NetHsmAssumption
     DEF IInv, TypeOK, SelectionOK, NamedLate, Named, Steps, Over, Contents, Goto
<1>raise. ASSUME NEW j \in Jobs, Raise(j) PROVE IInv'
  BY <1>raise DEF Raise, Incomplete, Selected
<1>1. ASSUME NEW j \in Jobs, NEW custom \in BOOLEAN, NEW known \in BOOLEAN,
             Submit(j, custom, known)
      PROVE  IInv'
  BY <1>1 DEF Submit, Dispatch, Incomplete, Selected
<1>2. ASSUME NEW j \in Jobs, Fetched(j) PROVE IInv'
  BY <1>2 DEF Fetched, Incomplete, Selected
<1>3. ASSUME NEW j \in Jobs, NEW h \in Hosts, Write(j, h) PROVE IInv'
  <2>. PICK stamp \in Stamps :
         /\ name'  = [name  EXCEPT ![j] = <<h, stamp>>]
         /\ local' = [local EXCEPT ![<<h, stamp>>] = "part"]
    BY <1>3 DEF Write
  <2>. <<h, stamp>> \in Names
    BY DEF Names
  <2>. QED
    BY <1>3 DEF Write, Incomplete, Selected
<1>4. ASSUME NEW j \in Jobs, Written(j) PROVE IInv'
  BY <1>4 DEF Written, Ends, Incomplete, Selected
<1>5. ASSUME NEW j \in Jobs, Select(j) PROVE IInv'
  BY <1>5 DEF Select, Incomplete, Selected, Destinations
<1>6. ASSUME NEW j \in Jobs, Send(j) PROVE IInv'
  BY <1>6 DEF Send, Incomplete, Selected
<1>7. ASSUME NEW j \in Jobs, Sent(j) PROVE IInv'
  <2>1. name[j] \in Names /\ Selected \in Destinations
    BY <1>7 DEF Sent
  <2>2. PICK c \in Contents : remote' = [remote EXCEPT ![Selected][name[j]] = c]
    BY <1>7, <2>1 DEF Sent, Ends
  <2>. QED
    BY <1>7, <2>1, <2>2 DEF Sent, Incomplete, Selected
<1>8. ASSUME NEW j \in Jobs, Announce(j) PROVE IInv'
  BY <1>8 DEF Announce, Incomplete, Selected
<1>9. CASE UNCHANGED vars
  BY <1>9 DEF vars, Incomplete, Selected
<1>. QED
  BY <1>raise, <1>1, <1>2, <1>3, <1>4, <1>5, <1>6, <1>7, <1>8, <1>9
     DEF Next, Run, HostGone, FetchFails, WriteFails, SelectRaises, SendFails, Killed

LEMMA Invariance == Spec => []IInv
BY InitGivesIInv, StepKeepsIInv, PTL DEF Spec

\* Every variable keeps its type, and an execution has a file name from its write on.
THEOREM TypeCorrect == Spec => []TypeOK
BY Invariance, PTL DEF IInv

\* A success that records a local file only was told to send nothing, or found no
\* destination with all of its settings, nor one that lacks its password only.
THEOREM RecordedOnlyThen == Spec => []RecordedOnlyIfNothingToSend
<1>1. IInv => RecordedOnlyIfNothingToSend
  <2>. SUFFICES ASSUME IInv, NEW j \in Jobs, pc[j] = "recorded"
                PROVE  /\ site.mode \in {"none", "auto"}
                       /\ site.smb # "incomplete" /\ site.scp # "incomplete"
                       /\ site.mode = "auto" =>
                            \A d \in Destinations : site[d] \in {"absent", "ignored"}
    BY DEF RecordedOnlyIfNothingToSend
  <2>1. ~Incomplete /\ Selected = "none" /\ site \in Site
    BY DEF IInv, SelectionOK, TypeOK
  <2>2. site.mode = "auto" =>
          site.smb # "complete" /\ site.scp # "complete" /\ site.dir # "complete"
    BY <2>1 DEF Selected
  <2>. QED
    BY <2>1, <2>2 DEF Selected, Incomplete, Site, Destinations
<1>. QED
  BY <1>1, Invariance, PTL

(***************************************************************************)
(* The checks before a job and those of the adapter.                       *)
(***************************************************************************)

\* No settings that the checks accept make the adapter refuse for want of
\* credentials: they are a superset of those it looks at.
THEOREM AcceptedAreNotRefused == Spec => AcceptedNotRefused
<1>1. ASSUME TypeOK, NEW j \in Jobs, pc'[j] = "refused", NEW custom \in BOOLEAN
      PROVE  ~Submit(j, custom, TRUE)
  <2>. SUFFICES ASSUME Submit(j, custom, TRUE) PROVE FALSE
    OBVIOUS
  <2>1. PICK a \in Access : Accepted(custom, TRUE, a) /\ Dispatch(custom, a) = "refused"
    BY <1>1 DEF Submit, Goto, TypeOK
  <2>. QED
    BY <2>1 DEF Accepted, Dispatch, HasCredentials
<1>2. TypeOK /\ [Next]_vars =>
        [\A j \in Jobs : pc'[j] = "refused" =>
           \A custom \in BOOLEAN : ~Submit(j, custom, TRUE)]_vars
  BY <1>1
<1>. QED
  BY <1>2, TypeCorrect, PTL DEF Spec, AcceptedNotRefused

(***************************************************************************)
(* Copies of the archives, for the executions that share their name with   *)
(* no other one.                                                           *)
(***************************************************************************)

\* No file has a name that no execution has taken.
Fresh ==
  \A n \in Names : (\A j \in Jobs : name[j] # n) =>
    local[n] = "none" /\ \A d \in Destinations : remote[d][n] = "none"

\* Which copies there are of the archive of an execution, by its step.
Stage(j) ==
  /\ pc[j] = "writing" => local[name[j]] # "whole"
  /\ pc[j] \in {"select", "send", "sending", "sent", "recorded"} => local[name[j]] = "whole"
  /\ pc[j] \in {"writing", "select", "send", "sending", "recorded"} =>
       \A d \in Destinations : remote[d][name[j]] # "whole"
  /\ pc[j] = "sent" => \E d \in Destinations : remote[d][name[j]] = "whole"

StagesOK == Fresh /\ \A j \in Jobs : ~Shared(j) => Stage(j)

LEMMA InitGivesStages == Init => StagesOK
BY DEF Init, StagesOK, Fresh, Stage

\* What a step of one execution leaves alone.
Frame(j) ==
  /\ \A k \in Jobs \ {j} : pc'[k] = pc[k] /\ name'[k] = name[k]
  /\ name'[j] = name[j] \/ (name[j] = NoName /\ pc[j] = "write" /\ pc'[j] = "writing")
  /\ \A n \in Names \ {name'[j]} :
       local'[n] = local[n] /\ \A d \in Destinations : remote'[d][n] = remote[d][n]

LEMMA StepKeepsFrame ==
  ASSUME IInv, NEW j \in Jobs, Run(j) \/ Killed(j)
  PROVE  Frame(j)
<1>. USE DEF IInv, TypeOK, NamedLate, Frame, Goto, Raise
<1>1. ASSUME NEW custom \in BOOLEAN, NEW known \in BOOLEAN, Submit(j, custom, known)
      PROVE  Frame(j)
  BY <1>1 DEF Submit
<1>2. CASE Raise(j)
  BY <1>2
<1>3. CASE Fetched(j) \/ Written(j) \/ Select(j) \/ Announce(j)
  BY <1>3 DEF Fetched, Written, Select, Announce
<1>4. ASSUME NEW h \in Hosts, Write(j, h) PROVE Frame(j)
  BY <1>4 DEF Write
<1>5. CASE Send(j) \/ Sent(j)
  BY <1>5 DEF Send, Sent
<1>. QED
  BY <1>1, <1>2, <1>3, <1>4, <1>5
     DEF Run, HostGone, FetchFails, WriteFails, SelectRaises, SendFails, Killed

\* Who shares its name goes on sharing it.
LEMMA SharingGrows ==
  ASSUME NEW j \in Jobs, Frame(j), NEW k \in Jobs, Shared(k)
  PROVE  Shared(k)'
<1>1. PICK i \in Jobs \ {k} : name[i] = name[k] /\ name[k] # NoName
  BY DEF Shared
<1>2. name'[i] = name[i] /\ name'[k] = name[k]
  BY <1>1 DEF Frame
<1>. QED
  BY <1>1, <1>2 DEF Shared

\* A file of another name is not touched.
LEMMA OthersFiles ==
  ASSUME IInv, NEW j \in Jobs, Frame(j), NEW k \in Jobs \ {j}, name[k] # NoName, ~Shared(k)'
  PROVE  /\ pc'[k] = pc[k] /\ name'[k] = name[k] /\ local'[name[k]] = local[name[k]]
         /\ \A d \in Destinations : remote'[d][name[k]] = remote[d][name[k]]
<1>1. pc'[k] = pc[k] /\ name'[k] = name[k]
  BY DEF Frame
<1>2. name[k] \in Names /\ name[k] # name'[j]
  BY <1>1 DEF IInv, TypeOK, Shared
<1>. QED
  BY <1>1, <1>2 DEF Frame

\* A step of an execution keeps its own stage, as long as it is alone.
LEMMA StepKeepsStage ==
  ASSUME IInv, IInv', StagesOK, NEW j \in Jobs, Run(j) \/ Killed(j), ~Shared(j)'
  PROVE  Stage(j)'
<1>0. /\ pc \in [Jobs -> Steps] /\ name \in [Jobs -> Names \cup {NoName}]
      /\ local \in [Names -> Contents] /\ remote \in [Destinations -> [Names -> Contents]]
  BY DEF IInv, TypeOK
<1>1. Frame(j) /\ ~Shared(j) /\ Stage(j)
  BY StepKeepsFrame, SharingGrows DEF StagesOK
<1>2. Named(j) => name[j] \in Names
  BY DEF IInv, TypeOK
<1>. USE DEF Goto
<1>3. ASSUME NEW custom \in BOOLEAN, NEW known \in BOOLEAN, Submit(j, custom, known)
      PROVE  Stage(j)'
  <2>1. pc'[j] \in {"simulated", "fetch", "refused"}
    BY <1>0, <1>3 DEF Submit, Dispatch
  <2>. QED
    BY <2>1 DEF Stage
<1>4. ASSUME Raise(j) \/ Fetched(j) PROVE Stage(j)'
  <2>1. pc'[j] \in {"stopped", "write"}
    BY <1>0, <1>4 DEF Raise, Fetched
  <2>. QED
    BY <2>1 DEF Stage
<1>5. ASSUME NEW h \in Hosts, Write(j, h) PROVE Stage(j)'
  <2>1. PICK stamp \in Stamps :
          /\ name'  = [name  EXCEPT ![j] = <<h, stamp>>]
          /\ local' = [local EXCEPT ![<<h, stamp>>] = "part"]
    BY <1>5 DEF Write
  <2>. DEFINE n == <<h, stamp>>
  <2>2. n \in Names
    BY DEF Names
  <2>3. pc[j] = "write" /\ pc'[j] = "writing" /\ remote' = remote
    BY <1>0, <1>5 DEF Write
  <2>4. name[j] = NoName
    BY <2>3 DEF IInv, NamedLate
  <2>5. name'[j] = n /\ local'[n] = "part"
    BY <1>0, <2>1, <2>2
  <2>. HIDE DEF n
  <2>6. \A k \in Jobs : name[k] # n
    BY <1>1, <2>2, <2>4, <2>5, NetHsmAssumption DEF Frame, Shared
  <2>7. \A d \in Destinations : remote[d][n] = "none"
    BY <2>2, <2>6 DEF StagesOK, Fresh
  <2>. QED
    BY <2>3, <2>5, <2>7 DEF Stage
<1>6. ASSUME Written(j) PROVE Stage(j)'
  <2>1. pc[j] = "writing" /\ pc'[j] = "select" /\ UNCHANGED <<remote, name>>
    BY <1>0, <1>6 DEF Written
  <2>2. local'[name[j]] = "whole"
    BY <1>0, <1>1, <1>2, <1>6, <2>1 DEF Written, Ends, Named
  <2>. QED
    BY <1>1, <2>1, <2>2 DEF Stage
<1>7. ASSUME Select(j) PROVE Stage(j)'
  <2>1. pc[j] = "select" /\ pc'[j] \in {"send", "recorded"} /\ UNCHANGED <<local, remote, name>>
    BY <1>0, <1>7 DEF Select
  <2>. QED
    BY <1>1, <2>1 DEF Stage
<1>8. ASSUME Send(j) PROVE Stage(j)'
  <2>1. pc[j] = "send" /\ pc'[j] = "sending" /\ UNCHANGED <<local, name>>
    BY <1>0, <1>8 DEF Send
  <2>2. name[j] \in Names
    BY <1>2, <2>1 DEF Named
  <2>3. \A d \in Destinations : remote'[d][name[j]] # "whole"
    BY <1>0, <1>1, <1>8, <2>1, <2>2 DEF Send, Stage
  <2>. QED
    BY <1>1, <2>1, <2>3 DEF Stage
<1>9. ASSUME Sent(j) PROVE Stage(j)'
  <2>1. /\ pc[j] = "sending" /\ pc'[j] = "sent" /\ UNCHANGED <<local, name>>
        /\ Selected \in Destinations
    BY <1>0, <1>9 DEF Sent, IInv, SelectionOK
  <2>2. name[j] \in Names /\ local[name[j]] = "whole"
    BY <1>1, <1>2, <2>1 DEF Named, Stage
  <2>3. remote' = [remote EXCEPT ![Selected][name[j]] = "whole"]
    BY <1>1, <1>9, <2>2 DEF Sent, Ends
  <2>4. remote'[Selected][name[j]] = "whole"
    BY <1>0, <2>1, <2>2, <2>3
  <2>. QED
    BY <2>1, <2>2, <2>4 DEF Stage
<1>10. ASSUME Announce(j) PROVE Stage(j)'
  <2>1. pc'[j] = "transferred"
    BY <1>0, <1>10 DEF Announce
  <2>. QED
    BY <2>1 DEF Stage
<1>. QED
  BY <1>3, <1>4, <1>5, <1>6, <1>7, <1>8, <1>9, <1>10
     DEF Run, HostGone, FetchFails, WriteFails, SelectRaises, SendFails, Killed

LEMMA StepKeepsStages == IInv /\ IInv' /\ StagesOK /\ [Next]_vars => StagesOK'
<1>. SUFFICES ASSUME IInv, IInv', StagesOK, [Next]_vars PROVE StagesOK'
  OBVIOUS
<1>1. CASE UNCHANGED vars
  BY <1>1 DEF vars, StagesOK, Fresh, Stage, Shared
<1>. SUFFICES ASSUME NEW j \in Jobs, Run(j) \/ Killed(j) PROVE StagesOK'
  BY <1>1 DEF Next
<1>2. Frame(j)
  BY StepKeepsFrame
<1>3. Fresh'
  <2>. SUFFICES ASSUME NEW n \in Names, \A k \in Jobs : name'[k] # n
                PROVE  local'[n] = "none" /\ \A d \in Destinations : remote'[d][n] = "none"
    BY DEF Fresh
  <2>1. \A k \in Jobs : name[k] # n
    BY <1>2, NetHsmAssumption DEF Frame
  <2>. QED
    BY <1>2, <2>1 DEF Frame, StagesOK, Fresh
<1>4. ASSUME NEW k \in Jobs, k # j, ~Shared(k)' PROVE Stage(k)'
  <2>1. Stage(k)
    BY <1>2, <1>4, SharingGrows DEF StagesOK
  <2>2. CASE name[k] = NoName
    <3>1. pc'[k] = pc[k] /\ ~Named(k)
      BY <1>2, <1>4, <2>2, NetHsmAssumption DEF Frame, IInv, TypeOK
    <3>. QED
      BY <3>1 DEF Stage, Named
  <2>3. CASE name[k] # NoName
    BY <1>2, <1>4, <2>1, <2>3, OthersFiles DEF Stage
  <2>. QED
    BY <2>2, <2>3
<1>. QED
  BY <1>3, <1>4, StepKeepsStage DEF StagesOK

(***************************************************************************)
(* The contract of an adapter.                                             *)
(***************************************************************************)

\* The answers and the copies of the other executions stay what they are.
LEMMA OthersKeep ==
  ASSUME IInv, NEW j \in Jobs, Frame(j), NEW k \in Jobs \ {j}, Shared(k)' <=> Shared(k)
  PROVE  Answer(k)' = Answer(k) /\ Copies(k)' = Copies(k)
<1>1. pc'[k] = pc[k] /\ name'[k] = name[k]
  BY DEF Frame
<1>2. CASE name[k] = NoName \/ Shared(k)
  BY <1>1, <1>2 DEF Answer, Copies
<1>3. CASE name[k] # NoName /\ ~Shared(k)
  BY <1>1, <1>3, OthersFiles DEF Answer, Copies
<1>. QED
  BY <1>2, <1>3

\* An execution that makes a step has not answered before.
LEMMA Answers ==
  ASSUME IInv, IInv', NEW j \in Jobs, Run(j) \/ Killed(j)
  PROVE  /\ Answer(j) = "pending"
         /\ Answer(j)' \in {"pending", "failed", "simulated", "recorded", "transferred"}
<1>1. pc[j] \notin Over
  BY DEF Run, Submit, HostGone, Fetched, FetchFails, Write, Written, WriteFails, SelectRaises,
     Select, Send, Sent, Announce, SendFails, Killed, Over
<1>2. pc'[j] \in Steps
  BY DEF IInv, TypeOK
<1>. QED
  BY <1>1, <1>2 DEF Answer, Over, Steps

\* A step that makes a name one of several is the write of one of them.
LEMMA ShareStep ==
  ASSUME IInv, IInv', NEW j \in Jobs, Run(j) \/ Killed(j), Sharing' # Sharing
  PROVE  Contract!CNext
<1>. DEFINE S == {k \in Jobs : name'[k] = name'[j]}
<1>0. Frame(j)
  BY StepKeepsFrame
<1>1. \A k \in Jobs \ {j} : pc'[k] = pc[k] /\ name'[k] = name[k]
  BY <1>0 DEF Frame
<1>2. \A k \in Jobs : Shared(k) => Shared(k)'
  BY <1>0, SharingGrows
<1>3. ASSUME NEW k \in Jobs, Shared(k)', ~Shared(k)
      PROVE  k \in S /\ name'[j] # NoName /\ \E i \in S : i # k
  <2>1. PICK i \in Jobs \ {k} : name'[i] = name'[k] /\ name'[k] # NoName
    BY <1>3 DEF Shared
  <2>2. i = j \/ k = j
    BY <1>1, <1>3, <2>1 DEF Shared
  <2>. QED
    BY <2>1, <2>2
<1>4. PICK k \in Jobs : Shared(k)' /\ ~Shared(k)
  BY <1>2 DEF Sharing
<1>5. k \in S /\ name'[j] # NoName /\ \E i \in S : i # k
  BY <1>3, <1>4
<1>6. \A i \in S : Shared(i)'
  BY <1>5 DEF Shared
<1>7. Sharing' = Sharing \cup S
  BY <1>2, <1>3, <1>6 DEF Sharing
<1>8. pc[j] = "write" /\ pc'[j] = "writing"
  <2>1. name'[j] # name[j]
    BY <1>1, <1>4 DEF Shared
  <2>. QED
    BY <1>0, <2>1 DEF Frame
<1>9. Answer(j)' = Answer(j)
  BY <1>8 DEF Answer
<1>. HIDE DEF S
<1>10. ASSUME NEW i \in Jobs
       PROVE  /\ Answer(i)' = Answer(i)
              /\ Copies(i)' = IF i \in S THEN {} ELSE Copies(i)
  <2>1. CASE i \in S
    BY <1>1, <1>6, <1>9, <2>1 DEF Copies, Answer
  <2>2. CASE i \notin S
    <3>1. i # j
      BY <2>2 DEF S
    <3>2. Shared(i)' <=> Shared(i)
      BY <1>2, <1>3, <2>2
    <3>. QED
      BY <1>0, <2>2, <3>1, <3>2, OthersKeep
  <2>. QED
    BY <2>1, <2>2
<1>11. S \in SUBSET Jobs /\ \E i, l \in S : i # l
  BY <1>5 DEF S
<1>12. Contract!Share(S)
  BY <1>7, <1>10, <1>11 DEF Contract!Share
<1>. QED
  BY <1>11, <1>12 DEF Contract!CNext

\* Any other step of the contract is told by what becomes of one execution.
LEMMA ContractStep ==
  ASSUME Sharing' = Sharing, NEW j \in Jobs, Answer(j) = "pending",
         \A k \in Jobs \ {j} : Answer(k)' = Answer(k) /\ Copies(k)' = Copies(k),
         \/ Answer(j)' = Answer(j) /\ Copies(j)' = Copies(j)
         \/ Answer(j)' = "pending" /\ j \notin Sharing /\ Copies(j)' = {"local"}
         \/ Answer(j)' = "pending" /\ Copies(j) = {"local"} /\ Copies(j)' = {"local", "windows"}
         \/ /\ Answer(j)' \in {"simulated", "recorded", "transferred"}
            /\ j \in Sharing \/ Copies(j) = Contract!Copies[Answer(j)']
            /\ Copies(j)' = Copies(j)
         \/ Answer(j)' = "failed" /\ Copies(j)' = Copies(j)
  PROVE  [Contract!CNext]_(Contract!contract)
<1>1. CASE Answer(j)' = Answer(j) /\ Copies(j)' = Copies(j)
  BY <1>1 DEF Contract!contract
<1>2. CASE Answer(j)' = "pending" /\ j \notin Sharing /\ Copies(j)' = {"local"}
  <2>. Contract!Store(j)
    BY <1>2 DEF Contract!Store
  <2>. QED
    BY DEF Contract!CNext
<1>3. CASE /\ Answer(j)' = "pending"
           /\ Copies(j) = {"local"} /\ Copies(j)' = {"local", "windows"}
  <2>. Contract!Deliver(j)
    BY <1>3 DEF Contract!Deliver
  <2>. QED
    BY DEF Contract!CNext
<1>4. CASE /\ Answer(j)' \in {"simulated", "recorded", "transferred"}
           /\ j \in Sharing \/ Copies(j) = Contract!Copies[Answer(j)']
           /\ Copies(j)' = Copies(j)
  <2>1. Contract!Succeed(j, Answer(j)')
    BY <1>4 DEF Contract!Succeed
  <2>2. Answer(j)' \in DOMAIN Contract!Copies
    BY <1>4 DEF Contract!Copies
  <2>. QED
    BY <2>1, <2>2 DEF Contract!CNext
<1>5. CASE Answer(j)' = "failed" /\ Copies(j)' = Copies(j)
  <2>. Contract!Fail(j)
    BY <1>5 DEF Contract!Fail
  <2>. QED
    BY DEF Contract!CNext
<1>. QED
  BY <1>1, <1>2, <1>3, <1>4, <1>5

\* A step of an execution that is alone with its name, and stays so.
LEMMA AloneStep ==
  ASSUME IInv, IInv', StagesOK, StagesOK', NEW j \in Jobs, Run(j) \/ Killed(j),
         Sharing' = Sharing, ~Shared(j)
  PROVE  [Contract!CNext]_(Contract!contract)
<1>. USE DEF Goto
<1>0. /\ pc \in [Jobs -> Steps] /\ name \in [Jobs -> Names \cup {NoName}]
      /\ Named(j) => name[j] # NoName
  BY NetHsmAssumption DEF IInv, TypeOK
<1>1. ~Shared(j)' /\ j \notin Sharing
  BY DEF Sharing
<1>2. Stage(j) /\ Stage(j)'
  BY <1>1 DEF StagesOK
<1>3. \A k \in Jobs \ {j} : Answer(k)' = Answer(k) /\ Copies(k)' = Copies(k)
  <2>1. \A k \in Jobs : Shared(k)' <=> Shared(k)
    BY DEF Sharing
  <2>. QED
    BY <2>1, StepKeepsFrame, OthersKeep
<1>4. Answer(j) = "pending"
  BY Answers
<1>5. ASSUME NEW custom \in BOOLEAN, NEW known \in BOOLEAN, Submit(j, custom, known)
      PROVE  [Contract!CNext]_(Contract!contract)
  <2>1. pc[j] = "idle" /\ pc'[j] \in {"simulated", "fetch", "refused"} /\ name' = name
    BY <1>0, <1>5 DEF Submit, Dispatch
  <2>2. Copies(j) = {} /\ Copies(j)' = {}
    BY <2>1 DEF IInv, NamedLate, Copies
  <2>3. \/ Answer(j)' = "simulated" \/ Answer(j)' = "failed" \/ Answer(j)' = "pending"
    BY <2>1 DEF Answer
  <2>4. Contract!Copies["simulated"] = {}
    BY DEF Contract!Copies
  <2>. QED
    BY <1>3, <1>4, <2>2, <2>3, <2>4, ContractStep
<1>6. ASSUME Raise(j) PROVE [Contract!CNext]_(Contract!contract)
  <2>1. Answer(j)' = "failed"
    BY <1>0, <1>6 DEF Raise, Answer
  <2>2. Copies(j)' = Copies(j)
    BY <1>1, <1>6 DEF Raise, Copies
  <2>. QED
    BY <1>3, <1>4, <2>1, <2>2, ContractStep
<1>7. ASSUME Fetched(j) PROVE [Contract!CNext]_(Contract!contract)
  <2>1. Answer(j)' = "pending"
    BY <1>0, <1>7 DEF Fetched, Answer
  <2>2. Copies(j)' = Copies(j)
    BY <1>1, <1>7 DEF Fetched, Copies
  <2>. QED
    BY <1>3, <1>4, <2>1, <2>2, ContractStep
<1>8. ASSUME NEW h \in Hosts, Write(j, h) PROVE [Contract!CNext]_(Contract!contract)
  <2>1. pc[j] = "write" /\ pc'[j] = "writing"
    BY <1>0, <1>8 DEF Write
  <2>2. Answer(j)' = "pending"
    BY <2>1 DEF Answer
  <2>3. Copies(j) = {}
    BY <2>1 DEF IInv, NamedLate, Copies
  <2>4. Copies(j)' = {}
    BY <1>2, <2>1 DEF Stage, Copies
  <2>. QED
    BY <1>3, <1>4, <2>2, <2>3, <2>4, ContractStep
<1>9. ASSUME Written(j) PROVE [Contract!CNext]_(Contract!contract)
  <2>1. pc[j] = "writing" /\ pc'[j] = "select" /\ UNCHANGED <<remote, name>>
    BY <1>0, <1>9 DEF Written
  <2>2. Answer(j)' = "pending"
    BY <2>1 DEF Answer
  <2>3. Copies(j)' = {"local"}
    BY <1>0, <1>1, <1>2, <2>1 DEF Stage, Copies, Named
  <2>. QED
    BY <1>1, <1>3, <1>4, <2>2, <2>3, ContractStep
<1>10. ASSUME Select(j) \/ Send(j) PROVE [Contract!CNext]_(Contract!contract)
  <2>1. /\ pc[j] \in {"select", "send"} /\ pc'[j] \in {"send", "sending", "recorded"}
        /\ UNCHANGED name
    BY <1>0, <1>10 DEF Select, Send
  <2>2. Answer(j)' = "pending" \/ Answer(j)' = "recorded"
    BY <2>1 DEF Answer
  <2>3. Copies(j) = {"local"} /\ Copies(j)' = {"local"}
    BY <1>0, <1>1, <1>2, <2>1 DEF Stage, Copies, Named
  <2>4. Contract!Copies["recorded"] = {"local"}
    BY DEF Contract!Copies
  <2>. QED
    BY <1>3, <1>4, <2>2, <2>3, <2>4, ContractStep
<1>11. ASSUME Sent(j) PROVE [Contract!CNext]_(Contract!contract)
  <2>1. pc[j] = "sending" /\ pc'[j] = "sent" /\ UNCHANGED name
    BY <1>0, <1>11 DEF Sent
  <2>2. Copies(j) = {"local"} /\ Copies(j)' = {"local", "windows"}
    BY <1>0, <1>1, <1>2, <2>1 DEF Stage, Copies, Named
  <2>3. Answer(j)' = "pending"
    BY <2>1 DEF Answer
  <2>. QED
    BY <1>3, <1>4, <2>2, <2>3, ContractStep
<1>12. ASSUME Announce(j) PROVE [Contract!CNext]_(Contract!contract)
  <2>1. pc[j] = "sent" /\ pc'[j] = "transferred" /\ UNCHANGED <<local, remote, name>>
    BY <1>0, <1>12 DEF Announce
  <2>2. Copies(j) = {"local", "windows"}
    BY <1>0, <1>2, <2>1 DEF Stage, Copies, Named
  <2>3. Copies(j)' = Copies(j)
    BY <1>1, <2>1 DEF Copies
  <2>4. Answer(j)' = "transferred"
    BY <2>1 DEF Answer
  <2>5. Contract!Copies["transferred"] = {"local", "windows"}
    BY DEF Contract!Copies
  <2>. QED
    BY <1>3, <1>4, <2>2, <2>3, <2>4, <2>5, ContractStep
<1>. QED
  BY <1>5, <1>6, <1>7, <1>8, <1>9, <1>10, <1>11, <1>12
     DEF Run, HostGone, FetchFails, WriteFails, SelectRaises, SendFails, Killed

LEMMA StepRefines ==
  ASSUME IInv, IInv', StagesOK, StagesOK', [Next]_vars
  PROVE  [Contract!CNext]_(Contract!contract)
<1>1. CASE UNCHANGED vars
  BY <1>1 DEF vars, Contract!contract, Answer, Copies, Sharing, Shared
<1>2. ASSUME NEW j \in Jobs, Run(j) \/ Killed(j), Sharing' = Sharing, Shared(j)
      PROVE  [Contract!CNext]_(Contract!contract)
  <2>1. \A k \in Jobs : Shared(k)' <=> Shared(k)
    BY <1>2 DEF Sharing
  <2>2. \A k \in Jobs \ {j} : Answer(k)' = Answer(k) /\ Copies(k)' = Copies(k)
    BY <1>2, <2>1, StepKeepsFrame, OthersKeep
  <2>3. Copies(j) = {} /\ Copies(j)' = {} /\ j \in Sharing
    BY <1>2, <2>1 DEF Copies, Sharing
  <2>4. /\ Answer(j) = "pending"
        /\ Answer(j)' \in {"pending", "failed", "simulated", "recorded", "transferred"}
    BY <1>2, Answers
  <2>. QED
    BY <1>2, <2>2, <2>3, <2>4, ContractStep
<1>. QED
  BY <1>1, <1>2, AloneStep, ShareStep DEF Next

LEMMA InitRefines == Init => Contract!CInit
BY DEF Init, Contract!CInit, Answer, Copies, Sharing, Shared

\* The adapter keeps the contract of adapters: the local file comes first and stays,
\* whatever becomes of the transfer, and a success names the copies there are, until
\* another execution forms the same file name. No assumption keeps two from doing so.
THEOREM AdapterKeepsContract == Spec => KeepsContract
<1>1. Init => IInv /\ StagesOK
  BY InitGivesIInv, InitGivesStages
<1>2. (IInv /\ StagesOK) /\ [Next]_vars => (IInv /\ StagesOK)'
  BY StepKeepsIInv, StepKeepsStages
<1>3. Init => Contract!CInit
  BY InitRefines
<1>4. (IInv /\ StagesOK) /\ (IInv /\ StagesOK)' /\ [Next]_vars
        => [Contract!CNext]_(Contract!contract)
  BY StepRefines
<1>. QED
  BY <1>1, <1>2, <1>3, <1>4, PTL DEF Spec, KeepsContract, Contract!CSpec

===============================================================================
