--------------------------- MODULE HistoryPageProofs ---------------------------
(***************************************************************************)
(* Theorems about HistoryPage, for any number of jobs, rows of the table   *)
(* and requests.                                                           *)
(***************************************************************************)
EXTENDS HistoryPage, FiniteSetTheorems, WellFoundedInduction, TLAPS

States == {"none", "pending", "running", "success", "failed", "deleted"}

ServerOK ==
  /\ state \in [Jobs -> States] /\ kind \in [Jobs -> {"manual", "scheduled"}]
  /\ host \in [Jobs -> Addresses \cup {NoHost}] /\ scheduleOn \in BOOLEAN
  /\ edited \subseteq Jobs

\* A step of the server: of the history, the hosts or the schedule.
ServerStep ==
  \/ History \/ Toggle
  \/ \E j \in Jobs, a \in Addresses : Attach(j, a)
  \/ \E S \in SUBSET Jobs, a \in Addresses \cup {NoHost} : EditHost(S, a)

\* One poll, request or answer at a time.
OneRequest ==
  /\ pollActive \in BOOLEAN /\ timer \in BOOLEAN /\ failed \in BOOLEAN
  /\ asked \in {0, 1}
  /\ asked = 1 => answers = {}
  /\ timer => asked = 0 /\ answers = {}
  /\ \A r, s \in answers : r = s

\* Rows the server has answered at some time: what they say of a job that had ended
\* is still so, its host too if nobody has edited it, and they fit in the table.
Past(rows) ==
  /\ DOMAIN rows \subseteq Jobs
  /\ Cardinality(DOMAIN rows) <= Limit
  /\ \A j \in DOMAIN rows : rows[j].status \notin Open =>
       /\ state[j] \notin Open \cup {"none"}
       /\ state[j] = "deleted" \/ MayBeLate(j) \/ j \in edited \/ rows[j].host = host[j]

\* The answer under way is newer than the table.
Newer(rows) ==
  \A j \in DOMAIN rows : ShownClosed(j) => rows[j].status \notin Open

PageOK ==
  /\ Past(shown)
  /\ \A rows \in answers : Past(rows) /\ Newer(rows)
  /\ print \subseteq {Fingerprint(shown)}

HInv == ServerOK /\ OneRequest /\ PageOK /\ WatchedWhileOpen

(***************************************************************************)
(* The rows of the server.                                                 *)
(***************************************************************************)

\* order_by and [:Limit] give at most Limit rows.
LEMMA RecentFits == Cardinality(Recent) <= Limit
<1>0. MaxJobs \in Nat /\ Limit \in Nat
  BY HistoryAssumption
<1>1. IsFiniteSet(Jobs) /\ Jobs \subseteq Nat
  BY <1>0, FS_Interval DEF Jobs
<1>2. Recent \in SUBSET Jobs
  BY DEF Recent
<1>3. IsFiniteSet(Recent) /\ Cardinality(Recent) \in Nat
  BY <1>1, <1>2, FS_Subset, FS_CardinalityType
<1>4. CASE Recent = {}
  BY <1>0, <1>4, FS_EmptySet
<1>5. CASE Recent # {}
  <2>1. PICK m \in Recent : \A k \in Recent : m <= k
    <3>1. PICK m \in Recent : \A k \in Recent : <<k, m>> \notin OpToRel(<, Nat)
      BY <1>1, <1>2, <1>5, WFMin, NatLessThanWellFounded
    <3>2. m \in Nat /\ Recent \subseteq Nat
      BY <1>1, <1>2
    <3>3. \A k \in Recent : ~(k < m)
      BY <3>1, <3>2, Zenon DEF OpToRel
    <3>. QED
      BY <3>2, <3>3
  <2>. DEFINE Above == {k \in Jobs : Exists(k) /\ k > m}
  <2>2. IsFiniteSet(Above) /\ Cardinality(Above) \in Nat /\ Cardinality(Above) < Limit
    <3>1. Above \in SUBSET Jobs
      OBVIOUS
    <3>2. Cardinality(Above) < Limit
      BY <2>1 DEF Recent
    <3>. QED
      BY <1>1, <3>1, <3>2, FS_Subset, FS_CardinalityType
  <2>3. Recent \ {m} \in SUBSET Above
    <3>1. \A k \in Recent : k \in Jobs /\ k \in Nat /\ Exists(k)
      BY <1>1 DEF Recent
    <3>2. \A k \in Recent \ {m} : k > m
      BY <2>1, <3>1
    <3>. QED
      BY <3>1, <3>2
  <2>4. Cardinality(Recent \ {m}) = Cardinality(Recent) - 1
    BY <1>3, <2>1, FS_RemoveElement
  <2>5. Cardinality(Recent \ {m}) <= Cardinality(Above)
    BY <2>2, <2>3, FS_Subset
  <2>. QED
    BY <1>0, <1>3, <2>2, <2>4, <2>5
<1>. QED
  BY <1>4, <1>5

LEMMA RowsArePast == ServerOK => Past(Rows)
<1>. SUFFICES ASSUME ServerOK PROVE Past(Rows)
  OBVIOUS
<1>1. DOMAIN Rows = Recent /\ Recent \subseteq Jobs
  BY DEF Rows, Recent
<1>2. \A j \in Recent : Rows[j].status = state[j] /\ Rows[j].host = host[j] /\ state[j] # "none"
  BY DEF Rows, Recent, Exists
<1>. QED
  BY <1>1, <1>2, RecentFits DEF Past

\* A job that has ended stays ended, and keeps its host unless it may be late or the
\* administration has changed it.
LEMMA EndedStays ==
  ASSUME ServerOK, ServerStep
  PROVE  /\ ServerOK'
         /\ \A j \in Jobs : state[j] \notin Open \cup {"none"} =>
              /\ state'[j] \notin Open \cup {"none"}
              /\ kind'[j] = kind[j]
              /\ state[j] = "deleted" => state'[j] = "deleted"
              /\ state'[j] = "deleted" \/ MayBeLate(j) \/ j \in edited' \/ host'[j] = host[j]
         /\ edited \subseteq edited'
<1>1. CASE History
  <2>. DEFINE Kept == \A j \in Jobs : state[j] \notin Open \cup {"none"} =>
                        /\ state'[j] \notin Open \cup {"none"} /\ kind'[j] = kind[j]
                        /\ state[j] = "deleted" => state'[j] = "deleted"
              Typed == state' \in [Jobs -> States] /\ kind' \in [Jobs -> {"manual", "scheduled"}]
  <2>. SUFFICES Kept /\ Typed
    <3>1. PICK a \in Addresses \cup {NoHost} :
            host' = [j \in Jobs |-> IF state'[j] = "deleted" THEN NoHost
                                   ELSE IF state[j] = "none" /\ state'[j] # "none" THEN a
                                   ELSE host[j]]
      BY <1>1 DEF History
    <3>2. host' \in [Jobs -> Addresses \cup {NoHost}]
      BY <3>1 DEF ServerOK
    <3>3. \A j \in Jobs : state[j] # "none" => state'[j] = "deleted" \/ host'[j] = host[j]
      BY <3>1
    <3>4. UNCHANGED <<scheduleOn, edited>>
      BY <1>1 DEF History, page
    <3>. QED
      BY <3>2, <3>3, <3>4 DEF ServerOK
  <2>. USE DEF ServerOK, States, Open
  <2>1. ASSUME NEW j \in Jobs, NEW k \in {"manual", "scheduled"},
               NEW s \in {"pending", "running", "failed"}, Lifecycle!Open(j, k, s)
        PROVE  Kept /\ Typed
    BY <2>1 DEF Lifecycle!Open
  <2>2. ASSUME NEW j \in Jobs, Lifecycle!Start(j) PROVE Kept /\ Typed
    BY <2>2 DEF Lifecycle!Start
  <2>3. ASSUME NEW j \in Jobs, NEW o \in Lifecycle!Outcome,
               Lifecycle!Finish(j, o) \/ Lifecycle!Revise(j, o)
        PROVE  Kept /\ Typed
    BY <2>3 DEF Lifecycle!Finish, Lifecycle!Revise, Lifecycle!Outcome
  <2>4. ASSUME NEW S \in SUBSET Jobs, Lifecycle!Remove(S) PROVE Kept /\ Typed
    BY <2>4 DEF Lifecycle!Remove
  <2>. QED
    BY <1>1, <2>1, <2>2, <2>3, <2>4 DEF History, Lifecycle!LNext
<1>2. CASE Toggle
  BY <1>2 DEF Toggle, ServerOK, history, page
<1>3. ASSUME NEW j \in Jobs, NEW a \in Addresses, Attach(j, a)
      PROVE  /\ ServerOK' /\ UNCHANGED <<state, kind, edited>>
             /\ \A k \in Jobs : state[k] \notin Open \cup {"none"} =>
                  state[k] = "deleted" \/ MayBeLate(k) \/ host'[k] = host[k]
  BY <1>3 DEF Attach, ServerOK, history, page, Open, Lifecycle!Outcome
<1>4. ASSUME NEW S \in SUBSET Jobs, NEW a \in Addresses \cup {NoHost}, EditHost(S, a)
      PROVE  /\ ServerOK' /\ UNCHANGED <<state, kind>> /\ edited \subseteq edited'
             /\ \A k \in Jobs : state[k] \in Open \/ k \in edited' \/ host'[k] = host[k]
  BY <1>4 DEF EditHost, ServerOK, history
<1>. QED
  BY <1>1, <1>2, <1>3, <1>4 DEF ServerStep

\* So what the server has answered stays true.
LEMMA PastStays ==
  ASSUME ServerOK, ServerStep, NEW rows, Past(rows)
  PROVE  Past(rows)'
<1>1. \A j \in DOMAIN rows : rows[j].status \notin Open => j \in Jobs /\ state[j] \notin Open \cup {"none"}
  BY DEF Past
<1>2. \A j \in Jobs : kind'[j] = kind[j] => (MayBeLate(j) <=> MayBeLate(j)')
  BY DEF MayBeLate
<1>. QED
  BY <1>1, <1>2, EndedStays DEF Past

(***************************************************************************)
(* The page.                                                               *)
(***************************************************************************)

LEMMA SamePrint ==
  ASSUME NEW a, NEW b, Fingerprint(a) = Fingerprint(b)
  PROVE  DOMAIN a = DOMAIN b /\ \A j \in DOMAIN a : a[j].status = b[j].status
<1>1. DOMAIN a = DOMAIN Fingerprint(a) /\ DOMAIN b = DOMAIN Fingerprint(b)
  BY DEF Fingerprint
<1>2. \A j \in DOMAIN a : Fingerprint(a)[j] = a[j].status
  BY DEF Fingerprint
<1>3. \A j \in DOMAIN b : Fingerprint(b)[j] = b[j].status
  BY DEF Fingerprint
<1>. QED
  BY <1>1, <1>2, <1>3

LEMMA InitGivesHInv == Init => HInv
<1>. SUFFICES ASSUME Init PROVE HInv
  OBVIOUS
<1>1. ServerOK
  BY DEF Init, ServerOK, Lifecycle!LInit, States
<1>2. OneRequest
  BY DEF Init, OneRequest
<1>3. PageOK
  BY <1>1, RowsArePast DEF Init, PageOK
<1>4. WatchedWhileOpen
  <2>1. DOMAIN shown = Recent /\ Recent = {}
    BY DEF Init, Rows, Recent, Exists, Lifecycle!LInit
  <2>. QED
    BY <2>1 DEF WatchedWhileOpen, ShownOpen
<1>. QED
  BY <1>1, <1>2, <1>3, <1>4 DEF HInv

LEMMA StepKeepsHInv == HInv /\ [Next]_vars => HInv'
<1>. SUFFICES ASSUME HInv, [Next]_vars PROVE HInv'
  OBVIOUS
<1>. USE DEF HInv
<1>1. CASE ServerStep
  <2>1. UNCHANGED <<shown, print, pollActive, timer, asked, answers, failed>>
    BY <1>1 DEF ServerStep, History, Toggle, Attach, EditHost, page
  <2>2. Past(shown)' /\ \A rows \in answers' : Past(rows)'
    BY <1>1, <2>1, PastStays DEF PageOK
  <2>3. \A rows \in answers' : Newer(rows)'
    BY <2>1 DEF PageOK, Newer, ShownClosed
  <2>. QED
    BY <1>1, <2>1, <2>2, <2>3, EndedStays
       DEF PageOK, OneRequest, WatchedWhileOpen, ShownOpen, Fingerprint
<1>2. CASE Load
  <2>1. UNCHANGED <<state, kind, host, scheduleOn>>
    BY <1>2 DEF Load, server, history
  <2>2. Past(shown)' /\ edited' = {}
    <3>1. Past(Rows) /\ DOMAIN Rows = Recent
      BY RowsArePast DEF Rows
    <3>2. \A j \in Recent : Rows[j].host = host[j]
      BY DEF Rows
    <3>3. shown' = Rows /\ edited' = {}
      BY <1>2 DEF Load
    <3>. QED
      BY <2>1, <3>1, <3>2, <3>3 DEF Past, MayBeLate
  <2>3. PageOK'
    <3>1. Fingerprint(shown)' = Fingerprint(Rows)
      BY <1>2 DEF Load, Fingerprint
    <3>. QED
      BY <1>2, <2>2, <3>1 DEF Load, PageOK
  <2>4. WatchedWhileOpen'
    BY <1>2 DEF Load, WatchedWhileOpen, ShownOpen, HasRunning, ScheduleNextPoll
  <2>. QED
    BY <1>2, <2>1, <2>3, <2>4 DEF Load, ServerOK, OneRequest, ScheduleNextPoll, HasRunning
<1>3. CASE Poll
  <2>1. UNCHANGED <<state, kind, host, scheduleOn, shown, print, answers, edited>>
    BY <1>3 DEF Poll, server, history
  <2>2. timer /\ timer' = FALSE /\ asked' = 1 /\ answers = {}
        /\ UNCHANGED <<pollActive, failed>>
    BY <1>3 DEF Poll, OneRequest
  <2>3. PageOK'
    BY <2>1 DEF PageOK, Past, Newer, MayBeLate, ShownClosed, Fingerprint
  <2>4. WatchedWhileOpen'
    BY <2>2 DEF WatchedWhileOpen
  <2>5. ServerOK'
    BY <2>1 DEF ServerOK
  <2>6. OneRequest'
    BY <2>1, <2>2 DEF OneRequest
  <2>. QED
    BY <2>3, <2>4, <2>5, <2>6
<1>4. CASE Answer
  <2>1. UNCHANGED <<state, kind, host, scheduleOn, shown, print, edited>>
    BY <1>4 DEF Answer, server, history
  <2>2. answers' = {Rows} /\ asked' = 0
    BY <1>4 DEF Answer, OneRequest
  <2>3. Past(Rows) /\ Past(shown)
    BY RowsArePast DEF PageOK
  <2>4. Newer(Rows)
    <3>1. \A j \in DOMAIN Rows : Rows[j].status = state[j]
      BY DEF Rows
    <3>2. \A j \in Jobs : ShownClosed(j) => state[j] \notin Open
      BY <2>3 DEF Past, ShownClosed
    <3>. QED
      BY <2>3, <3>1, <3>2 DEF Newer, Past
  <2>5. PageOK'
    <3>1. Past(shown)' /\ \A rows \in answers' : Past(rows)' /\ Newer(rows)'
      BY <2>1, <2>2, <2>3, <2>4 DEF Past, MayBeLate, Newer, ShownClosed
    <3>. QED
      BY <2>1, <3>1 DEF PageOK, Fingerprint
  <2>. QED
    BY <1>4, <2>1, <2>2, <2>5 DEF Answer, ServerOK, OneRequest, WatchedWhileOpen, ShownOpen
<1>5. ASSUME NEW rows \in answers, Render(rows) PROVE HInv'
  <2>1. UNCHANGED <<state, kind, host, scheduleOn, pollActive, asked, failed, edited>>
    BY <1>5 DEF Render, server, history
  <2>2. answers' = {} /\ asked = 0
    BY <1>5 DEF Render, OneRequest
  <2>3. timer' = (HasRunning(rows) \/ pollActive)
    BY <1>5 DEF Render, ScheduleNextPoll
  <2>4. Past(rows)
    BY DEF PageOK
  <2>5. CASE Fingerprint(rows) \in print
    <3>1. UNCHANGED <<shown, print>>
      BY <1>5, <2>5 DEF Render
    <3>2. DOMAIN rows = DOMAIN shown /\ \A j \in DOMAIN rows : rows[j].status = shown[j].status
      BY <2>5, SamePrint DEF PageOK
    <3>3. PageOK'
      BY <2>1, <2>2, <3>1 DEF PageOK, Past, MayBeLate, Fingerprint
    <3>4. WatchedWhileOpen'
      BY <2>3, <3>1, <3>2 DEF WatchedWhileOpen, ShownOpen, HasRunning
    <3>. QED
      BY <2>1, <2>2, <2>3, <3>3, <3>4 DEF ServerOK, OneRequest, HasRunning
  <2>6. CASE Fingerprint(rows) \notin print
    <3>1. shown' = rows /\ print' = {Fingerprint(rows)}
      BY <1>5, <2>6 DEF Render
    <3>2. PageOK'
      BY <2>1, <2>2, <2>4, <3>1 DEF PageOK, Past, MayBeLate, Fingerprint
    <3>3. WatchedWhileOpen'
      BY <2>3, <3>1 DEF WatchedWhileOpen, ShownOpen, HasRunning
    <3>. QED
      BY <2>1, <2>2, <2>3, <3>2, <3>3 DEF ServerOK, OneRequest, HasRunning
  <2>. QED
    BY <2>5, <2>6
<1>6. CASE RequestFails
  <2>1. UNCHANGED <<state, kind, host, scheduleOn, shown, print, pollActive, answers, edited>>
    BY <1>6 DEF RequestFails, server, history
  <2>2. timer' = pollActive /\ failed' = TRUE /\ asked' = 0 /\ asked = 1
    BY <1>6 DEF RequestFails, ScheduleNextPoll, OneRequest
  <2>3. PageOK'
    BY <2>1 DEF PageOK, Past, Newer, MayBeLate, ShownClosed, Fingerprint
  <2>. QED
    BY <2>1, <2>2, <2>3 DEF ServerOK, OneRequest, WatchedWhileOpen
<1>7. CASE UNCHANGED vars
  <2>1. UNCHANGED <<state, kind, host, scheduleOn, shown, print, pollActive, timer, asked,
                    answers, failed, edited>>
    BY <1>7 DEF vars, server, page, history
  <2>. QED
    BY <2>1 DEF ServerOK, OneRequest, PageOK, Past, Newer, MayBeLate, ShownClosed, Fingerprint,
       WatchedWhileOpen, ShownOpen
<1>. QED
  BY <1>1, <1>2, <1>3, <1>4, <1>5, <1>6, <1>7 DEF Next, Receive, ServerStep

LEMMA HInvariance == Spec => []HInv
BY InitGivesHInv, StepKeepsHInv, PTL DEF Spec

\* The table never has more rows than it may, and requests do not overtake each other.
THEOREM TypeCorrect == Spec => []TypeOK
<1>1. HInv => TypeOK
  <2>. SUFFICES ASSUME HInv PROVE Cardinality(answers) <= 1
    BY DEF HInv, TypeOK, ServerOK, OneRequest, PageOK, Past
  <2>1. answers = {} \/ \E r \in answers : answers = {r}
    BY DEF HInv, OneRequest
  <2>. QED
    BY <2>1, FS_EmptySet, FS_Singleton
<1>. QED
  BY <1>1, HInvariance, PTL

\* A page that shows an open job goes on asking, unless a request has failed on a page
\* without a schedule.
THEOREM OpenIsWatched == Spec => []WatchedWhileOpen
BY HInvariance, PTL DEF HInv

\* The row of a finished job names its host, although the fingerprint ignores it, unless
\* it may be late or the administration has changed that host since the page was loaded.
THEOREM ClosedIsComplete == Spec => []ClosedRowsComplete
<1>1. HInv => ClosedRowsComplete
  BY DEF HInv, PageOK, Past, ClosedRowsComplete, ShownClosed, Exists
<1>. QED
  BY <1>1, HInvariance, PTL

\* What a page has shown as finished it never shows as open again.
THEOREM NothingReopens == Spec => NeverReopens
<1>1. ASSUME HInv, [Next]_vars, NEW j \in Jobs, ShownClosed(j), j \in DOMAIN shown'
      PROVE  shown'[j].status \notin Open
  <2>1. CASE \E rows \in answers : Render(rows)
    BY <1>1, <2>1 DEF HInv, PageOK, Newer, Render, ShownClosed
  <2>2. CASE Load
    <3>1. shown' = Rows /\ state[j] \notin Open
      BY <1>1, <2>2 DEF Load, HInv, PageOK, Past, ShownClosed
    <3>. QED
      BY <1>1, <3>1 DEF Rows
  <2>3. CASE UNCHANGED shown
    BY <1>1, <2>3 DEF ShownClosed
  <2>. QED
    BY <1>1, <2>1, <2>2, <2>3 DEF Next, vars, page, Receive, History, Toggle, Attach, EditHost,
       Poll, Answer, RequestFails
<1>2. HInv /\ [Next]_vars =>
        [\A j \in Jobs : ShownClosed(j) /\ j \in DOMAIN shown' =>
           shown'[j].status \notin Open]_vars
  BY <1>1
<1>. QED
  BY <1>2, HInvariance, PTL DEF Spec, NeverReopens

================================================================================
