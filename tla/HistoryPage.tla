------------------------------ MODULE HistoryPage ------------------------------
(***************************************************************************)
(* The history on the page of one equipment, in one browser: the server    *)
(* renders the last jobs, then the script asks for them again as long as   *)
(* one of them is open or a schedule was enabled when the page was loaded. *)
(* The history itself changes as JobLifecycle lets it; the hosts it names  *)
(* are rows of their own, which the administration edits and deletes.      *)
(*                                                                         *)
(* The delays of 10 and 20 seconds are abstracted to "some time later".    *)
(***************************************************************************)
EXTENDS Naturals, FiniteSets

CONSTANTS
  MaxJobs,   \* bound: the jobs of the equipment, numbered in the order of started_at
  Limit,     \* how many the page shows: 5
  Addresses, \* bound: the addresses a host may have
  NoHost,    \* shown as a dash
  Late       \* see JobLifecycle

ASSUME HistoryAssumption == MaxJobs \in Nat /\ Limit \in Nat /\ Late \in BOOLEAN

Jobs == 1..MaxJobs

VARIABLES
  state, kind, closed,   \* the rows of the history: JobLifecycle
  host,         \* the address of the host that the row of each job refers to
  scheduleOn,   \* is_enabled of the schedule
  shown,        \* the rows of the table on the page
  print,        \* lastFingerprint, in a set: empty when no answer can match it
  pollActive,   \* data-poll-active
  timer,        \* a poll is scheduled
  asked,        \* requests without an answer
  answers,      \* the answers that have not reached the script
  failed,       \* a request of this page has failed
  edited        \* the finished jobs whose host was edited or deleted since the page was loaded

history == <<state, kind, closed>>
server  == <<history, host, scheduleOn>>
page    == <<shown, print, pollActive, timer, asked, answers, failed, edited>>
vars    == <<server, page>>

Lifecycle == INSTANCE JobLifecycle WITH Job <- Jobs

Exists(j) == state[j] \notin {"none", "deleted"}
Open      == {"pending", "running"}

\* Seeded fault: one row more than fits.
FaultRecent == {j \in Jobs : Exists(j) /\ Cardinality({k \in Jobs : Exists(k) /\ k > j}) <= Limit}

\* recent_jobs_for_equipment: order_by("-started_at")[:5]
Recent == {j \in Jobs : Exists(j) /\ Cardinality({k \in Jobs : Exists(k) /\ k > j}) < Limit}

\* The rows the server answers, by the page or as JSON.
Rows == [j \in Recent |-> [status |-> state[j], host |-> host[j]]]

\* has_running: RUNNING or PENDING among the rows it answers.
HasRunning(rows) == \E j \in DOMAIN rows : rows[j].status \in Open

\* Seeded fault: the rows are told apart by their ids.
FaultFingerprint(rows) == DOMAIN rows

\* jobsFingerprint: id, status, message and date, but not the host.
Fingerprint(rows) == [j \in DOMAIN rows |-> rows[j].status]

\* Seeded fault: only the schedule of the page counts.
FaultScheduleNextPoll(active, hasRunning) == timer' = active

\* pollDelayMs, scheduleNextPoll: a delay of 0 is no poll.
ScheduleNextPoll(active, hasRunning) == timer' = (hasRunning \/ active)

--------------------------------------------------------------------------------
(* Seeded faults *)

\* setInterval in place of setTimeout: a request does not wait for the last one.
FaultPoll ==
  /\ timer /\ asked + Cardinality(answers) < 2
  /\ asked' = asked + 1
  /\ UNCHANGED <<server, shown, print, pollActive, timer, answers, failed, edited>>

\* Only the badge of a row that is there already is changed.
FaultRender(rows) ==
  /\ rows \in answers
  /\ answers' = answers \ {rows}
  /\ shown' = [j \in DOMAIN rows |-> [status |-> rows[j].status,
                 host |-> IF j \in DOMAIN shown THEN shown[j].host ELSE rows[j].host]]
  /\ print' = {Fingerprint(rows)}
  /\ ScheduleNextPoll(pollActive, HasRunning(rows))
  /\ UNCHANGED <<server, pollActive, asked, failed, edited>>

\* The promise has no catch.
FaultRequestFails ==
  /\ asked > 0
  /\ asked' = asked - 1 /\ failed' = TRUE
  /\ UNCHANGED <<server, shown, print, pollActive, timer, answers, edited>>

--------------------------------------------------------------------------------
(* The server *)

\* A step of the history; jobs are created in the order of their numbers, each with
\* the host of the form or of the schedule, or with none.
History ==
  /\ Lifecycle!LNext
  /\ \A j \in Jobs : state[j] = "none" /\ state'[j] # "none" =>
       \A k \in 1..(j - 1) : state[k] # "none"
  /\ \E a \in Addresses \cup {NoHost} :
       host' = [j \in Jobs |-> IF state'[j] = "deleted" THEN NoHost
                              ELSE IF state[j] = "none" /\ state'[j] # "none" THEN a ELSE host[j]]
  /\ UNCHANGED <<scheduleOn, page>>

\* A backup that may still be running when recovery has closed its row.
MayBeLate(j) == Late /\ kind[j] = "scheduled"

\* _attach_resolved_host: the HA adapter writes the member it found into the row.
Attach(j, a) ==
  /\ state[j] = "running" \/ (MayBeLate(j) /\ state[j] \in Lifecycle!Outcome)
  /\ host' = [host EXCEPT ![j] = a]
  /\ UNCHANGED <<history, scheduleOn, page>>

\* The administration edits the address of a host, or deletes it: the rows of all jobs
\* that refer to it, finished ones too, now name another address or none (SET_NULL).
EditHost(S, a) ==
  /\ \A j, k \in S : Exists(j) /\ host[j] # NoHost /\ host[j] = host[k]
  /\ host' = [j \in Jobs |-> IF j \in S THEN a ELSE host[j]]
  /\ edited' = edited \cup {j \in S : state[j] \notin Open}
  /\ UNCHANGED <<history, scheduleOn, shown, print, pollActive, timer, asked, answers, failed>>

\* equipment_schedule or the administration, by anyone.
Toggle ==
  /\ scheduleOn' = ~scheduleOn
  /\ UNCHANGED <<history, host, page>>

--------------------------------------------------------------------------------
(* The page *)

\* equipment_detail, then initBackupHistoryPolling. The fingerprint is made of the
\* labels of the page, which differ from the statuses unless there is no row.
Load ==
  /\ shown' = Rows
  /\ print' = IF Recent = {} THEN {Fingerprint(Rows)} ELSE {}
  /\ pollActive' = scheduleOn
  /\ ScheduleNextPoll(scheduleOn, HasRunning(Rows))
  /\ asked' = 0 /\ answers' = {} /\ failed' = FALSE /\ edited' = {}
  /\ UNCHANGED server

\* The timer runs out: refreshHistory sends its request.
Poll ==
  /\ timer
  /\ timer' = FALSE
  /\ asked' = asked + 1
  /\ UNCHANGED <<server, shown, print, pollActive, answers, failed, edited>>

\* equipment_jobs_json
Answer ==
  /\ asked > 0
  /\ asked' = asked - 1
  /\ answers' = answers \cup {Rows}
  /\ UNCHANGED <<server, shown, print, pollActive, timer, failed, edited>>

\* An answer is received: the table changes if its fingerprint does.
Render(rows) ==
  /\ rows \in answers
  /\ answers' = answers \ {rows}
  /\ IF Fingerprint(rows) \in print THEN UNCHANGED <<shown, print>>
     ELSE shown' = rows /\ print' = {Fingerprint(rows)}
  /\ ScheduleNextPoll(pollActive, HasRunning(rows))
  /\ UNCHANGED <<server, pollActive, asked, failed, edited>>

\* No answer, a status that is not ok, or the login page in place of JSON.
RequestFails ==
  /\ asked > 0
  /\ asked' = asked - 1 /\ failed' = TRUE
  /\ ScheduleNextPoll(pollActive, FALSE)
  /\ UNCHANGED <<server, shown, print, pollActive, answers, edited>>

--------------------------------------------------------------------------------
Init ==
  /\ Lifecycle!LInit
  /\ host = [j \in Jobs |-> NoHost]
  /\ scheduleOn \in BOOLEAN
  /\ shown = Rows /\ print = {Fingerprint(Rows)}
  /\ pollActive = scheduleOn /\ timer = scheduleOn
  /\ asked = 0 /\ answers = {} /\ failed = FALSE /\ edited = {}

Receive == \E rows \in answers : Render(rows)

Next ==
  \/ History \/ Toggle
  \/ \E j \in Jobs, a \in Addresses : Attach(j, a)
  \/ \E S \in SUBSET Jobs, a \in Addresses \cup {NoHost} : EditHost(S, a)
  \/ Load \/ Poll \/ Answer \/ Receive \/ RequestFails

Spec == Init /\ [][Next]_vars

\* Timers run out, answers that are sent arrive, and the server does not fail every
\* request for ever. Nothing is assumed of the jobs, of users or of the schedule.
FairSpec == Spec /\ WF_vars(Poll) /\ SF_vars(Answer) /\ WF_vars(Receive)

--------------------------------------------------------------------------------
(* Properties *)

ShownOpen(j)   == j \in DOMAIN shown /\ shown[j].status \in Open
ShownClosed(j) == j \in DOMAIN shown /\ shown[j].status \notin Open

\* Types; the table has at most Limit rows and one request is under way.
TypeOK ==
  /\ host \in [Jobs -> Addresses \cup {NoHost}] /\ edited \subseteq Jobs /\ scheduleOn \in BOOLEAN
  /\ DOMAIN shown \subseteq Jobs /\ Cardinality(DOMAIN shown) <= Limit
  /\ pollActive \in BOOLEAN /\ timer \in BOOLEAN /\ failed \in BOOLEAN
  /\ asked \in 0..1 /\ Cardinality(answers) <= 1

\* views.py:193: a page that shows an open job goes on asking. Only a request that
\* fails on a page without a schedule ends that (app.js:638): it is the one way in
\* which a page can show "En cours" for good.
WatchedWhileOpen ==
  (\E j \in Jobs : ShownOpen(j)) =>
    \/ timer \/ asked > 0 \/ answers # {}
    \/ failed /\ ~pollActive

\* A job that the page has shown as finished is not shown as open again: no answer
\* overtakes a newer one, and none is left over from before a reload.
NeverReopens ==
  [][\A j \in Jobs : ShownClosed(j) /\ j \in DOMAIN shown' => shown'[j].status \notin Open]_vars

\* The row of a finished job names the host that the server names for it: what the HA
\* adapter wrote while the job ran is shown when it has ended, although the fingerprint
\* ignores the host (app.js:513). Two things escape it: a backup that outlasts the
\* recovery of its row, and a host that the administration has edited or deleted after
\* the end of the job and since the page was loaded: its old address stays until a reload.
ClosedRowsComplete ==
  \A j \in Jobs :
    ShownClosed(j) /\ Exists(j) /\ ~MayBeLate(j) /\ j \notin edited => shown[j].host = host[j]

\* A job shown as open that has ended does not stay so, unless the page has given up.
OutcomeShown ==
  \A j \in Jobs : (ShownOpen(j) /\ state[j] \notin Open)
                  ~> (~ShownOpen(j) \/ (failed /\ ~pollActive))

\* A page with a schedule catches up with the history again and again, whatever
\* requests fail: jobs that the scheduler starts appear without a reload.
ScheduledPageCatchesUp == []<>(pollActive => Fingerprint(shown) = Fingerprint(Rows))

================================================================================
