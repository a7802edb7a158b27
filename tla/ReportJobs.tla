------------------------------ MODULE ReportJobs ------------------------------
(***************************************************************************)
(* Weekly report jobs: the worker's report loop, the two database tables   *)
(* it shares with the web process, and the DOCX files in the report        *)
(* directory (reporting/jobs.py, reporting/schedule.py, the candidate half *)
(* of reporting/docx.py, the regenerate handler of web/reports.py).        *)
(*                                                                         *)
(* An attempt is named by the instant `at` it reads from the clock; the    *)
(* bytes it renders, its job's finished_at and its row's generated_at all  *)
(* carry that stamp, and 0 stands for NULL or for a file that is absent.   *)
(*                                                                         *)
(* Every database transaction has one of three outcomes: it commits and    *)
(* the caller knows ("ok"), nothing lands and the caller sees an exception *)
(* ("error"), or it lands and the caller sees an exception ("lost").       *)
(***************************************************************************)
EXTENDS Integers, FiniteSets

CONSTANTS
  MaxWeek,      \* statistics weeks that end during a behaviour
  Requesters,   \* regenerate requests of the web process, one POST each
  MaxJobs,      \* report_jobs ids available
  MaxFaults     \* database failures, disk failures and crashes that happen

ASSUME JobsAssumption ==
  /\ MaxWeek \in Nat \ {0}
  /\ IsFiniteSet(Requesters)
  /\ MaxJobs \in Nat
  /\ MaxJobs >= MaxWeek + Cardinality(Requesters)
  /\ MaxFaults \in Nat

Weeks == 1 .. MaxWeek
Jobs == 1 .. MaxJobs
NoJob == 0

VARIABLES
  job,        \* report_jobs, by id
  row,        \* weekly_reports, by week
  current,    \* the stamp of the bytes at the week's current DOCX path
  candidate,  \* the stamp of the bytes at the job's candidate path
  pc,         \* where the report loop thread is
  wjob,       \* the job it is executing
  cleared,    \* jobs whose marker the open reconciliation has cleared
  web,        \* the regenerate requests
  completed,  \* how many weeks are past their Monday 00:10
  clock,      \* the stamp of the latest attempt
  faults      \* failures so far

tables == <<job, row>>
files == <<current, candidate>>
loop == <<pc, wjob, cleared>>
vars == <<job, row, current, candidate, pc, wjob, cleared, web, completed, clock, faults>>

ActiveStatuses == {"pending", "running", "failed"}

JobRecords == [status: ActiveStatuses \union {"none", "succeeded"},
               week_code: 0 .. MaxWeek,
               next_retry: {"null", "now", "later"},
               finished_at: Nat,
               last_error: {"null", "error", "install_pending"}]

RowRecords == [status: {"none", "failed", "success"}, generated_at: Nat]

WorkerPCs == {"idle", "reconcile", "ensure", "due", "build", "commit", "verify",
              "install", "mark_pending", "discard", "record", "requeue"}

WebPCs == {"new", "insert", "select", "answered", "assertion_error"}

TypeOK ==
  /\ job \in [Jobs -> JobRecords]
  /\ row \in [Weeks -> RowRecords]
  /\ current \in [Weeks -> Nat]
  /\ candidate \in [Jobs -> Nat]
  /\ pc \in WorkerPCs
  /\ wjob \in Jobs \union {NoJob}
  /\ cleared \subseteq Jobs
  /\ web \in [Requesters -> [pc: WebPCs, week: 0 .. MaxWeek]]
  /\ completed \in 0 .. MaxWeek
  /\ clock \in Nat
  /\ faults \in 0 .. MaxFaults

Init ==
  /\ job = [j \in Jobs |-> [status |-> "none", week_code |-> 0, next_retry |-> "null",
                            finished_at |-> 0, last_error |-> "null"]]
  /\ row = [w \in Weeks |-> [status |-> "none", generated_at |-> 0]]
  /\ current = [w \in Weeks |-> 0]
  /\ candidate = [j \in Jobs |-> 0]
  /\ pc = "idle" /\ wjob = NoJob /\ cleared = {}
  /\ web = [r \in Requesters |-> [pc |-> "new", week |-> 0]]
  /\ completed = 0
  /\ clock = 0
  /\ faults = 0

------------------------------------------------------------------------------
(* What each transaction does to a report_jobs record. *)

\* (The definitions named *_Faulty are deliberate mistakes: each stands for a bug that
\* would break the property PROJECT.json pairs it with. No specification uses them.)
Fresh_Faulty(w) == [status |-> "pending", week_code |-> w + 1, next_retry |-> "now",
                    finished_at |-> 0, last_error |-> "null"]
Fresh(w) == [status |-> "pending", week_code |-> w, next_retry |-> "now",
             finished_at |-> 0, last_error |-> "null"]
Started(r) == [r EXCEPT !.status = "running", !.next_retry = "null"]
Succeeded(r, at) == [r EXCEPT !.status = "succeeded", !.last_error = "null",
                              !.next_retry = "null", !.finished_at = at]
Failed(r) == [r EXCEPT !.status = "failed", !.last_error = "error", !.next_retry = "later"]
Requeued(r, when) == [r EXCEPT !.status = "pending", !.last_error = "error",
                               !.next_retry = when]
Marked(r, marker) == [r EXCEPT !.last_error = marker]
Ripened(r) == [r EXCEPT !.next_retry = "now"]

------------------------------------------------------------------------------
(* Helpers of the two tables. *)

Outcomes == {"ok", "error", "lost"}
Lands(o) == o # "error"

\* A step whose outcome is not "ok" uses up one of the behaviour's failures.
Spend(o) ==
  /\ o = "ok" \/ faults < MaxFaults
  /\ faults' = IF o = "ok" THEN faults ELSE faults + 1

Active(j) == job[j].status \in ActiveStatuses
ActiveWeek(w) == \E j \in Jobs : Active(j) /\ job[j].week_code = w

\* The insert without the unique index: a bare check-then-insert.
InsertJob_Faulty(w) ==
  \E j \in Jobs :
    /\ job[j].status = "none"
    /\ \A i \in Jobs : i < j => job[i].status # "none"
    /\ job' = [job EXCEPT ![j] = Fresh(w)]

\* INSERT ... ON CONFLICT DO NOTHING on the partial unique index of active jobs.
InsertJob(w) ==
  IF ActiveWeek(w)
  THEN UNCHANGED job
  ELSE \E j \in Jobs :
         /\ job[j].status = "none"
         /\ \A i \in Jobs : i < j => job[i].status # "none"
         /\ job' = [job EXCEPT ![j] = Fresh(w)]

\* Any success of the week counts, superseded or not.
AuthorizesInstall_Faulty(j) ==
  /\ job[j].status = "succeeded"
  /\ row[job[j].week_code].status = "success"

\* The job is the generation behind its week's current success.
AuthorizesInstall(j) ==
  /\ job[j].status = "succeeded"
  /\ job[j].finished_at # 0
  /\ row[job[j].week_code].status = "success"
  /\ row[job[j].week_code].generated_at = job[j].finished_at

\* Failed jobs are never picked up again.
DueJobs_Faulty == {j \in Jobs : job[j].status = "pending" /\ job[j].next_retry # "later"}

DueJobs ==
  {j \in Jobs : job[j].status \in {"pending", "failed"} /\ job[j].next_retry # "later"}

Executing == {"build", "commit", "verify", "install", "mark_pending", "discard",
              "record", "requeue"}

\* The attempt is over and run_due asks for the next due job.
BackToDue == pc' = "due" /\ wjob' = NoJob /\ UNCHANGED cleared

\* An exception leaves the pass, or the worker restarts: thread state is gone.
LeavePass == pc' = "idle" /\ wjob' = NoJob /\ cleared' = {}

------------------------------------------------------------------------------
(* One pass of the report loop, up to the due jobs. *)

\* Everything without a retry time is taken for a leftover.
RecoverStaleRunningJobs_Faulty(o) ==
  /\ pc = "idle"
  /\ Spend(o)
  /\ IF Lands(o)
     THEN job' = [j \in Jobs |-> IF job[j].next_retry = "null" /\ job[j].status # "none"
                                THEN Requeued(job[j], "now") ELSE job[j]]
     ELSE UNCHANGED job
  /\ IF o = "ok" THEN pc' = "reconcile" /\ UNCHANGED <<wjob, cleared>> ELSE LeavePass
  /\ UNCHANGED <<row, files, web, completed, clock>>

RecoverStaleRunningJobs(o) ==
  /\ pc = "idle"
  /\ Spend(o)
  /\ IF Lands(o)
     THEN job' = [j \in Jobs |->
                    IF job[j].status = "running" THEN Requeued(job[j], "now") ELSE job[j]]
     ELSE UNCHANGED job
  /\ IF o = "ok" THEN pc' = "reconcile" /\ UNCHANGED <<wjob, cleared>> ELSE LeavePass
  /\ UNCHANGED <<row, files, web, completed, clock>>

\* Only candidates of finished jobs are looked at.
ReconcileCandidate_Faulty(j) ==
  /\ pc = "reconcile"
  /\ job[j].status = "succeeded"
  /\ candidate[j] # 0
  /\ current' = [current EXCEPT ![job[j].week_code] = candidate[j]]
  /\ candidate' = [candidate EXCEPT ![j] = 0]
  /\ cleared' = cleared \union {j}
  /\ UNCHANGED <<tables, pc, wjob, web, completed, clock, faults>>

\* Complete or discard one candidate; the marker is cleared in the open session.
ReconcileCandidate(j) ==
  /\ pc = "reconcile"
  /\ candidate[j] # 0
  /\ current' = IF AuthorizesInstall(j)
                THEN [current EXCEPT ![job[j].week_code] = candidate[j]]
                ELSE current
  /\ candidate' = [candidate EXCEPT ![j] = 0]
  /\ cleared' = IF job[j].status = "succeeded" /\ job[j].last_error # "null"
                THEN cleared \union {j}
                ELSE cleared
  /\ UNCHANGED <<tables, pc, wjob, web, completed, clock, faults>>

\* os.replace, unlink or a query raises: the pass ends, the session rolls back.
ReconcileFails ==
  /\ pc = "reconcile"
  /\ Spend("error")
  /\ LeavePass
  /\ UNCHANGED <<tables, files, web, completed, clock>>

\* Markers without a candidate: the switch is done, or a newer success superseded it.
CompletedInstallPending ==
  {j \in Jobs :
     /\ job[j].status = "succeeded"
     /\ job[j].last_error = "install_pending"
     /\ candidate[j] = 0
     /\ LET r == row[job[j].week_code] IN
          IF AuthorizesInstall(j)
          THEN current[job[j].week_code] # 0
          ELSE r.status = "success" /\ r.generated_at > job[j].finished_at}

ReconcileCommit(o) ==
  /\ pc = "reconcile"
  /\ \A j \in Jobs : candidate[j] = 0
  /\ Spend(o)
  /\ IF Lands(o)
     THEN job' = [j \in Jobs |-> IF j \in cleared \union CompletedInstallPending
                                 THEN Marked(job[j], "null")
                                 ELSE job[j]]
     ELSE UNCHANGED job
  /\ IF o = "ok" THEN pc' = "ensure" /\ cleared' = {} /\ UNCHANGED wjob ELSE LeavePass
  /\ UNCHANGED <<row, files, web, completed, clock>>

\* The period before the previous one is scheduled.
EnsureScheduledJob_Faulty(o) ==
  /\ pc = "ensure"
  /\ Spend(o)
  /\ IF completed <= 1 \/ ~Lands(o) THEN UNCHANGED job ELSE InsertJob(completed - 1)
  /\ IF o = "ok" THEN pc' = "due" /\ UNCHANGED <<wjob, cleared>> ELSE LeavePass
  /\ UNCHANGED <<row, files, web, completed, clock>>

\* Only the latest completed week is looked at; a success row ends the matter.
EnsureScheduledJob(o) ==
  /\ pc = "ensure"
  /\ Spend(o)
  /\ IF completed = 0 \/ ~Lands(o)
     THEN UNCHANGED job
     ELSE IF row[completed].status = "success"
          THEN UNCHANGED job
          ELSE InsertJob(completed)
  /\ IF o = "ok" THEN pc' = "due" /\ UNCHANGED <<wjob, cleared>> ELSE LeavePass
  /\ UNCHANGED <<row, files, web, completed, clock>>

\* due_jobs is empty: the pass is over and the loop sleeps.
NothingDue ==
  /\ pc = "due"
  /\ DueJobs = {}
  /\ LeavePass
  /\ UNCHANGED <<tables, files, web, completed, clock, faults>>

------------------------------------------------------------------------------
(* execute_report_job, for the oldest due job. *)

MarkRunning(j, o) ==
  /\ pc = "due"
  /\ j \in DueJobs
  /\ \A i \in DueJobs : j <= i
  /\ Spend(o)
  /\ clock' = clock + 1
  /\ IF Lands(o)
     THEN job' = [job EXCEPT ![j] = Started(job[j])]
     ELSE UNCHANGED job
  /\ IF o = "ok" THEN pc' = "build" /\ wjob' = j /\ UNCHANGED cleared ELSE LeavePass
  /\ UNCHANGED <<row, files, web, completed>>

\* Read the statistics, render, validate, rename to the job-bound candidate.
RenderCandidate ==
  /\ pc = "build"
  /\ candidate' = [candidate EXCEPT ![wjob] = clock]
  /\ pc' = "commit"
  /\ UNCHANGED <<tables, current, wjob, cleared, web, completed, clock, faults>>

BuildFails ==
  /\ pc = "build"
  /\ Spend("error")
  /\ pc' = "record"
  /\ UNCHANGED <<tables, files, wjob, cleared, web, completed, clock>>

\* One transaction: the week's success row and the job's terminal status.
MarkSuccess(o) ==
  /\ pc = "commit"
  /\ Spend(o)
  /\ IF Lands(o)
     THEN /\ row' = [row EXCEPT ![job[wjob].week_code] =
                       [status |-> "success", generated_at |-> clock]]
          /\ job' = [job EXCEPT ![wjob] = Succeeded(job[wjob], clock)]
     ELSE UNCHANGED tables
  /\ pc' = IF o = "ok" THEN "install" ELSE "verify"
  /\ UNCHANGED <<files, wjob, cleared, web, completed, clock>>

\* An exception from the commit is taken to mean that nothing was committed.
SuccessCommitted_Faulty == FALSE

SuccessCommitted ==
  /\ job[wjob].status = "succeeded"
  /\ job[wjob].finished_at = clock
  /\ row[job[wjob].week_code] = [status |-> "success", generated_at |-> clock]

SuccessCommitState ==
  /\ pc = "verify"
  /\ pc' = IF SuccessCommitted THEN "install" ELSE "discard"
  /\ UNCHANGED <<tables, files, wjob, cleared, web, completed, clock, faults>>

\* The query fails too: nothing is recorded and the candidate is kept.
CommitStateUnknown ==
  /\ pc = "verify"
  /\ Spend("error")
  /\ BackToDue
  /\ UNCHANGED <<tables, files, web, completed, clock>>

InstallReport ==
  /\ pc = "install"
  /\ current' = [current EXCEPT ![job[wjob].week_code] = candidate[wjob]]
  /\ candidate' = [candidate EXCEPT ![wjob] = 0]
  /\ BackToDue
  /\ UNCHANGED <<tables, web, completed, clock, faults>>

\* A failed switch cleans its candidate up.
InstallFails_Faulty ==
  /\ pc = "install"
  /\ Spend("error")
  /\ candidate' = [candidate EXCEPT ![wjob] = 0]
  /\ pc' = "mark_pending"
  /\ UNCHANGED <<tables, current, wjob, cleared, web, completed, clock>>

InstallFails ==
  /\ pc = "install"
  /\ Spend("error")
  /\ pc' = "mark_pending"
  /\ UNCHANGED <<tables, files, wjob, cleared, web, completed, clock>>

\* Best effort: an exception is logged and swallowed.
RecordInstallPending(o) ==
  /\ pc = "mark_pending"
  /\ Spend(o)
  /\ job' = IF Lands(o) THEN [job EXCEPT ![wjob] = Marked(job[wjob], "install_pending")] ELSE job
  /\ BackToDue
  /\ UNCHANGED <<row, files, web, completed, clock>>

DiscardCandidate(o) ==
  /\ pc = "discard"
  /\ o \in {"ok", "error"}
  /\ Spend(o)
  /\ candidate' = IF o = "ok" THEN [candidate EXCEPT ![wjob] = 0] ELSE candidate
  /\ pc' = "record"
  /\ UNCHANGED <<tables, current, wjob, cleared, web, completed, clock>>

\* A success is never degraded, neither the job's nor the week's.
MarkFailure(o) ==
  /\ pc = "record"
  /\ Spend(o)
  /\ IF Lands(o) /\ job[wjob].status # "succeeded"
     THEN /\ job' = [job EXCEPT ![wjob] = Failed(job[wjob])]
          /\ row' = [row EXCEPT ![job[wjob].week_code] =
                       IF @.status = "none" THEN [@ EXCEPT !.status = "failed"] ELSE @]
     ELSE UNCHANGED tables
  /\ IF o = "ok" THEN BackToDue ELSE pc' = "requeue" /\ UNCHANGED <<wjob, cleared>>
  /\ UNCHANGED <<files, web, completed, clock>>

\* The failure update raised: put a job that is still running back in the queue.
RequeueUnrecorded(o) ==
  /\ pc = "requeue"
  /\ Spend(o)
  /\ IF Lands(o) /\ job[wjob].status = "running"
     THEN job' = [job EXCEPT ![wjob] = Requeued(job[wjob], "later")]
     ELSE UNCHANGED job
  /\ BackToDue
  /\ UNCHANGED <<row, files, web, completed, clock>>

\* The worker process dies anywhere and its container restarts it.
Crash ==
  /\ pc # "idle"
  /\ Spend("error")
  /\ LeavePass
  /\ UNCHANGED <<tables, files, web, completed, clock>>

------------------------------------------------------------------------------
(* POST /reports/{week}/regenerate, and the passing of time. *)

\* An incomplete week is refused; an active job is returned unchanged.
RequestRegenerate(r, w) ==
  /\ web[r].pc = "new"
  /\ w <= completed
  /\ web' = [web EXCEPT ![r] = [pc |-> IF ActiveWeek(w) THEN "answered" ELSE "insert",
                                week |-> w]]
  /\ UNCHANGED <<tables, files, loop, completed, clock, faults>>

RequestInsert(r) ==
  /\ web[r].pc = "insert"
  /\ InsertJob(web[r].week)
  /\ web' = [web EXCEPT ![r].pc = "select"]
  /\ UNCHANGED <<row, files, loop, completed, clock, faults>>

\* _insert_job reads the active job back and asserts that there is one.
RequestSelect(r) ==
  /\ web[r].pc = "select"
  /\ web' = [web EXCEPT ![r].pc =
               IF ActiveWeek(web[r].week) THEN "answered" ELSE "assertion_error"]
  /\ UNCHANGED <<tables, files, loop, completed, clock, faults>>

\* The request dies before or after its insert: database error, web restart.
RequestFails(r) ==
  /\ web[r].pc \in {"insert", "select"}
  /\ web' = [web EXCEPT ![r].pc = "answered"]
  /\ UNCHANGED <<tables, files, loop, completed, clock, faults>>

WeekCompletes ==
  /\ completed < MaxWeek
  /\ completed' = completed + 1
  /\ UNCHANGED <<tables, files, loop, web, clock, faults>>

\* Ten minutes pass and the job's next_retry_at is reached.
RetryTimeComes(j) ==
  /\ job[j].next_retry = "later"
  /\ job' = [job EXCEPT ![j] = Ripened(job[j])]
  /\ UNCHANGED <<row, files, loop, web, completed, clock, faults>>

------------------------------------------------------------------------------
WorkerStep ==
  \/ \E o \in Outcomes :
       \/ RecoverStaleRunningJobs(o)
       \/ ReconcileCommit(o)
       \/ EnsureScheduledJob(o)
       \/ \E j \in Jobs : MarkRunning(j, o)
       \/ MarkSuccess(o)
       \/ RecordInstallPending(o)
       \/ DiscardCandidate(o)
       \/ MarkFailure(o)
       \/ RequeueUnrecorded(o)
  \/ \E j \in Jobs : ReconcileCandidate(j)
  \/ ReconcileFails
  \/ NothingDue
  \/ RenderCandidate
  \/ BuildFails
  \/ SuccessCommitState
  \/ CommitStateUnknown
  \/ InstallReport
  \/ InstallFails
  \/ Crash

WebStep ==
  \E r \in Requesters :
    \/ \E w \in Weeks : RequestRegenerate(r, w)
    \/ RequestInsert(r)
    \/ RequestSelect(r)
    \/ RequestFails(r)

TimeStep == WeekCompletes \/ \E j \in Jobs : RetryTimeComes(j)

Next == WorkerStep \/ WebStep \/ TimeStep

Spec == Init /\ [][Next]_vars

\* The loop thread never stops taking passes and time never stops; nobody is
\* obliged to press "regenerate" and failures never have to happen.
Fairness ==
  /\ WF_vars(WorkerStep)
  /\ \A j \in Jobs : WF_vars(RetryTimeComes(j))

FairSpec == Spec /\ Fairness

------------------------------------------------------------------------------
(* Properties. *)

\* At most one pending, running or failed job exists per statistics week, whatever
\* the scheduler and concurrent regenerate requests do (jobs.py:11-12).
OneActiveJobPerWeek ==
  \A i, j \in Jobs :
    Active(i) /\ Active(j) /\ job[i].week_code = job[j].week_code => i = j

\* Crash consistency of commit and file switch (jobs.py:26-32): whenever the database
\* records a success whose bytes are not the current DOCX, the committing job's
\* candidate with exactly those bytes is still on disk for reconciliation to install.
OwedSwitchHasCandidate ==
  \A w \in Weeks :
    row[w].status = "success" /\ current[w] # row[w].generated_at
      => \E j \in Jobs : /\ job[j].week_code = w
                         /\ AuthorizesInstall(j)
                         /\ candidate[j] = row[w].generated_at

\* A committed success is final (jobs.py:33-35, 41-42): no recovery, failure record or
\* retry puts the job back to work or moves its commit instant, and the week's row
\* never leaves success.
SuccessIsTerminal ==
  [][/\ \A j \in Jobs : job[j].status = "succeeded" =>
           job'[j].status = "succeeded" /\ job'[j].finished_at = job[j].finished_at
     /\ \A w \in Weeks : row[w].status = "success" => row'[w].status = "success"]_vars

\* The document of a week only ever becomes the latest recorded generation, and
\* recorded generations only grow: no failed, interrupted or superseded attempt's
\* bytes are ever installed (SYSTEM_SPEC 4.4).
Promised ==
  INSTANCE ReportPromise WITH recorded <- [w \in Weeks |-> row[w].generated_at],
                              published <- current
KeepsPromise == Promised!Safety

\* Once the failures are over, the recorded generation of a week becomes its current
\* DOCX without a restart or another regenerate request.
Delivers == Promised!Delivery

\* Every job that enters the queue is eventually generated: a stranded running row,
\* a lost failure record and an unknown commit all end in a retry (jobs.py:15-18).
EveryJobSucceeds ==
  \A j \in Jobs : Active(j) ~> job[j].status = "succeeded"

\* The latest completed week gets its report unless the next week ends first.
CompletedWeekIsReported ==
  \A w \in Weeks : completed = w ~> row[w].status = "success" \/ completed > w

\* Reconciliation finishes what it owes: every candidate file is eventually installed or
\* removed, and the install-pending diagnosis does not outlive its cause (jobs.py:43-50, 670).
ReconciliationCompletes ==
  \A j \in Jobs :
    /\ candidate[j] # 0 ~> candidate[j] = 0
    /\ job[j].last_error = "install_pending" ~> job[j].last_error = "null"

\* The read-back after _insert_job finds a job: "the insert above either created or
\* found one" (jobs.py:205).
InsertFindsItsJob == \A r \in Requesters : web[r].pc # "assertion_error"

------------------------------------------------------------------------------
(* The inductive invariant behind the safety properties. *)

\* No stamp lies ahead of the clock, and the one of an attempt that has not reached
\* its success commit is not in the database yet.
StampsInPast ==
  /\ \A j \in Jobs : job[j].finished_at <= clock
  /\ \A w \in Weeks : row[w].generated_at <= clock
  /\ pc \in {"build", "commit"} =>
       /\ \A j \in Jobs : job[j].finished_at < clock
       /\ \A w \in Weeks : row[w].generated_at < clock

\* A job belongs to a real week, and finished_at is set exactly by its success.
JobsWellFormed ==
  \A j \in Jobs :
    /\ job[j].status # "none" => job[j].week_code \in Weeks
    /\ job[j].status = "succeeded" <=> job[j].finished_at # 0

\* No two jobs finish with the same stamp.
DistinctStamps ==
  \A i, j \in Jobs :
    job[i].finished_at = job[j].finished_at /\ job[i].finished_at # 0 => i = j

\* Every success row was written by a job of that week, and no other row has a stamp.
SuccessHasItsJob ==
  \A w \in Weeks :
    IF row[w].status = "success"
    THEN \E j \in Jobs : job[j].week_code = w /\ AuthorizesInstall(j)
    ELSE row[w].generated_at = 0

\* A candidate beside a committed success holds the bytes of that success.
CandidateIsOfItsSuccess ==
  \A j \in Jobs :
    /\ candidate[j] # 0 => job[j].status # "none"
    /\ job[j].status = "succeeded" /\ candidate[j] # 0 => candidate[j] = job[j].finished_at

\* What the thread may rely on at each point of an attempt.
AttemptState ==
  /\ pc \in Executing => wjob \in Jobs
  /\ pc \in {"build", "commit", "discard", "record"} => job[wjob].status = "running"
  /\ pc \in {"commit", "verify", "install", "mark_pending"} =>
       candidate[wjob] = clock /\ clock # 0
  /\ pc = "verify" => job[wjob].status = "running" \/ SuccessCommitted
  /\ pc \in {"install", "mark_pending"} => SuccessCommitted
  /\ pc = "requeue" => job[wjob].status \in {"running", "failed"}

RequestsWellFormed ==
  \A r \in Requesters : web[r].pc # "new" => web[r].week \in Weeks

IInv ==
  /\ TypeOK
  /\ StampsInPast
  /\ JobsWellFormed
  /\ DistinctStamps
  /\ SuccessHasItsJob
  /\ CandidateIsOfItsSuccess
  /\ AttemptState
  /\ RequestsWellFormed
  /\ OneActiveJobPerWeek
  /\ OwedSwitchHasCandidate

===============================================================================
