--------------------------- MODULE ReportJobs_proofs ---------------------------
(***************************************************************************)
(* Proofs about ReportJobs, and about what a late commit cannot break      *)
(* (ReportJobsLateCommit), for any number of weeks, jobs, requests and     *)
(* failures.                                                               *)
(***************************************************************************)
EXTENDS ReportJobsLateCommit, TLAPS

(* The assumption, in the form the steps below use it. *)
LEMMA Constants ==
  /\ MaxWeek \in Nat \ {0} /\ MaxJobs \in Nat /\ MaxFaults \in Nat
  /\ Weeks \subseteq Nat /\ Jobs \subseteq Nat /\ NoJob \notin Jobs
  BY JobsAssumption DEF Weeks, Jobs, NoJob

------------------------------------------------------------------------------
(* Type correctness. *)

(* An empty database and a worker that has not started are well typed. *)
LEMMA InitTypeOK == Init => TypeOK
  BY Constants DEF Init, TypeOK, JobRecords, RowRecords, ActiveStatuses, WorkerPCs, WebPCs,
                   NoJob, Weeks

(* The record operations keep the type, the week, and change the rest as named. *)
LEMMA RecordOps ==
  ASSUME NEW r \in JobRecords
  PROVE  /\ \A w \in 0 .. MaxWeek : Fresh(w) \in JobRecords
         /\ Started(r) \in JobRecords
         /\ \A at \in Nat : Succeeded(r, at) \in JobRecords
         /\ Failed(r) \in JobRecords
         /\ Requeued(r, "now") \in JobRecords /\ Requeued(r, "later") \in JobRecords
         /\ Marked(r, "null") \in JobRecords /\ Marked(r, "install_pending") \in JobRecords
         /\ Ripened(r) \in JobRecords
  BY Constants DEF JobRecords, ActiveStatuses, Fresh, Started, Succeeded, Failed, Requeued,
                   Marked, Ripened

(* What the operations change, field by field. *)
LEMMA RecordFields ==
  ASSUME NEW r \in JobRecords
  PROVE  /\ Started(r).status = "running" /\ Started(r).week_code = r.week_code
         /\ Started(r).finished_at = r.finished_at
         /\ \A at \in Nat : /\ Succeeded(r, at).status = "succeeded"
                           /\ Succeeded(r, at).week_code = r.week_code
                           /\ Succeeded(r, at).finished_at = at
         /\ Failed(r).status = "failed" /\ Failed(r).week_code = r.week_code
         /\ Failed(r).finished_at = r.finished_at
         /\ \A when : /\ Requeued(r, when).status = "pending"
                     /\ Requeued(r, when).week_code = r.week_code
                     /\ Requeued(r, when).finished_at = r.finished_at
         /\ \A m : /\ Marked(r, m).status = r.status
                  /\ Marked(r, m).week_code = r.week_code
                  /\ Marked(r, m).finished_at = r.finished_at
         /\ Ripened(r).status = r.status /\ Ripened(r).week_code = r.week_code
         /\ Ripened(r).finished_at = r.finished_at
  BY DEF JobRecords, Started, Succeeded, Failed, Requeued, Marked, Ripened

(* Every insert keeps report_jobs well typed. *)
LEMMA InsertJobType ==
  ASSUME job \in [Jobs -> JobRecords], NEW w \in 0 .. MaxWeek, InsertJob(w)
  PROVE  job' \in [Jobs -> JobRecords]
  BY RecordOps DEF InsertJob

(* Every step writes values of the declared types; an executing worker has a job. *)
LEMMA NextTypeOK ==
  ASSUME TypeOK, pc \in Executing => wjob \in Jobs, [Next]_vars
  PROVE  TypeOK'
<1> USE Constants
    DEF TypeOK, Outcomes, Lands, Spend, LeavePass, BackToDue, tables, files, loop, vars,
        Next, WorkerStep, WebStep, TimeStep, RecoverStaleRunningJobs, ReconcileCommit, EnsureScheduledJob, MarkRunning, MarkSuccess,
        RecordInstallPending, DiscardCandidate, MarkFailure, RequeueUnrecorded,
        ReconcileCandidate, ReconcileFails, NothingDue, RenderCandidate, BuildFails,
        SuccessCommitState, CommitStateUnknown, InstallReport, InstallFails, Crash,
        RequestRegenerate, RequestInsert, RequestSelect, RequestFails, WeekCompletes,
        RetryTimeComes
<1>1. (faults \in 0 .. MaxFaults)'
  OBVIOUS
<1>2. (completed \in 0 .. MaxWeek /\ clock \in Nat)'
  OBVIOUS
<1>3. (pc \in WorkerPCs)'
  BY DEF WorkerPCs
<1>4. (wjob \in Jobs \union {NoJob})'
  OBVIOUS
<1>5. (cleared \subseteq Jobs)'
  OBVIOUS
<1>6. (row \in [Weeks -> RowRecords])'
  BY DEF RowRecords
<1>7. (current \in [Weeks -> Nat])'
  BY DEF Executing
<1>8. (candidate \in [Jobs -> Nat])'
  BY DEF Executing
<1>9. (web \in [Requesters -> [pc: WebPCs, week: 0 .. MaxWeek]])'
  <2>1. ASSUME NEW r \in Requesters, NEW w \in Weeks, RequestRegenerate(r, w)
        PROVE  web' \in [Requesters -> [pc: WebPCs, week: 0 .. MaxWeek]]
    BY <2>1 DEF WebPCs, Weeks
  <2>2. ASSUME NEW r \in Requesters, RequestInsert(r) \/ RequestFails(r)
        PROVE  web' \in [Requesters -> [pc: WebPCs, week: 0 .. MaxWeek]]
    BY <2>2 DEF WebPCs
  <2>3. ASSUME NEW r \in Requesters, RequestSelect(r)
        PROVE  web' \in [Requesters -> [pc: WebPCs, week: 0 .. MaxWeek]]
    <3>1. PICK p \in WebPCs : web' = [web EXCEPT ![r].pc = p]
      BY <2>3, Zenon DEF WebPCs
    <3>2. QED
      BY <3>1
  <2>4. CASE UNCHANGED web
    BY <2>4
  <2>5. QED
    BY <2>1, <2>2, <2>3, <2>4
<1>10. (job \in [Jobs -> JobRecords])'
  <2> USE RecordOps
  <2>1. ASSUME NEW o \in Outcomes, RecoverStaleRunningJobs(o) PROVE job' \in [Jobs -> JobRecords]
    BY <2>1
  <2>2. ASSUME NEW o \in Outcomes, ReconcileCommit(o) PROVE job' \in [Jobs -> JobRecords]
    BY <2>2
  <2>3. ASSUME NEW o \in Outcomes, EnsureScheduledJob(o) PROVE job' \in [Jobs -> JobRecords]
    BY <2>3, InsertJobType
  <2>4. ASSUME NEW o \in Outcomes, NEW j \in Jobs, MarkRunning(j, o)
        PROVE  job' \in [Jobs -> JobRecords]
    BY <2>4
  <2>5. ASSUME NEW o \in Outcomes,
               MarkSuccess(o) \/ RecordInstallPending(o) \/ MarkFailure(o) \/ RequeueUnrecorded(o)
        PROVE  job' \in [Jobs -> JobRecords]
    <3>1. PICK k \in Jobs : k = wjob
      BY <2>5 DEF Executing
    <3>2. job[k] \in JobRecords
      BY <3>1
    <3>3. \/ UNCHANGED job
          \/ job' = [job EXCEPT ![k] = Succeeded(job[k], clock)]
          \/ job' = [job EXCEPT ![k] = Marked(job[k], "install_pending")]
          \/ job' = [job EXCEPT ![k] = Failed(job[k])]
          \/ job' = [job EXCEPT ![k] = Requeued(job[k], "later")]
      BY ONLY <2>5, <3>1
         DEF MarkSuccess, RecordInstallPending, MarkFailure, RequeueUnrecorded, tables
    <3>4. QED
      BY ONLY <3>2, <3>3, RecordOps, TypeOK DEF TypeOK
  <2>6. ASSUME NEW r \in Requesters, RequestInsert(r) PROVE job' \in [Jobs -> JobRecords]
    BY <2>6, InsertJobType
  <2>7. ASSUME NEW j \in Jobs, RetryTimeComes(j) PROVE job' \in [Jobs -> JobRecords]
    BY <2>7
  <2>8. CASE UNCHANGED job
    BY <2>8
  <2>9. QED
    BY <2>1, <2>2, <2>3, <2>4, <2>5, <2>6, <2>7, <2>8
<1>11. QED
  BY <1>1, <1>2, <1>3, <1>4, <1>5, <1>6, <1>7, <1>8, <1>9, <1>10

------------------------------------------------------------------------------
(* Steps that leave every success alone: no job enters or leaves "succeeded",   *)
(* none becomes active or is created, and no week's generation changes.         *)

SameSuccesses ==
  /\ \A j \in Jobs :
       /\ job'[j].week_code = job[j].week_code
       /\ job'[j].finished_at = job[j].finished_at
       /\ job'[j].status = "succeeded" <=> job[j].status = "succeeded"
       /\ job'[j].status = "none" <=> job[j].status = "none"
       /\ Active(j)' <=> Active(j)
  /\ \A w \in Weeks :
       /\ row'[w].generated_at = row[w].generated_at
       /\ row'[w].status = "success" <=> row[w].status = "success"

(* What the tables and the files say about successes. *)
SuccessInv ==
  /\ JobsWellFormed
  /\ DistinctStamps
  /\ SuccessHasItsJob
  /\ CandidateIsOfItsSuccess
  /\ OneActiveJobPerWeek
  /\ OwedSwitchHasCandidate

(* A step that moves no success, no file and no candidate keeps every fact about
   the successes. *)
LEMMA SameSuccessesKeep ==
  ASSUME TypeOK, SuccessInv, SameSuccesses, UNCHANGED files
  PROVE  SuccessInv'
<1> USE Constants DEF SuccessInv, SameSuccesses, files
<1>1. JobsWellFormed'
  BY DEF JobsWellFormed
<1>2. ASSUME NEW j \in Jobs, job[j].week_code \in Weeks
      PROVE  AuthorizesInstall(j)' <=> AuthorizesInstall(j)
  <2>1. /\ job'[j].week_code = job[j].week_code
        /\ job'[j].finished_at = job[j].finished_at
        /\ job'[j].status = "succeeded" <=> job[j].status = "succeeded"
    OBVIOUS
  <2>2. /\ row'[job[j].week_code].generated_at = row[job[j].week_code].generated_at
        /\ row'[job[j].week_code].status = "success" <=> row[job[j].week_code].status = "success"
    BY <1>2
  <2>3. QED
    BY ONLY <2>1, <2>2 DEF AuthorizesInstall
<1>3. DistinctStamps'
  BY DEF DistinctStamps
<1>8. SuccessHasItsJob'
  <2>1. ASSUME NEW w \in Weeks, row'[w].status = "success"
        PROVE  \E j \in Jobs : job'[j].week_code = w /\ AuthorizesInstall(j)'
    <3>1. PICK j \in Jobs : job[j].week_code = w /\ AuthorizesInstall(j)
      BY <2>1 DEF SuccessHasItsJob
    <3>2. QED
      BY <3>1, <1>2
  <2>2. ASSUME NEW w \in Weeks, row'[w].status # "success"
        PROVE  row'[w].generated_at = 0
    BY <2>2 DEF SuccessHasItsJob
  <2>3. QED
    BY <2>1, <2>2 DEF SuccessHasItsJob
<1>4. CandidateIsOfItsSuccess'
  BY DEF CandidateIsOfItsSuccess
<1>5. OneActiveJobPerWeek'
  BY DEF OneActiveJobPerWeek
<1>6. OwedSwitchHasCandidate'
  BY <1>2 DEF OwedSwitchHasCandidate
<1>7. QED
  BY <1>1, <1>3, <1>4, <1>5, <1>6, <1>8

(* A new job is a successor that has neither a success nor a candidate. *)
LEMMA InsertJobKeeps ==
  ASSUME TypeOK, SuccessInv, NEW w \in Weeks, InsertJob(w), UNCHANGED <<row, files>>
  PROVE  SuccessInv'
<1> USE Constants DEF SuccessInv, files
<1>1. CASE UNCHANGED job
  <2>1. SameSuccesses
    BY <1>1 DEF SameSuccesses, Active
  <2>2. QED
    BY <2>1, SameSuccessesKeep
<1>2. CASE ~ ActiveWeek(w)
  <2>1. PICK j \in Jobs : job[j].status = "none" /\ job' = [job EXCEPT ![j] = Fresh(w)]
    BY <1>2 DEF InsertJob
  <2>2. /\ job'[j].status = "pending" /\ job'[j].week_code = w /\ job'[j].finished_at = 0
        /\ \A i \in Jobs \ {j} : job'[i] = job[i]
    BY <2>1 DEF TypeOK, Fresh
  <2>3. \A i \in Jobs : i # j => (AuthorizesInstall(i)' <=> AuthorizesInstall(i))
    BY <2>2 DEF AuthorizesInstall
  <2>4. ~ AuthorizesInstall(j)
    BY <2>1 DEF AuthorizesInstall
  <2>5. candidate[j] = 0
    BY <2>1 DEF CandidateIsOfItsSuccess
  <2>6. JobsWellFormed'
    BY <2>2 DEF JobsWellFormed
  <2>7. SuccessHasItsJob'
    <3>1. ASSUME NEW v \in Weeks, row[v].status = "success"
          PROVE  \E i \in Jobs : job'[i].week_code = v /\ AuthorizesInstall(i)'
      <4>1. PICK i \in Jobs : job[i].week_code = v /\ AuthorizesInstall(i)
        BY <3>1 DEF SuccessHasItsJob
      <4>2. QED
        BY <4>1, <2>2, <2>3, <2>4
    <3>2. QED
      BY <3>1 DEF SuccessHasItsJob
  <2>12. DistinctStamps'
    BY <2>2 DEF DistinctStamps
  <2>8. CandidateIsOfItsSuccess'
    BY <2>2, <2>5 DEF CandidateIsOfItsSuccess
  <2>9. OneActiveJobPerWeek'
    BY <2>2, <1>2 DEF OneActiveJobPerWeek, ActiveWeek, Active
  <2>10. OwedSwitchHasCandidate'
    <3>1. ASSUME NEW v \in Weeks, row[v].status = "success", current[v] # row[v].generated_at
          PROVE  \E i \in Jobs : /\ job'[i].week_code = v /\ AuthorizesInstall(i)'
                                 /\ candidate[i] = row[v].generated_at
      <4>1. PICK i \in Jobs : /\ job[i].week_code = v /\ AuthorizesInstall(i)
                              /\ candidate[i] = row[v].generated_at
        BY <3>1 DEF OwedSwitchHasCandidate
      <4>2. QED
        BY <4>1, <2>2, <2>3, <2>4
    <3>2. QED
      BY <3>1 DEF OwedSwitchHasCandidate
  <2>11. QED
    BY <2>6, <2>7, <2>8, <2>9, <2>10, <2>12
<1>3. QED
  BY <1>1, <1>2 DEF InsertJob

(* Installing an authorized candidate or removing any other one settles what it owes. *)
LEMMA CandidateResolvedKeeps ==
  ASSUME TypeOK, SuccessInv, NEW j \in Jobs, UNCHANGED tables,
         candidate' = [candidate EXCEPT ![j] = 0],
         AuthorizesInstall(j) =>
           /\ candidate[j] # 0
           /\ current' = [current EXCEPT ![job[j].week_code] = candidate[j]],
         ~ AuthorizesInstall(j) => UNCHANGED current
  PROVE  SuccessInv'
<1> USE Constants DEF SuccessInv, tables
<1>1. JobsWellFormed' /\ DistinctStamps' /\ OneActiveJobPerWeek'
  BY DEF JobsWellFormed, DistinctStamps, OneActiveJobPerWeek, Active
<1>2. SuccessHasItsJob'
  BY DEF SuccessHasItsJob, AuthorizesInstall
<1>3. candidate'[j] = 0 /\ \A i \in Jobs \ {j} : candidate'[i] = candidate[i]
  BY DEF TypeOK
<1>4. CandidateIsOfItsSuccess'
  BY <1>3 DEF CandidateIsOfItsSuccess
<1>5. \A i \in Jobs : AuthorizesInstall(i)' <=> AuthorizesInstall(i)
  BY DEF AuthorizesInstall
<1>6. ASSUME NEW w \in Weeks, row[w].status = "success", current'[w] # row[w].generated_at
      PROVE  \E i \in Jobs : /\ job[i].week_code = w /\ AuthorizesInstall(i)
                             /\ candidate'[i] = row[w].generated_at
  <2>1. CASE AuthorizesInstall(j) /\ job[j].week_code = w
    <3>1. candidate[j] = row[w].generated_at
      BY <2>1 DEF CandidateIsOfItsSuccess, AuthorizesInstall
    <3>2. current'[w] = candidate[j]
      BY <2>1, <1>6 DEF TypeOK
    <3>3. QED
      BY <3>1, <3>2, <1>6
  <2>2. CASE ~ (AuthorizesInstall(j) /\ job[j].week_code = w)
    <3>1. current'[w] = current[w]
      BY <2>2 DEF TypeOK
    <3>2. PICK i \in Jobs : /\ job[i].week_code = w /\ AuthorizesInstall(i)
                            /\ candidate[i] = row[w].generated_at
      BY <3>1, <1>6 DEF OwedSwitchHasCandidate
    <3>3. i # j
      BY <3>2, <2>2
    <3>4. QED
      BY <3>2, <3>3, <1>3
  <2>3. QED
    BY <2>1, <2>2
<1>7. OwedSwitchHasCandidate'
  BY <1>5, <1>6 DEF OwedSwitchHasCandidate
<1>8. QED
  BY <1>1, <1>2, <1>4, <1>7

(* Rendering writes the candidate of a job that has not succeeded. *)
LEMMA RenderKeeps ==
  ASSUME TypeOK, SuccessInv, NEW j \in Jobs, job[j].status = "running",
         UNCHANGED <<tables, current>>, candidate' = [candidate EXCEPT ![j] = clock]
  PROVE  SuccessInv'
<1> USE Constants DEF SuccessInv, tables
<1>1. JobsWellFormed' /\ DistinctStamps' /\ OneActiveJobPerWeek'
  BY DEF JobsWellFormed, DistinctStamps, OneActiveJobPerWeek, Active
<1>2. SuccessHasItsJob'
  BY DEF SuccessHasItsJob, AuthorizesInstall
<1>3. \A i \in Jobs \ {j} : candidate'[i] = candidate[i]
  BY DEF TypeOK
<1>4. CandidateIsOfItsSuccess'
  BY <1>3 DEF CandidateIsOfItsSuccess
<1>5. \A i \in Jobs : /\ AuthorizesInstall(i)' <=> AuthorizesInstall(i)
                      /\ AuthorizesInstall(i) => i # j
  BY DEF AuthorizesInstall
<1>6. OwedSwitchHasCandidate'
  BY <1>3, <1>5 DEF OwedSwitchHasCandidate
<1>7. QED
  BY <1>1, <1>2, <1>4, <1>6

(* The success commit: the new pair names this job, and its candidate is on disk. *)
LEMMA MarkSuccessKeeps ==
  ASSUME TypeOK, SuccessInv, StampsInPast, AttemptState, NEW o \in Outcomes, MarkSuccess(o),
         Lands(o)
  PROVE  SuccessInv' /\ SuccessCommitted'
<1> USE Constants DEF SuccessInv
<1>1. PICK k \in Jobs, week \in Weeks : k = wjob /\ week = job[k].week_code
  BY DEF MarkSuccess, AttemptState, Executing, JobsWellFormed
<1>2. /\ job[k].status = "running" /\ candidate[k] = clock /\ clock # 0
      /\ \A j \in Jobs : job[j].finished_at # clock
      /\ \A w \in Weeks : row[w].generated_at # clock
  BY <1>1 DEF MarkSuccess, AttemptState, StampsInPast, TypeOK, JobRecords, RowRecords
<1>3. /\ job'[k].status = "succeeded" /\ job'[k].finished_at = clock
      /\ job'[k].week_code = week
      /\ \A j \in Jobs \ {k} : job'[j] = job[j]
  BY <1>1, RecordFields DEF MarkSuccess, TypeOK
<1>4. /\ row'[week] = [status |-> "success", generated_at |-> clock]
      /\ \A w \in Weeks \ {week} : row'[w] = row[w]
  BY <1>1 DEF MarkSuccess, TypeOK
<1>5. current' = current /\ candidate' = candidate /\ wjob' = wjob /\ clock' = clock
  BY DEF MarkSuccess, files
<1>6. JobsWellFormed'
  BY <1>2, <1>3 DEF JobsWellFormed
<1>7. DistinctStamps'
  <2>1. DistinctStamps
    OBVIOUS
  <2>2. QED
    BY ONLY <1>2, <1>3, <2>1 DEF DistinctStamps
<1>8. AuthorizesInstall(k)'
  BY <1>2, <1>3, <1>4 DEF AuthorizesInstall
<1>9. ASSUME NEW w \in Weeks \ {week}, NEW j \in Jobs,
             job[j].week_code = w, AuthorizesInstall(j)
      PROVE  job'[j].week_code = w /\ AuthorizesInstall(j)'
  <2>1. job'[j] = job[j] /\ row'[w] = row[w]
    BY <1>1, <1>2, <1>3, <1>4, <1>9
  <2>2. QED
    BY <2>1, <1>9 DEF AuthorizesInstall
<1>10. SuccessHasItsJob'
  <2>1. ASSUME NEW w \in Weeks, row'[w].status = "success"
        PROVE  \E j \in Jobs : job'[j].week_code = w /\ AuthorizesInstall(j)'
    <3>1. CASE w = week
      BY <3>1, <1>3, <1>8
    <3>2. CASE w # week
      <4>1. PICK j \in Jobs : job[j].week_code = w /\ AuthorizesInstall(j)
        BY <2>1, <3>2, <1>4 DEF SuccessHasItsJob
      <4>2. QED
        BY <4>1, <3>2, <1>9
    <3>3. QED
      BY <3>1, <3>2
  <2>2. ASSUME NEW w \in Weeks, row'[w].status # "success"
        PROVE  row'[w].generated_at = 0
    BY <2>2, <1>4 DEF SuccessHasItsJob
  <2>3. QED
    BY <2>1, <2>2 DEF SuccessHasItsJob
<1>11. CandidateIsOfItsSuccess'
  BY <1>2, <1>3, <1>5 DEF CandidateIsOfItsSuccess
<1>12. OneActiveJobPerWeek'
  BY <1>3 DEF OneActiveJobPerWeek, Active, ActiveStatuses
<1>13. OwedSwitchHasCandidate'
  <2>1. ASSUME NEW w \in Weeks, row'[w].status = "success",
               current'[w] # row'[w].generated_at
        PROVE  \E j \in Jobs : /\ job'[j].week_code = w /\ AuthorizesInstall(j)'
                               /\ candidate'[j] = row'[w].generated_at
    <3>1. CASE w = week
      BY <3>1, <1>2, <1>3, <1>4, <1>5, <1>8
    <3>2. CASE w # week
      <4>1. PICK j \in Jobs : /\ job[j].week_code = w /\ AuthorizesInstall(j)
                              /\ candidate[j] = row[w].generated_at
        BY <2>1, <3>2, <1>4, <1>5 DEF OwedSwitchHasCandidate
      <4>2. QED
        BY <4>1, <3>2, <1>4, <1>5, <1>9
    <3>3. QED
      BY <3>1, <3>2
  <2>2. QED
    BY <2>1 DEF OwedSwitchHasCandidate
<1>14. SuccessCommitted'
  BY <1>1, <1>3, <1>4, <1>5 DEF SuccessCommitted
<1>15. QED
  BY <1>6, <1>7, <1>10, <1>11, <1>12, <1>13, <1>14

------------------------------------------------------------------------------
(* The invariant holds initially and every step keeps it. *)

(* An empty database has no success, no attempt and no request to speak of. *)
LEMMA InitInv == Init => IInv
<1> SUFFICES ASSUME Init PROVE IInv
  OBVIOUS
<1> USE Constants DEF Init
<1>1. TypeOK
  BY InitTypeOK
<1>2. StampsInPast /\ JobsWellFormed /\ DistinctStamps
  BY DEF StampsInPast, JobsWellFormed, DistinctStamps
<1>3. SuccessHasItsJob /\ CandidateIsOfItsSuccess
  BY DEF SuccessHasItsJob, CandidateIsOfItsSuccess
<1>4. AttemptState /\ RequestsWellFormed
  BY DEF AttemptState, RequestsWellFormed, Executing
<1>5. OneActiveJobPerWeek /\ OwedSwitchHasCandidate
  BY DEF OneActiveJobPerWeek, OwedSwitchHasCandidate, Active, ActiveStatuses
<1>6. QED
  BY <1>1, <1>2, <1>3, <1>4, <1>5 DEF IInv

(* The parts of the invariant beside the types that a step may disturb. *)
RestInv == StampsInPast /\ SuccessInv /\ AttemptState /\ RequestsWellFormed

(* The invariant is its types and its parts. *)
LEMMA IInvParts == IInv <=> TypeOK /\ RestInv
  BY DEF IInv, RestInv, SuccessInv

(* Stamps stay in the past while neither they nor the clock move. *)
LEMMA StampsKeep ==
  ASSUME StampsInPast, SameSuccesses, clock' = clock,
         pc' \in {"build", "commit"} => pc \in {"build", "commit"}
  PROVE  StampsInPast'
  BY DEF StampsInPast, SameSuccesses

(* A step that ends the attempt and moves no success keeps everything. *)
LEMMA AttemptEnds ==
  ASSUME IInv, SameSuccesses, UNCHANGED <<files, web, clock>>, pc' \in {"idle", "reconcile", "ensure", "due"}
  PROVE  RestInv'
<1>1. StampsInPast'
  BY StampsKeep DEF IInv
<1>2. SuccessInv'
  BY SameSuccessesKeep, IInvParts DEF RestInv
<1>3. AttemptState'
  BY DEF AttemptState, Executing
<1>4. RequestsWellFormed'
  BY DEF IInv, RequestsWellFormed
<1>5. QED
  BY <1>1, <1>2, <1>3, <1>4 DEF RestInv

(* Unchanged tables leave every success alone. *)
LEMMA TablesKeep == UNCHANGED tables => SameSuccesses
  BY DEF tables, SameSuccesses, Active

(* A record that keeps its week and finish, moves between active statuses only. *)
LEMMA JobsKeep ==
  ASSUME UNCHANGED row,
         \A j \in Jobs :
           /\ job'[j].week_code = job[j].week_code
           /\ job'[j].finished_at = job[j].finished_at
           /\ job'[j].status = job[j].status \/ {job[j].status, job'[j].status} \subseteq ActiveStatuses
  PROVE  SameSuccesses
  BY DEF SameSuccesses, Active, ActiveStatuses

(* Leaving and recovering, marking, starting and failing a job moves no success. *)
LEMMA QuietSteps ==
  ASSUME TypeOK, pc \in Executing => wjob \in Jobs /\ job[wjob].status # "none",
         NEW o \in Outcomes,
         \/ RecoverStaleRunningJobs(o) \/ ReconcileCommit(o) \/ \E j \in Jobs : MarkRunning(j, o)
         \/ RecordInstallPending(o) \/ MarkFailure(o) \/ RequeueUnrecorded(o)
  PROVE  SameSuccesses
<1> USE DEF Lands
<1>jobs. job \in [Jobs -> JobRecords]
  BY DEF TypeOK
<1>1. CASE RecoverStaleRunningJobs(o)
  <2>1. \A j \in Jobs : \/ job'[j] = job[j]
                        \/ job[j].status = "running" /\ job'[j] = Requeued(job[j], "now")
    <3>1. CASE Lands(o)
      BY <1>1, <3>1 DEF RecoverStaleRunningJobs
    <3>2. CASE ~ Lands(o)
      BY <1>1, <3>2 DEF RecoverStaleRunningJobs
    <3>3. QED
      BY <3>1, <3>2
  <2>2. QED
    BY <2>1, <1>1, <1>jobs, RecordFields, JobsKeep DEF RecoverStaleRunningJobs, ActiveStatuses
<1>2. CASE ReconcileCommit(o)
  <2>1. \A j \in Jobs : job'[j] = job[j] \/ job'[j] = Marked(job[j], "null")
    BY <1>2, <1>jobs DEF ReconcileCommit
  <2>2. QED
    BY <2>1, <1>2, <1>jobs, RecordFields, JobsKeep DEF ReconcileCommit
<1>3. ASSUME NEW j \in Jobs, MarkRunning(j, o) PROVE SameSuccesses
  <2>1. \A i \in Jobs : job'[i] = job[i] \/ (i = j /\ job'[i] = Started(job[i]))
    BY <1>3, <1>jobs DEF MarkRunning
  <2>2. job[j].status \in ActiveStatuses /\ UNCHANGED row
    BY <1>3 DEF MarkRunning, DueJobs, ActiveStatuses
  <2>3. /\ Started(job[j]).status = "running" /\ Started(job[j]).week_code = job[j].week_code
        /\ Started(job[j]).finished_at = job[j].finished_at
    BY <1>jobs, RecordFields
  <2>4. "running" \in ActiveStatuses
    BY DEF ActiveStatuses
  <2>5. QED
    BY <2>1, <2>2, <2>3, <2>4, JobsKeep
<1>4. ASSUME RecordInstallPending(o) \/ MarkFailure(o) \/ RequeueUnrecorded(o)
      PROVE  SameSuccesses
  <2>0. PICK k \in Jobs : k = wjob /\ job[k].status # "none"
    BY <1>4 DEF RecordInstallPending, MarkFailure, RequeueUnrecorded, Executing
  <2>1. CASE RecordInstallPending(o)
    <3>1. \A i \in Jobs : job'[i] = job[i] \/ job'[i] = Marked(job[i], "install_pending")
      <4>1. job' = job \/ job' = [job EXCEPT ![k] = Marked(job[k], "install_pending")]
        BY <2>0, <2>1 DEF RecordInstallPending
      <4>2. QED
        BY <4>1, <1>jobs
    <3>2. \A i \in Jobs : /\ job'[i].week_code = job[i].week_code
                          /\ job'[i].finished_at = job[i].finished_at
                          /\ job'[i].status = job[i].status
      BY ONLY <3>1, <1>jobs, RecordFields
    <3>3. QED
      BY <2>1, <3>2, JobsKeep DEF RecordInstallPending
  <2>2. CASE MarkFailure(o)
    <3>1. \A i \in Jobs : \/ job'[i] = job[i]
                          \/ job[i].status \in ActiveStatuses /\ job'[i] = Failed(job[i])
      <4>1. \/ job' = job
            \/ /\ job[k].status # "succeeded"
               /\ job' = [job EXCEPT ![k] = Failed(job[k])]
        BY <2>0, <2>2 DEF MarkFailure, tables
      <4>2. job[k].status # "succeeded" => job[k].status \in ActiveStatuses
        BY <2>0, <1>jobs DEF JobRecords
      <4>3. QED
        BY <4>1, <4>2, <1>jobs
    <3>2. \A i \in Jobs : /\ job'[i].week_code = job[i].week_code
                          /\ job'[i].finished_at = job[i].finished_at
                          /\ \/ job'[i].status = job[i].status
                             \/ {job[i].status, job'[i].status} \subseteq ActiveStatuses
      BY ONLY <3>1, <1>jobs, RecordFields DEF ActiveStatuses
    <3>3. \A w \in Weeks : \/ row'[w] = row[w]
                           \/ /\ row[w].status = "none" /\ row'[w].status = "failed"
                              /\ row'[w].generated_at = row[w].generated_at
      <4>1. CASE UNCHANGED tables
        BY <4>1 DEF tables
      <4>2. CASE ~ UNCHANGED tables
        <5>1. row' = [row EXCEPT ![job[k].week_code] =
                         IF @.status = "none" THEN [@ EXCEPT !.status = "failed"] ELSE @]
          BY <2>0, <2>2, <4>2 DEF MarkFailure
        <5>2. QED
          BY <5>1 DEF TypeOK, RowRecords
      <4>3. QED
        BY <4>1, <4>2
    <3>4. \A i \in Jobs :
            /\ job'[i].status = "succeeded" <=> job[i].status = "succeeded"
            /\ job'[i].status = "none" <=> job[i].status = "none"
            /\ Active(i)' <=> Active(i)
      BY <3>2 DEF Active, ActiveStatuses
    <3>5. \A w \in Weeks :
            /\ row'[w].generated_at = row[w].generated_at
            /\ row'[w].status = "success" <=> row[w].status = "success"
      BY <3>3
    <3>6. QED
      BY <3>2, <3>4, <3>5 DEF SameSuccesses
  <2>3. CASE RequeueUnrecorded(o)
    <3>1. \A i \in Jobs : \/ job'[i] = job[i]
                          \/ job[i].status = "running" /\ job'[i] = Requeued(job[i], "later")
      BY <2>0, <2>3, <1>jobs DEF RequeueUnrecorded
    <3>2. \A i \in Jobs : /\ job'[i].week_code = job[i].week_code
                          /\ job'[i].finished_at = job[i].finished_at
                          /\ \/ job'[i].status = job[i].status
                             \/ {job[i].status, job'[i].status} \subseteq ActiveStatuses
      BY ONLY <3>1, <1>jobs, RecordFields DEF ActiveStatuses
    <3>3. QED
      BY <2>3, <3>2, JobsKeep DEF RequeueUnrecorded
  <2>4. QED
    BY <1>4, <2>1, <2>2, <2>3
<1>5. QED
  BY <1>1, <1>2, <1>3, <1>4

(* An executing worker has a job that exists. *)
LEMMA AttemptHasJob ==
  ASSUME AttemptState
  PROVE  pc \in Executing => wjob \in Jobs /\ job[wjob].status # "none"
<1>1. ASSUME pc \in Executing PROVE wjob \in Jobs /\ job[wjob].status # "none"
  BY <1>1 DEF AttemptState, Executing, SuccessCommitted
<1>2. QED
  BY <1>1

(* The start of a pass, a reconciliation that fails and one that lands keep the parts. *)
LEMMA PassSteps ==
  ASSUME IInv, NEW o \in Outcomes,
         \/ RecoverStaleRunningJobs(o) \/ ReconcileFails \/ ReconcileCommit(o)
         \/ NothingDue \/ Crash \/ CommitStateUnknown
  PROVE  RestInv'
<1> USE Constants DEF LeavePass, BackToDue, tables, Lands
<1>0. pc \in Executing => wjob \in Jobs /\ job[wjob].status # "none"
  BY AttemptHasJob DEF IInv
<1>1. CASE RecoverStaleRunningJobs(o)
  <2>1. SameSuccesses
    BY <1>1, <1>0, QuietSteps DEF IInv
  <2>2. pc' \in {"idle", "reconcile"}
    BY <1>1 DEF RecoverStaleRunningJobs
  <2>3. QED
    BY <1>1, <2>1, <2>2, AttemptEnds DEF RecoverStaleRunningJobs
<1>2. CASE ReconcileCommit(o)
  <2>1. SameSuccesses
    BY <1>2, <1>0, QuietSteps DEF IInv
  <2>2. pc' \in {"idle", "ensure"}
    BY <1>2 DEF ReconcileCommit
  <2>3. QED
    BY <1>2, <2>1, <2>2, AttemptEnds DEF ReconcileCommit
<1>3. CASE ReconcileFails \/ NothingDue \/ Crash \/ CommitStateUnknown
  BY <1>3, TablesKeep, AttemptEnds DEF ReconcileFails, NothingDue, Crash, CommitStateUnknown
<1>4. QED
  BY <1>1, <1>2, <1>3

(* A step beside the loop thread that touches no existing job's status keeps what the *)
(* thread relies on.                                                                   *)
LEMMA BesideTheLoop ==
  ASSUME IInv, UNCHANGED <<row, files, loop, clock>>,
         \A j \in Jobs : job[j].status # "none" =>
           /\ job'[j].status = job[j].status
           /\ job'[j].finished_at = job[j].finished_at
           /\ job'[j].week_code = job[j].week_code
  PROVE  AttemptState'
<1> USE DEF IInv, files, loop
<1>1. CASE pc \notin Executing
  BY <1>1 DEF AttemptState, Executing
<1>2. CASE pc \in Executing
  <2>1. PICK k \in Jobs : k = wjob
    BY <1>2 DEF AttemptState
  <2>2. job[k].status # "none"
    BY <1>2, <2>1, AttemptHasJob
  <2>3. /\ job'[k].status = job[k].status /\ job'[k].finished_at = job[k].finished_at
        /\ job'[k].week_code = job[k].week_code
    BY <2>2
  <2>4. SuccessCommitted' <=> SuccessCommitted
    BY <2>1, <2>3 DEF SuccessCommitted
  <2>5. QED
    BY <2>1, <2>3, <2>4 DEF AttemptState
<1>3. QED
  BY <1>1, <1>2

(* Inserting a job, by the scheduler or by a request, keeps the stamps in the past. *)
LEMMA InsertStamps ==
  ASSUME IInv, NEW w \in Weeks, InsertJob(w), UNCHANGED <<row, clock>>,
         pc' \in {"build", "commit"} => pc \in {"build", "commit"}
  PROVE  /\ StampsInPast'
         /\ \A j \in Jobs : job[j].status # "none" => job'[j] = job[j]
<1> USE Constants DEF IInv, TypeOK
<1>1. CASE UNCHANGED job
  BY <1>1 DEF StampsInPast
<1>2. CASE \E j \in Jobs : job[j].status = "none" /\ job' = [job EXCEPT ![j] = Fresh(w)]
  <2>1. PICK j \in Jobs : job[j].status = "none" /\ job' = [job EXCEPT ![j] = Fresh(w)]
    BY <1>2
  <2>2. job'[j].finished_at = 0 /\ \A i \in Jobs \ {j} : job'[i] = job[i]
    BY <2>1 DEF Fresh
  <2>3. job[j].finished_at = 0
    BY <2>1 DEF JobsWellFormed
  <2>4. QED
    BY <2>1, <2>2, <2>3 DEF StampsInPast
<1>3. QED
  BY <1>1, <1>2 DEF InsertJob

(* The request threads (generate_week) and the clock, a crash or a restart keep the parts. *)
LEMMA EnvironmentSteps ==
  ASSUME IInv, WebStep \/ TimeStep
  PROVE  RestInv'
<1> USE Constants DEF WebStep, TimeStep, tables, files, loop
<1>1. ASSUME NEW r \in Requesters, NEW w \in Weeks, RequestRegenerate(r, w)
      PROVE  RestInv'
  <2>1. UNCHANGED <<tables, files, loop, clock>>
    BY <1>1 DEF RequestRegenerate
  <2>2. SuccessInv' /\ StampsInPast'
    BY <2>1, TablesKeep, SameSuccessesKeep, StampsKeep, IInvParts DEF RestInv
  <2>3. AttemptState'
    BY <2>1, BesideTheLoop
  <2>4. RequestsWellFormed'
    BY <1>1 DEF RequestRegenerate, RequestsWellFormed, IInv, TypeOK
  <2>5. QED
    BY <2>2, <2>3, <2>4 DEF RestInv
<1>2. ASSUME NEW r \in Requesters, RequestInsert(r)
      PROVE  RestInv'
  <2>1. web[r].week \in Weeks /\ InsertJob(web[r].week) /\ UNCHANGED <<row, files, loop, clock>>
    BY <1>2 DEF RequestInsert, IInv, RequestsWellFormed
  <2>2. SuccessInv'
    BY <2>1, InsertJobKeeps, IInvParts DEF RestInv
  <2>3. StampsInPast' /\ \A j \in Jobs : job[j].status # "none" => job'[j] = job[j]
    BY <2>1, InsertStamps
  <2>4. AttemptState'
    BY <2>1, <2>3, BesideTheLoop
  <2>5. RequestsWellFormed'
    BY <1>2 DEF RequestInsert, RequestsWellFormed, IInv, TypeOK
  <2>6. QED
    BY <2>2, <2>3, <2>4, <2>5 DEF RestInv
<1>3. ASSUME NEW r \in Requesters, RequestSelect(r) \/ RequestFails(r)
      PROVE  RestInv'
  <2>1. UNCHANGED <<tables, files, loop, clock>>
    BY <1>3 DEF RequestSelect, RequestFails
  <2>2. SuccessInv' /\ StampsInPast'
    BY <2>1, TablesKeep, SameSuccessesKeep, StampsKeep, IInvParts DEF RestInv
  <2>3. AttemptState'
    BY <2>1, BesideTheLoop
  <2>4. RequestsWellFormed'
    <3>1. /\ web[r].pc # "new"
          /\ \E p : web' = [web EXCEPT ![r].pc = p]
      BY <1>3 DEF RequestSelect, RequestFails
    <3>2. QED
      BY <3>1 DEF RequestsWellFormed, IInv, TypeOK
  <2>5. QED
    BY <2>2, <2>3, <2>4 DEF RestInv
<1>4. CASE WeekCompletes
  <2>1. UNCHANGED <<tables, files, loop, web, clock>>
    BY <1>4 DEF WeekCompletes
  <2>2. SuccessInv' /\ StampsInPast'
    BY <2>1, TablesKeep, SameSuccessesKeep, StampsKeep, IInvParts DEF RestInv
  <2>3. AttemptState' /\ RequestsWellFormed'
    BY <2>1, BesideTheLoop DEF RequestsWellFormed, IInv
  <2>4. QED
    BY <2>2, <2>3 DEF RestInv
<1>5. ASSUME NEW j \in Jobs, RetryTimeComes(j)
      PROVE  RestInv'
  <2>1. UNCHANGED <<row, files, loop, web, clock>>
    BY <1>5 DEF RetryTimeComes
  <2>2. \A i \in Jobs : /\ job'[i].status = job[i].status
                        /\ job'[i].finished_at = job[i].finished_at
                        /\ job'[i].week_code = job[i].week_code
    BY <1>5, RecordFields DEF RetryTimeComes, IInv, TypeOK
  <2>3. SuccessInv' /\ StampsInPast'
    BY <2>1, <2>2, JobsKeep, SameSuccessesKeep, StampsKeep, IInvParts DEF RestInv
  <2>4. AttemptState' /\ RequestsWellFormed'
    BY <2>1, <2>2, BesideTheLoop DEF RequestsWellFormed, IInv
  <2>5. QED
    BY <2>3, <2>4 DEF RestInv
<1>6. QED
  BY <1>1, <1>2, <1>3, <1>4, <1>5

(* Queueing the due week, handing a candidate to reconciliation and starting a job
   keep the parts. *)
LEMMA QueueSteps ==
  ASSUME IInv, NEW o \in Outcomes,
         EnsureScheduledJob(o) \/ \E j \in Jobs : ReconcileCandidate(j) \/ MarkRunning(j, o)
  PROVE  RestInv'
<1> USE Constants DEF tables, files, loop
<1>1. ASSUME NEW j \in Jobs, ReconcileCandidate(j) PROVE RestInv'
  <2>1. SuccessInv'
    BY <1>1, CandidateResolvedKeeps, IInvParts DEF ReconcileCandidate, RestInv
  <2>2. StampsInPast'
    BY <1>1, TablesKeep, StampsKeep DEF ReconcileCandidate, IInv
  <2>3. AttemptState' /\ RequestsWellFormed'
    BY <1>1 DEF ReconcileCandidate, AttemptState, Executing, RequestsWellFormed, IInv
  <2>4. QED
    BY <2>1, <2>2, <2>3 DEF RestInv
<1>2. CASE EnsureScheduledJob(o)
  <2>1. UNCHANGED <<row, files, web, clock>> /\ pc' \in {"idle", "due"}
    BY <1>2 DEF EnsureScheduledJob, LeavePass
  <2>2. CASE UNCHANGED job
    BY <2>1, <2>2, TablesKeep, AttemptEnds
  <2>3. CASE completed \in Weeks /\ InsertJob(completed)
    <3>1. SuccessInv'
      BY <2>1, <2>3, InsertJobKeeps, IInvParts DEF RestInv
    <3>2. StampsInPast'
      BY <2>1, <2>3, InsertStamps
    <3>3. AttemptState' /\ RequestsWellFormed'
      BY <2>1 DEF AttemptState, Executing, RequestsWellFormed, IInv
    <3>4. QED
      BY <3>1, <3>2, <3>3 DEF RestInv
  <2>4. QED
    BY <1>2, <2>2, <2>3 DEF EnsureScheduledJob, IInv, TypeOK, Weeks
<1>3. ASSUME NEW j \in Jobs, MarkRunning(j, o) PROVE RestInv'
  <2>1. UNCHANGED <<row, files, web>> /\ clock' = clock + 1
    BY <1>3 DEF MarkRunning
  <2>4. SameSuccesses
    BY <1>3, AttemptHasJob, QuietSteps DEF IInv
  <2>5. SuccessInv'
    BY <2>1, <2>4, SameSuccessesKeep, IInvParts DEF RestInv
  <2>6. StampsInPast'
    <3>1. \A i \in Jobs : job[i].finished_at \in Nat /\ job[i].finished_at <= clock
      BY DEF IInv, StampsInPast, TypeOK, JobRecords
    <3>2. \A w \in Weeks : row[w].generated_at \in Nat /\ row[w].generated_at <= clock
      BY DEF IInv, StampsInPast, TypeOK, RowRecords
    <3>3. clock \in Nat
      BY DEF IInv, TypeOK
    <3>4. QED
      BY <2>1, <2>4, <3>1, <3>2, <3>3 DEF StampsInPast, SameSuccesses
  <2>7. AttemptState'
    <3>1. CASE o = "ok"
      <4>1. pc' = "build" /\ wjob' = j /\ job'[j] = Started(job[j])
        BY <1>3, <3>1 DEF MarkRunning, Lands, IInv, TypeOK
      <4>2. QED
        BY <4>1, RecordFields DEF AttemptState, Executing, IInv, TypeOK
    <3>2. CASE o # "ok"
      BY <1>3, <3>2 DEF MarkRunning, LeavePass, AttemptState, Executing
    <3>3. QED
      BY <3>1, <3>2
  <2>8. RequestsWellFormed'
    BY <2>1 DEF RequestsWellFormed, IInv
  <2>9. QED
    BY <2>5, <2>6, <2>7, <2>8 DEF RestInv
<1>4. QED
  BY <1>1, <1>2, <1>3

(* Rendering, a failed build and the commit of the success, whichever its outcome,
   keep the parts. *)
LEMMA BuildSteps ==
  ASSUME IInv, NEW o \in Outcomes,
         \/ RenderCandidate \/ BuildFails \/ MarkSuccess(o) \/ SuccessCommitState
         \/ InstallFails
  PROVE  RestInv'
<1> USE Constants DEF tables, files, loop
<1>1. CASE RenderCandidate
  <2>1. PICK k \in Jobs : k = wjob
    BY <1>1 DEF RenderCandidate, IInv, AttemptState, Executing
  <2>2. /\ job[k].status = "running" /\ candidate' = [candidate EXCEPT ![k] = clock]
        /\ UNCHANGED <<tables, current, wjob, web, clock>> /\ pc = "build" /\ pc' = "commit"
    BY <1>1, <2>1 DEF RenderCandidate, IInv, AttemptState
  <2>3. SuccessInv'
    BY <2>2, RenderKeeps, IInvParts DEF RestInv
  <2>4. StampsInPast'
    BY <2>2, TablesKeep, StampsKeep DEF IInv
  <2>5. clock # 0
    BY <2>2 DEF IInv, StampsInPast, TypeOK, JobRecords
  <2>6. AttemptState'
    BY <2>1, <2>2, <2>5 DEF AttemptState, Executing, IInv, TypeOK
  <2>7. RequestsWellFormed'
    BY <2>2 DEF RequestsWellFormed, IInv
  <2>8. QED
    BY <2>3, <2>4, <2>6, <2>7 DEF RestInv
<1>2. CASE BuildFails \/ SuccessCommitState \/ InstallFails
  <2>1. UNCHANGED <<tables, files, wjob, web, clock>> /\ pc' \notin {"build", "commit"}
    BY <1>2 DEF BuildFails, SuccessCommitState, InstallFails
  <2>2. SuccessInv' /\ StampsInPast'
    BY <2>1, TablesKeep, SameSuccessesKeep, StampsKeep, IInvParts DEF RestInv
  <2>3. SuccessCommitted' <=> SuccessCommitted
    BY <2>1 DEF SuccessCommitted
  <2>4. AttemptState'
    BY <1>2, <2>1, <2>3 DEF BuildFails, SuccessCommitState, InstallFails, AttemptState,
                            Executing, IInv
  <2>5. RequestsWellFormed'
    BY <2>1 DEF RequestsWellFormed, IInv
  <2>6. QED
    BY <2>2, <2>4, <2>5 DEF RestInv
<1>3. CASE MarkSuccess(o) /\ ~ Lands(o)
  <2>1. /\ UNCHANGED <<tables, files, wjob, web, clock>>
        /\ pc = "commit" /\ pc' = "verify"
    BY <1>3 DEF MarkSuccess, Lands
  <2>2. SuccessInv' /\ StampsInPast'
    BY <2>1, TablesKeep, SameSuccessesKeep, StampsKeep, IInvParts DEF RestInv
  <2>3. AttemptState' /\ RequestsWellFormed'
    BY <2>1 DEF AttemptState, Executing, RequestsWellFormed, IInv
  <2>4. QED
    BY <2>2, <2>3 DEF RestInv
<1>4. CASE MarkSuccess(o) /\ Lands(o)
  <2>1. SuccessInv' /\ SuccessCommitted'
    BY <1>4, MarkSuccessKeeps, IInvParts DEF RestInv
  <2>2. PICK k \in Jobs, week \in Weeks : k = wjob /\ week = job[k].week_code
    BY <1>4 DEF MarkSuccess, IInv, AttemptState, Executing, JobsWellFormed
  <2>3. /\ UNCHANGED <<files, wjob, web, clock>> /\ pc = "commit" /\ pc' \in {"verify", "install"}
        /\ row' = [row EXCEPT ![week] = [status |-> "success", generated_at |-> clock]]
        /\ job' = [job EXCEPT ![k] = Succeeded(job[k], clock)]
    BY <1>4, <2>2 DEF MarkSuccess
  <2>4. StampsInPast'
    <3>1. \A j \in Jobs : job'[j] = job[j] \/ job'[j].finished_at = clock
      BY <2>3, RecordFields DEF IInv, TypeOK
    <3>2. \A w \in Weeks : row'[w] = row[w] \/ row'[w].generated_at = clock
      BY <2>3 DEF IInv, TypeOK
    <3>3. QED
      BY <2>3, <3>1, <3>2 DEF IInv, StampsInPast, TypeOK
  <2>5. AttemptState'
    BY <2>1, <2>3 DEF AttemptState, Executing, IInv
  <2>6. RequestsWellFormed'
    BY <2>3 DEF RequestsWellFormed, IInv
  <2>7. QED
    BY <2>1, <2>4, <2>5, <2>6 DEF RestInv
<1>5. QED
  BY <1>1, <1>2, <1>3, <1>4

(* The steps that end an attempt (switch, install_pending, discard, failure) keep the
   parts. *)
LEMMA EndingSteps ==
  ASSUME IInv, NEW o \in Outcomes,
         InstallReport \/ RecordInstallPending(o) \/ DiscardCandidate(o) \/ MarkFailure(o)
           \/ RequeueUnrecorded(o)
  PROVE  RestInv'
<1> USE Constants DEF tables, files, loop, BackToDue
<1>jobs. job \in [Jobs -> JobRecords]
  BY DEF IInv, TypeOK
<1>0. PICK k \in Jobs : k = wjob
  BY DEF InstallReport, RecordInstallPending, DiscardCandidate, MarkFailure, RequeueUnrecorded,
         IInv, AttemptState, Executing
<1>1. CASE InstallReport
  <2>1. SuccessCommitted /\ candidate[k] = clock /\ clock # 0
    BY <1>0, <1>1 DEF InstallReport, IInv, AttemptState
  <2>2. AuthorizesInstall(k)
    BY <1>0, <2>1 DEF SuccessCommitted, AuthorizesInstall
  <2>3. /\ current' = [current EXCEPT ![job[k].week_code] = candidate[k]]
        /\ candidate' = [candidate EXCEPT ![k] = 0]
        /\ UNCHANGED <<tables, web, clock>> /\ pc' = "due"
    BY <1>0, <1>1 DEF InstallReport
  <2>4. SuccessInv'
    BY <2>1, <2>2, <2>3, CandidateResolvedKeeps, IInvParts DEF RestInv
  <2>5. StampsInPast'
    BY <2>3, TablesKeep, StampsKeep DEF IInv
  <2>6. AttemptState' /\ RequestsWellFormed'
    BY <2>3 DEF AttemptState, Executing, RequestsWellFormed, IInv
  <2>7. QED
    BY <2>4, <2>5, <2>6 DEF RestInv
<1>2. CASE RecordInstallPending(o)
  <2>1. UNCHANGED <<row, files, web, clock>> /\ pc' = "due"
    BY <1>2 DEF RecordInstallPending
  <2>3. SameSuccesses
    BY <1>2, AttemptHasJob, QuietSteps DEF IInv
  <2>4. QED
    BY <2>1, <2>3, AttemptEnds
<1>3. CASE DiscardCandidate(o)
  <2>1. /\ job[k].status = "running"
        /\ UNCHANGED <<tables, current, wjob, web, clock>> /\ pc' = "record"
        /\ candidate' = candidate \/ candidate' = [candidate EXCEPT ![k] = 0]
    BY <1>0, <1>3 DEF DiscardCandidate, IInv, AttemptState
  <2>2. ~ AuthorizesInstall(k)
    BY <2>1 DEF AuthorizesInstall
  <2>3. SuccessInv'
    <3>1. CASE candidate' = candidate
      BY <2>1, <3>1, TablesKeep, SameSuccessesKeep, IInvParts DEF RestInv
    <3>2. CASE candidate' = [candidate EXCEPT ![k] = 0]
      BY <2>1, <2>2, <3>2, CandidateResolvedKeeps, IInvParts DEF RestInv
    <3>3. QED
      BY <2>1, <3>1, <3>2
  <2>4. StampsInPast'
    BY <2>1, TablesKeep, StampsKeep DEF IInv
  <2>5. AttemptState' /\ RequestsWellFormed'
    BY <1>0, <2>1 DEF AttemptState, Executing, RequestsWellFormed, IInv
  <2>6. QED
    BY <2>3, <2>4, <2>5 DEF RestInv
<1>4. CASE MarkFailure(o)
  <2>1. /\ job[k].status = "running" /\ UNCHANGED <<files, web, clock>>
        /\ pc' = "due" \/ (pc' = "requeue" /\ wjob' = wjob)
    BY <1>0, <1>4 DEF MarkFailure, IInv, AttemptState
  <2>2. \A i \in Jobs : job'[i] = job[i] \/ (i = k /\ job'[i] = Failed(job[i]))
    <3>1. job' = job \/ job' = [job EXCEPT ![k] = Failed(job[k])]
      BY <1>0, <1>4 DEF MarkFailure
    <3>2. QED
      BY <3>1, <1>jobs
  <2>4. \A i \in Jobs : /\ job'[i].week_code = job[i].week_code
                        /\ job'[i].finished_at = job[i].finished_at
                        /\ \/ job'[i].status = job[i].status
                           \/ i = k /\ job'[i].status = "failed"
    BY ONLY <2>2, <1>jobs, RecordFields
  <2>5. SameSuccesses
    BY <1>4, AttemptHasJob, QuietSteps DEF IInv
  <2>6. SuccessInv' /\ StampsInPast'
    BY <2>1, <2>5, SameSuccessesKeep, StampsKeep, IInvParts DEF RestInv
  <2>7. AttemptState'
    BY <1>0, <2>1, <2>4 DEF AttemptState, Executing
  <2>8. RequestsWellFormed'
    BY <2>1 DEF RequestsWellFormed, IInv
  <2>9. QED
    BY <2>6, <2>7, <2>8 DEF RestInv
<1>5. CASE RequeueUnrecorded(o)
  <2>1. UNCHANGED <<row, files, web, clock>> /\ pc' = "due"
    BY <1>5 DEF RequeueUnrecorded
  <2>3. SameSuccesses
    BY <1>5, AttemptHasJob, QuietSteps DEF IInv
  <2>4. QED
    BY <2>1, <2>3, AttemptEnds
<1>6. QED
  BY <1>1, <1>2, <1>3, <1>4, <1>5

(* Every step of the module keeps the invariant. *)
LEMMA StepInv ==
  ASSUME IInv, [Next]_vars
  PROVE  IInv'
<1>1. TypeOK'
  BY NextTypeOK DEF IInv, AttemptState
<1>2. RestInv'
  <2>1. CASE UNCHANGED vars
    <3>1. SuccessInv' /\ StampsInPast'
      BY <2>1, TablesKeep, SameSuccessesKeep, StampsKeep, IInvParts DEF vars, tables, files, RestInv
    <3>2. AttemptState' /\ RequestsWellFormed'
      BY <2>1, BesideTheLoop DEF vars, files, loop, RequestsWellFormed, IInv
    <3>3. QED
      BY <3>1, <3>2 DEF RestInv
  <2>2. CASE WebStep \/ TimeStep
    BY <2>2, EnvironmentSteps
  <2>3. CASE WorkerStep
    <3>1. ASSUME NEW o \in Outcomes, RecoverStaleRunningJobs(o) \/ ReconcileCommit(o)
          PROVE  RestInv'
      BY <3>1, PassSteps
    <3>2. ASSUME ReconcileFails \/ NothingDue \/ Crash \/ CommitStateUnknown
          PROVE  RestInv'
      BY <3>2, PassSteps DEF Outcomes
    <3>3. ASSUME NEW j \in Jobs, ReconcileCandidate(j)
          PROVE  RestInv'
      BY <3>3, QueueSteps DEF Outcomes
    <3>4. ASSUME NEW o \in Outcomes,
                 EnsureScheduledJob(o) \/ \E j \in Jobs : MarkRunning(j, o)
          PROVE  RestInv'
      BY <3>4, QueueSteps
    <3>6. ASSUME NEW o \in Outcomes,
                 RenderCandidate \/ BuildFails \/ MarkSuccess(o) \/ SuccessCommitState
                   \/ InstallFails
          PROVE  RestInv'
      BY <3>6, BuildSteps
    <3>7. ASSUME NEW o \in Outcomes,
                 InstallReport \/ RecordInstallPending(o) \/ DiscardCandidate(o)
                   \/ MarkFailure(o) \/ RequeueUnrecorded(o)
          PROVE  RestInv'
      BY <3>7, EndingSteps
    <3>8. "ok" \in Outcomes
      BY DEF Outcomes
    <3>9. QED
      BY <2>3, <3>1, <3>2, <3>3, <3>4, <3>6, <3>7, <3>8 DEF WorkerStep
  <2>4. QED
    BY <2>1, <2>2, <2>3 DEF Next
<1>3. QED
  BY <1>1, <1>2 DEF IInv, RestInv, SuccessInv

(* The strengthened invariant holds in every reachable state. *)
LEMMA Invariant == Spec => []IInv
<1>1. IInv /\ [Next]_vars => IInv'
  BY StepInv
<1>2. QED
  BY InitInv, <1>1, PTL DEF Spec

------------------------------------------------------------------------------
(* What a step does to the successes: it may only add one. *)

(* No step of the module takes a week's success back. *)
LEMMA WeekStays ==
  ASSUME TypeOK, [Next]_vars, NEW w \in Weeks, row[w].status = "success"
  PROVE  row'[w].status = "success"
<1> USE DEF TypeOK
<1>1. ASSUME NEW o \in Outcomes, MarkSuccess(o) PROVE row'[w].status = "success"
  BY <1>1 DEF MarkSuccess, tables
<1>2. ASSUME NEW o \in Outcomes, MarkFailure(o) PROVE row'[w].status = "success"
  BY <1>2 DEF MarkFailure, tables
<1>3. CASE UNCHANGED row
  BY <1>3
<1>4. QED
  BY <1>1, <1>2, <1>3
     DEF Next, WorkerStep, WebStep, TimeStep, vars, tables, RecoverStaleRunningJobs,
         ReconcileCommit, EnsureScheduledJob, MarkRunning, RecordInstallPending,
         RequeueUnrecorded, ReconcileCandidate, ReconcileFails, NothingDue, RenderCandidate,
         BuildFails, SuccessCommitState, CommitStateUnknown, InstallReport, InstallFails,
         DiscardCandidate, Crash, RequestRegenerate, RequestInsert, RequestSelect,
         RequestFails, WeekCompletes, RetryTimeComes

(* A step keeps a succeeded job, and a week that is a success, as they are. *)
LEMMA SuccessStays ==
  ASSUME IInv, [Next]_vars
  PROVE  /\ \A j \in Jobs : job[j].status = "succeeded" =>
               job'[j].status = "succeeded" /\ job'[j].finished_at = job[j].finished_at
         /\ \A w \in Weeks : row[w].status = "success" => row'[w].status = "success"
<1> DEFINE SuccessKept == \A j \in Jobs : job[j].status = "succeeded" =>
                            /\ job'[j].status = job[j].status
                            /\ job'[j].finished_at = job[j].finished_at
<1>0. job \in [Jobs -> JobRecords]
  BY DEF IInv, TypeOK
<1> USE <1>0 DEF Lands
<1>1. ASSUME NEW o \in Outcomes, RecoverStaleRunningJobs(o) PROVE SuccessKept
  BY <1>1 DEF RecoverStaleRunningJobs
<1>2. ASSUME NEW o \in Outcomes, ReconcileCommit(o) PROVE SuccessKept
  <2>1. \A j \in Jobs : job'[j] = job[j] \/ job'[j] = Marked(job[j], "null")
    BY <1>2 DEF ReconcileCommit
  <2>2. QED
    BY <2>1, RecordFields
<1>3. ASSUME NEW w, InsertJob(w) PROVE SuccessKept
  BY <1>3 DEF InsertJob
<1>4. ASSUME NEW o \in Outcomes, EnsureScheduledJob(o) PROVE SuccessKept
  BY <1>4, <1>3 DEF EnsureScheduledJob
<1>5. ASSUME NEW o \in Outcomes, NEW j \in Jobs, MarkRunning(j, o) PROVE SuccessKept
  BY <1>5 DEF MarkRunning, DueJobs
<1>6. ASSUME NEW o \in Outcomes, MarkSuccess(o) PROVE SuccessKept
  <2>1. wjob \in Jobs /\ job[wjob].status # "succeeded"
    BY <1>6 DEF MarkSuccess, IInv, AttemptState, Executing
  <2>2. \A j \in Jobs : j # wjob => job'[j] = job[j]
    BY <1>6, <2>1 DEF MarkSuccess, tables
  <2>3. QED
    BY <2>1, <2>2
<1>7. ASSUME NEW o \in Outcomes, RecordInstallPending(o) PROVE SuccessKept
  <2>1. \A j \in Jobs : job'[j] = job[j] \/ job'[j] = Marked(job[j], "install_pending")
    BY <1>7 DEF RecordInstallPending
  <2>2. QED
    BY <2>1, RecordFields
<1>8. ASSUME NEW o \in Outcomes, MarkFailure(o) \/ RequeueUnrecorded(o) PROVE SuccessKept
  <2>1. \A j \in Jobs : job'[j] = job[j] \/ (j = wjob /\ job[j].status # "succeeded")
    BY <1>8 DEF MarkFailure, RequeueUnrecorded, tables
  <2>2. QED
    BY <2>1
<1>9. ASSUME NEW r \in Requesters, RequestInsert(r) PROVE SuccessKept
  BY <1>9, <1>3 DEF RequestInsert
<1>10. ASSUME NEW j \in Jobs, RetryTimeComes(j) PROVE SuccessKept
  <2>1. \A i \in Jobs : job'[i] = job[i] \/ job'[i] = Ripened(job[i])
    BY <1>10 DEF RetryTimeComes
  <2>2. QED
    BY <2>1, RecordFields
<1>11. ASSUME UNCHANGED job PROVE SuccessKept
  BY <1>11
<1>12. SuccessKept
  BY <1>1, <1>2, <1>4, <1>5, <1>6, <1>7, <1>8, <1>9, <1>10, <1>11
     DEF Next, WorkerStep, WebStep, TimeStep, vars, tables, ReconcileCandidate, ReconcileFails,
         NothingDue, RenderCandidate, BuildFails, SuccessCommitState, CommitStateUnknown,
         InstallReport, InstallFails, DiscardCandidate, Crash, RequestRegenerate,
         RequestSelect, RequestFails, WeekCompletes
<1>13. \A w \in Weeks : row[w].status = "success" => row'[w].status = "success"
  BY WeekStays DEF IInv
<1>14. QED
  BY <1>12, <1>13

(* What a step needs to keep the promise: a commit in the making is of a later generation *)
(* than its week has, and an authorized candidate holds the recorded bytes.               *)
PromiseReady ==
  /\ pc = "commit" => /\ wjob \in Jobs /\ job[wjob].week_code \in Weeks
                      /\ row[job[wjob].week_code].generated_at < clock
  /\ pc = "install" => /\ wjob \in Jobs /\ SuccessCommitted
                       /\ candidate[wjob] = clock /\ clock # 0
  /\ \A j \in Jobs : AuthorizesInstall(j) =>
       /\ job[j].week_code \in Weeks
       /\ candidate[j] \in {0, job[j].finished_at}

(* The invariant says so. *)
LEMMA ReadyInv == IInv => PromiseReady
  BY DEF IInv, PromiseReady, AttemptState, Executing, JobsWellFormed, StampsInPast,
         AuthorizesInstall, CandidateIsOfItsSuccess

(* A step keeps or grows one week's recorded generation, or installs a recorded one. *)
LEMMA PromiseStep ==
  ASSUME TypeOK, PromiseReady, [Next]_vars
  PROVE  [Promised!PromiseNext]_(Promised!promiseVars)
<1> DEFINE recorded == [w \in Weeks |-> row[w].generated_at]
<1> USE Constants DEF PromiseReady, TypeOK, RowRecords, Promised!promiseVars
<1>1. ASSUME NEW j \in Jobs, AuthorizesInstall(j), candidate[j] # 0,
             current' = [current EXCEPT ![job[j].week_code] = candidate[j]], UNCHANGED row
      PROVE  [Promised!PromiseNext]_(Promised!promiseVars)
  <2>1. PICK w \in Weeks : w = job[j].week_code
    BY <1>1
  <2>2. candidate[j] = row[w].generated_at
    BY <1>1, <2>1 DEF AuthorizesInstall
  <2>3. current' = [current EXCEPT ![w] = recorded[w]] /\ UNCHANGED recorded
    BY <1>1, <2>1, <2>2
  <2>4. CASE current[w] = recorded[w]
    BY <2>3, <2>4
  <2>5. CASE current[w] # recorded[w]
    BY <2>3, <2>5 DEF Promised!PromiseNext, Promised!Publish
  <2>6. QED
    BY <2>4, <2>5
<1>2. CASE UNCHANGED <<row, current>>
  BY <1>2
<1>3. ASSUME NEW o \in Outcomes, MarkSuccess(o)
      PROVE  [Promised!PromiseNext]_(Promised!promiseVars)
  <2>1. PICK w \in Weeks : w = job[wjob].week_code
    BY <1>3 DEF MarkSuccess
  <2>2. CASE UNCHANGED row
    BY <1>3, <2>2 DEF MarkSuccess, files
  <2>3. CASE row' = [row EXCEPT ![w] = [status |-> "success", generated_at |-> clock]]
    <3>1. row[w].generated_at < clock /\ UNCHANGED current
      BY <1>3, <2>1 DEF MarkSuccess, files
    <3>2. recorded' = [recorded EXCEPT ![w] = clock]
      BY <2>3
    <3>3. recorded[w] < clock /\ recorded'[w] = clock
      BY <3>1, <3>2
    <3>4. Promised!Record(w)
      BY <3>1, <3>2, <3>3 DEF Promised!Record
    <3>5. QED
      BY <3>4 DEF Promised!PromiseNext
  <2>4. QED
    BY <1>3, <2>1, <2>2, <2>3 DEF MarkSuccess, tables
<1>4. ASSUME NEW o \in Outcomes, MarkFailure(o)
      PROVE  [Promised!PromiseNext]_(Promised!promiseVars)
  <2>1. UNCHANGED current /\ \A w \in Weeks : row'[w].generated_at = row[w].generated_at
    BY <1>4 DEF MarkFailure, tables, files
  <2>2. UNCHANGED recorded
    BY <2>1
  <2>3. QED
    BY <2>1, <2>2
<1>5. ASSUME NEW j \in Jobs, ReconcileCandidate(j)
      PROVE  [Promised!PromiseNext]_(Promised!promiseVars)
  BY <1>1, <1>2, <1>5 DEF ReconcileCandidate, tables
<1>6. CASE InstallReport
  <2>1. /\ wjob \in Jobs /\ AuthorizesInstall(wjob) /\ candidate[wjob] # 0
    BY <1>6 DEF InstallReport, SuccessCommitted, AuthorizesInstall
  <2>2. QED
    BY <1>1, <1>6, <2>1 DEF InstallReport, tables
<1>7. QED
  BY <1>2, <1>3, <1>4, <1>5, <1>6
     DEF Next, WorkerStep, WebStep, TimeStep, vars, tables, files, RecoverStaleRunningJobs,
         ReconcileCommit, EnsureScheduledJob, MarkRunning, RecordInstallPending,
         RequeueUnrecorded, ReconcileFails, NothingDue, RenderCandidate, BuildFails,
         SuccessCommitState, CommitStateUnknown, InstallFails, DiscardCandidate, Crash,
         RequestRegenerate, RequestInsert, RequestSelect, RequestFails, WeekCompletes,
         RetryTimeComes

------------------------------------------------------------------------------
(* The theorems. *)

(* Every variable keeps its type. *)
THEOREM TypeCorrect == Spec => []TypeOK
<1>1. IInv => TypeOK
  BY DEF IInv
<1>2. QED
  BY Invariant, <1>1, PTL

(* However the scheduler and any number of regenerate requests interleave, a week has *)
(* at most one job that is pending, running or failed (jobs.py:11-12).                *)
THEOREM OneActive == Spec => []OneActiveJobPerWeek
<1>1. IInv => OneActiveJobPerWeek
  BY DEF IInv
<1>2. QED
  BY Invariant, <1>1, PTL

(* Wherever a crash or a failure interrupts commit and switch, the bytes of a recorded *)
(* success are current or still on disk beside their job (jobs.py:26-32).              *)
THEOREM CrashConsistent == Spec => []OwedSwitchHasCandidate
<1>1. IInv => OwedSwitchHasCandidate
  BY DEF IInv
<1>2. QED
  BY Invariant, <1>1, PTL

(* No step takes a committed success back (jobs.py:33-35, 41-42). *)
THEOREM SuccessIsFinal == Spec => SuccessIsTerminal
<1>1. IInv /\ [Next]_vars =>
        [/\ \A j \in Jobs : job[j].status = "succeeded" =>
               job'[j].status = "succeeded" /\ job'[j].finished_at = job[j].finished_at
         /\ \A w \in Weeks : row[w].status = "success" => row'[w].status = "success"]_vars
  BY SuccessStays
<1>2. QED
  BY Invariant, <1>1, PTL DEF Spec, SuccessIsTerminal

(* The report jobs implement the safety half of ReportPromise: the document of a week *)
(* is only ever replaced by the bytes of the week's recorded generation.              *)
THEOREM PromiseKept == Spec => KeepsPromise
<1>1. Init => Promised!PromiseInit
  BY DEF Init, Promised!PromiseInit
<1>2. IInv /\ [Next]_vars => [Promised!PromiseNext]_(Promised!promiseVars)
  BY PromiseStep, ReadyInv DEF IInv
<1>3. QED
  BY Invariant, <1>1, <1>2, PTL DEF Spec, KeepsPromise, Promised!Safety

------------------------------------------------------------------------------
(* With a commit that lands late: the invariant of ReportJobsLateCommit.        *)

(* Nothing is in flight at the start. *)
LEMMA LateInitInv == LateInit => LateInv
<1> SUFFICES ASSUME LateInit PROVE LateInv
  OBVIOUS
<1> USE Constants DEF LateInit, Init, NoCommit
<1>1. LateTypeOK
  BY InitTypeOK DEF LateTypeOK, NoJob
<1>2. OneActiveJobPerWeek
  BY DEF OneActiveJobPerWeek, Active, ActiveStatuses
<1>3. LateTables
  BY <1>2 DEF LateTables, CommitIsPending, NoJob
<1>4. LateAttempt /\ RequestsWellFormed
  BY DEF LateAttempt, Executing, RequestsWellFormed
<1>5. QED
  BY <1>1, <1>3, <1>4 DEF LateInv

(* A step that moves no success and no candidate, and writes the locked row in no way,
   keeps what the tables say. *)
LEMMA LateTablesKeep ==
  ASSUME LateTypeOK, LateTables, SameSuccesses, UNCHANGED <<candidate, inflight>>,
         clock' \in Nat, clock <= clock',
         inflight # NoCommit => job'[inflight.job] = job[inflight.job]
  PROVE  LateTables'
<1> USE Constants DEF LateTypeOK, TypeOK, LateTables, SameSuccesses
<1>1. \A j \in Jobs : /\ job'[j].status # "none" => job'[j].week_code \in Weeks
                      /\ job'[j].status = "succeeded" => candidate'[j] \in {0, job'[j].finished_at}
  OBVIOUS
<1>2. \A w \in Weeks : row[w].generated_at \in Nat
  BY DEF RowRecords
<1>3. (\A w \in Weeks : row[w].generated_at <= clock)' /\ (inflight.at <= clock)'
  <2>1. clock \in Nat /\ inflight.at \in Nat /\ inflight.at <= clock
    OBVIOUS
  <2>2. \A w \in Weeks : row[w].generated_at <= clock /\ row'[w].generated_at = row[w].generated_at
    OBVIOUS
  <2>3. clock' \in Nat /\ clock <= clock' /\ inflight' = inflight
    OBVIOUS
  <2>4. QED
    BY ONLY <1>2, <2>1, <2>2, <2>3
<1>4. CommitIsPending'
  <2>1. CASE inflight = NoCommit
    BY <2>1 DEF CommitIsPending
  <2>2. CASE inflight # NoCommit
    <3>1. PICK j \in Jobs : j = inflight.job
      BY <2>2 DEF CommitIsPending
    <3>2. /\ job'[inflight.job] = job[inflight.job] /\ candidate' = candidate
          /\ CommitIsPending
      BY <2>2
    <3>3. /\ job[j].status = "running" /\ candidate[j] \in {0, inflight.at}
          /\ job'[j] = job[j] /\ candidate' = candidate
          /\ row[job[j].week_code].generated_at < inflight.at
      BY ONLY <2>2, <3>1, <3>2 DEF CommitIsPending
    <3>4. row'[job[j].week_code].generated_at = row[job[j].week_code].generated_at
      BY <3>3
    <3>5. inflight' = inflight
      OBVIOUS
    <3>6. QED
      BY ONLY <3>1, <3>3, <3>4, <3>5 DEF CommitIsPending
  <2>3. QED
    BY <2>1, <2>2
<1>5. OneActiveJobPerWeek'
  <2>1. /\ OneActiveJobPerWeek
        /\ \A j \in Jobs : job'[j].week_code = job[j].week_code /\ (Active(j)' <=> Active(j))
    OBVIOUS
  <2>2. QED
    BY ONLY <2>1 DEF OneActiveJobPerWeek
<1>6. QED
  BY <1>1, <1>3, <1>4, <1>5

(* Discarding a candidate, or rendering one for a job no commit is in flight of, keeps
   what the tables say. *)
LEMMA LateCandidateKeeps ==
  ASSUME LateTypeOK, LateTables, UNCHANGED <<tables, inflight, clock>>,
         NEW j \in Jobs, NEW stamp, candidate' = [candidate EXCEPT ![j] = stamp],
         stamp = 0 \/ (job[j].status = "running" /\ j # inflight.job)
  PROVE  LateTables'
<1> USE Constants DEF LateTypeOK, TypeOK, LateTables, tables
<1>1. candidate'[j] = stamp /\ \A i \in Jobs \ {j} : candidate'[i] = candidate[i]
  OBVIOUS
<1>2. \A i \in Jobs : /\ job'[i].status # "none" => job'[i].week_code \in Weeks
                      /\ job'[i].status = "succeeded" => candidate'[i] \in {0, job'[i].finished_at}
  BY <1>1
<1>3. CommitIsPending'
  BY <1>1 DEF CommitIsPending
<1>4. OneActiveJobPerWeek'
  BY DEF OneActiveJobPerWeek, Active
<1>5. QED
  BY <1>2, <1>3, <1>4

(* A new job is the only active one of its week, and no commit is in flight of it. *)
LEMMA LateInsertKeeps ==
  ASSUME LateTypeOK, LateTables, NEW w \in Weeks, InsertJob(w),
         UNCHANGED <<row, candidate, inflight, clock>>
  PROVE  /\ LateTables'
         /\ \A j \in Jobs : job[j].status # "none" => job'[j] = job[j]
<1> USE Constants DEF LateTypeOK, TypeOK, LateTables
<1>1. CASE UNCHANGED job
  BY <1>1 DEF CommitIsPending, OneActiveJobPerWeek, Active
<1>2. CASE ~ ActiveWeek(w)
  <2>1. PICK j \in Jobs : job[j].status = "none" /\ job' = [job EXCEPT ![j] = Fresh(w)]
    BY <1>2 DEF InsertJob
  <2>2. /\ job'[j].status = "pending" /\ job'[j].week_code = w
        /\ \A i \in Jobs \ {j} : job'[i] = job[i]
    BY <2>1 DEF Fresh
  <2>3. \A i \in Jobs : /\ job'[i].status # "none" => job'[i].week_code \in Weeks
                        /\ job'[i].status = "succeeded" =>
                             candidate'[i] \in {0, job'[i].finished_at}
    BY <2>2
  <2>4. CommitIsPending'
    BY <2>1, <2>2 DEF CommitIsPending
  <2>5. OneActiveJobPerWeek'
    BY <2>2, <1>2 DEF OneActiveJobPerWeek, ActiveWeek, Active
  <2>6. QED
    BY <2>1, <2>2, <2>3, <2>4, <2>5
<1>3. QED
  BY <1>1, <1>2 DEF InsertJob

(* A success that lands, at once or late, is that of a running job whose candidate, if it
   still exists, holds its bytes. *)
LEMMA LateSuccessKeeps ==
  ASSUME LateTypeOK, LateTables, NEW j \in Jobs, NEW at \in Nat, at <= clock,
         job[j].status = "running", candidate[j] \in {0, at},
         row' = [row EXCEPT ![job[j].week_code] = [status |-> "success", generated_at |-> at]],
         job' = [job EXCEPT ![j] = Succeeded(job[j], at)],
         UNCHANGED <<candidate, clock>>,
         inflight' = NoCommit \/ (inflight' = inflight /\ j # inflight.job)
  PROVE  LateTables'
<1> USE Constants DEF LateTypeOK, TypeOK, LateTables
<1>1. PICK week \in Weeks : week = job[j].week_code
  OBVIOUS
<1>2. /\ job'[j].status = "succeeded" /\ job'[j].finished_at = at /\ job'[j].week_code = week
      /\ \A i \in Jobs \ {j} : job'[i] = job[i]
  BY <1>1, RecordFields
<1>3. /\ row'[week] = [status |-> "success", generated_at |-> at]
      /\ \A w \in Weeks \ {week} : row'[w] = row[w]
  BY <1>1
<1>4. \A i \in Jobs : /\ job'[i].status # "none" => job'[i].week_code \in Weeks
                      /\ job'[i].status = "succeeded" =>
                           candidate'[i] \in {0, job'[i].finished_at}
  BY <1>2
<1>5. (\A w \in Weeks : row[w].generated_at <= clock)'
  BY <1>3
<1>6. CASE inflight' = NoCommit
  <2>1. (inflight.at <= clock)' /\ CommitIsPending'
    BY <1>6 DEF NoCommit, CommitIsPending
  <2>2. OneActiveJobPerWeek'
    BY <1>2 DEF OneActiveJobPerWeek, Active, ActiveStatuses
  <2>3. QED
    BY <1>4, <1>5, <2>1, <2>2
<1>7. CASE inflight' = inflight /\ j # inflight.job
  <2>1. ASSUME inflight # NoCommit
        PROVE  /\ inflight.job \in Jobs \ {j} /\ job[inflight.job].week_code \in Weeks \ {week}
    <3>1. inflight.job \in Jobs \ {j} /\ job[inflight.job].status = "running"
      BY <1>7, <2>1 DEF CommitIsPending
    <3>2. job[inflight.job].week_code # job[j].week_code
      BY <3>1 DEF OneActiveJobPerWeek, Active, ActiveStatuses
    <3>3. QED
      BY <3>1, <3>2, <1>1
  <2>2. CommitIsPending'
    BY <1>2, <1>3, <1>7, <2>1 DEF CommitIsPending
  <2>3. OneActiveJobPerWeek'
    BY <1>2 DEF OneActiveJobPerWeek, Active, ActiveStatuses
  <2>4. QED
    BY <1>4, <1>5, <1>7, <2>2, <2>3
<1>8. QED
  BY <1>6, <1>7

(* The part of the invariant beside the types. *)
LateRest == LateTables /\ LateAttempt /\ RequestsWellFormed

(* What every step of the base system respects: the commit in flight and its row's lock. *)
LateFrame ==
  /\ UNCHANGED inflight
  /\ inflight # NoCommit => job'[inflight.job] = job[inflight.job]
  /\ updating' => pc' = "record"

(* Between two attempts the thread relies on nothing. *)
LEMMA NoAttempt ==
  ASSUME pc' \notin Executing, LateFrame
  PROVE  LateAttempt'
  BY DEF LateAttempt, LateFrame, Executing

(* An executing worker has a job that exists. *)
LEMMA LateAttemptHasJob ==
  ASSUME LateAttempt
  PROVE  pc \in Executing => wjob \in Jobs /\ job[wjob].status # "none"
  BY DEF LateAttempt

(* A step beside the loop thread that touches no existing job's status keeps what the *)
(* thread relies on.                                                                   *)
LEMMA LateBesideTheLoop ==
  ASSUME LateInv, UNCHANGED <<row, candidate, loop, clock>>, LateFrame,
         \A j \in Jobs : job[j].status # "none" =>
           /\ job'[j].status = job[j].status
           /\ job'[j].finished_at = job[j].finished_at
           /\ job'[j].week_code = job[j].week_code
  PROVE  LateAttempt'
<1>0. /\ pc' = pc /\ wjob' = wjob /\ inflight' = inflight /\ row' = row /\ clock' = clock
      /\ candidate' = candidate /\ LateAttempt /\ (updating' => pc = "record")
  BY DEF LateInv, LateFrame, loop
<1>1. CASE pc \notin Executing
  BY <1>0, <1>1, NoAttempt
<1>2. CASE pc \in Executing
  <2>1. PICK k \in Jobs : k = wjob /\ job[k].status # "none"
    BY <1>0, <1>2, LateAttemptHasJob
  <2>2. /\ job'[k].status = job[k].status /\ job'[k].finished_at = job[k].finished_at
        /\ job'[k].week_code = job[k].week_code
    BY <2>1
  <2>3. SuccessCommitted' <=> SuccessCommitted
    BY <1>0, <2>1, <2>2 DEF SuccessCommitted
  <2>4. inflight # NoCommit => job'[inflight.job] = job[inflight.job]
    BY DEF LateFrame
  <2>5. QED
    BY ONLY <1>0, <1>2, <2>1, <2>2, <2>3, <2>4 DEF LateAttempt
<1>3. QED
  BY <1>1, <1>2

(* Requests and the passing of time keep the parts. *)
LEMMA LateEnvironment ==
  ASSUME LateInv, LateFrame, WebStep \/ TimeStep
  PROVE  LateRest'
<1> USE Constants DEF LateInv, LateTypeOK
<1>0. TypeOK /\ LateTypeOK /\ LateTables /\ UNCHANGED inflight /\ clock \in Nat /\ clock <= clock
  BY DEF LateFrame, TypeOK
<1>1. ASSUME UNCHANGED <<tables, files, loop, clock>>
      PROVE  LateTables' /\ LateAttempt'
  <2>1. LateTables'
    BY <1>0, <1>1, TablesKeep, LateTablesKeep DEF LateFrame, files
  <2>2. LateAttempt'
    BY <1>1, LateBesideTheLoop DEF tables, files
  <2>3. QED
    BY <2>1, <2>2
<1>2. ASSUME NEW r \in Requesters, NEW w \in Weeks, RequestRegenerate(r, w)
      PROVE  LateRest'
  <2>1. RequestsWellFormed'
    BY <1>2 DEF RequestRegenerate, RequestsWellFormed, TypeOK
  <2>2. QED
    BY <1>1, <1>2, <2>1 DEF RequestRegenerate, LateRest
<1>3. ASSUME NEW r \in Requesters, RequestInsert(r)
      PROVE  LateRest'
  <2>1. web[r].week \in Weeks /\ InsertJob(web[r].week) /\ UNCHANGED <<row, files, loop, clock>>
    BY <1>3 DEF RequestInsert, RequestsWellFormed
  <2>2. LateTables' /\ \A j \in Jobs : job[j].status # "none" => job'[j] = job[j]
    BY <1>0, <2>1, LateInsertKeeps DEF files
  <2>3. LateAttempt'
    BY <2>1, <2>2, LateBesideTheLoop DEF files
  <2>4. RequestsWellFormed'
    BY <1>3 DEF RequestInsert, RequestsWellFormed, TypeOK
  <2>5. QED
    BY <2>2, <2>3, <2>4 DEF LateRest
<1>4. ASSUME NEW r \in Requesters, RequestSelect(r) \/ RequestFails(r)
      PROVE  LateRest'
  <2>1. RequestsWellFormed'
    <3>1. /\ web[r].pc # "new"
          /\ \E p : web' = [web EXCEPT ![r].pc = p]
      BY <1>4 DEF RequestSelect, RequestFails
    <3>2. QED
      BY <3>1 DEF RequestsWellFormed, TypeOK
  <2>2. QED
    BY <1>1, <1>4, <2>1 DEF RequestSelect, RequestFails, LateRest
<1>5. CASE WeekCompletes
  <2>1. UNCHANGED <<tables, files, loop, web, clock>>
    BY <1>5 DEF WeekCompletes
  <2>2. QED
    BY <1>1, <2>1 DEF RequestsWellFormed, LateRest
<1>6. ASSUME NEW j \in Jobs, RetryTimeComes(j)
      PROVE  LateRest'
  <2>1. UNCHANGED <<row, files, loop, web, clock>>
    BY <1>6 DEF RetryTimeComes
  <2>2. \A i \in Jobs : /\ job'[i].status = job[i].status
                        /\ job'[i].finished_at = job[i].finished_at
                        /\ job'[i].week_code = job[i].week_code
    BY <1>6, RecordFields DEF RetryTimeComes, TypeOK
  <2>3. LateTables'
    BY <1>0, <2>1, <2>2, JobsKeep, LateTablesKeep DEF LateFrame, files
  <2>4. LateAttempt'
    BY <2>1, <2>2, LateBesideTheLoop DEF files
  <2>5. QED
    BY <2>1, <2>3, <2>4 DEF RequestsWellFormed, LateRest
<1>7. QED
  BY <1>2, <1>3, <1>4, <1>5, <1>6 DEF WebStep, TimeStep

(* The steps of a pass between two attempts, and those that end one, keep the parts. *)
LEMMA LatePassSteps ==
  ASSUME LateInv, LateFrame, NEW o \in Outcomes,
         \/ RecoverStaleRunningJobs(o) \/ ReconcileFails \/ ReconcileCommit(o)
         \/ EnsureScheduledJob(o) \/ NothingDue \/ Crash \/ CommitStateUnknown
         \/ RecordInstallPending(o) \/ RequeueUnrecorded(o) \/ InstallReport
         \/ \E j \in Jobs : ReconcileCandidate(j)
  PROVE  LateRest'
<1> USE Constants DEF tables, files, LeavePass, BackToDue
<1>0. /\ TypeOK /\ LateTypeOK /\ LateTables /\ UNCHANGED inflight
      /\ clock \in Nat /\ clock <= clock
      /\ pc \in Executing => wjob \in Jobs /\ job[wjob].status # "none"
  BY LateAttemptHasJob DEF LateInv, LateTypeOK, LateFrame, TypeOK
<1>1. pc' \notin Executing /\ UNCHANGED <<web, clock>>
  BY DEF RecoverStaleRunningJobs, ReconcileFails, ReconcileCommit, EnsureScheduledJob,
         NothingDue, Crash, CommitStateUnknown, RecordInstallPending, RequeueUnrecorded,
         InstallReport, ReconcileCandidate, Executing
<1>2. LateAttempt' /\ RequestsWellFormed'
  BY <1>1, NoAttempt DEF LateInv, RequestsWellFormed
<1>3. ASSUME RecoverStaleRunningJobs(o) \/ ReconcileCommit(o) \/ RecordInstallPending(o)
               \/ RequeueUnrecorded(o)
      PROVE  LateTables'
  <2>1. SameSuccesses
    BY <1>0, <1>3, QuietSteps
  <2>2. UNCHANGED candidate
    BY <1>3 DEF RecoverStaleRunningJobs, ReconcileCommit, RecordInstallPending,
                RequeueUnrecorded
  <2>3. QED
    BY <1>0, <1>1, <2>1, <2>2, LateTablesKeep DEF LateFrame
<1>4. ASSUME ReconcileFails \/ NothingDue \/ Crash \/ CommitStateUnknown
      PROVE  LateTables'
  <2>1. UNCHANGED <<tables, files>>
    BY <1>4 DEF ReconcileFails, NothingDue, Crash, CommitStateUnknown
  <2>2. QED
    BY <1>0, <1>1, <2>1, TablesKeep, LateTablesKeep DEF LateFrame
<1>5. ASSUME EnsureScheduledJob(o) PROVE LateTables'
  <2>1. UNCHANGED <<row, files>>
    BY <1>5 DEF EnsureScheduledJob
  <2>2. CASE UNCHANGED job
    BY <1>0, <1>1, <2>1, <2>2, TablesKeep, LateTablesKeep DEF LateFrame
  <2>3. CASE completed \in Weeks /\ InsertJob(completed)
    BY <1>0, <1>1, <2>1, <2>3, LateInsertKeeps
  <2>4. QED
    BY <1>0, <1>5, <2>2, <2>3 DEF EnsureScheduledJob, TypeOK, Weeks
<1>6. ASSUME InstallReport PROVE LateTables'
  <2>1. PICK k \in Jobs : k = wjob
    BY <1>0, <1>6 DEF InstallReport, Executing
  <2>2. UNCHANGED <<tables, clock>> /\ candidate' = [candidate EXCEPT ![k] = 0]
    BY <1>6, <2>1 DEF InstallReport
  <2>3. QED
    BY <1>0, <2>2, LateCandidateKeeps
<1>7. ASSUME NEW j \in Jobs, ReconcileCandidate(j) PROVE LateTables'
  <2>1. UNCHANGED <<tables, clock>> /\ candidate' = [candidate EXCEPT ![j] = 0]
    BY <1>7 DEF ReconcileCandidate
  <2>2. QED
    BY <1>0, <2>1, LateCandidateKeeps
<1>8. LateTables'
  BY <1>3, <1>4, <1>5, <1>6, <1>7
<1>9. QED
  BY <1>2, <1>8 DEF LateRest

(* No commit is in flight of a job that is not running. *)
LEMMA NotInFlight ==
  ASSUME LateInv, NEW j \in Jobs, job[j].status # "running"
  PROVE  j # inflight.job
  BY Constants DEF LateInv, LateTables, CommitIsPending, NoCommit

(* Two jobs that are active together are of different weeks. *)
LEMMA WeeksDiffer ==
  ASSUME LateInv, NEW j \in Jobs, job[j].status = "running", inflight # NoCommit,
         inflight.job # j
  PROVE  job[inflight.job].week_code # job[j].week_code
<1>1. PICK i \in Jobs : i = inflight.job /\ job[i].status = "running"
  BY DEF LateInv, LateTables, CommitIsPending
<1>2. OneActiveJobPerWeek
  BY DEF LateInv, LateTables
<1>3. QED
  BY ONLY <1>1, <1>2, i # j, job[j].status = "running"
     DEF OneActiveJobPerWeek, Active, ActiveStatuses

(* Starting, building and failing an attempt, and asking what became of its commit, keep
   the parts. *)
LEMMA LateAttemptSteps ==
  ASSUME LateInv, LateFrame, NEW o \in Outcomes,
         \/ \E j \in Jobs : MarkRunning(j, o)
         \/ RenderCandidate \/ BuildFails \/ SuccessCommitState \/ InstallFails
         \/ DiscardCandidate(o) \/ MarkFailure(o)
  PROVE  LateRest'
<1> USE Constants DEF tables, files
<1>0. /\ TypeOK /\ LateTypeOK /\ LateTables /\ LateAttempt /\ RequestsWellFormed
      /\ UNCHANGED inflight /\ (updating' => pc' = "record")
      /\ clock \in Nat /\ clock <= clock
      /\ pc \in Executing => wjob \in Jobs /\ job[wjob].status # "none"
  BY LateAttemptHasJob DEF LateInv, LateTypeOK, LateFrame, TypeOK
<1>jobs. job \in [Jobs -> JobRecords] /\ candidate \in [Jobs -> Nat]
  BY <1>0 DEF TypeOK
<1>1. ASSUME NEW j \in Jobs, MarkRunning(j, o) PROVE LateRest'
  <2>1. UNCHANGED <<row, files, web>> /\ clock' = clock + 1 /\ clock' \in Nat /\ clock <= clock'
    BY <1>0, <1>1 DEF MarkRunning
  <2>2. SameSuccesses
    BY <1>0, <1>1, QuietSteps
  <2>3. LateTables'
    BY <1>0, <2>1, <2>2, LateTablesKeep DEF LateFrame
  <2>4. LateAttempt'
    <3>1. CASE o = "ok"
      <4>1. pc' = "build" /\ wjob' = j /\ job'[j] = Started(job[j])
        BY <1>1, <1>jobs, <3>1 DEF MarkRunning, Lands
      <4>2. job'[j].status = "running"
        BY <4>1, <1>jobs, RecordFields
      <4>3. j # inflight.job
        <5>1. job[j].status # "running"
          BY <1>1 DEF MarkRunning, DueJobs
        <5>2. QED
          BY <5>1, NotInFlight
      <4>4. inflight.at < clock'
        <5>1. inflight.at \in Nat /\ inflight.at <= clock
          BY <1>0 DEF LateTypeOK, LateTables
        <5>2. QED
          BY <5>1, <1>0, <2>1
      <4>5. \A w \in Weeks : row'[w].generated_at < clock'
        <5>1. \A w \in Weeks : row[w].generated_at \in Nat /\ row[w].generated_at <= clock
          BY <1>0 DEF TypeOK, RowRecords, LateTables
        <5>2. QED
          BY <5>1, <1>0, <2>1
      <4>6. inflight' = inflight /\ ~ updating'
        BY <1>0, <4>1
      <4>7. QED
        BY ONLY <4>1, <4>2, <4>3, <4>4, <4>5, <4>6, j \in Jobs DEF LateAttempt
    <3>2. CASE o # "ok"
      BY <1>1, <3>2, NoAttempt DEF MarkRunning, LeavePass, Executing
    <3>3. QED
      BY <3>1, <3>2
  <2>5. RequestsWellFormed'
    BY <1>0, <2>1 DEF RequestsWellFormed
  <2>6. QED
    BY <2>3, <2>4, <2>5 DEF LateRest
<1>2. CASE RenderCandidate
  <2>1. PICK k \in Jobs : k = wjob
    BY <1>0, <1>2 DEF RenderCandidate, Executing
  <2>2. /\ job[k].status = "running" /\ k # inflight.job
        /\ inflight.at < clock /\ \A w \in Weeks : row[w].generated_at < clock
    BY <1>0, <1>2, <2>1 DEF RenderCandidate, LateAttempt
  <2>3. /\ candidate' = [candidate EXCEPT ![k] = clock]
        /\ UNCHANGED <<job, row, wjob, web, clock, inflight>> /\ pc' = "commit"
    BY <1>0, <1>2, <2>1 DEF RenderCandidate
  <2>4. LateTables'
    BY <1>0, <2>2, <2>3, LateCandidateKeeps
  <2>5. clock # 0
    <3>1. inflight.at \in Nat
      BY <1>0 DEF LateTypeOK
    <3>2. QED
      BY <1>0, <2>2, <3>1
  <2>6. candidate'[k] = clock /\ ~ updating'
    BY <1>0, <1>jobs, <2>3
  <2>7. LateAttempt'
    BY ONLY <2>1, <2>2, <2>3, <2>5, <2>6 DEF LateAttempt
  <2>8. QED
    BY <1>0, <2>3, <2>4, <2>7 DEF LateRest, RequestsWellFormed
<1>3. CASE BuildFails \/ SuccessCommitState \/ InstallFails
  <2>1. UNCHANGED <<tables, files, wjob, web, clock, inflight>>
    BY <1>0, <1>3 DEF BuildFails, SuccessCommitState, InstallFails
  <2>2. LateTables'
    BY <1>0, <2>1, TablesKeep, LateTablesKeep DEF LateFrame
  <2>3. SuccessCommitted' <=> SuccessCommitted
    BY <2>1 DEF SuccessCommitted
  <2>4. LateAttempt'
    <3>1. CASE BuildFails
      <4>1. pc = "build" /\ pc' = "record"
        BY <3>1 DEF BuildFails
      <4>2. wjob \in Jobs /\ job[wjob].status = "running"
        BY <1>0, <4>1 DEF LateAttempt, Executing
      <4>3. QED
        BY <2>1, <4>1, <4>2 DEF LateAttempt
    <3>2. CASE SuccessCommitState
      <4>1. pc = "verify" /\ pc' = IF SuccessCommitted THEN "install" ELSE "discard"
        BY <3>2 DEF SuccessCommitState
      <4>2. ~ updating'
        BY <1>0, <4>1
      <4>3. QED
        BY ONLY <1>0, <2>1, <2>3, <4>1, <4>2 DEF LateAttempt, Executing, tables, files
    <3>3. CASE InstallFails
      <4>1. pc = "install" /\ pc' = "mark_pending"
        BY <3>3 DEF InstallFails
      <4>2. ~ updating'
        BY <1>0, <4>1
      <4>3. QED
        BY ONLY <1>0, <2>1, <2>3, <4>1, <4>2 DEF LateAttempt, Executing, tables, files
    <3>4. QED
      BY <1>3, <3>1, <3>2, <3>3
  <2>5. QED
    BY <1>0, <2>1, <2>2, <2>4 DEF LateRest, RequestsWellFormed
<1>4. CASE DiscardCandidate(o)
  <2>1. PICK k \in Jobs : k = wjob
    BY <1>0, <1>4 DEF DiscardCandidate, Executing
  <2>2. /\ UNCHANGED <<tables, current, wjob, web, clock, inflight>>
        /\ pc = "discard" /\ pc' = "record"
        /\ candidate' = candidate \/ candidate' = [candidate EXCEPT ![k] = 0]
    BY <1>0, <1>4, <2>1 DEF DiscardCandidate
  <2>3. LateTables'
    <3>1. CASE candidate' = candidate
      BY <1>0, <2>2, <3>1, TablesKeep, LateTablesKeep DEF LateFrame
    <3>2. CASE candidate' = [candidate EXCEPT ![k] = 0]
      BY <1>0, <2>2, <3>2, LateCandidateKeeps
    <3>3. QED
      BY <2>2, <3>1, <3>2
  <2>4. wjob \in Jobs /\ job[wjob].status \in {"running", "succeeded"}
    BY <1>0, <2>2 DEF LateAttempt, Executing
  <2>5. LateAttempt'
    BY <2>2, <2>4 DEF LateAttempt
  <2>6. QED
    BY <1>0, <2>2, <2>3, <2>5 DEF LateRest, RequestsWellFormed
<1>5. CASE MarkFailure(o)
  <2>1. /\ UNCHANGED <<files, web, clock>> /\ pc = "record"
        /\ pc' = "due" \/ (pc' = "requeue" /\ wjob' = wjob)
    BY <1>5 DEF MarkFailure, BackToDue
  <2>2. SameSuccesses
    BY <1>0, <1>5, QuietSteps
  <2>3. LateTables'
    BY <1>0, <2>1, <2>2, LateTablesKeep DEF LateFrame
  <2>4. wjob \in Jobs /\ job'[wjob].status # "none"
    BY <1>0, <2>1, <2>2 DEF Executing, SameSuccesses
  <2>5. LateAttempt'
    BY <1>0, <2>1, <2>4 DEF LateAttempt, Executing
  <2>6. QED
    BY <1>0, <2>1, <2>3, <2>5 DEF LateRest, RequestsWellFormed
<1>6. QED
  BY <1>1, <1>2, <1>3, <1>4, <1>5

(* The success commit, answered or not, keeps the parts. *)
LEMMA LateMarkSuccess ==
  ASSUME LateInv, LateFrame, NEW o \in Outcomes, MarkSuccess(o)
  PROVE  LateRest'
<1> USE Constants DEF tables, files
<1>0. /\ TypeOK /\ LateTypeOK /\ LateTables /\ LateAttempt /\ RequestsWellFormed
      /\ UNCHANGED inflight /\ (updating' => pc' = "record")
      /\ clock \in Nat /\ clock <= clock
  BY DEF LateInv, LateTypeOK, LateFrame, TypeOK
<1>1. /\ pc = "commit" /\ pc' \in {"install", "verify"} /\ (~ Lands(o) => pc' = "verify")
      /\ UNCHANGED <<files, wjob, web, clock>>
  BY DEF MarkSuccess, Lands
<1>2. PICK k \in Jobs : k = wjob
  BY <1>0, <1>1 DEF LateAttempt, Executing
<1>3. /\ job[k].status = "running" /\ k # inflight.job
      /\ candidate[k] = clock /\ clock # 0
  BY <1>0, <1>1, <1>2 DEF LateAttempt
<1>4. inflight # NoCommit => job[inflight.job].week_code # job[k].week_code
  BY <1>3, WeeksDiffer
<1>5. inflight # NoCommit => job'[inflight.job] = job[inflight.job]
  BY DEF LateFrame
<1>6. ~ updating'
  BY <1>0, <1>1
<1>7. RequestsWellFormed'
  BY <1>0, <1>1 DEF RequestsWellFormed
<1>8. CASE ~ Lands(o)
  <2>1. UNCHANGED tables
    BY <1>8 DEF MarkSuccess
  <2>2. LateTables'
    BY <1>0, <1>1, <2>1, TablesKeep, LateTablesKeep DEF LateFrame
  <2>3. LateAttempt'
    BY ONLY <1>0, <1>1, <1>2, <1>3, <1>4, <1>6, <1>8, <2>1 DEF LateAttempt, tables, files
  <2>4. QED
    BY <1>7, <2>2, <2>3 DEF LateRest
<1>9. CASE Lands(o)
  <2>1. /\ row' = [row EXCEPT ![job[k].week_code] =
                     [status |-> "success", generated_at |-> clock]]
        /\ job' = [job EXCEPT ![k] = Succeeded(job[k], clock)]
    BY <1>2, <1>9 DEF MarkSuccess
  <2>2. LateTables'
    BY <1>0, <1>1, <1>3, <2>1, LateSuccessKeeps
  <2>3. /\ job'[k].status = "succeeded" /\ job'[k].finished_at = clock
        /\ job'[k].week_code = job[k].week_code
    BY <1>0, <2>1, RecordFields DEF TypeOK
  <2>4. row'[job[k].week_code] = [status |-> "success", generated_at |-> clock]
    <3>1. job[k].week_code \in Weeks
      BY <1>0, <1>3 DEF LateTables
    <3>2. QED
      BY <1>0, <2>1, <3>1 DEF TypeOK
  <2>5. SuccessCommitted'
    BY <1>1, <1>2, <2>3, <2>4 DEF SuccessCommitted
  <2>6. LateAttempt'
    BY ONLY <1>0, <1>1, <1>2, <1>3, <1>4, <1>5, <1>6, <2>3, <2>5 DEF LateAttempt, files
  <2>7. QED
    BY <1>7, <2>2, <2>6 DEF LateRest
<1>10. QED
  BY <1>8, <1>9

(* Every step of the base system that waits for the lock keeps the invariant. *)
LEMMA BaseStepInv ==
  ASSUME LateInv, BaseStep
  PROVE  LateInv'
<1>1. LateFrame /\ updating' \in BOOLEAN /\ Next
  BY DEF BaseStep, LateFrame
<1>2. LateTypeOK'
  <2>1. TypeOK /\ (pc \in Executing => wjob \in Jobs)
    BY LateAttemptHasJob DEF LateInv, LateTypeOK
  <2>2. TypeOK'
    BY <1>1, <2>1, NextTypeOK
  <2>3. inflight' \in [job: Jobs \union {NoJob}, at: Nat]
    BY <1>1 DEF LateInv, LateTypeOK, LateFrame
  <2>4. QED
    BY <1>1, <2>2, <2>3 DEF LateTypeOK
<1>3. LateRest'
  <2>1. CASE WebStep \/ TimeStep
    BY <1>1, <2>1, LateEnvironment
  <2>2. CASE WorkerStep
    <3>1. "ok" \in Outcomes
      BY DEF Outcomes
    <3>2. ASSUME NEW o \in Outcomes,
                 \/ RecoverStaleRunningJobs(o) \/ ReconcileCommit(o) \/ EnsureScheduledJob(o)
                 \/ RecordInstallPending(o) \/ RequeueUnrecorded(o)
          PROVE  LateRest'
      BY <1>1, <3>2, LatePassSteps
    <3>3. ASSUME ReconcileFails \/ NothingDue \/ Crash \/ CommitStateUnknown \/ InstallReport
          PROVE  LateRest'
      BY <1>1, <3>1, <3>3, LatePassSteps
    <3>4. ASSUME NEW j \in Jobs, ReconcileCandidate(j)
          PROVE  LateRest'
      BY <1>1, <3>1, <3>4, LatePassSteps
    <3>5. ASSUME NEW o \in Outcomes,
                 (\E j \in Jobs : MarkRunning(j, o)) \/ DiscardCandidate(o) \/ MarkFailure(o)
          PROVE  LateRest'
      BY <1>1, <3>5, LateAttemptSteps
    <3>6. ASSUME RenderCandidate \/ BuildFails \/ SuccessCommitState \/ InstallFails
          PROVE  LateRest'
      BY <1>1, <3>1, <3>6, LateAttemptSteps
    <3>7. ASSUME NEW o \in Outcomes, MarkSuccess(o)
          PROVE  LateRest'
      BY <1>1, <3>7, LateMarkSuccess
    <3>8. QED
      BY <2>2, <3>2, <3>3, <3>4, <3>5, <3>6, <3>7 DEF WorkerStep
  <2>3. QED
    BY <1>1, <2>1, <2>2 DEF Next
<1>4. QED
  BY <1>2, <1>3 DEF LateInv, LateRest

(* The commit whose reply is lost in the middle is of a running job and of a later
   generation than its week has. *)
LEMMA CommitBreaks ==
  ASSUME LateInv, CommitReplyBroken
  PROVE  LateInv'
<1> USE Constants DEF tables, files
<1>0. /\ TypeOK /\ LateTypeOK /\ LateTables /\ LateAttempt /\ RequestsWellFormed
      /\ clock \in Nat
  BY DEF LateInv, LateTypeOK, TypeOK
<1>1. /\ pc = "commit" /\ pc' = "verify" /\ inflight = NoCommit
      /\ inflight' = [job |-> wjob, at |-> clock]
      /\ UNCHANGED <<tables, files, wjob, cleared, web, completed, clock, updating>>
      /\ faults' \in 0 .. MaxFaults
  BY <1>0 DEF CommitReplyBroken, Spend, TypeOK
<1>2. PICK k \in Jobs : k = wjob
  BY <1>0, <1>1 DEF LateAttempt, Executing
<1>3. /\ job[k].status = "running" /\ candidate[k] = clock /\ clock # 0
      /\ \A w \in Weeks : row[w].generated_at < clock
      /\ job[k].week_code \in Weeks
  BY <1>0, <1>1, <1>2 DEF LateAttempt, LateTables
<1>4. LateTypeOK'
  BY <1>0, <1>1, <1>2 DEF LateTypeOK, TypeOK, WorkerPCs
<1>5. LateTables'
  <2>1. CommitIsPending'
    BY ONLY <1>1, <1>2, <1>3 DEF CommitIsPending, tables, files
  <2>2. OneActiveJobPerWeek'
    BY <1>0, <1>1 DEF LateTables, OneActiveJobPerWeek, Active
  <2>3. inflight'.at <= clock'
    BY <1>0, <1>1
  <2>4. QED
    BY <1>0, <1>1, <2>1, <2>2, <2>3 DEF LateTables
<1>6. LateAttempt'
  <2>1. ~ updating'
    BY <1>0, <1>1 DEF LateAttempt
  <2>2. inflight'.job = wjob'
    BY <1>1
  <2>3. QED
    BY ONLY <1>1, <1>2, <1>3, <2>1, <2>2 DEF LateAttempt, tables, files
<1>7. RequestsWellFormed'
  BY <1>0, <1>1 DEF RequestsWellFormed
<1>8. QED
  BY <1>4, <1>5, <1>6, <1>7 DEF LateInv

(* Landing late, the commit turns its job and week into a success; what another attempt
   relies on is of another week. *)
LEMMA CommitLands ==
  ASSUME LateInv, CommitLandsLate
  PROVE  LateInv'
<1> USE Constants DEF files, loop
<1>0. /\ TypeOK /\ LateTypeOK /\ LateTables /\ LateAttempt /\ RequestsWellFormed
      /\ clock \in Nat /\ inflight # NoCommit
      /\ job \in [Jobs -> JobRecords] /\ row \in [Weeks -> RowRecords]
  BY DEF LateInv, LateTypeOK, TypeOK, CommitLandsLate
<1>1. PICK k \in Jobs, at \in Nat : k = inflight.job /\ at = inflight.at
  BY <1>0 DEF LateTypeOK, LateTables, CommitIsPending
<1>2. /\ job[k].status = "running" /\ candidate[k] \in {0, at} /\ at <= clock
      /\ row[job[k].week_code].generated_at < at /\ job[k].week_code \in Weeks
  BY <1>0, <1>1 DEF LateTables, CommitIsPending
<1>3. /\ row' = [row EXCEPT ![job[k].week_code] =
                   [status |-> "success", generated_at |-> at]]
      /\ job' = [job EXCEPT ![k] = Succeeded(job[k], at)]
      /\ inflight' = NoCommit
      /\ UNCHANGED <<files, loop, web, completed, clock, faults, updating>>
  BY <1>1 DEF CommitLandsLate
<1>4. /\ job'[k].status = "succeeded" /\ job'[k].finished_at = at
      /\ job'[k].week_code = job[k].week_code
      /\ \A i \in Jobs \ {k} : job'[i] = job[i]
  BY <1>0, <1>3, RecordFields
<1>5. \A w \in Weeks : w # job[k].week_code => row'[w] = row[w]
  BY <1>0, <1>2, <1>3
<1>6. row'[job[k].week_code].generated_at = at
  BY <1>0, <1>2, <1>3
<1>7. LateTypeOK'
  <2>1. job' \in [Jobs -> JobRecords]
    BY <1>0, <1>3, RecordOps
  <2>2. row' \in [Weeks -> RowRecords]
    BY <1>0, <1>2, <1>3 DEF RowRecords
  <2>3. QED
    BY <1>0, <1>3, <2>1, <2>2 DEF LateTypeOK, TypeOK, NoCommit, NoJob
<1>8. LateTables'
  BY <1>0, <1>2, <1>3, LateSuccessKeeps
<1>9. LateAttempt'
  <2>1. /\ pc' = pc /\ wjob' = wjob /\ clock' = clock /\ candidate' = candidate
        /\ updating' = updating
    BY <1>3
  <2>2. CASE pc \notin Executing
    BY <1>0, <1>3, <2>1, <2>2 DEF LateAttempt, Executing
  <2>3. CASE pc \in Executing
    <3>1. PICK m \in Jobs : m = wjob /\ job[m].status # "none"
      BY <1>0, <2>3 DEF LateAttempt
    <3>2. \/ m = k /\ job'[m].status = "succeeded"
          \/ m # k /\ job'[m] = job[m]
      BY <1>4
    <3>3. ASSUME pc \in {"build", "commit"}
          PROVE  /\ m # k /\ job'[m].status = "running"
                 /\ m # NoCommit.job /\ NoCommit.at < clock
                 /\ \A w \in Weeks : row'[w].generated_at < clock
      <4>1. /\ m # k /\ job[m].status = "running" /\ at < clock
            /\ \A w \in Weeks : row[w].generated_at < clock
        BY <1>0, <1>1, <3>1, <3>3 DEF LateAttempt
      <4>2. \A w \in Weeks : row'[w].generated_at < clock
        BY ONLY <1>5, <1>6, <4>1
      <4>3. QED
        BY <1>0, <1>1, <3>2, <4>1, <4>2 DEF NoCommit
    <3>4. ASSUME pc \in {"install", "mark_pending"}
          PROVE  SuccessCommitted'
      <4>1. SuccessCommitted /\ m # k
        BY <1>0, <1>1, <1>2, <3>1, <3>4 DEF LateAttempt, SuccessCommitted
      <4>2. job[k].week_code # job[m].week_code
        BY <1>0, <1>1, <3>1, <3>4, <4>1 DEF LateAttempt
      <4>3. job'[m] = job[m] /\ row[job[m].week_code] = [status |-> "success", generated_at |-> clock]
        BY <3>1, <3>2, <4>1 DEF SuccessCommitted
      <4>4. row'[job[m].week_code] = row[job[m].week_code]
        BY <1>3, <4>2, <1>0
      <4>5. QED
        BY <2>1, <3>1, <4>1, <4>3, <4>4 DEF SuccessCommitted
    <3>5. job'[m].status # "none"
      BY <3>1, <3>2
    <3>6. pc \in {"verify", "discard", "record"} => job'[m].status \in {"running", "succeeded"}
      BY <1>0, <3>1, <3>2 DEF LateAttempt
    <3>7. pc \in {"commit", "verify", "install", "mark_pending"} =>
            candidate[m] = clock /\ clock # 0
      BY <1>0, <3>1 DEF LateAttempt
    <3>8. updating => pc = "record"
      BY <1>0 DEF LateAttempt
    <3>9. inflight' = NoCommit
      BY <1>3
    <3>10. QED
      BY ONLY <2>1, <3>1, <3>3, <3>4, <3>5, <3>6, <3>7, <3>8, <3>9 DEF LateAttempt
  <2>4. QED
    BY <2>2, <2>3
<1>10. RequestsWellFormed'
  BY <1>0, <1>3 DEF RequestsWellFormed
<1>11. QED
  BY <1>7, <1>8, <1>9, <1>10 DEF LateInv

(* The commit's abort, and the failure record it holds up, read, refused or written, keep
   the invariant. *)
LEMMA LateRecords ==
  ASSUME LateInv, CommitAborts \/ MarkFailureReads \/ MarkFailureRefused \/ MarkFailureWrites
  PROVE  LateInv'
<1> USE Constants DEF tables, files
<1>0. /\ TypeOK /\ LateTypeOK /\ LateTables /\ LateAttempt /\ RequestsWellFormed
      /\ job \in [Jobs -> JobRecords] /\ row \in [Weeks -> RowRecords] /\ clock \in Nat
  BY DEF LateInv, LateTypeOK, TypeOK
<1>1. CASE CommitAborts
  <2>1. /\ UNCHANGED <<job, row, current, candidate, pc, wjob, cleared, web, completed,
                       clock, faults, updating>>
        /\ inflight' = NoCommit
    BY <1>1 DEF CommitAborts, vars
  <2>2. LateTypeOK'
    BY <1>0, <2>1 DEF LateTypeOK, TypeOK, NoCommit, NoJob
  <2>3. LateTables'
    BY <1>0, <2>1 DEF LateTables, CommitIsPending, NoCommit, OneActiveJobPerWeek, Active
  <2>4. LateAttempt'
    <3>1. SuccessCommitted' <=> SuccessCommitted
      BY <2>1 DEF SuccessCommitted
    <3>2. pc \in {"build", "commit"} => wjob # NoCommit.job /\ NoCommit.at < clock
      BY <1>0 DEF LateAttempt, LateTypeOK, NoCommit, Executing
    <3>3. QED
      BY ONLY <1>0, <2>1, <3>1, <3>2 DEF LateAttempt
  <2>5. RequestsWellFormed'
    BY <1>0, <2>1 DEF RequestsWellFormed
  <2>6. QED
    BY <2>2, <2>3, <2>4, <2>5 DEF LateInv
<1>2. CASE MarkFailureReads
  <2>1. /\ UNCHANGED <<job, row, current, candidate, pc, wjob, cleared, web, completed,
                       clock, faults, inflight>>
        /\ pc = "record" /\ updating' = TRUE
    BY <1>2 DEF MarkFailureReads, vars
  <2>2. LateTypeOK'
    BY <1>0, <2>1 DEF LateTypeOK, TypeOK
  <2>3. LateTables'
    BY <1>0, <2>1 DEF LateTables, CommitIsPending, OneActiveJobPerWeek, Active
  <2>4. LateAttempt'
    BY ONLY <1>0, <2>1 DEF LateAttempt, Executing
  <2>5. RequestsWellFormed'
    BY <1>0, <2>1 DEF RequestsWellFormed
  <2>6. QED
    BY <2>2, <2>3, <2>4, <2>5 DEF LateInv
<1>3. CASE MarkFailureRefused
  <2>1. /\ UNCHANGED <<job, row, current, candidate, wjob, cleared, web, completed,
                       clock, faults, inflight>>
        /\ pc = "record" /\ pc' = "requeue" /\ updating' = FALSE
    BY <1>0, <1>3 DEF MarkFailureRefused, LateAttempt
  <2>2. LateTypeOK'
    BY <1>0, <2>1 DEF LateTypeOK, TypeOK, WorkerPCs
  <2>3. LateTables'
    BY <1>0, <2>1 DEF LateTables, CommitIsPending, OneActiveJobPerWeek, Active
  <2>4. LateAttempt'
    BY ONLY <1>0, <2>1 DEF LateAttempt, Executing
  <2>5. RequestsWellFormed'
    BY <1>0, <2>1 DEF RequestsWellFormed
  <2>6. QED
    BY <2>2, <2>3, <2>4, <2>5 DEF LateInv
<1>4. CASE MarkFailureWrites
  <2>1. pc = "record" /\ inflight = NoCommit
    BY <1>0, <1>4 DEF MarkFailureWrites, LateAttempt
  <2>2. PICK k \in Jobs : k = wjob /\ job[k].status # "none"
    BY <1>0, <2>1 DEF LateAttempt, Executing
  <2>3. /\ \A i \in Jobs \ {k} : Active(i) => job[i].week_code # job[k].week_code
        /\ job' = [job EXCEPT ![k] = Failed(job[k])]
        /\ row' = [row EXCEPT ![job[k].week_code] =
                     IF @.status = "none" THEN [@ EXCEPT !.status = "failed"] ELSE @]
        /\ updating' = FALSE /\ pc' = "due" /\ wjob' = NoJob
        /\ UNCHANGED <<current, candidate, cleared, web, completed, clock, faults, inflight>>
    BY <1>4, <2>2 DEF MarkFailureWrites, BackToDue
  <2>4. /\ job'[k].status = "failed" /\ job'[k].week_code = job[k].week_code
        /\ \A i \in Jobs \ {k} : job'[i] = job[i]
    BY <1>0, <2>3, RecordFields
  <2>5. \A w \in Weeks : row'[w].generated_at = row[w].generated_at
    BY <1>0, <2>3 DEF RowRecords
  <2>6. LateTypeOK'
    <3>1. job' \in [Jobs -> JobRecords]
      BY <1>0, <2>3, RecordOps
    <3>2. row' \in [Weeks -> RowRecords]
      BY <1>0, <2>3 DEF RowRecords
    <3>3. QED
      BY <1>0, <2>3, <3>1, <3>2 DEF LateTypeOK, TypeOK, WorkerPCs
  <2>7. LateTables'
    <3>1. \A i \in Jobs : /\ job'[i].status # "none" => job'[i].week_code \in Weeks
                          /\ job'[i].status = "succeeded" =>
                               candidate[i] \in {0, job'[i].finished_at}
      BY <1>0, <2>2, <2>4 DEF LateTables
    <3>2. OneActiveJobPerWeek'
      BY <1>0, <2>3, <2>4 DEF LateTables, OneActiveJobPerWeek, Active
    <3>3. CommitIsPending' /\ (inflight.at <= clock)'
      BY <1>0, <2>1, <2>3 DEF CommitIsPending, LateTables
    <3>4. (\A w \in Weeks : row[w].generated_at <= clock)'
      BY <1>0, <2>3, <2>5 DEF LateTables
    <3>5. QED
      BY <2>3, <3>1, <3>2, <3>3, <3>4 DEF LateTables
  <2>8. LateAttempt'
    BY <2>3 DEF LateAttempt, Executing
  <2>9. RequestsWellFormed'
    BY <1>0, <2>3 DEF RequestsWellFormed
  <2>10. QED
    BY <2>6, <2>7, <2>8, <2>9 DEF LateInv
<1>5. QED
  BY <1>1, <1>2, <1>3, <1>4

(* The strengthened invariant holds in every reachable state. *)
LEMMA LateInvariant == LateSpec => []LateInv
<1>1. LateInv /\ [LateNext]_lateVars => LateInv'
  <2> SUFFICES ASSUME LateInv, [LateNext]_lateVars PROVE LateInv'
    OBVIOUS
  <2>1. CASE UNCHANGED lateVars
    BY <2>1 DEF lateVars, vars, LateInv, LateTypeOK, TypeOK, LateTables, LateAttempt,
                CommitIsPending, OneActiveJobPerWeek, Active, SuccessCommitted,
                RequestsWellFormed
  <2>2. QED
    BY <2>1, BaseStepInv, CommitBreaks, CommitLands, LateRecords DEF LateNext
<1>2. QED
  BY LateInitInv, <1>1, PTL DEF LateSpec

------------------------------------------------------------------------------
(* What a late commit cannot break. *)

(* What LateInv says is enough for a step to keep the promise. *)
LEMMA LateReady == LateInv => PromiseReady
<1> SUFFICES ASSUME LateInv PROVE PromiseReady
  OBVIOUS
<1>1. LateTables /\ LateAttempt
  BY DEF LateInv
<1>2. pc = "commit" => /\ wjob \in Jobs /\ job[wjob].week_code \in Weeks
                       /\ row[job[wjob].week_code].generated_at < clock
  BY <1>1 DEF LateTables, LateAttempt, Executing
<1>3. pc = "install" => /\ wjob \in Jobs /\ SuccessCommitted
                        /\ candidate[wjob] = clock /\ clock # 0
  BY <1>1 DEF LateAttempt, Executing
<1>4. \A j \in Jobs : AuthorizesInstall(j) =>
        /\ job[j].week_code \in Weeks
        /\ candidate[j] \in {0, job[j].finished_at}
  BY <1>1 DEF LateTables, AuthorizesInstall
<1>5. QED
  BY <1>2, <1>3, <1>4 DEF PromiseReady

(* A step keeps or grows a week's recorded generation or installs the recorded one, the
   landing of a late commit included. *)
LEMMA LatePromiseStep ==
  ASSUME LateInv, [LateNext]_lateVars
  PROVE  [Promised!PromiseNext]_(Promised!promiseVars)
<1> DEFINE recorded == [w \in Weeks |-> row[w].generated_at]
<1> USE Constants DEF Promised!promiseVars, lateVars, vars, tables, files, loop
<1>1. ASSUME Next \/ UNCHANGED lateVars
      PROVE  [Promised!PromiseNext]_(Promised!promiseVars)
  BY <1>1, PromiseStep, LateReady DEF LateInv, LateTypeOK
<1>2. CASE CommitReplyBroken \/ CommitAborts \/ MarkFailureReads \/ MarkFailureRefused
  BY <1>2 DEF CommitReplyBroken, CommitAborts, MarkFailureReads, MarkFailureRefused
<1>3. CASE CommitLandsLate
  <2>1. PICK w \in Weeks, at \in Nat : w = job[inflight.job].week_code /\ at = inflight.at
    BY <1>3 DEF CommitLandsLate, LateInv, LateTypeOK, LateTables, CommitIsPending
  <2>2. row[w].generated_at < at /\ row \in [Weeks -> RowRecords]
    BY <1>3, <2>1 DEF CommitLandsLate, LateInv, LateTypeOK, TypeOK, LateTables, CommitIsPending
  <2>3. /\ row' = [row EXCEPT ![w] = [status |-> "success", generated_at |-> at]]
        /\ UNCHANGED current
    BY <1>3, <2>1 DEF CommitLandsLate
  <2>4. recorded' = [recorded EXCEPT ![w] = at]
    BY <2>2, <2>3
  <2>5. recorded[w] < at /\ recorded[w] \in Nat /\ recorded'[w] = at
    BY <2>2, <2>4 DEF RowRecords
  <2>6. Promised!Record(w)
    BY <2>3, <2>4, <2>5 DEF Promised!Record
  <2>7. QED
    BY <2>6 DEF Promised!PromiseNext
<1>4. CASE MarkFailureWrites
  <2>1. UNCHANGED current /\ \A w \in Weeks : row'[w].generated_at = row[w].generated_at
    BY <1>4 DEF MarkFailureWrites, LateInv, LateTypeOK, TypeOK, RowRecords
  <2>2. UNCHANGED recorded
    BY <2>1
  <2>3. QED
    BY <2>1, <2>2
<1>5. QED
  BY <1>1, <1>2, <1>3, <1>4 DEF LateNext, BaseStep

(* Also where a commit lands after its caller has given up on it, a week has at most one *)
(* job that is pending, running or failed.                                               *)
THEOREM LateOneActive == LateSpec => []OneActiveJobPerWeek
<1>1. LateInv => OneActiveJobPerWeek
  BY DEF LateInv, LateTables
<1>2. QED
  BY LateInvariant, <1>1, PTL

(* Such a commit may lose the bytes of its success, but no document that is not the    *)
(* recorded generation of its week is ever published, and generations still only grow. *)
THEOREM LatePromiseKept == LateSpec => KeepsPromise
<1>1. LateInit => Promised!PromiseInit
  BY DEF LateInit, Init, Promised!PromiseInit
<1>2. LateInv /\ [LateNext]_lateVars => [Promised!PromiseNext]_(Promised!promiseVars)
  BY LatePromiseStep
<1>3. QED
  BY LateInvariant, <1>1, <1>2, PTL DEF LateSpec, KeepsPromise, Promised!Safety

(* The failure record that overwrites the job of a late success leaves the week's row a *)
(* success (jobs.py:362-376).                                                           *)
THEOREM LateWeekStays == LateSpec => WeekStaysSuccess
<1>1. LateInv /\ [LateNext]_lateVars =>
        [\A w \in Weeks : row[w].status = "success" => row'[w].status = "success"]_lateVars
  <2> SUFFICES ASSUME LateInv, LateNext, NEW w \in Weeks, row[w].status = "success"
               PROVE  row'[w].status = "success"
    OBVIOUS
  <2>0. row \in [Weeks -> RowRecords]
    BY DEF LateInv, LateTypeOK, TypeOK
  <2>1. CASE BaseStep
    BY <2>1, WeekStays DEF BaseStep, LateInv, LateTypeOK
  <2>2. CASE CommitLandsLate
    BY <2>0, <2>2 DEF CommitLandsLate
  <2>3. CASE MarkFailureWrites
    BY <2>0, <2>3 DEF MarkFailureWrites
  <2>4. CASE CommitReplyBroken \/ CommitAborts \/ MarkFailureReads \/ MarkFailureRefused
    BY <2>4 DEF CommitReplyBroken, CommitAborts, MarkFailureReads, MarkFailureRefused,
                vars, tables
  <2>5. QED
    BY <2>1, <2>2, <2>3, <2>4 DEF LateNext
<1>2. QED
  BY LateInvariant, <1>1, PTL DEF LateSpec, WeekStaysSuccess

================================================================================
