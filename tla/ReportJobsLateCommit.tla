-------------------------- MODULE ReportJobsLateCommit --------------------------
(***************************************************************************)
(* ReportJobs with one more failure: the connection breaks while the       *)
(* database is still processing the COMMIT of _mark_success, and the       *)
(* transaction lands, or aborts, some time after the caller has seen the   *)
(* exception and queried the database again. Until then it holds the lock  *)
(* of its report_jobs row: readers see the old version, writers wait.      *)
(***************************************************************************)
EXTENDS ReportJobs

VARIABLES
  inflight,   \* the success commit still in progress, as its job and stamp
  updating    \* _mark_failure has read its job and not yet written it

lateVars == <<vars, inflight, updating>>

NoCommit == [job |-> NoJob, at |-> 0]

LateInit == Init /\ inflight = NoCommit /\ updating = FALSE

\* Any step of the base system; one that writes the locked row waits.
BaseStep ==
  /\ Next
  /\ updating => loop' = loop \/ pc' = "idle"
  /\ inflight # NoCommit => job'[inflight.job] = job[inflight.job]
  /\ updating' = (updating /\ pc' = "record")
  /\ UNCHANGED inflight

CommitReplyBroken ==
  /\ pc = "commit"
  /\ inflight = NoCommit
  /\ Spend("error")
  /\ inflight' = [job |-> wjob, at |-> clock]
  /\ pc' = "verify"
  /\ UNCHANGED <<tables, files, wjob, cleared, web, completed, clock, updating>>

CommitLandsLate ==
  /\ inflight # NoCommit
  /\ row' = [row EXCEPT ![job[inflight.job].week_code] =
               [status |-> "success", generated_at |-> inflight.at]]
  /\ job' = [job EXCEPT ![inflight.job] = Succeeded(job[inflight.job], inflight.at)]
  /\ inflight' = NoCommit
  /\ UNCHANGED <<files, loop, web, completed, clock, faults, updating>>

CommitAborts ==
  /\ inflight # NoCommit
  /\ inflight' = NoCommit
  /\ UNCHANGED <<vars, updating>>

\* _mark_failure reads the old version of the row; its UPDATE then waits.
MarkFailureReads ==
  /\ pc = "record" /\ ~updating
  /\ job[wjob].status # "succeeded"
  /\ updating' = TRUE
  /\ UNCHANGED <<vars, inflight>>

\* The unique index of active jobs refuses the update of a job that has meanwhile
\* succeeded and whose week already has a successor.
MarkFailureRefused ==
  /\ updating
  /\ inflight = NoCommit
  /\ \E i \in Jobs \ {wjob} : Active(i) /\ job[i].week_code = job[wjob].week_code
  /\ pc' = "requeue"
  /\ updating' = FALSE
  /\ UNCHANGED <<tables, files, wjob, cleared, web, completed, clock, faults, inflight>>

MarkFailureWrites ==
  /\ updating
  /\ inflight = NoCommit
  /\ \A i \in Jobs \ {wjob} : Active(i) => job[i].week_code # job[wjob].week_code
  /\ job' = [job EXCEPT ![wjob] = Failed(job[wjob])]
  /\ row' = [row EXCEPT ![job[wjob].week_code] =
               IF @.status = "none" THEN [@ EXCEPT !.status = "failed"] ELSE @]
  /\ updating' = FALSE
  /\ BackToDue
  /\ UNCHANGED <<files, web, completed, clock, faults, inflight>>

LateNext ==
  \/ BaseStep
  \/ CommitReplyBroken
  \/ CommitLandsLate
  \/ CommitAborts
  \/ MarkFailureReads
  \/ MarkFailureRefused
  \/ MarkFailureWrites

LateSpec == LateInit /\ [][LateNext]_lateVars

------------------------------------------------------------------------------
(* Properties. Of those of ReportJobs the promise and the queue's index still hold. *)

\* A week that was recorded as a success stays one, also where the failure record of the
\* attempt whose commit landed late overwrites the job's (jobs.py:362-376).
WeekStaysSuccess ==
  [][\A w \in Weeks : row[w].status = "success" => row'[w].status = "success"]_lateVars

------------------------------------------------------------------------------
(* The inductive invariant behind them. A job may now have a finished_at and yet be    *)
(* failed or running again, and a success may have lost its candidate.                *)

LateTypeOK ==
  /\ TypeOK
  /\ inflight \in [job: Jobs \union {NoJob}, at: Nat]
  /\ updating \in BOOLEAN

\* A commit in flight keeps its job running, is of a later generation than its week has,
\* and its job's candidate, unless discarded, holds its bytes.
CommitIsPending ==
  inflight # NoCommit =>
    /\ inflight.job \in Jobs
    /\ job[inflight.job].status = "running"
    /\ candidate[inflight.job] \in {0, inflight.at}
    /\ row[job[inflight.job].week_code].generated_at < inflight.at

LateTables ==
  /\ \A j \in Jobs : /\ job[j].status # "none" => job[j].week_code \in Weeks
                     /\ job[j].status = "succeeded" =>
                          candidate[j] \in {0, job[j].finished_at}
  /\ \A w \in Weeks : row[w].generated_at <= clock
  /\ inflight.at <= clock
  /\ CommitIsPending
  /\ OneActiveJobPerWeek

\* What the thread may rely on, now that a commit of another attempt may be in flight.
LateAttempt ==
  /\ pc \in Executing => wjob \in Jobs /\ job[wjob].status # "none"
  /\ pc \in {"build", "commit"} =>
       /\ job[wjob].status = "running"
       /\ wjob # inflight.job /\ inflight.at < clock
       /\ \A w \in Weeks : row[w].generated_at < clock
  /\ pc \in {"commit", "verify", "install", "mark_pending"} =>
       candidate[wjob] = clock /\ clock # 0
  /\ pc \in {"verify", "discard", "record"} => job[wjob].status \in {"running", "succeeded"}
  /\ pc \in {"install", "mark_pending"} => SuccessCommitted
  /\ pc \in {"verify", "install", "mark_pending"}
       /\ inflight # NoCommit /\ inflight.job # wjob
     => job[inflight.job].week_code # job[wjob].week_code
  /\ updating => pc = "record"

LateInv == LateTypeOK /\ LateTables /\ LateAttempt /\ RequestsWellFormed

================================================================================
