# network-weekly in TLA+

network-weekly collects the state of H3C network devices every five minutes
over SNMP and SSH, keeps it in PostgreSQL, and turns each ISO week into one DOCX
report that an administrator downloads from a small web application. This
directory holds its TLA+ specifications, the TLC configurations that check them
and the TLAPS proofs of the report queue, of the device poll, of the priority interfaces,
of the counter arithmetic, of discovery, of the IRF observations, of the login sessions,
and of retention with the weekly reports that read what it leaves.

Paths below are relative to `src/application/backend/` unless they start with
`src/`. `PROJECT.json` maps every definition to the lines it models.

- [1. The system](#1-the-system)
- [2. The hard behaviours](#2-the-hard-behaviours)
- [3. Modules](#3-modules)
- [4. What the runs check](#4-what-the-runs-check)
- [5. What is proved](#5-what-is-proved)
- [6. Where code and documentation disagree](#6-where-code-and-documentation-disagree)
- [7. What is not modelled](#7-what-is-not-modelled)
- [8. Plan](#8-plan)

## 1. The system

Two processes share one database and one report directory. The **worker**
(`worker.py`) runs a heartbeat, the device poll scheduler, the IRF loop, the
retention pass and the weekly report loop, each in a thread of its own. The
**web** process (`main.py`, `web/`) serves login, report, interface and
retention pages. They never talk to each other: every interaction goes through
tables, row locks, unique indexes, and the names of files.

| Component | State it keeps | Operations | Talks to | What makes it correct |
|---|---|---|---|---|
| Report jobs: `reporting/jobs.py`, `reporting/schedule.py`, `web/reports.py` | `report_jobs`, `weekly_reports`, the current and candidate DOCX files | recover, reconcile, schedule, execute (render, commit, switch), record a failure, regenerate | database, report directory, web requests | one active job per week; a recorded success never loses its bytes and is never taken back; only the recorded generation becomes the document; every job ends |
| Report document: `reporting/docx.py` | the files themselves | render to a candidate, switch, discard | report jobs | the switch is atomic and authorised by the job |
| Device polling: `monitoring/scheduler.py`, `monitoring/poll.py`, `monitoring/credentials.py` | `_in_flight`, `_last_cycle`, the thread pool, `device_poll_runs` | plan, wait, load devices, submit or skip, check, collect, persist, stop | collection, reachability, pipeline | one poll per device at a time; each cycle is processed once; one stuck device does not stop the others |
| Reachability: `monitoring/reachability.py` | `device_monitoring_states`, `device_reachability_incidents` | one transition per processed cycle, in the poll's transaction | polling, weekly statistics | incidents are exactly what the history of runs says |
| Interface state: `monitoring/interface_state.py`, `monitoring/interface_config.py`, `web/interfaces.py` | `interfaces.monitored`, `interface_monitoring_states`, `interface_state_incidents` | one transition per sampled interface, the administrator's switch | poll transaction, web requests, statistics | incidents are exactly those of successive valid samples |
| Collection: `collect/session.py`, `snmp.py`, `ssh.py`, `h3c/` | none | SNMP sections, SSH fallback | devices | one failing section does not lose another |
| Discovery: `collect/discovery.py`, `collect/persist.py` | `interfaces`, `aggregation_members` | upsert by normalised name, reconcile membership | poll transaction | after a successful run the rows are the device's; nothing goes that the walks which answered still show; the selection survives |
| Pipeline and utilization: `monitoring/pipeline.py`, `utilization.py` | metrics and counter samples | baseline, rate, rebaseline on reset or wrap | poll transaction, statistics | a rate is never negative, nor spans a reset |
| Intervals and thresholds: `monitoring/sustained.py`, `thresholds.py` | none (pure), threshold settings | detect sustained intervals | weekly statistics | an interval is maximal, consecutive and long enough |
| IRF: `monitoring/irf.py`, `reporting/irf_summary.py` | `irf_member_observations`, the roles in `device_members` | observe, compare with the stored role, summarise a week | devices, statistics | only what the device reported makes a member missing; windows are the runs of its absence |
| Retention: `monitoring/retention.py`, its thread in `worker.py` | none (deletes rows of `interface_metrics`, `device_metrics`, `device_poll_runs`) | one pass, in batches that are transactions of their own | polls that write the tables, reports that read them | no long-term record goes; a week within the retention is reported as before; deleting runs drags no mass of metrics along |
| Weekly statistics: `reporting/service.py`, `period.py`, `incidents.py`, `counters_coverage.py`, `resources.py` | none (reads) | period arithmetic, coverage, incident clipping, overall status | all monitoring tables | each episode is counted in the weeks it touches, with consistent instants |
| Session and login: `auth/`, `web/routes.py`, `web/deps.py`, `web/security.py`, `admin_cli.py` | `users`, `sessions` | look up and slide, login with its purge, logout, initialise | threads of the web server, its event loop, the command line | a session serves only within both its bounds; one that was logged out or purged stays dead; nobody is sent away for nothing |
| Inventory: `inventory.py`, `inventory_sync.py`, `secrets.py` | `devices` | validate a file, sync it | polling reads it each cycle | a sync never deletes history |
| Worker shell: `worker.py`, `heartbeat.py` | threads, heartbeat row | start, SIGTERM, drain | all loops | loops outlive each other's failures |
| Pages, models, configuration, logging | schema | none over time | | |

## 2. The hard behaviours

`PROJECT.json` lists each hazard at its line with the property that covers it.
In short:

- **Two systems, one promise.** A success is committed to the database and the
  file is switched afterwards. The process can die, the disk can refuse, and the
  reply to the commit can be lost at every point in between (`jobs.py:780-850`).
- **Check, then act, in different transactions.** A regenerate request looks for
  an active job, inserts with ON CONFLICT DO NOTHING, commits and reads back,
  while the loop finishes jobs (`jobs.py:181-206`).
- **Superseded work.** A candidate or marker of an old generation is found after a newer
  one succeeded (`jobs.py:549`, `jobs.py:589`).
- **Slots, skips and a shared pool.** A poll may outlive many cycles; the skip
  records of its device use the same threads (`scheduler.py:112-130`).
- **Replays.** A restart at a boundary plans a cycle again whose transaction may
  or may not have landed (`poll.py:154-175`).
- **Counting machines over gappy input.** Down and recovery need two adjacent
  cycles, or two successive valid samples; cycles are skipped, lost, late, or
  carry no sample (`reachability.py:84-172`, `interface_state.py:61-149`).
- **Switching monitoring** in the middle of a run or an episode.
- **Walks one after the other.** A device may be renumbered between two walks of a
  poll, any walk may fail, and rows of interfaces that are gone keep their ifIndex
  (`collectors.py:346-358`, `discovery.py:135-205`).
- **Observations that fail or come late**: the next one must neither take silence for
  absence nor change a week already reported (`irf.py:206-225`).
- **A request in flight** while its session is logged out or purged: it looked the row
  up in one thread, commits `last_seen_at` later, and the event loop deletes in between
  (`sessions.py:55-107`, `deps.py:23-35`).
- **Deletion in batches** beside polls that insert and reports that read: between two
  batches, and after a crash, the tables are half done (`retention.py:83-123`).
- **Time boundaries** in the statistics: half-open weeks, ongoing versus
  recovered episodes, interval lengths counted in samples.

## 3. Modules

```
ReportPromise          what a week's document promises
   ^ refined by
ReportJobs      <---- extended by ----  ReportJobsLateCommit  (one more failure)
                                          ^-- extended by --  ReportJobs_proofs (TLAPS)

IncidentLedger         what the weekly report relies on when it reads incidents
   ^-- refined by --  InterfaceIncidents  <--- extended by ---  InterfaceIncidents_proofs (TLAPS)
   ^-- refined by --  DevicePolling       <--- extended by ---  DevicePolling_proofs      (TLAPS)
                         |
   .----- extends -------
   v
Reachability           the pure Down/Recovery transition of a device
   ^ extended by
WeeklyStatistics       one device's weeks, as a report reads them
   ^ extended by
Retention       <---- extended by ----  MCRetention            (state constraint)
   ^------- <---- extended by ----  Retention_proofs      (TLAPS)

SessionPromise         what a login promises
   ^ refined by
AdminSessions   <---- extended by ----  MCAdminSessions        (symmetry)
   ^------- <---- extended by ----  AdminSessions_proofs  (TLAPS)

CounterSamples  <---- extended by ----  CounterSamples_proofs     (TLAPS)

IrfObservation         a fabric's members, as observed and as a report reads them
   ^------- <---- extended by ----  IrfObservation_proofs (TLAPS)

Discovery       <---- extended by ----  MCDiscovery            (symmetry)
   ^------- <---- extended by ----  Discovery_proofs      (TLAPS)
```

Definitions named `*_Faulty`, `*_Counted` or `*_Wrapped` are plausible mistakes (a dropped
guard, a missing reset, an off-by-one). No specification uses them; each one
stands next to the definition it distorts, and replacing that definition by it
makes TLC refute the property it is paired with in `PROJECT.json`. They show that
every property depends on the code.

### ReportPromise, ReportJobs

`ReportPromise` has two variables per week: the generation the database
*recorded* and the one *published* as the downloadable document. A newer
generation may be recorded; the document may then become exactly the recorded
one; and it does, eventually.

`ReportJobs` is the implementation.

| Variable | Code |
|---|---|
| `job` | `report_jobs`: status, week, `finished_at`, `last_error` (NULL, an error, `install_pending`), and `next_retry_at` as NULL, reached or in the future |
| `row` | `weekly_reports`: status and `generated_at` |
| `current`, `candidate` | the DOCX at the week's path, and at `...docx.candidate.<job id>` |
| `pc`, `wjob`, `cleared` | where the loop thread is, its job, and the markers its open reconciliation session has cleared |
| `web` | each POST /regenerate: its step and its week |
| `completed`, `clock`, `faults` | weeks that are past Monday 00:10, attempts begun, failures so far |

One action stands for one database transaction, one file operation or one
read that decides something: `RecoverStaleRunningJobs`, `ReconcileCandidate`
(per file), `ReconcileCommit`, `EnsureScheduledJob`, `MarkRunning`,
`RenderCandidate`, `MarkSuccess`, `SuccessCommitState`, `InstallReport`,
`RecordInstallPending`, `DiscardCandidate`, `MarkFailure`, `RequeueUnrecorded`.
Each transaction has three outcomes: it commits and the caller knows, it does
not and the caller sees an exception, or it *commits and the caller sees an
exception*. `Crash` may happen at every `pc`. The requests
(`RequestRegenerate`, `RequestInsert`, `RequestSelect`) interleave with all of it.

Abstractions, and why they are sound here:

- An attempt is named by a stamp. In the code the same instant is written to the
  job's `finished_at` and the row's `generated_at`, and it is what authorises a
  switch, so one number tells everything apart. Stamps strictly increase: the
  wall clock is assumed not to be set back between two attempts.
- Monday 00:00 (the week is complete, regenerate is allowed) and Monday 00:10
  (scheduling is due) are one instant.
- Due jobs run in the order of their ids; the code orders by `created_at`, then by id
  (`jobs.py:877`), which differs only if inserts overlap. No property depends on it.
- `started_at`, `attempts` and `trigger` do not influence any step.
- `.tmp-report-*` files left by a crash during rendering are never read again;
  they are not modelled. Nor is power loss without fsync.
- Candidates with a name from before the job-bound naming, and a period that does
  not match its week code, are treated by the code as "discard" and left out.

`ReportJobsLateCommit` adds one failure: the connection breaks while the server
is still working on the COMMIT of `_mark_success`, which lands or aborts *after*
the caller has looked. Until then the row is locked: readers see the old
version, writers wait (so `_mark_failure` is split into read and write). The
start of a new pass, whose UPDATE would wait for the lock, is not allowed to
overtake it. A commit that lands late in this way may leave a success without its bytes and lose
its job to the failure record; what it cannot break is stated there too: the promise, the
queue's index, and that a week's row never leaves success (`WeekStaysSuccess`).

### IncidentLedger, Reachability, DevicePolling

`IncidentLedger` is what `reporting/incidents.py` relies on: the episodes of a
subject are disjoint and ordered, only the latest may be open, and a recorded
instant never changes.

`DevicePolling` has the scheduler thread (`pc`, `target`, `last` for
`_last_cycle`, `in_flight`), the pool (`queue`, `running`, at most `Workers`
tasks, FIFO) and the three tables (`rows`, `tracking`, `incidents`). A cycle is
named by its five-minute boundary. `PlanCycle` is `next_cycle`, `Submit`
decides between a poll and a skip record, `Check` is the processed-status query,
`Collect` the collection with its one transaction (row, machine, incident),
`RecordUnattempted` the FAILED row that touches no machine. `AdvanceCycleState`
(module `Reachability`, shared with `WeeklyStatistics`) is the pure
transition. `Stop` drains the pool like SIGTERM, `Crash` drops it.

- What a collection found is `data`, `ssh` (SNMP nothing, SSH answered) or
  `dead`. Reachability treats the first two alike, so runs use one of them.
- `LoadDevices` chooses, per cycle and device, disabled, enabled with or enabled
  without a community: what the inventory can say changes between cycles.
- The wall clock is monotonic. `Check` and the transaction's own test are kept
  apart, as in the code, since a lost reply and a replay fall between them.

### InterfaceIncidents

`RecordInterfaceStates` is the part of the poll transaction that handles the
monitored interfaces; the sample of each is up, down, undetermined or missing.
`SetMonitored` is the switch. The poll updates `last_seen_at` of every sampled
interface in the same transaction, so the row lock makes poll and switch atomic
to each other. `valid` is a history variable (it records the valid samples while
monitored) and is only read by properties. As in the code, a partial run
survives a pause in monitoring.

### WeeklyStatistics, Retention

In `WeeklyStatistics` a device's cycles pass one by one (`NextCycle`). A poll that starts is
in flight (`polling`) until it lands (`Poll`) or is lost (`PollFails`), one at a time; the
boundaries it outlives are skipped. It finds the device dead, only answering to SSH
(reachable, but a FAILED run and not covered), or with data and a high CPU value or none
(`sample`), and when it lands it drives the machine and its incidents as a poll's
transaction does, also if that is after its week has ended and been reported. Over that state the
operators of the report are pure functions of the tables: `Start`, `End` (the
half-open week), `WeeklyIncidents` (the WHERE clause), `OngoingAtPeriodEnd`,
`SustainedHigh` (the loop of `find_sustained_high_intervals` as a recursive function
over the week's series), `Covered`, `OverallStatus`.

`Retention` is the specification that is run: it extends that state by what the tables
hold beyond `sample`, and by the pass that empties them.

| Variable | Code |
|---|---|
| `sample` | per cycle, what the stored `device_poll_runs` and `device_metrics` rows still say |
| `metrics` | cycles with an `interface_metrics` row, and with a `device_metrics` row |
| `pass` | the table `run_retention` is at and the cutoff it computed; `Idle` while the thread waits |
| `found` | history: what each poll found, whatever became of its rows |

`PollAndStore` writes run and metrics in one transaction. `BeginPass` reads the clock,
once; `DeleteBatch` takes *any* batch of expired rows (the code has no ORDER BY);
`NextTable` follows an empty batch; `PassEnds` is a database error or a dead worker at any
point between two batches. Deleting a run takes the metrics that reference it along
(ON DELETE CASCADE). Incidents, counters and roles are not touched, as in the code. Every
state is a moment at which a report may be made or made again.

- Instants are half cycles, since runs are dated by the boundary of their cycle and
  metrics by the later `collected_at`: the cutoff may fall between the two.
- A poll is in flight over at most `Delay` boundaries, and less long than a row is kept
  (`Kept > Delay`). Its task, its skip records and its replays are `DevicePolling`'s
  subject; a run that was not attempted is the same here as none.
- SUCCESS and PARTIAL are one (a poll that counts as covered), a reachable cycle
  without CPU value is one below the threshold (both end a run).
- `max_batches_per_table` is given by no caller and left out.
- The interface and IRF conditions of the status, high utilization, averages and
  rankings are left out; the status is that of an installation with this device.

### SessionPromise, AdminSessions

`SessionPromise` says of every session: one login begins it, it serves at instants within
seven days of the login and within the idle lifetime of its latest use, and once over it
neither serves nor comes back.

`AdminSessions` is the implementation.

| Variable | Code |
|---|---|
| `account` | the row of `users`: which initialisation's password is stored |
| `sessions` | `sessions`: the ids that have a row, with `last_seen_at` and `expires_at` |
| `req` | each authenticated request: `lookup` (the clock is read), `slide` (the row was found valid), `admitted`, or its answer |
| `login` | the POST /login that has the event loop: at the purge's query, its DELETE with the ids chosen (and, as history, the latest uses at the query), or the insert |
| `began`, `used` | history: the login of each session, and the latest instant at which it served |

`require_admin` is a synchronous dependency, so FastAPI runs it in a thread: `Arrive`,
`Lookup` and `Slide` (the commit of `last_seen_at`) of several requests interleave with
everything. The bodies of the routes are coroutines that never await between their
database calls: `Logout`, `LoginForm` and a whole login (`VerifyAdminLogin`,
`SelectExpired`, `DeleteExpired`, `CreateSession`) exclude each other, but not the
threads (one server process, `src/Dockerfile:42`). `Slide` of a row that is gone fails (the
UPDATE matches no row) and the request answers 500. `InitializeAdmin` is the command
line's own process; `Restart` forgets everything but the tables; any database call may
fail.

- `Delay` bounds the time between a request's clock reading and its end, so the clock
  cannot run away from a request in flight. It only appears in properties that speak of
  `last_seen_at`, which requests that overlap may move backwards by that much.
- Tokens are never drawn twice (`secrets.token_urlsafe`). Two initialisations at the
  same time, and `set_admin_password`, which nothing calls, are left out.
- A request refused by its CSRF token was admitted and then only served.

### CounterSamples

One interface with one cumulative counter of `Width` values. `Carry` is a tick of
traffic, at most `speed`; `ResetCounter` and `ChangeSpeed` are the upsets. A poll
reads its `collected_at` first (`BeginPoll`) and stores what the device answers
some ticks later (`PersistSample`), if it does, with the counter or the speed
possibly missing. `total`, `life` and `truth` are history variables, read only by
properties: all traffic carried, how often the counter began again, and both as
they were at each stored sample.

- One direction stands for both, and for the error counters: each is computed
  from columns of its own. Utilization is kept as delta and elapsed time; the
  100% test is `delta <= elapsed * speed`.
- The rows of a week are any contiguous stretch of the stored rows. A weekly sum
  without any valid interval is 0 here and NULL in the code; no property
  depends on it.
- The wall clock is monotonic, so the code's test for a non-positive elapsed time
  never decides.

### IrfObservation

`BeginObservation` reads the clock that dates the observation, and
`ApplyIrfObservation` is the transaction with which the answer is stored some ticks
later: a row per member that is known or listed, and the stored roles. Any listed
subset with any roles, recognized or not, may be the answer; a failure stores
nothing. Over the rows the operators of the report (`MissingWindows` is the loop of
`_member_summary` as a recursive function over the rows, which passes over those of other
members and weeks, `MissingAtPeriodEnd`, `RoleChanges`, `ObservedCount`,
`IrfStatus`) are compared with the answers themselves, which `answers` remembers.

- The loop's order of fabrics and its interval are not modelled: an observation may
  begin whenever none is in progress, which includes every schedule.
- The log line about a reappearance decides nothing and is left out.

### Discovery

The device numbers its interfaces and bundles its port as it likes, at any time, also
between the walks of one poll. `WalkInterfaces`, `WalkAttached` and `WalkSelected`
are the walks that matter, each with its failure; `ReadRows` and `CommitPoll` are the
first read and the end of the transaction of `persist_collection`, and `SetMonitored`
falls anywhere. `Lookups` is `by_if_index`: a dictionary over rows in no given order,
so of rows with one ifIndex any may stay. `Column`, `LagOf` and `Mappings` are the
LAG tables and `parse_aggregations`; `SyncMemberships` and `SyncFlags` are
`sync_aggregations`. `run` remembers the status of the last recorded run while the
device is as that run saw it, `choice` what the administrator asked for.

- Descriptions, states, speeds and `last_seen_at` are copied from the sample and
  left out, as are the identity columns.
- A device is assumed to list names that differ when normalized. If two do not, the
  code inserts both, a unique index refuses, and the whole poll is lost.

## 4. What the runs check

All passing runs finish within five minutes with two workers.

| Run | Question | Bounds |
|---|---|---|
| `report_jobs` | Can any interleaving of loop, requests, crashes, lost replies and disk failures queue a week twice, lose recorded bytes, take a success back or publish foreign bytes, and does everything end once the failures are over? `TypeOK`, `OneActiveJobPerWeek`, `OwedSwitchHasCandidate`, `SuccessIsTerminal`, `KeepsPromise` and `Delivers` (refinement), `EveryJobSucceeds`, `CompletedWeekIsReported`, `ReconciliationCompletes` | 2 weeks, 1 request, 3 jobs, 3 failures; 65 600 states |
| `device_polling_safety` | Are incidents exactly what the runs say, whatever is skipped, replayed or lost? `TypeOK`, `EvidenceDecides`, `PollsDoNotOverlap`, `ProcessedOnce`, `KeepsLedger` (refinement) | 1 device, 6 cycles, 1 thread, 1 failure; 1.24 million states |
| `device_polling_liveness` | Is another device served while one never returns? `OthersAreServed` | 2 devices, one slow, 2 threads, 3 cycles, 1 failure |
| `interface_incidents` | Are incidents exactly those of successive valid samples under any switching? `TypeOK`, `ValidSamplesDecide`, `KeepsLedger` (refinement) | 2 interfaces, 6 polls; 2.4 million states |
| `counter_samples` | Can resets, wraps, speed changes, missing values, late answers and gaps make up traffic, or spoil an undisturbed interval? `TypeOK`, `NoFabricatedTraffic`, `WeeklyDeltaIsReal`, `UndisturbedIsExact` | width 3, speeds 1 and 2, 4 ticks, 3 samples, 1 upset, longest interval 2; 4.2 million states |
| `weekly_statistics` | Does every report of a week say what the polls found, whenever it is made, also while and after retention deletes the rows it reads? `RetentionTypeOK`, `SustainedIsMaximal`, `AbnormalIffDownAtEnd`, `KeptWeekIsSettled`, `CascadeIsSmall` | a week of 4 cycles, 1 before it; 7 cycles with polls that land up to 2 boundaries late, 9 cycles, runs of 2 samples; retention of 7 cycles, batches of 1; 1.12 million states |
| `irf_observation` | Does a week's summary say what the device answered, and does it stay? `TypeOK`, `MissingMeansReportedAbsent`, `WindowsAreRuns`, `RoleChangesAreReliable`, `SummaryIsSettled` | 2 members, 2 roles, weeks of 3 ticks, 6 ticks, answers late by 1 tick, 3 answers; 262 000 states |
| `discovery` | Does a successful run leave the device's picture, and can failures or the administrator be lost in between? `TypeOK`, `SelectionSurvives`, `SuccessIsReconciled`, `LossNeedsEvidence` | 2 aggregations, 1 port, 3 ifIndexes, 2 changes of the device, 1 of the selection, up to symmetry; 360 000 states |
| `admin_sessions` | Can requests in flight, logout, purge, re-initialisation, failures and restarts revive a session, let one serve too long, or end one too early? `TypeOK`, `KeepsSessions` (refinement), `RefusalsAreDeserved`, `PurgeTakesTheLapsed` | 2 tokens, 2 requests, absolute lifetime 5, idle 3, delay 1, 7 instants, 1 account, up to symmetry; 1.65 million states |
| three violation runs | the disagreements of section 6 | smallest instance that shows each |

**Why the bounds are enough.** In `ReportJobs` two weeks give a superseded week
and a current one, the request beside the scheduler makes a second writer to the
queue, and three failures allow a lost commit, a failed recovery from it and a
crash on top. A regenerated week needs two jobs, and the third lets the other week
have its own. Liveness excludes symmetry and so more requests; the theorems of
section 5 cover any number of them for every safety property of this run.
In `DevicePolling` six cycles hold a whole episode (two failed, a gap, two
reachable) with one cycle to spare on either side; one device suffices for the
machine, since devices share only the pool, and one thread makes that sharing
tightest (a skip record queues behind the very poll it reports). Six polls do the
same for interfaces, the second one showing that one transaction moves both.
In `CounterSamples` width 3 makes the counter wrap within one interval at speed 2
and lets a wrapped value look like a forward one; an interval may be shorter than,
equal to and longer than the longest allowed. In `weekly_statistics` a week of four
cycles holds a run that is cut and one that is long enough, a lead of one cycle lets an
episode start before the week, and two polls after it let one recover or begin exactly at
the end and be confirmed later; a poll of the week's last cycle may land two boundaries
after its end, when the report has been made. Two more cycles carry the cutoff
through the lead, then into the week, so that some reports still see all of it and others part.
Batches of one row stop a pass at every point. The constraint of `MCRetention` drops the
difference between high and low, and between dataless and low, where no definition reads
it, outside the week.
In `admin_sessions` one request can be in flight while the other logs the same session
out, or a login purges it and begins another, also between the purge's query and its
DELETE; both bounds pass within seven instants, the
idle one also between two uses. Three answers let a member come, go and return, and a
role be recognized, lost and changed; two weeks hold an absence that spans their
border. Two changes of the device are enough for an interface to go and for its
ifIndex to be given away. The theorems of section 5 hold without bounds.

**Deadlock** is checked in the report modules, whose loop never stops. The
other configurations switch the check off because their behaviours end where the
bounded time (`MaxCycle`, `LastPoll`, `MaxPolls`, `MaxTime`) or the bounded changes end.

**Fairness.** `ReportJobs`: the loop thread keeps taking steps (`run_loop` catches
every exception and sleeps at most one interval; the container restarts a dead
worker) and time passes. Nobody has to press the button, no failure has to
happen, and no request is obliged to finish. `DevicePolling`: the scheduler and
the pool threads keep going, and a collection ends, because SNMP and SSH calls
carry timeouts; nothing is assumed about the collections of `SlowDevices`, and
time need not pass. All failures are bounded by `MaxFaults`: liveness is claimed for
behaviours in which they end.

## 5. What is proved

`ReportJobs_proofs` proves, for every number of weeks, requests, jobs and failures
(under `JobsAssumption`: at least one week, finitely many requests, and enough job
ids for one job per week and request):

| Theorem | Statement |
|---|---|
| `TypeCorrect` | `Spec => []TypeOK` |
| `OneActive` | `Spec => []OneActiveJobPerWeek` |
| `CrashConsistent` | `Spec => []OwedSwitchHasCandidate` |
| `SuccessIsFinal` | `Spec => SuccessIsTerminal` |
| `PromiseKept` | `Spec => KeepsPromise`: the safety half of `ReportPromise` is implemented |
| `LateOneActive` | `LateSpec => []OneActiveJobPerWeek` |
| `LatePromiseKept` | `LateSpec => KeepsPromise` |
| `LateWeekStays` | `LateSpec => WeekStaysSuccess` |

The first five rest on `Invariant == Spec => []IInv`, which TLC has confirmed on the instance of the run. `OwedSwitchHasCandidate` is not
inductive: that the switch in `install` puts the right bytes in place depends on
what earlier steps left behind. `IInv` adds just that:

- `StampsInPast`, `DistinctStamps`: a generation being built is newer than
  everything recorded, so a stamp names one job. This is why a superseded candidate is
  never authorised.
- `JobsWellFormed`, `SuccessHasItsJob`, `CandidateIsOfItsSuccess`: a success row
  has its job, and a candidate beside a committed success has that success's bytes.
- `AttemptState`: what the thread may rely on at each `pc`. The important one is
  `verify`: after an exception from the commit, the job is still running or the
  success is there entirely, so the query decides correctly. (This is exactly
  what a late commit breaks.)
- `RequestsWellFormed`: a request asks for a week that exists.

Most steps move no success; the lemma `SameSuccessesKeep` settles all of them at
once. `InsertJobKeeps`, `RenderKeeps`, `MarkSuccessKeeps` and
`CandidateResolvedKeeps` do the others. The refinement theorem
needs only `PromiseReady`: a commit in the making is of a later generation than its week
has, and a candidate that may be installed carries the recorded stamp.

With late commits most of `IInv` is false: a job may have finished and run again, a success
may have no bytes, and the thread may discard the candidate of a commit that lands
afterwards. `LateInv` is what remains (`LateInvariant`; TLC has confirmed it and the three
properties on two weeks, one request, three jobs and two failures). Its core is
`CommitIsPending`: as long as the commit is in flight its row's lock keeps the job running,
so nobody starts another attempt for that week, its stamp stays later than the week's, and
its candidate is its own or gone. `LateAttempt` adds that the thread's own attempt is never of the job in
flight once a new one has begun, and of another week while it installs. The two invariants
share the lemmas `QuietSteps`, `WeekStays` and `PromiseStep`, which assume only what both
provide.

`CounterSamples_proofs` proves, for every counter width, every set of speeds below
it and any number of polls, resets and samples (`CountersAssumption`):

| Theorem | Statement |
|---|---|
| `TypeCorrect` | `Spec => []TypeOK` |
| `NothingFabricated` | `Spec => []NoFabricatedTraffic` |
| `ExactWhenUndisturbed` | `Spec => []UndisturbedIsExact` |
| `EveryIncrementIsReal` | `Spec => []IncrementsAreReal`: each term of a weekly increment is at most the traffic |
| `WeeklyDeltaReal` | `Spec => []WeeklyDeltaIsReal`: and so is their sum, over any stretch of rows |

`NoFabricatedTraffic` speaks of pairs of stored samples and is not inductive. The
invariant `Inv` adds what is true of the counter *now*: since any stored sample it
has risen by no more than was carried (`CounterBehindTraffic`), which a wrap or a
reset can only lower. A new sample then exceeds the last one by no more than the
traffic between them (`RisesAreReal`), and what `compute_utilization` stores is
that rise or nothing (`DeltaIsRise`).

`UndisturbedIsExact` is a lower bound as well and needs a second invariant, `Measured`
(confirmed by TLC on the instance of the run): while the counter that gave a stored sample
has not begun again, it has risen by exactly the traffic since (`CountedSince`), and while
nothing upset it, the speed is the sample's and the traffic since is at most the speed
times the ticks since (`CarriedSince`). The property's hypothesis, that the later answer
took no longer than the earlier, turns the ticks between answers into at most the stored
elapsed time, so the 100% test cannot drop the sample. For `WeeklyDeltaReal` the terms
telescope: `IsSum` states the recursive sum, `SumExists` that there is such a function, and
an induction over the rows adds one more bounded term at a time (`OneMoreTerm`).

`Discovery_proofs` proves, for any interfaces, ifIndexes and number of changes
(`DiscoveryAssumption`: no name is both aggregation and port, and the marks for an
absent number and for no aggregation are neither ifIndexes nor names):

| Theorem | Statement |
|---|---|
| `SelectionKept` | `Spec => []SelectionSurvives` |
| `LossIsAccountedFor` | `Spec => LossNeedsEvidence`: a membership or flag goes only if the columns that answered no longer show it |
| `SuccessReconciles` | `Spec => []SuccessIsReconciled` |
| `TypeCorrect` | `Spec => []TypeOK` |

`SelectionKept` rests on `Inv`: the rows carry the administrator's choice (`Selected`), and what
the transaction has read is still true when it writes, but for the selection
(`SnapshotHolds`), since only a poll writes the other columns. `SyncedRows`,
`FlaggedRows` and `WrittenRows` follow a row through the commit.

The others need `Truth`, which adds what the device always is (`DeviceHolds`: no two
interfaces with one ifIndex, a member only of an aggregation that is there) and what the
walks of a poll that no change disturbed have read (`PollIsTrue`: that device, or nothing).
The pairs of numbers parsed from the columns are then the device's memberships
(`MappingsAre`), and an interface whose ifIndex no other row holds is what `by_if_index`
finds (`LookupIs`), so `CommitReconciles` translates the pairs back into the device's
interfaces. Nothing is assumed of the rows earlier polls have left, and this is the point:
the tables need not have been right before. `LossIsAccountedFor` reads the commit the other
way: a number pair that the columns show is among the parsed ones (`ShownIsMapped`), so a
membership whose port the lookup finds is inserted again or kept
(`CommitKeepsShownMembers`), and an aggregation that is shown keeps its flag
(`CommitKeepsShownFlags`).

`InterfaceIncidents_proofs` proves, for any interfaces and any number of polls
(`InterfacesAssumption`: a natural number of them):

| Theorem | Statement |
|---|---|
| `TypeCorrect` | `Spec => []TypeOK` |
| `EvidenceIsExact` | `Spec => []ValidSamplesDecide`: the incidents are exactly the reference's |
| `LedgerKept` | `Spec => KeepsLedger`: `IncidentLedger` is implemented |

The reference is a formula over the whole sequence of valid samples, the machine a
handful of counters. `Inv` says, interface by interface (`Good`), what the counters mean:
the state is down exactly if the reference is (`DownIn`), a partial run is the last sample
and dates from it (`TracksLastSample`), an open episode exists exactly while down and every
recorded instant is before the latest sample (`EpisodesArePast`), and the incidents are
the episodes of the reference (`ReferenceHolds`). What one more sample changes in the
reference is said once, without the machine (`PairsGrow`, `DownGrows`, `ReferenceGrows`,
`EpisodeGrows`); `MachineStep` follows the six cases of the transition, `EpisodesStep` and
`ReferenceStep` the incidents. That the instants are increasing is what makes the
recovery come after the start.

`DevicePolling_proofs` proves, for any devices, any number of pool threads, cycles,
crashes and failures (`PollingAssumption`: finitely many devices, at least one thread):

| Theorem | Statement |
|---|---|
| `TypeCorrect` | `Spec => []TypeOK` |
| `NoOverlap` | `Spec => []PollsDoNotOverlap` |
| `ProcessedAtMostOnce` | `Spec => ProcessedOnce` |
| `EvidenceIsExact` | `Spec => []EvidenceDecides`: incidents and state are exactly the reference's |
| `LedgerKept` | `Spec => KeepsLedger`: `IncidentLedger` is implemented |

The invariant has two halves. `PoolInv` is about the scheduler: the cycle it waits for is
later than the last one submitted and not before any cycle a device has processed, also
after a restart, which forgets `_last_cycle` (`ClockIsAhead`, `TargetIsNew`); a slot names
an earlier cycle until its device is submitted (`SlotsArePast`); a poll in the pool is the
one its slot names (`PollsAreCurrent`), and there is one per device (`OnePerDevice`).
`Good` is about one device, with the parts it has for an interface; here the history has
holes, and a pair counts only if its cycles are adjacent. The halves meet in
`PollsAreCurrent`: a poll in the pool is not older than the last processed cycle, and
if its row is missing it is not that cycle either (`EndsAt`), so a collection always
appends to the evidence. `DatabaseStep` says what a step may do to the tables of a device:
nothing, a row that is no evidence (`Skips`), or one more processed cycle (`Processes`).

`Retention_proofs` proves, for weeks of any length and number, any retention, batch and
number of cycles (`StatisticsAssumption`, `RetentionAssumption`: positive lengths, and
polls that run past the last week's end):

| Theorem | Statement |
|---|---|
| `TypeCorrect` | `RetentionSpec => []RetentionTypeOK` |
| `StatusIsTrue` | `RetentionSpec => []AbnormalIffDownAtEnd` |
| `KeptWeeksAreSettled` | `RetentionSpec => KeptWeekIsSettled` |
| `NoLargeCascade` | `RetentionSpec => CascadeIsSmall` |
| `SustainedAreMaximal` | `RetentionSpec => []SustainedIsMaximal` |

`PassInv` is about the pass: its cutoff only falls behind the clock (`CutoffIsPast`), so
a table that was emptied of expired rows stays so while polls go on (`TablesFinished`);
`CascadeIsSmall` follows. `Inv` adds the machine: the tracking values are those of the last
processed cycle (`TracksLastCycle`), recorded instants are past (`EpisodesArePast`), and
at *every* boundary the ledger says down exactly if the polls found it
(`LedgerIsTrue`): the boundaries after the last processed cycle all answer alike
(`DownStays`), and a confirmation or recovery, dated back by one cycle, changes only those
from there on. The status of a completed week reads
the ledger at one such boundary. For `KeptWeekIsSettled`, a report is a function of the
week's series and of the episodes' instants up to the end: a pass deletes only outside a
kept week (a poll in flight is younger than that, `PollIsRecent`), and once the polls up to
the week's end have landed a later one opens or closes an episode at no instant before it
(`PollOpensOrCloses`, `EpisodesSettled`). What it closes was open, so a recovery that was
recorded stays.

`SustainedAreMaximal` is about the loop of `find_sustained_high_intervals` and holds of any
series. `LoopState` is its loop invariant after the slots before `e`: the run in progress is
exactly the high slots at the end (`EndsHigh`), and the intervals emitted are the maximal
runs of what has been seen, in order (`Emitted`). A low slot makes and ends no run
(`RunsWithLow`); a high one lengthens the run at the end or begins one and leaves the
others (`RunsWithHigh`). The step that matters is the replacement of the last interval:
`RunEmitted` needs that exactly the interval of the run in progress is dropped for its
longer version, which the strict order of the intervals gives.

`AdminSessions_proofs` proves, for any tokens, requests, lifetimes and delay
(`SessionsAssumption`):

| Theorem | Statement |
|---|---|
| `TypeCorrect` | `Spec => []TypeOK` |
| `SessionsKept` | `Spec => KeepsSessions`: `SessionPromise` is implemented |
| `RefusalsJustified` | `Spec => RefusalsAreDeserved` |
| `PurgeTakesTheLapsedOnly` | `Spec => PurgeTakesTheLapsed` |

They rest on `Invariant == Spec => []Inv`: a row says what the histories say, up to the
delay by which overlapping requests can move `last_seen_at` back (`RowsAreTrue`); what a
request has looked up was within both bounds, and other uses of the session can only make
that more so (`LookupHolds`); nothing in flight is older than `Delay`, and histories are
not ahead of the clock. `LookupHolds` is the heart: the commit happens after the check,
and what it says is what the check has seen. For the purge, `PurgeHolds` follows the chosen
rows from the query to the DELETE: each is unused since, and no request in flight could renew it but one
that found it within its idle bound (`NotRenewed`); or it was renewed, and that request's
clock, at most `Delay` older than the query's, was still within the bound (`JustLapsed`).

`IrfObservation_proofs` proves, for any finite set of members, any roles, any number of
answers and any lengths of week and of answer (`IrfAssumption`: the marks for no role and
for an unknown member are not roles):

| Theorem | Statement |
|---|---|
| `TypeCorrect` | `Spec => []TypeOK` |
| `MissingIsReported` | `Spec => []MissingMeansReportedAbsent`: abnormal exactly if the week's last answer lacked a member listed before |
| `ChangesAreReliable` | `Spec => []RoleChangesAreReliable` |
| `WindowsAreAnswerRuns` | `Spec => []WindowsAreRuns`: the loop's windows are the maximal runs of answers that lack the member |
| `SummarySettled` | `Spec => SummaryIsSettled` |

`Inv` ties tables and answers together. The stored role of a member is the last one an
answer recognized (`MembersFollow`), every row is of an answer and true to it
(`RowFollows`), every answer has a row for each member known by then
(`AnswersAreStored`), and answers and rows are in the order of their instants. The last
two make `LastRowIsOfLastAnswer` true, on which the status rests: had a later answer of
the week left no row for the member, an older row would decide. `ChangeIsReliable` is the
property of one row with its last earlier answer named; a later answer is after every row
(`EarlierStays`), so what was true of a row stays true. `BatchIsComplete` shows that
walking the members in ascending order meets each one.

The windows are proved in two halves. `WindowsFollowRows` is about the loop and rows alone:
after any number of rows the closed windows are the pairs of a row that opens and the first
one that closes it, and the loop is open exactly while the last row that opened has no such
successor (`WindowsUpTo`, `OpenSince`). `RowsAndAnswers` says that the member's rows of the
week and the week's answers are in step (`InStep`): every row is of an answer and says what
it said, every answer from the first that listed the member on has its row, and both have
one order. The theorem translates opening and closing rows into beginnings and returns of
runs of answers. `SummarySettled` needs `AnswerIsDue`: an answer comes at most `MaxAnswer`
after it was asked for, so what is stored later than that after a week lies outside it
(`GrewOutside`), and every part of a report ignores it.

Induction: the library's theorems about it take an operator as a parameter and cannot be
used with these provers. The loops are therefore recursive functions, and each proof does
two inductions over sets of numbers (`UpTo`, from the well-founded order of the naturals):
that a function with the recursion's equation exists, so that the definition denotes it,
and then what it holds at every index.

Only model-checked: every liveness property (`Delivers`, `EveryJobSucceeds`,
`CompletedWeekIsReported`, `ReconciliationCompletes`, `OthersAreServed`; TLAPS does not
handle ENABLED or fairness) and what the runs that expect a violation show. Every safety
property of the other runs is a theorem.

## 6. Where code and documentation disagree

Each of these is a run that TLC ends with a counterexample.

1. `report_insert_race` (code bug): a regenerate request whose insert met an
   active job reads it back after the worker finished it; `assert` at
   `jobs.py:205` fails and the request answers 500.
2. `report_late_commit_loses_bytes`: a commit that lands after the check has its
   candidate already discarded. The week is a success without bytes until it is
   regenerated by hand. It is no worse than that: the theorems about
   `LateSpec` show that no wrong document is published and the week stays a success.
3. `discovery_stale_index` (code bug): a row keeps the ifIndex of an interface that
   is gone. When the device gives the number to another one, `by_if_index` holds two
   rows for it and keeps either; a run recorded as SUCCESS then makes the dead row a
   member, and stays wrong poll after poll.

More, seen in the code and not given a run:

- A poll that is in flight when its week ends lands later, in a week whose report may have
  been made: the report does not show its run, nor an episode it confirms
  (`scheduler.py:112-130`, `poll.py:177-214`). Made again, it does. It also prints the
  recovery, and the duration, of an episode that was ongoing at the week's end.
- Between commit and switch, after a crash, the list page shows a plain success
  with a missing or old document until the next pass (`jobs.py:888-892`); a
  download in between answers 404 or with the old bytes.
- The late commit of 2, landing while `_mark_failure` waits for the row lock, is
  overwritten by FAILED (`jobs.py:358`, against `jobs.py:33-35`).
- When the device query fails, the planned cycle leaves no row for any device
  (`scheduler.py:106`), although "every planned cycle of every device lands exactly
  one row" (`poll.py:10-14`).
- A worker that is down for a whole week never makes that week's report
  (`schedule.py:117`).
- A file operation that keeps failing on one candidate ends every pass before
  scheduling (`jobs.py:657`).
- `collected_at` is the start of the poll and the counters are read later. An
  interface near its speed whose device answers later than at the poll before comes
  out above 100% and its sample is dropped as "physically impossible"
  (`utilization.py:75`).
- An episode that recovers exactly at Monday 00:00 is ongoing in the old week's
  report and absent from the new week's, although "the recovery belongs to the next
  week" (`incidents.py:8-9`).
- An IRF member missing at the end of a week and seen again by the first observation
  of the next is missing in the old report and not mentioned in the new one.
- When the walk of the selected column fails, members that are only selected are
  removed and the section is SUCCESS (`collectors.py:353-357`), although "no stale data
  is ever cleared on failure" (`collectors.py:349`). `LossNeedsEvidence` says that nothing
  more goes than what that column alone would have shown.
- Two interface names that are equal when normalized make every poll of the device
  fail, without any run being recorded (`discovery.py:67`).
- A Down run of an interface may begin in a week already reported and be confirmed
  later, over missing samples; that week's report never showed it.
- Taking an interface that is down out of monitoring leaves an open episode which every
  later report counts (`incidents.py:85`, `incidents.py:169`), for an interface that is
  no longer a priority one (`interface_state.py:3`).
- A request whose session is logged out or purged between its lookup and its commit
  answers 500 (the UPDATE matches no row), where `deps.py:35` promises a redirect.
- The purge selects ids and then deletes by id: a session that a request renews in
  between is deleted although it is valid, unlike "delete sessions that are past either
  lifetime bound" (`sessions.py:87`). `PurgeTakesTheLapsed` says that it had lapsed then, and
  less than a request's duration before.
- Requests that overlap commit in any order, so `last_seen_at` may move backwards and a
  session end earlier by the duration of a request (`sessions.py:70`).
- A form whose CSRF token is stale is refused "without touching state"
  (`routes.py:9-10`, `security.py:62-63`), but the administrator's dependency runs first
  and has renewed the session.
- Initialising the account again leaves every session of the old password alive.
- The cascade of a run takes along metrics that are younger than the cutoff by the poll's
  delay; `CascadeIsSmall` says that these are all (`retention.py:5-7`).
- While a pass is between two tables, and after one was cut short, an old week has runs
  without metrics: its report made again keeps its full coverage and loses its sustained
  intervals. Once all rows are gone, making it again overwrites the document with
  empty statistics.
- `next_cycle` claims a boundary "strictly after the last executed one"
  (`scheduler.py:95-97`) but adds only one interval: a clock set back by two intervals or
  more plans an executed cycle again, and a skip record may then take the row of a poll
  that is still in flight.
- The coverage expects cycles by the enabled flag at the time of the report, not of the
  week (`counters_coverage.py:340`).

## 7. What is not modelled

SNMP and SSH wire formats and H3C text parsing (I/O), DOCX layout and validation,
HTML pages, password hashing and cookie encoding (external), configuration and
logging, migrations, the heartbeat upsert, validation and sync of the inventory file
(one upsert by name that deletes nothing). Identity columns of devices and interfaces
are copied and decide nothing. The wall clock is assumed not to be set back, and power
loss without fsync not to happen.

## 8. Plan

What is left, in this order:

1. **WeeklyStatistics** grown: the interface machine beside the device's, with its
   gap-bridging runs and its episodes in the weeks they touch; high utilization over
   the rows of `CounterSamples`; the enabled flag in the coverage.
2. **Worker composition**: polling, discovery, interfaces and retention over one
   database, with the poll transaction they share.
3. A clock that is set back, as a variant of `DevicePolling`, `ReportJobs` and
   `CounterSamples`.
