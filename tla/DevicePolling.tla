----------------------------- MODULE DevicePolling -----------------------------
(***************************************************************************)
(* The five-minute device poll: the scheduler thread of the worker, its    *)
(* thread pool, the poll of one device with its single transaction, and    *)
(* the Down/Recovery machine that the transaction advances                 *)
(* (monitoring/scheduler.py, poll.py, reachability.py, the poll run half   *)
(* of pipeline.py).                                                        *)
(*                                                                         *)
(* Time is counted in five-minute boundaries: a cycle is named by its      *)
(* planned boundary, `now` is the last boundary the wall clock has passed, *)
(* and 0 stands for NULL. What a collection found out is abstracted to     *)
(* what the reachability rules tell apart: some SNMP data, none but an     *)
(* SSH answer, or neither.                                                 *)
(***************************************************************************)
EXTENDS Integers, Sequences, FiniteSets, Reachability

CONSTANTS
  Devices,      \* devices of the inventory
  SlowDevices,  \* devices whose collection may take for ever
  Workers,      \* threads of the pool
  Contexts,     \* what the inventory may say of a device when a cycle is loaded
  Results,      \* what a collection may find
  MaxCycle,     \* boundaries that pass during a behaviour
  MaxFaults     \* database failures, crashes and restarts that happen

ASSUME PollingAssumption ==
  /\ IsFiniteSet(Devices)
  /\ SlowDevices \subseteq Devices
  /\ Workers \in Nat \ {0}
  /\ Contexts \subseteq {"no", "snmp", "no_snmp"}
  /\ Results \subseteq {"data", "ssh", "dead"}
  /\ MaxCycle \in Nat /\ MaxFaults \in Nat

\* Boundaries that can be planned: the next one may still lie ahead.
Cycles == 1 .. MaxCycle + 1

VARIABLES
  now,        \* the last boundary the wall clock has passed
  pc,         \* where the scheduler thread is
  target,     \* the cycle it waits for
  last,       \* _last_cycle, the cycle it submits
  todo,       \* contexts still to be submitted for the cycle
  in_flight,  \* the cycle of the poll future kept per device
  queue,      \* tasks submitted to the pool, oldest first
  running,    \* tasks a pool thread is executing
  rows,       \* device_poll_runs
  tracking,   \* device_monitoring_states
  incidents,  \* device_reachability_incidents
  faults      \* failures so far

scheduler == <<pc, target, last, todo, in_flight>>
pool == <<queue, running>>
database == <<rows, tracking, incidents>>
vars == <<now, scheduler, pool, database, faults>>

Reachable == {"data", "ssh"}
Evidence == Reachable \union {"dead"}
RowKinds == Evidence \union {"none", "unattempted"}

Tasks == [device: Devices, cycle: Cycles, stage: {"check", "collect", "record", "skip"},
          snmp: BOOLEAN]

TrackingRecords == [state: {"normal", "down"}, last: 0 .. MaxCycle + 1,
                    failed: 0 .. 2, reachable: 0 .. 1,
                    failed_run: 0 .. MaxCycle + 1, reachable_run: 0 .. MaxCycle + 1]

IncidentRecords == [started_at: Cycles, recovered_at: 0 .. MaxCycle + 1]

TypeOK ==
  /\ now \in 0 .. MaxCycle
  /\ pc \in {"plan", "wait", "load", "submit", "stopping"}
  /\ target \in 0 .. MaxCycle + 1
  /\ last \in 0 .. MaxCycle + 1
  /\ todo \in [Devices -> {"no", "snmp", "no_snmp"}]
  /\ in_flight \in [Devices -> 0 .. MaxCycle + 1]
  /\ queue \in Seq(Tasks)
  /\ running \subseteq Tasks
  /\ rows \in [Devices -> [Cycles -> RowKinds]]
  /\ tracking \in [Devices -> TrackingRecords]
  /\ incidents \in [Devices -> SUBSET IncidentRecords]
  /\ faults \in 0 .. MaxFaults

NothingToDo == [d \in Devices |-> "no"]
NoFuture == [d \in Devices |-> 0]

Init ==
  /\ now = 0
  /\ pc = "plan" /\ target = 0 /\ last = 0
  /\ todo = NothingToDo /\ in_flight = NoFuture
  /\ queue = <<>> /\ running = {}
  /\ rows = [d \in Devices |-> [c \in Cycles |-> "none"]]
  /\ tracking = [d \in Devices |-> Fresh]
  /\ incidents = [d \in Devices |-> {}]
  /\ faults = 0

------------------------------------------------------------------------------
Outcomes == {"ok", "error", "lost"}
Lands(o) == o # "error"

Spend(o) ==
  /\ o = "ok" \/ faults < MaxFaults
  /\ faults' = IF o = "ok" THEN faults ELSE faults + 1

InPool == running \union {queue[i] : i \in 1 .. Len(queue)}

\* The future kept for the device is not done.
PollInFlight(d) ==
  \E t \in InPool : t.device = d /\ t.cycle = in_flight[d] /\ t.stage # "skip"

------------------------------------------------------------------------------
(* The scheduler thread. *)

\* align_up gives the boundary being passed at this very instant, or the next one; a
\* boundary that was executed already is moved on by one interval.
NextCycle(aligned) ==
  IF last # 0 /\ aligned <= last THEN aligned + 1 ELSE aligned

PlanCycle ==
  /\ pc = "plan"
  /\ \E aligned \in {now, now + 1} \ {0} :
       /\ NextCycle(aligned) \in Cycles
       /\ target' = NextCycle(aligned)
  /\ pc' = "wait"
  /\ UNCHANGED <<now, last, todo, in_flight, pool, database, faults>>

CycleDue ==
  /\ pc = "wait"
  /\ now >= target
  /\ last' = target
  /\ target' = 0
  /\ pc' = "load"
  /\ UNCHANGED <<now, todo, in_flight, pool, database, faults>>

\* The enabled devices, each with or without an SNMP community.
LoadDevices ==
  /\ pc = "load"
  /\ todo' \in [Devices -> Contexts]
  /\ pc' = "submit"
  /\ UNCHANGED <<now, target, last, in_flight, pool, database, faults>>

\* The query raises and the whole cycle is given up.
LoadDevicesFails ==
  /\ pc = "load"
  /\ Spend("error")
  /\ pc' = "plan"
  /\ UNCHANGED <<now, target, last, todo, in_flight, pool, database>>

Task(d, stage) ==
  [device |-> d, cycle |-> last, stage |-> stage, snmp |-> todo[d] = "snmp"]

\* One future per device, whatever it computes: the slot forgets the running poll.
Submit_Faulty(d) ==
  /\ pc = "submit"
  /\ todo[d] # "no"
  /\ queue' = Append(queue, Task(d, IF PollInFlight(d) THEN "skip" ELSE "check"))
  /\ in_flight' = [in_flight EXCEPT ![d] = last]
  /\ todo' = [todo EXCEPT ![d] = "no"]
  /\ UNCHANGED <<now, pc, target, last, running, database, faults>>

\* A device whose poll is still in flight gets a skip record; the slot keeps its poll.
Submit(d) ==
  /\ pc = "submit"
  /\ todo[d] # "no"
  /\ IF PollInFlight(d)
     THEN queue' = Append(queue, Task(d, "skip")) /\ UNCHANGED in_flight
     ELSE queue' = Append(queue, Task(d, "check")) /\ in_flight' = [in_flight EXCEPT ![d] = last]
  /\ todo' = [todo EXCEPT ![d] = "no"]
  /\ UNCHANGED <<now, pc, target, last, running, database, faults>>

CycleSubmitted ==
  /\ pc = "submit"
  /\ todo = NothingToDo
  /\ pc' = "plan"
  /\ UNCHANGED <<now, target, last, todo, in_flight, pool, database, faults>>

\* SIGTERM: no further cycle, and the pool is drained before the thread ends.
Stop ==
  /\ pc \in {"plan", "wait"}
  /\ Spend("error")
  /\ pc' = "stopping"
  /\ UNCHANGED <<now, target, last, todo, in_flight, pool, database>>

\* A new process starts with an empty scheduler and an empty pool.
FreshProcess ==
  /\ pc' = "plan" /\ target' = 0 /\ last' = 0
  /\ todo' = NothingToDo /\ in_flight' = NoFuture
  /\ queue' = <<>> /\ running' = {}

Restart ==
  /\ pc = "stopping"
  /\ InPool = {}
  /\ FreshProcess
  /\ UNCHANGED <<now, database, faults>>

\* The worker dies, polls and all.
Crash ==
  /\ Spend("error")
  /\ FreshProcess
  /\ UNCHANGED <<now, database>>

------------------------------------------------------------------------------
(* What apply_device_reachability does with one processed cycle. *)

Open(d) == {i \in incidents[d] : i.recovered_at = 0}

\* The recovered incident is deleted instead of closed.
ApplyReachability_Faulty(d, c, reachable) ==
  LET decision == AdvanceCycleState(tracking[d], c, reachable)
      started == decision.incident_started_at
  IN /\ tracking' = [tracking EXCEPT ![d] = decision.tracking]
     /\ incidents' = [incidents EXCEPT ![d] =
                        CASE started # 0 -> @ \union {[started_at |-> started, recovered_at |-> 0]}
                          [] decision.incident_recovered_at # 0 -> @ \ Open(d)
                          [] OTHER -> @]

\* Open an incident unless one is open; close the open one.
ApplyReachability(d, c, reachable) ==
  LET decision == AdvanceCycleState(tracking[d], c, reachable)
      started == decision.incident_started_at
      recovered == decision.incident_recovered_at
  IN /\ tracking' = [tracking EXCEPT ![d] = decision.tracking]
     /\ incidents' =
          [incidents EXCEPT ![d] =
             CASE started # 0 /\ Open(d) = {} ->
                    @ \union {[started_at |-> started, recovered_at |-> 0]}
               [] recovered # 0 ->
                    (@ \ Open(d)) \union {[i EXCEPT !.recovered_at = recovered] : i \in Open(d)}
               [] OTHER -> @]

------------------------------------------------------------------------------
(* The pool threads. *)

StartTask ==
  /\ queue # <<>>
  /\ Cardinality(running) < Workers
  /\ running' = running \union {Head(queue)}
  /\ queue' = Tail(queue)
  /\ UNCHANGED <<now, scheduler, database, faults>>

Finish(t) == running' = running \ {t} /\ UNCHANGED queue

\* The row of a cycle is written once; a conflict leaves it alone.
InsertRow(t, kind) ==
  rows' = IF rows[t.device][t.cycle] = "none"
          THEN [rows EXCEPT ![t.device][t.cycle] = kind]
          ELSE rows

\* _processed_status: a cycle that has its row is over.
Check(t, o) ==
  /\ t.stage = "check"
  /\ Spend(o)
  /\ IF o # "ok" \/ rows[t.device][t.cycle] # "none"
     THEN Finish(t)
     ELSE /\ running' = (running \ {t}) \union
                          {[t EXCEPT !.stage = IF t.snmp THEN "collect" ELSE "record"]}
          /\ UNCHANGED queue
  /\ UNCHANGED <<now, scheduler, database>>

\* A cycle that was not attempted is counted as a failed one.
RecordUnattempted_Counted(t, o) ==
  /\ t.stage \in {"skip", "record"}
  /\ Spend(o)
  /\ IF Lands(o) /\ rows[t.device][t.cycle] = "none"
     THEN InsertRow(t, "unattempted") /\ ApplyReachability(t.device, t.cycle, FALSE)
     ELSE UNCHANGED database
  /\ Finish(t)
  /\ UNCHANGED <<now, scheduler>>

\* The FAILED row of a cycle that was not attempted touches no state machine.
RecordUnattempted(t, o) ==
  /\ t.stage \in {"skip", "record"}
  /\ Spend(o)
  /\ IF Lands(o) THEN InsertRow(t, "unattempted") ELSE UNCHANGED rows
  /\ Finish(t)
  /\ UNCHANGED <<now, scheduler, tracking, incidents>>

\* Collection, then one transaction: row, tracking values and incidents together.
Collect(t, found, o) ==
  /\ t.stage = "collect"
  /\ Spend(o)
  /\ IF Lands(o) /\ rows[t.device][t.cycle] = "none"
     THEN InsertRow(t, found) /\ ApplyReachability(t.device, t.cycle, found \in Reachable)
     ELSE UNCHANGED database
  /\ Finish(t)
  /\ UNCHANGED <<now, scheduler>>

------------------------------------------------------------------------------
Tick ==
  /\ now < MaxCycle
  /\ now' = now + 1
  /\ UNCHANGED <<scheduler, pool, database, faults>>

SchedulerStep ==
  \/ PlanCycle
  \/ CycleDue
  \/ LoadDevices
  \/ LoadDevicesFails
  \/ \E d \in Devices : Submit(d)
  \/ CycleSubmitted
  \/ Restart

TaskStep(t) ==
  \E o \in Outcomes : Check(t, o) \/ RecordUnattempted(t, o)

CollectionStep(t) ==
  \E o \in Outcomes, found \in Results : Collect(t, found, o)

Next ==
  \/ SchedulerStep
  \/ Stop
  \/ Crash
  \/ StartTask
  \/ \E t \in running : TaskStep(t) \/ CollectionStep(t)
  \/ Tick

Spec == Init /\ [][Next]_vars

\* Pool threads take tasks and finish them; SNMP and SSH timeouts end a collection,
\* except that nothing is assumed of the slow devices.
TaskOf(d) == {t \in running : t.device = d}

Fairness ==
  /\ WF_vars(SchedulerStep)
  /\ WF_vars(StartTask)
  /\ \A d \in Devices : WF_vars(\E t \in TaskOf(d) : TaskStep(t))
  /\ \A d \in Devices \ SlowDevices : WF_vars(\E t \in TaskOf(d) : CollectionStep(t))

FairSpec == Spec /\ Fairness

------------------------------------------------------------------------------
(* Properties. *)

\* Two polls of a device are never in the pool together, however many cycles one of
\* them outlives (scheduler.py:118-125).
PollsDoNotOverlap ==
  \A d \in Devices :
    /\ Cardinality({t \in InPool : t.device = d /\ t.stage # "skip"}) <= 1
    /\ \A i, j \in 1 .. Len(queue) :
         queue[i].device = d /\ queue[j].device = d
           /\ queue[i].stage # "skip" /\ queue[j].stage # "skip" => i = j

\* A cycle advances the Down/Recovery machine at most once, in the step that writes its
\* row: replays, restarts, lost replies and skips never do (poll.py:19-23).
ProcessedOnce ==
  [][\A d \in Devices :
       tracking'[d] # tracking[d] =>
         \E c \in Cycles : /\ rows[d][c] = "none"
                           /\ rows'[d][c] \in Evidence
                           /\ tracking'[d].last = c]_vars

\* The reference for SYSTEM_SPEC 9.2 and 9.3, read off the poll runs alone: two adjacent
\* failed cycles confirm Down from the first one on, two adjacent reachable ones confirm
\* the recovery at the first one, and nothing else does.
FailedPair(d, c) ==
  c > 1 /\ rows[d][c] = "dead" /\ rows[d][c - 1] = "dead"
ReachablePair(d, c) ==
  c > 1 /\ rows[d][c] \in Reachable /\ rows[d][c - 1] \in Reachable

DownAt(d, c) ==
  \E f \in 1 .. c : FailedPair(d, f) /\ \A r \in f .. c : ~ReachablePair(d, r)

Confirms(d, c) == FailedPair(d, c) /\ ~DownAt(d, c - 1)

Recovery(d, c) == {r \in c .. MaxCycle + 1 : ReachablePair(d, r)}

Episode(d, c) ==
  [started_at |-> c - 1,
   recovered_at |-> IF Recovery(d, c) = {} THEN 0
                    ELSE (CHOOSE r \in Recovery(d, c) : \A s \in Recovery(d, c) : r <= s) - 1]

\* The recorded incidents and the confirmed state are exactly what the history of poll
\* runs says: no gap, skipped cycle, missing credential, crash or retry ever makes up,
\* misses, splits or misdates a Down episode (reachability.py:9-13).
EvidenceDecides ==
  \A d \in Devices :
    /\ incidents[d] = {Episode(d, c) : c \in {e \in Cycles : Confirms(d, e)}}
    /\ tracking[d].state = "down" <=> DownAt(d, MaxCycle + 1)

\* The episodes of a device stay disjoint and in order, and a recorded instant is never
\* changed or deleted (reachability.py:15-18).
DeviceLedger == INSTANCE IncidentLedger WITH Subjects <- Devices
KeepsLedger == DeviceLedger!Ledger

\* As long as fewer devices are stuck than the pool has threads, every cycle planned for
\* another device gets its row once the failures are over: a stuck poll costs one thread,
\* never a second one, and skip records wait behind it only (SYSTEM_SPEC 8: one device's
\* failure must not block the collection of the others).
OthersAreServed ==
  Cardinality(SlowDevices) < Workers =>
    \A d \in Devices \ SlowDevices, c \in Cycles :
      (faults = MaxFaults /\ \E t \in InPool : t.device = d /\ t.cycle = c)
        ~> rows[d][c] # "none"

================================================================================
