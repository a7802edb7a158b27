-------------------------- MODULE DevicePolling_proofs --------------------------
(***************************************************************************)
(* The device poll, for any devices, number of pool threads, cycles and    *)
(* failures. The first part is about the scheduler and its pool, the       *)
(* second about one device: its poll runs, its tracking values and its     *)
(* incidents. They meet in one fact: the poll that is in the pool for a    *)
(* device is later than every cycle the device has processed.              *)
(***************************************************************************)
EXTENDS DevicePolling, FiniteSetTheorems, TLAPS

Histories == [Cycles -> RowKinds]

IsPoll(t) == t.stage # "skip"

\* The parts of the invariant that are about the scheduler and the pool.
ClockIsAhead ==
  /\ last <= now
  /\ \A d \in Devices : tracking[d].last <= now
  /\ \A d \in Devices : last # 0 => tracking[d].last <= last

TargetIsNew ==
  pc = "wait" => /\ target \in Cycles /\ last < target
                 /\ \A d \in Devices : tracking[d].last <= target

SlotsArePast ==
  /\ \A d \in Devices : in_flight[d] <= last
  /\ pc = "load" => last # 0 /\ \A d \in Devices : in_flight[d] < last
  /\ pc = "submit" => last # 0 /\ \A d \in Devices : todo[d] # "no" => in_flight[d] < last

PollsAreCurrent ==
  \A t \in InPool :
    /\ t.cycle <= last
    /\ IsPoll(t) => t.cycle = in_flight[t.device] /\ tracking[t.device].last <= t.cycle

OnePerDevice ==
  /\ \A i, j \in 1 .. Len(queue) :
       IsPoll(queue[i]) /\ IsPoll(queue[j]) /\ queue[i].device = queue[j].device => i = j
  /\ \A s, t \in running : IsPoll(s) /\ IsPoll(t) /\ s.device = t.device => s = t
  /\ \A s \in running, i \in 1 .. Len(queue) :
       IsPoll(s) /\ IsPoll(queue[i]) => s.device # queue[i].device

PoolInv == TypeOK /\ ClockIsAhead /\ TargetIsNew /\ SlotsArePast /\ PollsAreCurrent /\ OnePerDevice

------------------------------------------------------------------------------
(* Types. *)

LEMMA InPoolIsTyped ==
  ASSUME TypeOK
  PROVE  /\ Len(queue) \in Nat
         /\ \A i \in 1 .. Len(queue) : queue[i] \in Tasks /\ queue[i] \in InPool
         /\ \A t \in InPool : t \in Tasks
         /\ running \subseteq InPool
BY DEF TypeOK, InPool

LEMMA TaskIsTyped ==
  ASSUME NEW t \in Tasks
  PROVE  /\ t.device \in Devices /\ t.cycle \in Cycles
         /\ t.stage \in {"check", "collect", "record", "skip"} /\ t.snmp \in BOOLEAN
BY DEF Tasks

LEMMA NextStage ==
  ASSUME NEW t \in Tasks, NEW stage \in {"check", "collect", "record", "skip"}
  PROVE  /\ [t EXCEPT !.stage = stage] \in Tasks
         /\ [t EXCEPT !.stage = stage].device = t.device
         /\ [t EXCEPT !.stage = stage].cycle = t.cycle
         /\ [t EXCEPT !.stage = stage].stage = stage
BY DEF Tasks

LEMMA FreshIsTyped ==
  /\ Fresh \in TrackingRecords
  /\ Fresh.state = "normal" /\ Fresh.last = 0 /\ Fresh.failed = 0
BY PollingAssumption DEF Fresh, Normal, CycleTracking, TrackingRecords

\* The machine dates a cycle it is given as the last one, whatever the cycle found.
LEMMA AdvanceIsTyped ==
  ASSUME NEW tr \in TrackingRecords, NEW c \in Cycles, NEW reachable
  PROVE  LET d == AdvanceCycleState(tr, c, reachable)
         IN /\ d.tracking \in TrackingRecords
            /\ d.tracking.last = c
            /\ d.incident_started_at \in 0 .. MaxCycle + 1
            /\ d.incident_recovered_at \in 0 .. MaxCycle + 1
<1> DEFINE d == AdvanceCycleState(tr, c, reachable)
<1> USE PollingAssumption DEF Cycles
<1>1. CASE reachable /\ tr.state = "down" /\ Continuous(tr, c) /\ tr.reachable > 0
  <2>1. d = Decision(Normal(c), 0, tr.reachable_run)
    BY <1>1 DEF AdvanceCycleState, ReachableWhileDown
  <2> QED BY <2>1 DEF Decision, Normal, CycleTracking, TrackingRecords
<1>2. CASE reachable /\ tr.state = "down" /\ ~(Continuous(tr, c) /\ tr.reachable > 0)
  <2>1. d = Decision(CycleTracking("down", c, 0, 1, 0, c), 0, 0)
    BY <1>2 DEF AdvanceCycleState, ReachableWhileDown
  <2> QED BY <2>1 DEF Decision, CycleTracking, TrackingRecords
<1>3. CASE reachable /\ tr.state = "normal"
  <2>1. d = Decision(Normal(c), 0, 0)
    BY <1>3 DEF AdvanceCycleState
  <2> QED BY <2>1 DEF Decision, Normal, CycleTracking, TrackingRecords
<1>4. CASE ~reachable /\ tr.state = "down"
  <2>1. d = Decision(CycleTracking("down", c, tr.failed, 0, tr.failed_run, 0), 0, 0)
    BY <1>4 DEF AdvanceCycleState, FailedWhileDown
  <2> QED BY <2>1 DEF Decision, CycleTracking, TrackingRecords
<1>5. CASE ~reachable /\ tr.state = "normal" /\ Continuous(tr, c) /\ tr.failed > 0
  <2>1. d = Decision(CycleTracking("down", c, 2, 0, tr.failed_run, 0), tr.failed_run, 0)
    BY <1>5 DEF AdvanceCycleState, FailedWhileNormal
  <2> QED BY <2>1 DEF Decision, CycleTracking, TrackingRecords
<1>6. CASE ~reachable /\ tr.state = "normal" /\ ~(Continuous(tr, c) /\ tr.failed > 0)
  <2>1. d = Decision(CycleTracking("normal", c, 1, 0, c, 0), 0, 0)
    BY <1>6 DEF AdvanceCycleState, FailedWhileNormal
  <2> QED BY <2>1 DEF Decision, CycleTracking, TrackingRecords
<1>7. tr.state \in {"normal", "down"}
  BY DEF TrackingRecords
<1> QED BY <1>1, <1>2, <1>3, <1>4, <1>5, <1>6, <1>7

LEMMA ClosedIsTyped ==
  ASSUME NEW i \in IncidentRecords, NEW r \in 0 .. MaxCycle + 1
  PROVE  [i EXCEPT !.recovered_at = r] \in IncidentRecords
BY DEF IncidentRecords

LEMMA ApplyIsTyped ==
  ASSUME TypeOK, NEW d \in Devices, NEW c \in Cycles, NEW reachable,
         ApplyReachability(d, c, reachable)
  PROVE  /\ tracking' \in [Devices -> TrackingRecords]
         /\ incidents' \in [Devices -> SUBSET IncidentRecords]
         /\ tracking'[d].last = c
         /\ \A e \in Devices : e # d => tracking'[e] = tracking[e] /\ incidents'[e] = incidents[e]
<1> DEFINE decision == AdvanceCycleState(tracking[d], c, reachable)
           started == decision.incident_started_at
           recovered == decision.incident_recovered_at
<1>1. tracking[d] \in TrackingRecords /\ tracking \in [Devices -> TrackingRecords]
  BY DEF TypeOK
<1>2. /\ decision.tracking \in TrackingRecords /\ decision.tracking.last = c
      /\ started \in 0 .. MaxCycle + 1 /\ recovered \in 0 .. MaxCycle + 1
  BY <1>1, AdvanceIsTyped
<1>3. tracking' = [tracking EXCEPT ![d] = decision.tracking]
  BY DEF ApplyReachability
<1>4. incidents' =
          [incidents EXCEPT ![d] =
             CASE started # 0 /\ Open(d) = {} ->
                    @ \union {[started_at |-> started, recovered_at |-> 0]}
               [] recovered # 0 ->
                    (@ \ Open(d)) \union {[i EXCEPT !.recovered_at = recovered] : i \in Open(d)}
               [] OTHER -> @]
  BY DEF ApplyReachability
<1> HIDE DEF decision, started, recovered
<1>5. /\ incidents[d] \in SUBSET IncidentRecords /\ Open(d) \subseteq incidents[d]
      /\ incidents \in [Devices -> SUBSET IncidentRecords]
  BY DEF TypeOK, Open
<1>6. started # 0 => [started_at |-> started, recovered_at |-> 0] \in IncidentRecords
  BY <1>2, PollingAssumption DEF IncidentRecords, Cycles
<1>7. {[i EXCEPT !.recovered_at = recovered] : i \in Open(d)} \subseteq IncidentRecords
  BY <1>2, <1>5, ClosedIsTyped
<1>8. incidents'[d] \in SUBSET IncidentRecords
  <2> DEFINE closed == {[i EXCEPT !.recovered_at = recovered] : i \in Open(d)}
             opened == [started_at |-> started, recovered_at |-> 0]
  <2>1. incidents'[d] = CASE started # 0 /\ Open(d) = {} -> incidents[d] \union {opened}
                          [] recovered # 0 -> (incidents[d] \ Open(d)) \union closed
                          [] OTHER -> incidents[d]
    BY <1>4, <1>5
  <2>2. closed \subseteq IncidentRecords /\ (started # 0 => opened \in IncidentRecords)
    BY <1>6, <1>7
  <2> HIDE DEF closed, opened
  <2>3. \/ started # 0 /\ incidents'[d] = incidents[d] \union {opened}
        \/ incidents'[d] = (incidents[d] \ Open(d)) \union closed
        \/ incidents'[d] = incidents[d]
    BY <2>1
  <2> QED BY <1>5, <2>2, <2>3
<1>9. /\ incidents' = [incidents EXCEPT ![d] = incidents'[d]]
      /\ \A e \in Devices : e # d => incidents'[e] = incidents[e]
  BY <1>4, <1>5
<1>10. incidents' \in [Devices -> SUBSET IncidentRecords]
  BY <1>5, <1>8, <1>9
<1> QED BY <1>1, <1>2, <1>3, <1>9, <1>10

LEMMA InsertIsTyped ==
  ASSUME TypeOK, NEW t \in Tasks, NEW kind \in RowKinds, InsertRow(t, kind)
  PROVE  rows' \in [Devices -> Histories]
BY TaskIsTyped DEF TypeOK, InsertRow, Histories

LEMMA FinishIsTyped ==
  ASSUME TypeOK, NEW t, Finish(t)
  PROVE  queue' \in Seq(Tasks) /\ running' \subseteq Tasks /\ InPool' \subseteq InPool
BY DEF TypeOK, Finish, InPool

LEMMA FreshProcessIsTyped ==
  ASSUME FreshProcess
  PROVE  /\ pc' \in {"plan", "wait", "load", "submit", "stopping"}
         /\ target' \in 0 .. MaxCycle + 1 /\ last' \in 0 .. MaxCycle + 1
         /\ todo' \in [Devices -> {"no", "snmp", "no_snmp"}]
         /\ in_flight' \in [Devices -> 0 .. MaxCycle + 1]
         /\ queue' \in Seq(Tasks) /\ running' \subseteq Tasks
         /\ InPool' = {}
BY PollingAssumption DEF FreshProcess, NothingToDo, NoFuture, InPool

LEMMA SpendIsTyped ==
  ASSUME TypeOK, NEW o, Spend(o)
  PROVE  faults' \in 0 .. MaxFaults
BY PollingAssumption DEF TypeOK, Spend

LEMMA TypeStep ==
  ASSUME TypeOK, SlotsArePast, [Next]_vars
  PROVE  TypeOK'
<1> USE PollingAssumption DEF TypeOK
<1>1. CASE PlanCycle
  BY <1>1 DEF PlanCycle, Cycles, pool, database
<1>2. CASE CycleDue
  BY <1>2 DEF CycleDue, pool, database
<1>3. CASE LoadDevices
  BY <1>3 DEF LoadDevices, pool, database
<1>4. CASE LoadDevicesFails
  BY <1>4, SpendIsTyped DEF LoadDevicesFails, pool, database
<1>5. ASSUME NEW d \in Devices, Submit(d)
      PROVE  TypeOK'
  <2>1. last \in Cycles
    BY <1>5 DEF Submit, SlotsArePast, Cycles
  <2>2. \A stage \in {"skip", "check"} : Task(d, stage) \in Tasks
    BY <2>1 DEF Task, Tasks
  <2>3. queue' \in Seq(Tasks) /\ in_flight' \in [Devices -> 0 .. MaxCycle + 1]
    <3>1. \E stage \in {"skip", "check"} : queue' = Append(queue, Task(d, stage))
      BY <1>5 DEF Submit
    <3>2. in_flight' = in_flight \/ in_flight' = [in_flight EXCEPT ![d] = last]
      BY <1>5 DEF Submit
    <3>3. queue' \in Seq(Tasks)
      BY <2>2, <3>1
    <3> QED BY <3>2, <3>3
  <2>4. todo' \in [Devices -> {"no", "snmp", "no_snmp"}]
    BY <1>5 DEF Submit
  <2> QED BY <1>5, <2>3, <2>4 DEF Submit, database
<1>6. CASE CycleSubmitted
  BY <1>6 DEF CycleSubmitted, pool, database
<1>7. CASE Restart
  BY <1>7, FreshProcessIsTyped DEF Restart, database
<1>8. CASE Stop
  BY <1>8, SpendIsTyped DEF Stop, pool, database
<1>9. CASE Crash
  BY <1>9, FreshProcessIsTyped, SpendIsTyped DEF Crash, database
<1>10. CASE StartTask
  BY <1>10 DEF StartTask, scheduler, database
<1>11. ASSUME NEW t \in running, NEW o \in Outcomes, Check(t, o)
       PROVE  TypeOK'
  <2>1. t \in Tasks /\ faults' \in 0 .. MaxFaults
    BY <1>11, SpendIsTyped DEF Check
  <2>2. queue' \in Seq(Tasks) /\ running' \subseteq Tasks
    <3>1. [t EXCEPT !.stage = IF t.snmp THEN "collect" ELSE "record"] \in Tasks
      BY <2>1, NextStage
    <3> QED BY <1>11, <3>1 DEF Check, Finish
  <2> QED BY <1>11, <2>1, <2>2 DEF Check, scheduler, database
<1>12. ASSUME NEW t \in running, NEW o \in Outcomes, RecordUnattempted(t, o)
       PROVE  TypeOK'
  BY <1>12, SpendIsTyped, FinishIsTyped, InsertIsTyped
  DEF RecordUnattempted, scheduler, RowKinds, Histories
<1>13. ASSUME NEW t \in running, NEW o \in Outcomes, NEW found \in Results, Collect(t, found, o)
       PROVE  TypeOK'
  <2>1. /\ t \in Tasks /\ faults' \in 0 .. MaxFaults /\ found \in RowKinds
        /\ t.device \in Devices /\ t.cycle \in Cycles
    BY <1>13, SpendIsTyped, TaskIsTyped DEF Collect, RowKinds, Evidence, Reachable
  <2>2. queue' \in Seq(Tasks) /\ running' \subseteq Tasks
    BY <1>13, FinishIsTyped DEF Collect
  <2>3. /\ rows' \in [Devices -> Histories]
        /\ tracking' \in [Devices -> TrackingRecords]
        /\ incidents' \in [Devices -> SUBSET IncidentRecords]
    <3>1. CASE InsertRow(t, found) /\ ApplyReachability(t.device, t.cycle, found \in Reachable)
      BY <2>1, <3>1, InsertIsTyped, ApplyIsTyped
    <3>2. CASE UNCHANGED database
      BY <3>2 DEF database, Histories
    <3> QED BY <1>13, <3>1, <3>2 DEF Collect
  <2> QED BY <1>13, <2>1, <2>2, <2>3 DEF Collect, scheduler, Histories
<1>14. CASE Tick
  BY <1>14 DEF Tick, scheduler, pool, database
<1>15. CASE UNCHANGED vars
  BY <1>15 DEF vars, scheduler, pool, database
<1> QED BY <1>1, <1>2, <1>3, <1>4, <1>5, <1>6, <1>7, <1>8, <1>9, <1>10, <1>11, <1>12,
           <1>13, <1>14, <1>15
        DEF Next, SchedulerStep, TaskStep, CollectionStep
------------------------------------------------------------------------------
(* The scheduler and its pool. *)

\* What the invariant says in numbers.
LEMMA NumbersAreTyped ==
  ASSUME TypeOK
  PROVE  /\ now \in Nat /\ last \in Nat /\ target \in Nat
         /\ \A d \in Devices : tracking[d].last \in Nat /\ in_flight[d] \in Nat
BY PollingAssumption DEF TypeOK, TrackingRecords

\* A task leaves the pool, having processed at most its own cycle.
LEMMA FinishKeepsPool ==
  ASSUME PoolInv, TypeOK', NEW t \in running, Finish(t),
         UNCHANGED <<now, pc, target, last, todo, in_flight>>,
         \A d \in Devices : tracking'[d].last <= last,
         \A u \in InPool : u # t /\ IsPoll(u) => tracking'[u.device].last <= u.cycle
  PROVE  PoolInv'
<1>1. /\ queue' = queue /\ running' = running \ {t}
      /\ now \in Nat /\ last \in Nat /\ target \in Nat
      /\ \A d \in Devices : tracking'[d].last \in Nat
  BY NumbersAreTyped DEF Finish, PoolInv, TypeOK, TrackingRecords
<1>2. last <= now
  BY DEF PoolInv, ClockIsAhead
<1>3. ClockIsAhead'
  BY <1>1, <1>2 DEF ClockIsAhead
<1>4. TargetIsNew' /\ SlotsArePast'
  BY <1>1 DEF PoolInv, TargetIsNew, SlotsArePast, Cycles
<1>5. OnePerDevice'
  BY <1>1 DEF PoolInv, OnePerDevice
<1>6. \A u \in InPool' : u \in InPool /\ (IsPoll(u) => u # t)
  BY <1>1 DEF InPool, PoolInv, OnePerDevice
<1>7. PollsAreCurrent'
  BY <1>6 DEF PoolInv, PollsAreCurrent
<1> QED BY <1>3, <1>4, <1>5, <1>7 DEF PoolInv

\* The machine of a device is advanced by the poll of that device only.
LEMMA CollectKeepsPool ==
  ASSUME PoolInv, TypeOK', NEW t \in running, NEW o \in Outcomes, NEW found \in Results,
         Collect(t, found, o)
  PROVE  PoolInv'
<1>1. /\ t \in Tasks /\ t \in InPool /\ t.device \in Devices /\ t.cycle \in Cycles /\ IsPoll(t)
      /\ Finish(t) /\ UNCHANGED <<now, pc, target, last, todo, in_flight>>
  BY InPoolIsTyped, TaskIsTyped DEF PoolInv, Collect, scheduler, IsPoll
<1>2. last # 0 /\ t.cycle <= last /\ last \in Nat
  BY <1>1, NumbersAreTyped DEF PoolInv, PollsAreCurrent, Cycles
<1>3. \/ UNCHANGED tracking
      \/ /\ tracking'[t.device].last = t.cycle
         /\ \A e \in Devices : e # t.device => tracking'[e] = tracking[e]
  <2>1. UNCHANGED database \/ ApplyReachability(t.device, t.cycle, found \in Reachable)
    BY DEF Collect
  <2> QED BY <1>1, <2>1, ApplyIsTyped DEF database, PoolInv
<1>4. \A d \in Devices : tracking'[d].last <= last
  BY <1>1, <1>2, <1>3 DEF PoolInv, ClockIsAhead
<1>5. \A u \in InPool : u # t /\ IsPoll(u) => u.device # t.device
  <2>1. \A u \in InPool : u \in running \/ \E i \in 1 .. Len(queue) : u = queue[i]
    BY DEF InPool
  <2> QED BY <1>1, <2>1 DEF PoolInv, OnePerDevice
<1>6. \A u \in InPool : u # t /\ IsPoll(u) => tracking'[u.device].last <= u.cycle
  BY <1>3, <1>5, InPoolIsTyped, TaskIsTyped DEF PoolInv, PollsAreCurrent
<1> QED BY <1>1, <1>4, <1>6, FinishKeepsPool

LEMMA CheckKeepsPool ==
  ASSUME PoolInv, TypeOK', NEW t \in running, NEW o \in Outcomes, Check(t, o)
  PROVE  PoolInv'
<1>1. /\ t \in Tasks /\ t \in InPool /\ t.device \in Devices /\ t.cycle \in Cycles /\ IsPoll(t)
      /\ UNCHANGED <<now, pc, target, last, todo, in_flight, tracking>>
  BY InPoolIsTyped, TaskIsTyped DEF PoolInv, Check, scheduler, database, IsPoll
<1>2. last # 0 /\ t.cycle <= last /\ last \in Nat
  BY <1>1, NumbersAreTyped DEF PoolInv, PollsAreCurrent, Cycles
<1>3. CASE Finish(t)
  <2>1. \A d \in Devices : tracking'[d].last <= last
    BY <1>1, <1>2 DEF PoolInv, ClockIsAhead
  <2>2. \A u \in InPool : u # t /\ IsPoll(u) => tracking'[u.device].last <= u.cycle
    BY <1>1 DEF PoolInv, PollsAreCurrent
  <2> QED BY <1>1, <1>3, <2>1, <2>2, FinishKeepsPool
<1>4. CASE \E u : /\ IsPoll(u) /\ u.device = t.device /\ u.cycle = t.cycle
                  /\ running' = (running \ {t}) \union {u} /\ UNCHANGED queue
  <2>1. PICK u : /\ IsPoll(u) /\ u.device = t.device /\ u.cycle = t.cycle
                 /\ running' = (running \ {t}) \union {u} /\ UNCHANGED queue
    BY <1>4
  <2>2. ClockIsAhead' /\ TargetIsNew' /\ SlotsArePast'
    BY <1>1 DEF PoolInv, ClockIsAhead, TargetIsNew, SlotsArePast
  <2>3. \A v \in InPool' : v \in InPool \/ v = u
    BY <2>1 DEF InPool
  <2>4. PollsAreCurrent'
    BY <1>1, <2>1, <2>3 DEF PoolInv, PollsAreCurrent
  <2>5. OnePerDevice'
    BY <1>1, <2>1 DEF PoolInv, OnePerDevice
  <2> QED BY <2>2, <2>4, <2>5 DEF PoolInv
<1>5. CASE \E stage \in {"collect", "record"} :
             running' = (running \ {t}) \union {[t EXCEPT !.stage = stage]} /\ UNCHANGED queue
  <2>1. PICK stage \in {"collect", "record"} :
               running' = (running \ {t}) \union {[t EXCEPT !.stage = stage]} /\ UNCHANGED queue
    BY <1>5
  <2> DEFINE u == [t EXCEPT !.stage = stage]
  <2>2. u.device = t.device /\ u.cycle = t.cycle /\ u.stage = stage
    BY <1>1, NextStage
  <2> HIDE DEF u
  <2>3. IsPoll(u) /\ running' = (running \ {t}) \union {u} /\ UNCHANGED queue
    BY <2>1, <2>2 DEF IsPoll, u
  <2> QED BY <1>4, <2>2, <2>3
<1>6. \/ Finish(t)
      \/ \E stage \in {"collect", "record"} :
           running' = (running \ {t}) \union {[t EXCEPT !.stage = stage]} /\ UNCHANGED queue
  BY DEF Check
<1> QED BY <1>3, <1>5, <1>6

LEMMA SubmitKeepsPool ==
  ASSUME PoolInv, TypeOK', NEW d \in Devices, Submit(d)
  PROVE  PoolInv'
<1>1. /\ UNCHANGED <<now, pc, target, last, running, tracking>>
      /\ pc = "submit" /\ todo[d] # "no" /\ todo' = [todo EXCEPT ![d] = "no"]
  BY DEF Submit, database
<1>2. last # 0 /\ in_flight[d] < last /\ last \in Nat
  BY <1>1, NumbersAreTyped DEF PoolInv, SlotsArePast
<1>3. /\ queue \in Seq(Tasks) /\ Len(queue) \in Nat
      /\ \A i \in 1 .. Len(queue) : queue[i] \in InPool
      /\ todo \in [Devices -> {"no", "snmp", "no_snmp"}]
      /\ in_flight \in [Devices -> 0 .. MaxCycle + 1]
  BY InPoolIsTyped DEF PoolInv, TypeOK
<1>4. \A stage : /\ Task(d, stage).device = d /\ Task(d, stage).cycle = last
                 /\ Task(d, stage).stage = stage
  BY DEF Task
<1>5. ClockIsAhead' /\ TargetIsNew'
  BY <1>1 DEF PoolInv, ClockIsAhead, TargetIsNew
<1>6. \A new : queue' = Append(queue, new) =>
        /\ Len(queue') = Len(queue) + 1 /\ queue'[Len(queue) + 1] = new
        /\ \A i \in 1 .. Len(queue) : queue'[i] = queue[i]
        /\ \A u \in InPool' : u \in InPool \/ u = new
  BY <1>1, <1>3 DEF InPool
<1>7. CASE PollInFlight(d)
  <2> DEFINE new == Task(d, "skip")
  <2>1. queue' = Append(queue, new) /\ in_flight' = in_flight
    BY <1>7 DEF Submit
  <2>2. ~IsPoll(new) /\ new.cycle = last
    BY <1>4 DEF IsPoll
  <2> HIDE DEF new
  <2>3. SlotsArePast'
    BY <1>1, <1>2, <1>3, <2>1 DEF PoolInv, SlotsArePast
  <2>4. PollsAreCurrent'
    BY <1>1, <1>2, <1>6, <2>1, <2>2 DEF PoolInv, PollsAreCurrent
  <2>5. OnePerDevice'
    <3>1. \A i \in 1 .. Len(queue') : IsPoll(queue'[i]) => i \in 1 .. Len(queue) /\ queue'[i] = queue[i]
      BY <1>3, <1>6, <2>1, <2>2
    <3> QED BY <1>1, <3>1 DEF PoolInv, OnePerDevice
  <2> QED BY <1>5, <2>3, <2>4, <2>5 DEF PoolInv
<1>8. CASE ~PollInFlight(d)
  <2> DEFINE new == Task(d, "check")
  <2>1. queue' = Append(queue, new) /\ in_flight' = [in_flight EXCEPT ![d] = last]
    BY <1>8 DEF Submit
  <2>2. new.device = d /\ new.cycle = last
    BY <1>4
  <2> HIDE DEF new
  <2>3. \A u \in InPool : IsPoll(u) => u.device # d
    BY <1>8 DEF PollInFlight, IsPoll, PoolInv, PollsAreCurrent
  <2>4. SlotsArePast'
    BY <1>1, <1>2, <1>3, <2>1 DEF PoolInv, SlotsArePast
  <2>5. \A u \in InPool : u.device \in Devices
    BY InPoolIsTyped, TaskIsTyped DEF PoolInv
  <2>6. tracking[d].last <= last
    BY <1>2 DEF PoolInv, ClockIsAhead
  <2>7. PollsAreCurrent'
    BY <1>1, <1>2, <1>3, <1>6, <2>1, <2>2, <2>3, <2>5, <2>6 DEF PoolInv, PollsAreCurrent
  <2>8. OnePerDevice'
    <3>1. \A i \in 1 .. Len(queue') :
            \/ i \in 1 .. Len(queue) /\ queue'[i] = queue[i] /\ queue[i] \in InPool
            \/ i = Len(queue) + 1 /\ queue'[i].device = d
      BY <1>3, <1>6, <2>1, <2>2
    <3>2. running \subseteq InPool
      BY DEF InPool
    <3> QED BY <1>1, <2>3, <3>1, <3>2 DEF PoolInv, OnePerDevice
  <2> QED BY <1>5, <2>4, <2>7, <2>8 DEF PoolInv
<1> QED BY <1>7, <1>8
LEMMA PoolStep ==
  ASSUME PoolInv, [Next]_vars
  PROVE  PoolInv'
<1>1. TypeOK' /\ TypeOK
  BY TypeStep DEF PoolInv
<1>2. /\ now \in Nat /\ last \in Nat /\ target \in Nat
      /\ \A d \in Devices : tracking[d].last \in Nat /\ in_flight[d] \in Nat
  BY <1>1, NumbersAreTyped
<1>3. ASSUME FreshProcess, now' = now, tracking' = tracking
      PROVE  PoolInv'
  <2>1. /\ last' = 0 /\ pc' = "plan" /\ queue' = <<>> /\ running' = {} /\ Len(queue') = 0
        /\ \A d \in Devices : in_flight'[d] = 0
    BY <1>3 DEF FreshProcess, NoFuture
  <2>2. InPool' = {}
    BY <1>3, FreshProcessIsTyped
  <2>3. ClockIsAhead' /\ TargetIsNew' /\ SlotsArePast'
    BY <1>2, <1>3, <2>1 DEF PoolInv, ClockIsAhead, TargetIsNew, SlotsArePast
  <2>4. PollsAreCurrent' /\ OnePerDevice'
    BY <2>1, <2>2 DEF PollsAreCurrent, OnePerDevice
  <2> QED BY <1>1, <2>3, <2>4 DEF PoolInv
<1>4. ASSUME UNCHANGED pool, UNCHANGED <<last, in_flight, tracking>>
      PROVE  PollsAreCurrent' /\ OnePerDevice'
  BY <1>4 DEF PoolInv, PollsAreCurrent, OnePerDevice, InPool, pool
<1>5. CASE PlanCycle
  <2>1. /\ UNCHANGED pool /\ UNCHANGED <<now, last, in_flight, tracking, todo>>
        /\ pc' = "wait"
    BY <1>5 DEF PlanCycle, database
  <2>2. PICK aligned \in {now, now + 1} \ {0} :
               NextCycle(aligned) \in Cycles /\ target' = NextCycle(aligned)
    BY <1>5 DEF PlanCycle
  <2>3. target' \in Cycles /\ last < target' /\ now <= target'
    BY <1>2, <2>2 DEF NextCycle, PoolInv, ClockIsAhead
  <2>4. target' \in Nat
    BY <1>1, <2>3, PollingAssumption DEF Cycles
  <2>5. ClockIsAhead' /\ TargetIsNew' /\ SlotsArePast'
    BY <1>2, <2>1, <2>3, <2>4 DEF PoolInv, ClockIsAhead, TargetIsNew, SlotsArePast
  <2> QED BY <1>1, <1>4, <2>1, <2>5 DEF PoolInv
<1>6. CASE CycleDue
  <2>1. /\ queue' = queue /\ running' = running /\ UNCHANGED <<now, in_flight, tracking, todo>>
        /\ pc' = "load" /\ pc = "wait" /\ last' = target /\ target <= now
    BY <1>2, <1>6 DEF CycleDue, pool, database
  <2>2. last < target /\ \A d \in Devices : tracking[d].last <= target
    BY <2>1 DEF PoolInv, TargetIsNew
  <2>3. ClockIsAhead' /\ TargetIsNew' /\ SlotsArePast'
    BY <1>2, <2>1, <2>2 DEF PoolInv, ClockIsAhead, TargetIsNew, SlotsArePast
  <2>4. \A t \in InPool : t.cycle \in Nat
    BY <1>1, InPoolIsTyped, TaskIsTyped, PollingAssumption DEF Cycles
  <2>5. PollsAreCurrent'
    BY <1>2, <2>1, <2>2, <2>4 DEF PoolInv, PollsAreCurrent, InPool
  <2>6. OnePerDevice'
    BY <2>1 DEF PoolInv, OnePerDevice
  <2> QED BY <1>1, <2>3, <2>5, <2>6 DEF PoolInv
<1>7. CASE LoadDevices
  <2>1. /\ UNCHANGED pool /\ UNCHANGED <<now, last, in_flight, tracking>>
        /\ pc = "load" /\ pc' = "submit"
    BY <1>7 DEF LoadDevices, database
  <2>2. ClockIsAhead' /\ TargetIsNew' /\ SlotsArePast'
    BY <2>1 DEF PoolInv, ClockIsAhead, TargetIsNew, SlotsArePast
  <2> QED BY <1>1, <1>4, <2>1, <2>2 DEF PoolInv
<1>8. CASE LoadDevicesFails \/ CycleSubmitted \/ Stop
  <2>1. /\ UNCHANGED pool /\ UNCHANGED <<now, last, in_flight, tracking>>
        /\ pc' \in {"plan", "stopping"}
    BY <1>8 DEF LoadDevicesFails, CycleSubmitted, Stop, database
  <2>2. ClockIsAhead' /\ TargetIsNew' /\ SlotsArePast'
    BY <2>1 DEF PoolInv, ClockIsAhead, TargetIsNew, SlotsArePast
  <2> QED BY <1>1, <1>4, <2>1, <2>2 DEF PoolInv
<1>9. ASSUME NEW d \in Devices, Submit(d)
      PROVE  PoolInv'
  BY <1>1, <1>9, SubmitKeepsPool
<1>10. CASE Restart \/ Crash
  BY <1>3, <1>10 DEF Restart, Crash, database
<1>11. CASE StartTask
  <2>1. /\ UNCHANGED <<now, pc, target, last, todo, in_flight, tracking>>
        /\ queue \in Seq(Tasks) /\ queue # <<>>
        /\ running' = running \union {Head(queue)} /\ queue' = Tail(queue)
    BY <1>1, <1>11 DEF StartTask, scheduler, database, TypeOK
  <2>2. ClockIsAhead' /\ TargetIsNew' /\ SlotsArePast'
    BY <2>1 DEF PoolInv, ClockIsAhead, TargetIsNew, SlotsArePast
  <2>3. /\ Len(queue) \in Nat \ {0} /\ 1 \in 1 .. Len(queue) /\ Head(queue) = queue[1]
        /\ Len(queue') = Len(queue) - 1
        /\ \A i \in 1 .. Len(queue') : i + 1 \in 1 .. Len(queue) /\ queue'[i] = queue[i + 1]
    BY <2>1
  <2>4. \A t \in InPool' : t \in InPool
    BY <2>1, <2>3 DEF InPool
  <2>5. PollsAreCurrent'
    BY <2>1, <2>4 DEF PoolInv, PollsAreCurrent
  <2>6. OnePerDevice'
    <3>1. \A i, j \in 1 .. Len(queue') : i + 1 = j + 1 => i = j
      BY <2>3
    <3>2. \A i \in 1 .. Len(queue') : i + 1 # 1
      BY <2>3
    <3> QED BY <2>1, <2>3, <3>1, <3>2 DEF PoolInv, OnePerDevice
  <2> QED BY <1>1, <2>2, <2>5, <2>6 DEF PoolInv
<1>12. ASSUME NEW t \in running, NEW o \in Outcomes, Check(t, o)
       PROVE  PoolInv'
  BY <1>1, <1>12, CheckKeepsPool
<1>13. ASSUME NEW t \in running, NEW o \in Outcomes, RecordUnattempted(t, o)
       PROVE  PoolInv'
  <2>1. Finish(t) /\ UNCHANGED <<now, pc, target, last, todo, in_flight, tracking>>
    BY <1>13 DEF RecordUnattempted, scheduler
  <2>2. t \in InPool /\ t.cycle \in Nat \ {0} /\ t.cycle <= last
    BY <1>1, <1>13, InPoolIsTyped, TaskIsTyped, PollingAssumption
    DEF PoolInv, PollsAreCurrent, Cycles
  <2>3. \A d \in Devices : tracking'[d].last <= last
    BY <1>2, <2>1, <2>2 DEF PoolInv, ClockIsAhead
  <2>4. \A u \in InPool : u # t /\ IsPoll(u) => tracking'[u.device].last <= u.cycle
    BY <2>1 DEF PoolInv, PollsAreCurrent
  <2> QED BY <1>1, <2>1, <2>3, <2>4, FinishKeepsPool
<1>14. ASSUME NEW t \in running, NEW o \in Outcomes, NEW found \in Results, Collect(t, found, o)
       PROVE  PoolInv'
  BY <1>1, <1>14, CollectKeepsPool
<1>15. CASE Tick
  <2>1. /\ UNCHANGED pool /\ UNCHANGED <<pc, target, todo, last, in_flight, tracking>>
        /\ now' = now + 1
    BY <1>15 DEF Tick, scheduler, database
  <2>2. ClockIsAhead' /\ TargetIsNew' /\ SlotsArePast'
    BY <1>2, <2>1 DEF PoolInv, ClockIsAhead, TargetIsNew, SlotsArePast
  <2> QED BY <1>1, <1>4, <2>1, <2>2 DEF PoolInv
<1>16. CASE UNCHANGED vars
  <2>1. /\ UNCHANGED pool
        /\ UNCHANGED <<now, pc, target, todo, last, in_flight, tracking>>
    BY <1>16 DEF vars, scheduler, pool, database
  <2>2. ClockIsAhead' /\ TargetIsNew' /\ SlotsArePast'
    BY <2>1 DEF PoolInv, ClockIsAhead, TargetIsNew, SlotsArePast
  <2> QED BY <1>1, <1>4, <2>1, <2>2 DEF PoolInv
<1> QED BY <1>5, <1>6, <1>7, <1>8, <1>9, <1>10, <1>11, <1>12, <1>13, <1>14, <1>15, <1>16
        DEF Next, SchedulerStep, TaskStep, CollectionStep

LEMMA PoolInvAtFirst == Init => PoolInv
<1> SUFFICES ASSUME Init PROVE PoolInv
  OBVIOUS
<1>1. TypeOK
  BY FreshIsTyped, PollingAssumption
  DEF Init, TypeOK, NothingToDo, NoFuture, RowKinds
<1>2. InPool = {} /\ Len(queue) = 0 /\ running = {}
  BY DEF Init, InPool
<1>3. /\ now = 0 /\ last = 0 /\ pc = "plan"
      /\ \A d \in Devices : tracking[d].last = 0 /\ in_flight[d] = 0
  BY FreshIsTyped DEF Init, NoFuture
<1> QED BY <1>1, <1>2, <1>3
        DEF PoolInv, ClockIsAhead, TargetIsNew, SlotsArePast, PollsAreCurrent, OnePerDevice

LEMMA PoolInvHolds == Spec => []PoolInv
<1>1. PoolInv /\ [Next]_vars => PoolInv'
  BY PoolStep
<1> QED BY <1>1, PoolInvAtFirst, PTL DEF Spec

\* Every state of the module has the type the comments of its variables give.
THEOREM TypeCorrect == Spec => []TypeOK
<1>1. PoolInv => TypeOK
  BY DEF PoolInv
<1> QED BY <1>1, PoolInvHolds, PTL

\* Two polls of a device are never in the pool together, whatever they outlive and
\* whatever the process goes through (scheduler.py:118-125).
THEOREM NoOverlap == Spec => []PollsDoNotOverlap
<1>1. PoolInv => PollsDoNotOverlap
  <2> SUFFICES ASSUME PoolInv, NEW d \in Devices
               PROVE  /\ Cardinality({t \in InPool : t.device = d /\ t.stage # "skip"}) <= 1
                      /\ \A i, j \in 1 .. Len(queue) :
                           queue[i].device = d /\ queue[j].device = d
                             /\ queue[i].stage # "skip" /\ queue[j].stage # "skip" => i = j
    BY DEF PollsDoNotOverlap
  <2> DEFINE polls == {t \in InPool : t.device = d /\ t.stage # "skip"}
  <2>1. \A s, t \in polls : s = t
    BY DEF PoolInv, OnePerDevice, IsPoll, InPool
  <2>2. Cardinality(polls) <= 1
    <3> HIDE DEF polls
    <3>1. CASE polls = {}
      BY <3>1, FS_EmptySet
    <3>2. CASE polls # {}
      <4>1. PICK t : t \in polls
        BY <3>2
      <4>2. polls = {t}
        BY <2>1, <4>1
      <4>3. Cardinality({t}) = 1
        BY FS_Singleton
      <4> QED BY <4>2, <4>3
    <3> QED BY <3>1, <3>2
  <2>3. \A i, j \in 1 .. Len(queue) :
          queue[i].device = d /\ queue[j].device = d
            /\ queue[i].stage # "skip" /\ queue[j].stage # "skip" => i = j
    BY DEF PoolInv, OnePerDevice, IsPoll
  <2> QED BY <2>2, <2>3
<1> QED BY <1>1, PoolInvHolds, PTL
------------------------------------------------------------------------------
(* One device: what its poll runs say, and how one more processed cycle      *)
(* changes it.                                                               *)

PairIn(h, c, kinds) == c > 1 /\ h[c] \in kinds /\ h[c - 1] \in kinds

DownIn(h, c) ==
  \E f \in 1 .. c : PairIn(h, f, {"dead"}) /\ \A r \in f .. c : ~PairIn(h, r, Reachable)

ConfirmsIn(h, c) == PairIn(h, c, {"dead"}) /\ ~DownIn(h, c - 1)

RecoveryIn(h, c) == {r \in c .. MaxCycle + 1 : PairIn(h, r, Reachable)}

Earliest(set) == CHOOSE r \in set : \A s \in set : r <= s

HasEarliest(set) == \E r \in set : \A s \in set : r <= s

NewEpisode(s, r) == [started_at |-> s, recovered_at |-> r]

EpisodeIn(h, c) ==
  NewEpisode(c - 1, IF RecoveryIn(h, c) = {} THEN 0 ELSE Earliest(RecoveryIn(h, c)) - 1)

Confirming(h) == {c \in Cycles : ConfirmsIn(h, c)}

EpisodesIn(h) == {EpisodeIn(h, c) : c \in Confirming(h)}

\* The evidence ends with cycle l.
EndsAt(h, l) ==
  /\ \A c \in Cycles : c > l => h[c] \notin Evidence
  /\ l # 0 => h[l] \in Evidence

\* The last processed cycle was of these kinds.
LastIs(h, l, kinds) == l # 0 /\ h[l] \in kinds

LEMMA EarliestIs ==
  ASSUME NEW set \in SUBSET Nat, NEW m \in set, \A x \in set : m <= x
  PROVE  Earliest(set) = m
<1>1. \E u \in set : \A x \in set : u <= x
  OBVIOUS
<1>2. Earliest(set) \in set /\ \A x \in set : Earliest(set) <= x
  BY <1>1 DEF Earliest
<1>3. m \in Nat /\ Earliest(set) \in Nat /\ m <= Earliest(set) /\ Earliest(set) <= m
  BY <1>2
<1> QED BY ONLY <1>3

LEMMA CyclesAre ==
  /\ MaxCycle + 1 \in Nat
  /\ \A n : n \in Cycles <=> n \in 1 .. MaxCycle + 1
BY PollingAssumption DEF Cycles

LEMMA PairsGrow ==
  ASSUME NEW h \in Histories, NEW l \in Nat, NEW c \in Cycles, l < c, EndsAt(h, l),
         NEW found \in Evidence, NEW kinds \in SUBSET Evidence
  PROVE  LET g == [h EXCEPT ![c] = found]
         IN /\ \A n \in 1 .. c - 1 : PairIn(g, n, kinds) <=> PairIn(h, n, kinds)
            /\ PairIn(g, c, kinds) <=> found \in kinds /\ c = l + 1 /\ LastIs(h, l, kinds)
            /\ \A n \in c .. MaxCycle + 1 : ~PairIn(h, n, kinds)
            /\ \A n \in c + 1 .. MaxCycle + 1 : ~PairIn(g, n, kinds)
<1> DEFINE g == [h EXCEPT ![c] = found]
<1>1. /\ c \in Nat /\ c > 0 /\ MaxCycle + 1 \in Nat /\ c <= MaxCycle + 1
      /\ g[c] = found /\ \A n \in Cycles : n # c => g[n] = h[n]
  BY CyclesAre DEF Histories
<1>2. \A n \in Cycles : n > l => h[n] \notin kinds
  BY DEF EndsAt
<1> HIDE DEF g
<1>3. \A n \in 1 .. c - 1 : /\ n \in Cycles /\ n # c
                            /\ n > 1 => n - 1 \in Cycles /\ n - 1 # c
  BY <1>1, CyclesAre
<1>4. \A n \in 1 .. c - 1 : PairIn(g, n, kinds) <=> PairIn(h, n, kinds)
  BY <1>1, <1>3 DEF PairIn
<1>5. \A n \in c .. MaxCycle + 1 : n \in Cycles /\ n > l
  BY <1>1, CyclesAre
<1>6. \A n \in c .. MaxCycle + 1 : ~PairIn(h, n, kinds)
  BY <1>2, <1>5 DEF PairIn
<1>7. \A n \in c + 1 .. MaxCycle + 1 : n \in Cycles /\ n > l /\ n # c
  BY <1>1, CyclesAre
<1>8. \A n \in c + 1 .. MaxCycle + 1 : ~PairIn(g, n, kinds)
  BY <1>1, <1>2, <1>7 DEF PairIn
<1>9. PairIn(g, c, kinds) <=> found \in kinds /\ c = l + 1 /\ LastIs(h, l, kinds)
  <2>1. CASE c = 1
    BY <1>1, <2>1 DEF PairIn, LastIs
  <2>2. CASE c > 1
    <3>1. c - 1 \in Cycles /\ c - 1 # c /\ (c - 1 = l \/ c - 1 > l) /\ (c = l + 1 <=> c - 1 = l)
      BY <1>1, <2>2, CyclesAre
    <3>2. g[c - 1] = h[c - 1]
      BY <1>1, <3>1
    <3>3. PairIn(g, c, kinds) <=> found \in kinds /\ h[c - 1] \in kinds
      BY <1>1, <2>2, <3>2 DEF PairIn
    <3> QED BY <1>2, <2>2, <3>1, <3>3 DEF LastIs
  <2> QED BY <1>1, <2>1, <2>2
<1> QED BY <1>4, <1>6, <1>8, <1>9 DEF g

LEMMA DownGrows ==
  ASSUME NEW h \in Histories, NEW l \in Nat, NEW c \in Cycles, l < c, EndsAt(h, l),
         NEW found \in Evidence
  PROVE  LET g == [h EXCEPT ![c] = found]
             falls == found = "dead" /\ c = l + 1 /\ LastIs(h, l, {"dead"})
             rises == found \in Reachable /\ c = l + 1 /\ LastIs(h, l, Reachable)
         IN /\ \A n \in 0 .. c - 1 : DownIn(g, n) <=> DownIn(h, n)
            /\ \A n \in c .. MaxCycle + 1 :
                 /\ DownIn(h, n) <=> DownIn(h, c - 1)
                 /\ DownIn(g, n) <=> falls \/ (DownIn(h, c - 1) /\ ~rises)
<1> DEFINE g == [h EXCEPT ![c] = found]
           N == MaxCycle + 1
           falls == found = "dead" /\ c = l + 1 /\ LastIs(h, l, {"dead"})
           rises == found \in Reachable /\ c = l + 1 /\ LastIs(h, l, Reachable)
           up(n) == PairIn(h, n, Reachable)
           down(n) == PairIn(h, n, {"dead"})
           rise(n) == PairIn(g, n, Reachable)
           fall(n) == PairIn(g, n, {"dead"})
<1>1. c \in Nat /\ 0 < c /\ c <= N /\ N \in Nat
  BY CyclesAre
<1>2. {"dead"} \in SUBSET Evidence /\ Reachable \in SUBSET Evidence
  BY DEF Evidence
<1>3. /\ \A n \in 1 .. c - 1 : rise(n) <=> up(n)
      /\ rise(c) <=> rises
      /\ \A n \in c .. N : ~up(n)
      /\ \A n \in c + 1 .. N : ~rise(n)
  BY <1>2, PairsGrow
<1>4. /\ \A n \in 1 .. c - 1 : fall(n) <=> down(n)
      /\ fall(c) <=> falls
      /\ \A n \in c .. N : ~down(n)
      /\ \A n \in c + 1 .. N : ~fall(n)
  <2> DEFINE dead == {"dead"}
  <2>1. dead \in SUBSET Evidence /\ (found \in dead <=> found = "dead")
    BY <1>2
  <2> HIDE DEF dead
  <2>2. /\ \A n \in 1 .. c - 1 : PairIn(g, n, dead) <=> PairIn(h, n, dead)
        /\ PairIn(g, c, dead) <=> found \in dead /\ c = l + 1 /\ LastIs(h, l, dead)
        /\ \A n \in c .. N : ~PairIn(h, n, dead)
        /\ \A n \in c + 1 .. N : ~PairIn(g, n, dead)
    BY <2>1, PairsGrow
  <2> QED BY <2>1, <2>2 DEF dead
<1>5. ~(rises /\ falls)
  BY DEF Reachable
<1>6. \A n : /\ DownIn(h, n) <=> \E d \in 1 .. n : down(d) /\ \A u \in d .. n : ~up(u)
             /\ DownIn(g, n) <=> \E d \in 1 .. n : fall(d) /\ \A u \in d .. n : ~rise(u)
  BY DEF DownIn
<1> HIDE DEF g, N, up, down, rise, fall, rises, falls
<1>7. ASSUME NEW n \in 0 .. c - 1 PROVE DownIn(g, n) <=> DownIn(h, n)
  <2>1. \A d \in 1 .. n : d \in 1 .. c - 1 /\ \A u \in d .. n : u \in 1 .. c - 1
    BY <1>1
  <2> QED BY <1>3, <1>4, <1>6, <2>1
<1>8. ASSUME NEW n \in c .. N PROVE DownIn(h, n) <=> DownIn(h, c - 1)
  <2>1. /\ \A d \in 1 .. n : d \in 1 .. c - 1 \/ d \in c .. N
        /\ \A d \in 1 .. c - 1 :
             /\ d \in 1 .. n
             /\ \A u \in d .. n : u \in d .. c - 1 \/ u \in c .. N
             /\ \A u \in d .. c - 1 : u \in d .. n
    BY <1>1
  <2> QED BY <1>3, <1>4, <1>6, <2>1
<1>9. ASSUME NEW n \in c .. N
      PROVE  DownIn(g, n) <=> falls \/ (DownIn(h, c - 1) /\ ~rises)
  <2>1. /\ c \in 1 .. n
        /\ \A u \in c .. n : u = c \/ u \in c + 1 .. N
        /\ \A d \in 1 .. n : d \in 1 .. c - 1 \/ d = c \/ d \in c + 1 .. N
        /\ \A d \in 1 .. c - 1 :
             /\ d \in 1 .. n /\ c \in d .. n
             /\ \A u \in d .. n : u \in d .. c - 1 \/ u = c \/ u \in c + 1 .. N
             /\ \A u \in d .. c - 1 : u \in d .. n /\ u \in 1 .. c - 1
    BY <1>1
  <2> QED BY <1>3, <1>4, <1>5, <1>6, <2>1
<1> QED BY <1>7, <1>8, <1>9 DEF g, N, rises, falls

\* What a cycle decides, said of the poll runs before it.
Falls(h, l, c, found) == found = "dead" /\ c = l + 1 /\ LastIs(h, l, {"dead"})
Rises(h, l, c, found) == found \in Reachable /\ c = l + 1 /\ LastIs(h, l, Reachable)

Opens(h, l, c, found) == Falls(h, l, c, found) /\ ~DownIn(h, c - 1)
Closes(h, l, c, found) == Rises(h, l, c, found) /\ DownIn(h, c - 1)

LEMMA ReferenceGrows ==
  ASSUME NEW h \in Histories, NEW l \in Nat, NEW c \in Cycles, l < c, EndsAt(h, l),
         NEW found \in Evidence
  PROVE  LET g == [h EXCEPT ![c] = found]
         IN /\ \A n \in 1 .. c - 1 : ConfirmsIn(g, n) <=> ConfirmsIn(h, n)
            /\ ConfirmsIn(g, c) <=> Opens(h, l, c, found)
            /\ \A n \in c .. MaxCycle + 1 : ~ConfirmsIn(h, n)
            /\ \A n \in c + 1 .. MaxCycle + 1 : ~ConfirmsIn(g, n)
            /\ \A n \in 1 .. c - 1 :
                 /\ RecoveryIn(h, n) \subseteq n .. c - 1
                 /\ RecoveryIn(g, n) = RecoveryIn(h, n) \union
                                         (IF Rises(h, l, c, found) THEN {c} ELSE {})
            /\ found = "dead" => RecoveryIn(g, c) = {}
<1> DEFINE g == [h EXCEPT ![c] = found]
           N == MaxCycle + 1
           falls == Falls(h, l, c, found)
           rises == Rises(h, l, c, found)
           up(n) == PairIn(h, n, Reachable)
           down(n) == PairIn(h, n, {"dead"})
           rise(n) == PairIn(g, n, Reachable)
           fall(n) == PairIn(g, n, {"dead"})
<1>1. c \in Nat /\ 0 < c /\ c <= N /\ N \in Nat
  BY CyclesAre
<1>2. Reachable \in SUBSET Evidence
  BY DEF Evidence
<1>3. /\ \A n \in 1 .. c - 1 : rise(n) <=> up(n)
      /\ rise(c) <=> rises
      /\ \A n \in c .. N : ~up(n)
      /\ \A n \in c + 1 .. N : ~rise(n)
  BY <1>2, PairsGrow DEF Rises
<1>4. /\ \A n \in 1 .. c - 1 : fall(n) <=> down(n)
      /\ fall(c) <=> falls
      /\ \A n \in c .. N : ~down(n)
      /\ \A n \in c + 1 .. N : ~fall(n)
  <2> DEFINE dead == {"dead"}
  <2>1. dead \in SUBSET Evidence /\ (found \in dead <=> found = "dead")
    BY DEF Evidence
  <2> HIDE DEF dead
  <2>2. /\ \A n \in 1 .. c - 1 : PairIn(g, n, dead) <=> PairIn(h, n, dead)
        /\ PairIn(g, c, dead) <=> found \in dead /\ c = l + 1 /\ LastIs(h, l, dead)
        /\ \A n \in c .. N : ~PairIn(h, n, dead)
        /\ \A n \in c + 1 .. N : ~PairIn(g, n, dead)
    BY <2>1, PairsGrow
  <2> QED BY <2>1, <2>2 DEF dead, Falls
<1>5. \A n \in 0 .. c - 1 : DownIn(g, n) <=> DownIn(h, n)
  BY DownGrows
<1>6. \A n : /\ RecoveryIn(h, n) = {u \in n .. N : up(u)}
             /\ RecoveryIn(g, n) = {u \in n .. N : rise(u)}
  BY DEF RecoveryIn
<1>7. \A n : /\ ConfirmsIn(g, n) <=> fall(n) /\ ~DownIn(g, n - 1)
             /\ ConfirmsIn(h, n) <=> down(n) /\ ~DownIn(h, n - 1)
  BY DEF ConfirmsIn
<1>8. found = "dead" => ~rises
  BY DEF Rises, Reachable
<1>9. Opens(h, l, c, found) <=> falls /\ ~DownIn(h, c - 1)
  BY DEF Opens
<1> HIDE DEF g, N, up, rise, fall, down, falls, rises
<1>10. ASSUME NEW n \in 1 .. c - 1 PROVE ConfirmsIn(g, n) <=> ConfirmsIn(h, n)
  <2>1. n - 1 \in 0 .. c - 1
    BY <1>1
  <2>2. DownIn(g, n - 1) <=> DownIn(h, n - 1)
    BY <1>5, <2>1
  <2>3. fall(n) <=> down(n)
    BY <1>4
  <2> QED BY <1>7, <2>2, <2>3
<1>11. ConfirmsIn(g, c) <=> Opens(h, l, c, found)
  <2>1. c - 1 \in 0 .. c - 1
    BY <1>1
  <2> QED BY <1>4, <1>5, <1>7, <1>9, <2>1
<1>12. /\ \A n \in c .. N : ~ConfirmsIn(h, n)
       /\ \A n \in c + 1 .. N : ~ConfirmsIn(g, n)
  BY <1>4, <1>7
<1>13. ASSUME NEW n \in 1 .. c - 1
       PROVE  /\ RecoveryIn(h, n) \subseteq n .. c - 1
              /\ RecoveryIn(g, n) = RecoveryIn(h, n) \union (IF rises THEN {c} ELSE {})
  <2>1. /\ c \in n .. N
        /\ \A u \in n .. N : u = c \/ u \in n .. c - 1 \/ u \in c + 1 .. N
        /\ \A u \in n .. N : u \in n .. c - 1 \/ u \in c .. N
        /\ \A u \in n .. c - 1 : u \in n .. N /\ u \in 1 .. c - 1 /\ u # c
        /\ c \in c .. N /\ \A u \in c + 1 .. N : u \in c .. N
    BY <1>1
  <2> QED BY <1>3, <1>6, <2>1
<1>14. ASSUME found = "dead" PROVE RecoveryIn(g, c) = {}
  <2>1. \A u \in c .. N : u = c \/ u \in c + 1 .. N
    BY <1>1
  <2>2. \A u \in c .. N : ~rise(u)
    BY <1>3, <1>8, <1>14, <2>1
  <2>3. RecoveryIn(g, c) = {u \in c .. N : rise(u)}
    BY <1>6
  <2> QED BY <2>2, <2>3
<1> QED BY <1>10, <1>11, <1>12, <1>13, <1>14 DEF g, N, rises

LEMMA EpisodeIsOpen ==
  ASSUME NEW h \in Histories, NEW n \in Confirming(h),
         RecoveryIn(h, n) # {} => HasEarliest(RecoveryIn(h, n))
  PROVE  /\ n \in 2 .. MaxCycle + 1
         /\ EpisodeIn(h, n).started_at = n - 1
         /\ EpisodeIn(h, n).recovered_at = 0 <=> RecoveryIn(h, n) = {}
<1>1. n \in 2 .. MaxCycle + 1
  BY CyclesAre DEF Confirming, ConfirmsIn, PairIn
<1>2. EpisodeIn(h, n).started_at = n - 1
  BY DEF EpisodeIn, NewEpisode
<1>3. CASE RecoveryIn(h, n) = {}
  BY <1>1, <1>2, <1>3 DEF EpisodeIn, NewEpisode
<1>4. CASE RecoveryIn(h, n) # {}
  <2> DEFINE m == Earliest(RecoveryIn(h, n))
  <2>1. m \in RecoveryIn(h, n)
    BY <1>4 DEF HasEarliest, Earliest
  <2>2. m \in Nat /\ m > 1
    BY <1>1, <2>1 DEF RecoveryIn, PairIn
  <2>3. EpisodeIn(h, n).recovered_at = m - 1
    BY <1>4 DEF EpisodeIn, NewEpisode
  <2> HIDE DEF m
  <2>4. EpisodeIn(h, n).recovered_at # 0
    BY <2>2, <2>3
  <2> QED BY <1>1, <1>2, <1>4, <2>4
<1> QED BY <1>3, <1>4

LEMMA EpisodeGrows ==
  ASSUME NEW h \in Histories, NEW l \in Nat, NEW c \in Cycles, l < c, EndsAt(h, l),
         NEW found \in Evidence, NEW n \in Confirming(h),
         RecoveryIn(h, n) # {} => HasEarliest(RecoveryIn(h, n))
  PROVE  LET g == [h EXCEPT ![c] = found]
         IN /\ n \in 2 .. c - 1
            /\ EpisodeIn(g, n) = IF RecoveryIn(h, n) = {} /\ Rises(h, l, c, found)
                                 THEN NewEpisode(n - 1, c - 1) ELSE EpisodeIn(h, n)
            /\ RecoveryIn(g, n) # {} => HasEarliest(RecoveryIn(g, n))
<1> DEFINE g == [h EXCEPT ![c] = found]
           old == RecoveryIn(h, n)
           new == RecoveryIn(g, n)
           rises == Rises(h, l, c, found)
<1>1. /\ c \in Nat /\ n \in 2 .. c - 1 /\ n \in 1 .. c - 1
  <2>1. n \in 2 .. MaxCycle + 1 /\ ConfirmsIn(h, n) /\ c \in Nat
    BY EpisodeIsOpen, CyclesAre DEF Confirming
  <2>2. n \notin c .. MaxCycle + 1
    BY <2>1, ReferenceGrows
  <2> QED BY <2>1, <2>2, CyclesAre
<1>2. old \subseteq n .. c - 1 /\ new = old \union (IF rises THEN {c} ELSE {})
  BY <1>1, ReferenceGrows
<1>3. /\ EpisodeIn(g, n) = NewEpisode(n - 1, IF new = {} THEN 0 ELSE Earliest(new) - 1)
      /\ EpisodeIn(h, n) = NewEpisode(n - 1, IF old = {} THEN 0 ELSE Earliest(old) - 1)
  BY DEF EpisodeIn
<1> HIDE DEF g, old, new, rises
<1>4. CASE old = {} /\ rises
  <2>1. new = {c} /\ new \in SUBSET Nat
    BY <1>1, <1>2, <1>4
  <2>2. Earliest(new) = c /\ HasEarliest(new)
    BY <1>1, <2>1, EarliestIs DEF HasEarliest
  <2> QED BY <1>1, <1>3, <1>4, <2>1, <2>2 DEF g, old, new, rises
<1>5. CASE old = {} /\ ~rises
  BY <1>1, <1>2, <1>3, <1>5 DEF g, old, new, rises
<1>6. CASE old # {}
  <2>1. PICK m \in old : \A u \in old : m <= u
    BY <1>6 DEF HasEarliest, old
  <2>2. m \in n .. c - 1 /\ m \in Nat /\ m <= c
    BY <1>1, <1>2
  <2>3. /\ m \in new /\ \A u \in new : m <= u
        /\ new \in SUBSET Nat /\ old \in SUBSET Nat
    BY <1>1, <1>2, <2>1, <2>2
  <2>4. Earliest(new) = m /\ Earliest(old) = m /\ HasEarliest(new)
    BY <2>1, <2>3, EarliestIs DEF HasEarliest
  <2> QED BY <1>1, <1>3, <1>6, <2>3, <2>4 DEF g, old, new, rises
<1> QED BY <1>4, <1>5, <1>6

------------------------------------------------------------------------------
(* The machine and the incidents of one device, on one more processed cycle. *)

TracksLastCycle(tr, h) ==
  /\ EndsAt(h, tr.last)
  /\ tr.state = "normal" =>
       /\ tr.failed > 0 <=> LastIs(h, tr.last, {"dead"})
       /\ tr.failed > 0 => tr.failed_run = tr.last
  /\ tr.state = "down" =>
       /\ tr.reachable > 0 <=> LastIs(h, tr.last, Reachable)
       /\ tr.reachable > 0 => tr.reachable_run = tr.last
  /\ tr.state = "down" <=> DownIn(h, MaxCycle + 1)

OpenIn(inc) == {i \in inc : i.recovered_at = 0}

EpisodesArePast(tr, inc) ==
  /\ tr.state = "down" <=> OpenIn(inc) # {}
  /\ \A i, j \in OpenIn(inc) : i = j
  /\ \A i \in inc : i.started_at < tr.last /\ i.recovered_at < tr.last

ReferenceHolds(inc, h) ==
  /\ inc = EpisodesIn(h)
  /\ \A n \in Confirming(h) : RecoveryIn(h, n) # {} => HasEarliest(RecoveryIn(h, n))

Good(tr, inc, h) ==
  /\ tr \in TrackingRecords /\ inc \in SUBSET IncidentRecords /\ h \in Histories
  /\ TracksLastCycle(tr, h)
  /\ EpisodesArePast(tr, inc)
  /\ ReferenceHolds(inc, h)

RecordedIn(inc, h, l, c, found) ==
  IF Opens(h, l, c, found) THEN inc \union {NewEpisode(c - 1, 0)}
  ELSE IF Closes(h, l, c, found)
       THEN (inc \ OpenIn(inc)) \union {NewEpisode(i.started_at, c - 1) : i \in OpenIn(inc)}
       ELSE inc

LEMMA EndGrows ==
  ASSUME NEW h \in Histories, NEW l \in Nat, NEW c \in Cycles, l < c, EndsAt(h, l),
         NEW found \in Evidence
  PROVE  LET g == [h EXCEPT ![c] = found]
         IN /\ g \in Histories /\ EndsAt(g, c)
            /\ LastIs(g, c, {"dead"}) <=> found = "dead"
            /\ LastIs(g, c, Reachable) <=> found \in Reachable
<1> DEFINE g == [h EXCEPT ![c] = found]
<1>1. /\ g \in Histories /\ g[c] = found
      /\ \A n \in Cycles : n # c => g[n] = h[n]
  BY DEF Histories, RowKinds
<1>2. c \in Nat /\ c # 0 /\ \A n \in Cycles : n > c => n > l /\ n # c
  BY CyclesAre
<1> HIDE DEF g
<1>3. EndsAt(g, c)
  BY <1>1, <1>2 DEF EndsAt
<1>4. /\ LastIs(g, c, {"dead"}) <=> found = "dead"
      /\ LastIs(g, c, Reachable) <=> found \in Reachable
  BY <1>1, <1>2 DEF LastIs
<1> QED BY <1>1, <1>3, <1>4 DEF g

LEMMA MachineStep ==
  ASSUME NEW h \in Histories, NEW tr \in TrackingRecords, TracksLastCycle(tr, h),
         NEW c \in Cycles, tr.last < c, NEW found \in Evidence
  PROVE  LET d == AdvanceCycleState(tr, c, found \in Reachable)
             g == [h EXCEPT ![c] = found]
         IN /\ TracksLastCycle(d.tracking, g)
            /\ d.incident_started_at = IF Opens(h, tr.last, c, found) THEN c - 1 ELSE 0
            /\ d.incident_recovered_at = IF Closes(h, tr.last, c, found) THEN c - 1 ELSE 0
<1> DEFINE l == tr.last
           g == [h EXCEPT ![c] = found]
           d == AdvanceCycleState(tr, c, found \in Reachable)
           N == MaxCycle + 1
           falls == Falls(h, l, c, found)
           rises == Rises(h, l, c, found)
           down == DownIn(h, c - 1)
<1>1. l \in Nat /\ l < c /\ c \in Nat /\ c # 0 /\ EndsAt(h, l)
  BY CyclesAre DEF TracksLastCycle, TrackingRecords
<1>2. /\ EndsAt(g, c)
      /\ LastIs(g, c, {"dead"}) <=> found = "dead"
      /\ LastIs(g, c, Reachable) <=> found \in Reachable
  BY <1>1, EndGrows
<1>3. /\ DownIn(h, N) <=> down
      /\ DownIn(g, N) <=> falls \/ (down /\ ~rises)
  <2>1. N \in c .. N
    BY <1>1, CyclesAre
  <2> QED BY <1>1, <2>1, DownGrows DEF Falls, Rises
<1>4. Continuous(tr, c) <=> l # 0 /\ c = l + 1
  BY <1>1 DEF Continuous
<1>5. /\ tr.state \in {"normal", "down"} /\ tr.failed \in 0 .. 2 /\ tr.reachable \in 0 .. 1
      /\ found \in Reachable <=> found # "dead"
  BY DEF TrackingRecords, Evidence, Reachable
<1>6. /\ tr.state = "normal" => /\ tr.failed > 0 <=> LastIs(h, l, {"dead"})
                                /\ tr.failed > 0 => tr.failed_run = l
      /\ tr.state = "down" => /\ tr.reachable > 0 <=> LastIs(h, l, Reachable)
                              /\ tr.reachable > 0 => tr.reachable_run = l
      /\ tr.state = "down" <=> DownIn(h, N)
  BY DEF TracksLastCycle
<1>7. /\ \A k : LastIs(h, l, k) => l # 0
      /\ c = l + 1 => l = c - 1
  BY <1>1 DEF LastIs
<1>8. /\ falls <=> found = "dead" /\ c = l + 1 /\ LastIs(h, l, {"dead"})
      /\ rises <=> found \in Reachable /\ c = l + 1 /\ LastIs(h, l, Reachable)
      /\ Opens(h, l, c, found) <=> falls /\ ~down
      /\ Closes(h, l, c, found) <=> rises /\ down
  BY DEF Falls, Rises, Opens, Closes
<1> HIDE DEF l, g, N, falls, rises, down
<1>9. CASE found \in Reachable /\ tr.state = "down" /\ Continuous(tr, c) /\ tr.reachable > 0
  <2>1. d = Decision(Normal(c), 0, tr.reachable_run)
    BY <1>9 DEF AdvanceCycleState, ReachableWhileDown
  <2>2. /\ d.tracking.state = "normal" /\ d.tracking.last = c /\ d.tracking.failed = 0
        /\ d.incident_started_at = 0 /\ d.incident_recovered_at = tr.reachable_run
    BY <2>1 DEF Decision, Normal, CycleTracking
  <2>3. tr.reachable_run = c - 1 /\ rises /\ down /\ ~falls
    BY <1>3, <1>4, <1>5, <1>6, <1>7, <1>8, <1>9
  <2> HIDE DEF d
  <2>4. TracksLastCycle(d.tracking, g)
    BY <1>2, <1>3, <1>5, <1>9, <2>2, <2>3 DEF TracksLastCycle, N
  <2> QED BY <1>8, <2>2, <2>3, <2>4 DEF d, g, l
<1>10. CASE found \in Reachable /\ tr.state = "down" /\ ~(Continuous(tr, c) /\ tr.reachable > 0)
  <2>1. d = Decision(CycleTracking("down", c, 0, 1, 0, c), 0, 0)
    BY <1>10 DEF AdvanceCycleState, ReachableWhileDown
  <2>2. /\ d.tracking.state = "down" /\ d.tracking.last = c /\ d.tracking.reachable = 1
        /\ d.tracking.reachable_run = c
        /\ d.incident_started_at = 0 /\ d.incident_recovered_at = 0
    BY <2>1 DEF Decision, CycleTracking
  <2>3. ~rises /\ down /\ ~falls
    BY <1>3, <1>4, <1>5, <1>6, <1>7, <1>8, <1>10
  <2> HIDE DEF d
  <2>4. TracksLastCycle(d.tracking, g)
    BY <1>2, <1>3, <1>5, <1>10, <2>2, <2>3 DEF TracksLastCycle, N
  <2> QED BY <1>8, <2>2, <2>3, <2>4 DEF d, g, l
<1>11. CASE found \in Reachable /\ tr.state = "normal"
  <2>1. d = Decision(Normal(c), 0, 0)
    BY <1>11 DEF AdvanceCycleState
  <2>2. /\ d.tracking.state = "normal" /\ d.tracking.last = c /\ d.tracking.failed = 0
        /\ d.incident_started_at = 0 /\ d.incident_recovered_at = 0
    BY <2>1 DEF Decision, Normal, CycleTracking
  <2>3. ~down /\ ~falls
    BY <1>3, <1>5, <1>6, <1>8, <1>11
  <2> HIDE DEF d
  <2>4. TracksLastCycle(d.tracking, g)
    BY <1>2, <1>3, <1>5, <1>11, <2>2, <2>3 DEF TracksLastCycle, N
  <2> QED BY <1>8, <2>2, <2>3, <2>4 DEF d, g, l
<1>12. CASE found \notin Reachable /\ tr.state = "down"
  <2>1. d = Decision(CycleTracking("down", c, tr.failed, 0, tr.failed_run, 0), 0, 0)
    BY <1>12 DEF AdvanceCycleState, FailedWhileDown
  <2>2. /\ d.tracking.state = "down" /\ d.tracking.last = c /\ d.tracking.reachable = 0
        /\ d.incident_started_at = 0 /\ d.incident_recovered_at = 0
    BY <2>1 DEF Decision, CycleTracking
  <2>3. down /\ ~rises
    BY <1>3, <1>6, <1>8, <1>12
  <2> HIDE DEF d
  <2>4. TracksLastCycle(d.tracking, g)
    BY <1>2, <1>3, <1>5, <1>12, <2>2, <2>3 DEF TracksLastCycle, N
  <2> QED BY <1>8, <2>2, <2>3, <2>4 DEF d, g, l
<1>13. CASE found \notin Reachable /\ tr.state = "normal" /\ Continuous(tr, c) /\ tr.failed > 0
  <2>1. d = Decision(CycleTracking("down", c, 2, 0, tr.failed_run, 0), tr.failed_run, 0)
    BY <1>13 DEF AdvanceCycleState, FailedWhileNormal
  <2>2. /\ d.tracking.state = "down" /\ d.tracking.last = c /\ d.tracking.reachable = 0
        /\ d.incident_started_at = tr.failed_run /\ d.incident_recovered_at = 0
    BY <2>1 DEF Decision, CycleTracking
  <2>3. tr.failed_run = c - 1 /\ falls /\ ~down /\ ~rises
    BY <1>3, <1>4, <1>5, <1>6, <1>7, <1>8, <1>13
  <2> HIDE DEF d
  <2>4. TracksLastCycle(d.tracking, g)
    BY <1>2, <1>3, <1>5, <1>13, <2>2, <2>3 DEF TracksLastCycle, N
  <2> QED BY <1>8, <2>2, <2>3, <2>4 DEF d, g, l
<1>14. CASE found \notin Reachable /\ tr.state = "normal" /\ ~(Continuous(tr, c) /\ tr.failed > 0)
  <2>1. d = Decision(CycleTracking("normal", c, 1, 0, c, 0), 0, 0)
    BY <1>14 DEF AdvanceCycleState, FailedWhileNormal
  <2>2. /\ d.tracking.state = "normal" /\ d.tracking.last = c /\ d.tracking.failed = 1
        /\ d.tracking.failed_run = c
        /\ d.incident_started_at = 0 /\ d.incident_recovered_at = 0
    BY <2>1 DEF Decision, CycleTracking
  <2>3. ~falls /\ ~down
    BY <1>3, <1>4, <1>5, <1>6, <1>7, <1>8, <1>14
  <2> HIDE DEF d
  <2>4. TracksLastCycle(d.tracking, g)
    BY <1>2, <1>3, <1>5, <1>14, <2>2, <2>3 DEF TracksLastCycle, N
  <2> QED BY <1>8, <2>2, <2>3, <2>4 DEF d, g, l
<1> QED BY <1>5, <1>9, <1>10, <1>11, <1>12, <1>13, <1>14 DEF d, g, l

LEMMA EpisodesStep ==
  ASSUME NEW h \in Histories, NEW tr \in TrackingRecords, TracksLastCycle(tr, h),
         NEW c \in Cycles, tr.last < c, NEW found \in Evidence,
         NEW inc \in SUBSET IncidentRecords, EpisodesArePast(tr, inc),
         NEW next, next.last = c,
         next.state = "down" <=> DownIn([h EXCEPT ![c] = found], MaxCycle + 1)
  PROVE  /\ RecordedIn(inc, h, tr.last, c, found) \in SUBSET IncidentRecords
         /\ EpisodesArePast(next, RecordedIn(inc, h, tr.last, c, found))
<1> DEFINE l == tr.last
           g == [h EXCEPT ![c] = found]
           N == MaxCycle + 1
           falls == Falls(h, l, c, found)
           rises == Rises(h, l, c, found)
           down == DownIn(h, c - 1)
           inc2 == RecordedIn(inc, h, l, c, found)
<1>1. l \in Nat /\ l < c /\ c \in Nat /\ c # 0 /\ EndsAt(h, l)
  BY CyclesAre DEF TracksLastCycle, TrackingRecords
<1>2. /\ tr.state = "down" <=> down
      /\ next.state = "down" <=> falls \/ (down /\ ~rises)
  <2>1. N \in c .. N
    BY <1>1, CyclesAre
  <2> QED BY <1>1, <2>1, DownGrows DEF Falls, Rises, TracksLastCycle
<1>3. \A i \in inc : i \in IncidentRecords /\ i.started_at < c /\ i.recovered_at < c
  <2>1. \A i \in inc : i.started_at < l /\ i.recovered_at < l
    BY DEF EpisodesArePast
  <2>2. \A i \in inc : i \in IncidentRecords /\ i.started_at \in Nat /\ i.recovered_at \in Nat
    BY CyclesAre DEF IncidentRecords
  <2> HIDE DEF l
  <2> QED BY <1>1, <2>1, <2>2
<1>4. falls \/ rises => c - 1 \in Cycles /\ c - 1 # 0 /\ c - 1 < c
  BY <1>1, CyclesAre DEF Falls, Rises, LastIs
<1>5. ~(falls /\ rises)
  BY DEF Falls, Rises, Reachable
<1>6. \A i \in inc : i.started_at \in Cycles
  BY DEF IncidentRecords
<1> HIDE DEF l, g, N, falls, rises, down
<1>7. CASE falls /\ ~down
  <2>1. inc2 = inc \union {NewEpisode(c - 1, 0)}
    BY <1>7 DEF RecordedIn, Opens, falls, down
  <2>2. OpenIn(inc) = {} /\ next.state = "down"
    BY <1>2, <1>7 DEF EpisodesArePast
  <2>3. /\ NewEpisode(c - 1, 0) \in IncidentRecords /\ NewEpisode(c - 1, 0).started_at = c - 1
        /\ NewEpisode(c - 1, 0).recovered_at = 0
    BY <1>4, <1>7, CyclesAre DEF NewEpisode, IncidentRecords
  <2>4. OpenIn(inc2) = {NewEpisode(c - 1, 0)}
    BY <2>1, <2>2, <2>3 DEF OpenIn
  <2>5. \A i \in inc2 : i \in IncidentRecords /\ i.started_at < c /\ i.recovered_at < c
    BY <1>1, <1>3, <1>4, <1>7, <2>1, <2>3
  <2> HIDE DEF inc2
  <2> QED BY <2>2, <2>4, <2>5 DEF EpisodesArePast, inc2, l
<1>8. CASE rises /\ down
  <2>1. inc2 = (inc \ OpenIn(inc)) \union {NewEpisode(i.started_at, c - 1) : i \in OpenIn(inc)}
    BY <1>5, <1>8 DEF RecordedIn, Opens, Closes, falls, rises, down
  <2>2. next.state # "down"
    BY <1>2, <1>5, <1>8
  <2>3. \A i \in OpenIn(inc) :
          /\ NewEpisode(i.started_at, c - 1) \in IncidentRecords
          /\ NewEpisode(i.started_at, c - 1).started_at < c
          /\ NewEpisode(i.started_at, c - 1).recovered_at = c - 1
    BY <1>3, <1>4, <1>6, <1>8, CyclesAre DEF NewEpisode, IncidentRecords, OpenIn
  <2>4. OpenIn(inc2) = {}
    BY <1>4, <1>8, <2>1, <2>3 DEF OpenIn
  <2>5. \A i \in inc2 : i \in IncidentRecords /\ i.started_at < c /\ i.recovered_at < c
    BY <1>3, <1>4, <1>8, <2>1, <2>3
  <2> HIDE DEF inc2
  <2> QED BY <2>2, <2>4, <2>5 DEF EpisodesArePast, inc2, l
<1>9. CASE ~(falls /\ ~down) /\ ~(rises /\ down)
  <2>1. inc2 = inc
    BY <1>9 DEF RecordedIn, Opens, Closes, falls, rises, down
  <2>2. next.state = "down" <=> tr.state = "down"
    BY <1>2, <1>9
  <2>3. \A i \in inc2 : i \in IncidentRecords /\ i.started_at < c /\ i.recovered_at < c
    BY <1>3, <2>1
  <2>4. (tr.state = "down" <=> OpenIn(inc) # {}) /\ \A i, j \in OpenIn(inc) : i = j
    BY DEF EpisodesArePast
  <2> HIDE DEF inc2
  <2> QED BY <2>1, <2>2, <2>3, <2>4 DEF EpisodesArePast, inc2, l
<1> QED BY <1>7, <1>8, <1>9

LEMMA ReferenceStep ==
  ASSUME NEW h \in Histories, NEW l \in Nat, NEW c \in Cycles, l < c, EndsAt(h, l),
         NEW found \in Evidence, NEW inc, ReferenceHolds(inc, h),
         ~DownIn(h, c - 1) => OpenIn(inc) = {}
  PROVE  ReferenceHolds(RecordedIn(inc, h, l, c, found), [h EXCEPT ![c] = found])
<1> DEFINE g == [h EXCEPT ![c] = found]
           opens == Opens(h, l, c, found)
           closes == Closes(h, l, c, found)
           rises == Rises(h, l, c, found)
           inc2 == RecordedIn(inc, h, l, c, found)
<1>1. /\ inc = {EpisodeIn(h, n) : n \in Confirming(h)}
      /\ \A n \in Confirming(h) : RecoveryIn(h, n) # {} => HasEarliest(RecoveryIn(h, n))
  BY DEF ReferenceHolds, EpisodesIn
<1>2. \A n \in Confirming(h) :
        /\ n \in 2 .. c - 1
        /\ EpisodeIn(g, n) = IF RecoveryIn(h, n) = {} /\ rises
                             THEN NewEpisode(n - 1, c - 1) ELSE EpisodeIn(h, n)
        /\ RecoveryIn(g, n) # {} => HasEarliest(RecoveryIn(g, n))
  <2>1. ASSUME NEW n \in Confirming(h)
        PROVE  /\ n \in 2 .. c - 1
               /\ EpisodeIn(g, n) = IF RecoveryIn(h, n) = {} /\ rises
                                    THEN NewEpisode(n - 1, c - 1) ELSE EpisodeIn(h, n)
               /\ RecoveryIn(g, n) # {} => HasEarliest(RecoveryIn(g, n))
    BY <1>1, EpisodeGrows
  <2> QED BY <2>1
<1>3. \A n \in Confirming(h) :
        /\ EpisodeIn(h, n).started_at = n - 1
        /\ EpisodeIn(h, n) \in OpenIn(inc) <=> RecoveryIn(h, n) = {}
  <2>1. \A n \in Confirming(h) :
          /\ EpisodeIn(h, n).started_at = n - 1
          /\ EpisodeIn(h, n).recovered_at = 0 <=> RecoveryIn(h, n) = {}
    BY <1>1, EpisodeIsOpen
  <2> QED BY <1>1, <2>1 DEF OpenIn
<1>4. /\ \A n \in 1 .. c - 1 : ConfirmsIn(g, n) <=> ConfirmsIn(h, n)
      /\ ConfirmsIn(g, c) <=> opens
      /\ \A n \in c .. MaxCycle + 1 : ~ConfirmsIn(h, n)
      /\ \A n \in c + 1 .. MaxCycle + 1 : ~ConfirmsIn(g, n)
      /\ found = "dead" => RecoveryIn(g, c) = {}
  BY ReferenceGrows
<1>5. /\ opens => ~rises /\ ~closes /\ found = "dead" /\ ~DownIn(h, c - 1)
      /\ closes <=> rises /\ DownIn(h, c - 1)
  BY DEF Opens, Closes, Falls, Rises, Reachable
<1>6. /\ inc2 = IF opens THEN inc \union {NewEpisode(c - 1, 0)}
                ELSE IF closes
                THEN (inc \ OpenIn(inc)) \union {NewEpisode(i.started_at, c - 1) : i \in OpenIn(inc)}
                ELSE inc
      /\ EpisodesIn(g) = {EpisodeIn(g, n) : n \in Confirming(g)}
  BY DEF RecordedIn, EpisodesIn
<1>7. EpisodeIn(g, c) = NewEpisode(c - 1, IF RecoveryIn(g, c) = {} THEN 0
                                          ELSE Earliest(RecoveryIn(g, c)) - 1)
  BY DEF EpisodeIn
<1>8. \A n : n \in Confirming(g) <=> n \in Confirming(h) \/ (n = c /\ opens)
  <2>1. /\ \A n \in Cycles : n \in 1 .. c - 1 \/ n = c \/ n \in c + 1 .. MaxCycle + 1
        /\ \A n \in 1 .. c - 1 : n \in Cycles
        /\ \A n \in c + 1 .. MaxCycle + 1 : n \in c .. MaxCycle + 1
        /\ c \in c .. MaxCycle + 1
    BY CyclesAre
  <2>2. \A n : /\ n \in Confirming(g) <=> n \in Cycles /\ ConfirmsIn(g, n)
               /\ n \in Confirming(h) <=> n \in Cycles /\ ConfirmsIn(h, n)
    BY DEF Confirming
  <2> HIDE DEF g, opens
  <2> QED BY <1>4, <2>1, <2>2
<1>9. OpenIn(inc) \subseteq inc
  BY DEF OpenIn
<1>10. DownIn(h, c - 1) \/ OpenIn(inc) = {}
  OBVIOUS
<1> HIDE DEF g, opens, closes, rises, inc2
<1>11. inc2 = EpisodesIn(g)
  <2>1. CASE opens
    <3>1. inc2 = inc \union {NewEpisode(c - 1, 0)}
      BY <1>6, <2>1
    <3>2. EpisodeIn(g, c) = NewEpisode(c - 1, 0)
      BY <1>4, <1>5, <1>7, <2>1
    <3>3. \A n \in Confirming(h) : EpisodeIn(g, n) = EpisodeIn(h, n)
      BY <1>2, <1>5, <2>1
    <3> QED BY <1>1, <1>6, <1>8, <2>1, <3>1, <3>2, <3>3
  <2>2. CASE closes
    <3>1. /\ inc2 = (inc \ OpenIn(inc)) \union {NewEpisode(i.started_at, c - 1) : i \in OpenIn(inc)}
          /\ rises /\ ~opens
      BY <1>5, <1>6, <2>2
    <3>2. \A n \in Confirming(h) :
            EpisodeIn(g, n) = IF EpisodeIn(h, n) \in OpenIn(inc)
                              THEN NewEpisode(EpisodeIn(h, n).started_at, c - 1)
                              ELSE EpisodeIn(h, n)
      BY <1>2, <1>3, <3>1
    <3>3. Confirming(g) = Confirming(h)
      BY <1>8, <3>1
    <3>4. EpisodesIn(g) = {IF i \in OpenIn(inc) THEN NewEpisode(i.started_at, c - 1) ELSE i : i \in inc}
      BY <1>1, <1>6, <3>2, <3>3
    <3> QED BY <1>9, <3>1, <3>4
  <2>3. CASE ~opens /\ ~closes
    <3>1. inc2 = inc
      BY <1>6, <2>3
    <3>2. \A n \in Confirming(h) : ~(RecoveryIn(h, n) = {} /\ rises)
      BY <1>3, <1>5, <1>10, <2>3
    <3>3. \A n \in Confirming(h) : EpisodeIn(g, n) = EpisodeIn(h, n)
      BY <1>2, <3>2
    <3>4. Confirming(g) = Confirming(h)
      BY <1>8, <2>3
    <3> QED BY <1>1, <1>6, <3>1, <3>3, <3>4
  <2> QED BY <2>1, <2>2, <2>3
<1>12. \A n \in Confirming(g) : RecoveryIn(g, n) # {} => HasEarliest(RecoveryIn(g, n))
  BY <1>2, <1>4, <1>5, <1>8
<1> QED BY <1>11, <1>12 DEF ReferenceHolds, g, inc2

LEMMA GoodSteps ==
  ASSUME NEW tr, NEW inc, NEW h, Good(tr, inc, h), NEW c \in Cycles, tr.last < c,
         NEW found \in Evidence
  PROVE  Good(AdvanceCycleState(tr, c, found \in Reachable).tracking,
              RecordedIn(inc, h, tr.last, c, found), [h EXCEPT ![c] = found])
<1> DEFINE next == AdvanceCycleState(tr, c, found \in Reachable).tracking
           g == [h EXCEPT ![c] = found]
           inc2 == RecordedIn(inc, h, tr.last, c, found)
<1>1. /\ tr \in TrackingRecords /\ inc \in SUBSET IncidentRecords /\ h \in Histories
      /\ TracksLastCycle(tr, h) /\ EpisodesArePast(tr, inc) /\ ReferenceHolds(inc, h)
  BY DEF Good
<1>2. tr.last \in Nat /\ EndsAt(h, tr.last)
  BY <1>1, CyclesAre DEF TracksLastCycle, TrackingRecords
<1>3. g \in Histories
  BY <1>2, <1>1, EndGrows
<1>4. next \in TrackingRecords /\ next.last = c /\ TracksLastCycle(next, g)
  BY <1>1, AdvanceIsTyped, MachineStep
<1>5. next.state = "down" <=> DownIn(g, MaxCycle + 1)
  BY <1>4 DEF TracksLastCycle
<1>6. ~DownIn(h, c - 1) => OpenIn(inc) = {}
  <2>1. MaxCycle + 1 \in c .. MaxCycle + 1
    BY CyclesAre
  <2>2. DownIn(h, MaxCycle + 1) <=> DownIn(h, c - 1)
    BY <1>1, <1>2, <2>1, DownGrows
  <2> QED BY <1>1, <2>2 DEF TracksLastCycle, EpisodesArePast
<1> HIDE DEF next
<1>7. inc2 \in SUBSET IncidentRecords /\ EpisodesArePast(next, inc2)
  BY <1>1, <1>4, <1>5, EpisodesStep
<1>8. ReferenceHolds(inc2, g)
  BY <1>1, <1>2, <1>6, ReferenceStep
<1> HIDE DEF g, inc2
<1>9. Good(next, inc2, g)
  BY <1>3, <1>4, <1>7, <1>8 DEF Good
<1> QED BY <1>9 DEF next, inc2, g

\* The row of a cycle that was not attempted is no evidence.
LEMMA GoodSkips ==
  ASSUME NEW tr, NEW inc, NEW h, Good(tr, inc, h), NEW c \in Cycles, h[c] = "none"
  PROVE  Good(tr, inc, [h EXCEPT ![c] = "unattempted"])
<1> DEFINE g == [h EXCEPT ![c] = "unattempted"]
<1>1. h \in Histories /\ g \in Histories
  BY DEF Good, Histories, RowKinds
<1>2. \A n \in Cycles : g[n] = IF n = c THEN "unattempted" ELSE h[n]
  BY <1>1 DEF Histories
<1> HIDE DEF g
<1>3. \A n \in Cycles : /\ g[n] \in Evidence <=> h[n] \in Evidence
                        /\ g[n] \in Reachable <=> h[n] \in Reachable
                        /\ g[n] \in {"dead"} <=> h[n] \in {"dead"}
  BY <1>2 DEF Evidence, Reachable
<1>4. \A n \in Cycles : n > 1 => n - 1 \in Cycles
  BY CyclesAre
<1>5. \A n \in Cycles : /\ PairIn(g, n, {"dead"}) <=> PairIn(h, n, {"dead"})
                        /\ PairIn(g, n, Reachable) <=> PairIn(h, n, Reachable)
  BY <1>3, <1>4 DEF PairIn
<1>6. ASSUME NEW n \in 0 .. MaxCycle + 1 PROVE DownIn(g, n) <=> DownIn(h, n)
  <2>1. \A f \in 1 .. n : f \in Cycles /\ \A r \in f .. n : r \in Cycles
    BY CyclesAre
  <2> QED BY <1>5, <2>1 DEF DownIn
<1>7. \A n \in Cycles : /\ ConfirmsIn(g, n) <=> ConfirmsIn(h, n)
                        /\ RecoveryIn(g, n) = RecoveryIn(h, n)
  <2>1. \A n \in Cycles : n - 1 \in 0 .. MaxCycle + 1 /\ \A r \in n .. MaxCycle + 1 : r \in Cycles
    BY CyclesAre
  <2> QED BY <1>5, <1>6, <2>1 DEF ConfirmsIn, RecoveryIn
<1>8. Confirming(g) = Confirming(h)
  BY <1>7 DEF Confirming
<1>9. \A n \in Cycles : EpisodeIn(g, n) = EpisodeIn(h, n)
  BY <1>7 DEF EpisodeIn
<1>10. EpisodesIn(g) = EpisodesIn(h)
  BY <1>8, <1>9 DEF EpisodesIn, Confirming
<1>11. ReferenceHolds(inc, g)
  BY <1>7, <1>8, <1>10 DEF Good, ReferenceHolds, Confirming
<1>12. TracksLastCycle(tr, g)
  <2>1. TracksLastCycle(tr, h) /\ tr.last \in 0 .. MaxCycle + 1
    BY DEF Good, TrackingRecords
  <2>2. tr.last # 0 => tr.last \in Cycles
    BY <2>1, CyclesAre
  <2>3. EndsAt(g, tr.last)
    BY <1>3, <2>1, <2>2 DEF TracksLastCycle, EndsAt
  <2>4. /\ LastIs(g, tr.last, {"dead"}) <=> LastIs(h, tr.last, {"dead"})
        /\ LastIs(g, tr.last, Reachable) <=> LastIs(h, tr.last, Reachable)
    BY <1>3, <2>2 DEF LastIs
  <2>5. DownIn(g, MaxCycle + 1) <=> DownIn(h, MaxCycle + 1)
    BY <1>6, CyclesAre
  <2> QED BY <2>1, <2>3, <2>4, <2>5 DEF TracksLastCycle
<1>13. Good(tr, inc, g)
  BY <1>1, <1>11, <1>12 DEF Good
<1> QED BY <1>13 DEF g

LEMMA GoodAtFirst == Good(Fresh, {}, [c \in Cycles |-> "none"])
<1> DEFINE h == [c \in Cycles |-> "none"]
<1>1. h \in Histories /\ \A c \in Cycles : h[c] = "none"
  BY DEF Histories, RowKinds
<1> HIDE DEF h
<1>2. \A c \in Cycles : h[c] \notin Evidence /\ h[c] # "dead"
  BY <1>1 DEF Evidence, Reachable
<1>3. \A c \in Cycles : ~PairIn(h, c, {"dead"})
  BY <1>2 DEF PairIn
<1>4. ~DownIn(h, MaxCycle + 1)
  BY <1>3, CyclesAre DEF DownIn
<1>5. Confirming(h) = {}
  BY <1>3 DEF Confirming, ConfirmsIn
<1>6. TracksLastCycle(Fresh, h)
  BY <1>2, <1>4, FreshIsTyped DEF TracksLastCycle, EndsAt, LastIs
<1>7. EpisodesArePast(Fresh, {}) /\ ReferenceHolds({}, h)
  BY <1>5, FreshIsTyped DEF EpisodesArePast, OpenIn, ReferenceHolds, EpisodesIn
<1>8. Good(Fresh, {}, h)
  BY <1>1, <1>6, <1>7, FreshIsTyped DEF Good
<1> QED BY <1>8 DEF h

------------------------------------------------------------------------------
(* The two parts together: the steps of the module. *)

Inv == PoolInv /\ \A d \in Devices : Good(tracking[d], incidents[d], rows[d])

LEMMA RecordedIs ==
  ASSUME TypeOK, NEW d \in Devices, Good(tracking[d], incidents[d], rows[d]),
         NEW c \in Cycles, tracking[d].last < c, NEW found \in Evidence,
         ApplyReachability(d, c, found \in Reachable)
  PROVE  incidents'[d] = RecordedIn(incidents[d], rows[d], tracking[d].last, c, found)
<1> DEFINE decision == AdvanceCycleState(tracking[d], c, found \in Reachable)
           started == decision.incident_started_at
           recovered == decision.incident_recovered_at
           inc == incidents[d]
           opens == Opens(rows[d], tracking[d].last, c, found)
           closes == Closes(rows[d], tracking[d].last, c, found)
<1>1. /\ tracking[d] \in TrackingRecords /\ inc \in SUBSET IncidentRecords
      /\ rows[d] \in Histories
      /\ TracksLastCycle(tracking[d], rows[d]) /\ EpisodesArePast(tracking[d], inc)
  BY DEF Good
<1>2. /\ started = IF opens THEN c - 1 ELSE 0
      /\ recovered = IF closes THEN c - 1 ELSE 0
  BY <1>1, MachineStep
<1>3. incidents' =
          [incidents EXCEPT ![d] =
             CASE started # 0 /\ Open(d) = {} ->
                    @ \union {[started_at |-> started, recovered_at |-> 0]}
               [] recovered # 0 ->
                    (@ \ Open(d)) \union {[i EXCEPT !.recovered_at = recovered] : i \in Open(d)}
               [] OTHER -> @]
  BY DEF ApplyReachability
<1>4. incidents \in [Devices -> SUBSET IncidentRecords] /\ Open(d) = OpenIn(inc)
  BY DEF TypeOK, Open, OpenIn
<1>5. opens \/ closes => c - 1 # 0
  <2>1. tracking[d].last \in Nat /\ c \in Nat
    BY <1>1, CyclesAre DEF TrackingRecords
  <2> QED BY <2>1 DEF Opens, Closes, Falls, Rises, LastIs
<1>6. ~(opens /\ closes)
  BY DEF Opens, Closes, Falls, Rises, Reachable
<1>7. opens => OpenIn(inc) = {}
  <2>1. MaxCycle + 1 \in c .. MaxCycle + 1
    BY CyclesAre
  <2>2. tracking[d].last \in Nat /\ EndsAt(rows[d], tracking[d].last)
    BY <1>1, CyclesAre DEF TrackingRecords, TracksLastCycle
  <2>3. DownIn(rows[d], MaxCycle + 1) <=> DownIn(rows[d], c - 1)
    BY <1>1, <2>1, <2>2, DownGrows
  <2> QED BY <1>1, <2>3 DEF TracksLastCycle, EpisodesArePast, Opens
<1>8. \A i \in OpenIn(inc) : [i EXCEPT !.recovered_at = c - 1] = NewEpisode(i.started_at, c - 1)
  BY <1>1 DEF OpenIn, IncidentRecords, NewEpisode
<1>9. RecordedIn(inc, rows[d], tracking[d].last, c, found) =
        IF opens THEN inc \union {NewEpisode(c - 1, 0)}
        ELSE IF closes
        THEN (inc \ OpenIn(inc)) \union {NewEpisode(i.started_at, c - 1) : i \in OpenIn(inc)}
        ELSE inc
  BY DEF RecordedIn
<1> HIDE DEF decision, started, recovered, opens, closes
<1>10. CASE opens
  <2>1. started = c - 1 /\ started # 0 /\ recovered = 0 /\ Open(d) = {}
    BY <1>2, <1>4, <1>5, <1>6, <1>7, <1>10
  <2>2. incidents'[d] = inc \union {[started_at |-> c - 1, recovered_at |-> 0]}
    BY <1>3, <1>4, <2>1
  <2> QED BY <1>9, <1>10, <2>2 DEF NewEpisode
<1>11. CASE closes
  <2>1. started = 0 /\ recovered = c - 1 /\ recovered # 0
    BY <1>2, <1>5, <1>6, <1>11
  <2>2. incidents'[d] = (inc \ Open(d)) \union {[i EXCEPT !.recovered_at = c - 1] : i \in Open(d)}
    BY <1>3, <1>4, <2>1
  <2>3. {[i EXCEPT !.recovered_at = c - 1] : i \in OpenIn(inc)} =
          {NewEpisode(i.started_at, c - 1) : i \in OpenIn(inc)}
    BY <1>8
  <2> QED BY <1>4, <1>6, <1>9, <1>11, <2>2, <2>3
<1>12. CASE ~opens /\ ~closes
  <2>1. started = 0 /\ recovered = 0
    BY <1>2, <1>12
  <2>2. incidents'[d] = inc
    BY <1>3, <1>4, <2>1
  <2> QED BY <1>9, <1>12, <2>2
<1> QED BY <1>10, <1>11, <1>12

\* What a step may do to the database of one device: nothing, write the row of a cycle that
\* was not attempted, or write that of a processed one and record what it decides.
Skips(d) ==
  \E c \in Cycles :
    /\ rows[d][c] = "none" /\ rows'[d] = [rows[d] EXCEPT ![c] = "unattempted"]
    /\ tracking'[d] = tracking[d] /\ incidents'[d] = incidents[d]

Processes(d, c, found) ==
  /\ rows[d][c] = "none" /\ rows'[d] = [rows[d] EXCEPT ![c] = found]
  /\ tracking[d].last < c
  /\ tracking'[d] = AdvanceCycleState(tracking[d], c, found \in Reachable).tracking
  /\ incidents'[d] = RecordedIn(incidents[d], rows[d], tracking[d].last, c, found)

Keeps(d) == rows'[d] = rows[d] /\ tracking'[d] = tracking[d] /\ incidents'[d] = incidents[d]

LEMMA CollectStep ==
  ASSUME Inv, NEW t \in running, NEW o, NEW found \in Results, Collect(t, found, o),
         NEW d \in Devices
  PROVE  Keeps(d) \/ \E c \in Cycles, e \in Evidence : Processes(d, c, e)
<1>1. TypeOK /\ t \in Tasks /\ t \in InPool /\ t.device \in Devices /\ t.cycle \in Cycles
  BY InPoolIsTyped, TaskIsTyped DEF Inv, PoolInv
<1>2. CASE UNCHANGED database
  BY <1>2 DEF database, Keeps
<1>3. CASE /\ rows[t.device][t.cycle] = "none" /\ InsertRow(t, found)
           /\ ApplyReachability(t.device, t.cycle, found \in Reachable)
  <2>1. /\ tracking' \in [Devices -> TrackingRecords]
        /\ \A e \in Devices : e # t.device => /\ tracking'[e] = tracking[e]
                                              /\ incidents'[e] = incidents[e]
    BY <1>1, <1>3, ApplyIsTyped
  <2>2. rows' = [rows EXCEPT ![t.device][t.cycle] = found] /\ rows \in [Devices -> Histories]
    BY <1>1, <1>3 DEF InsertRow, TypeOK, Histories
  <2>3. CASE d # t.device
    BY <2>1, <2>2, <2>3 DEF Keeps
  <2>4. CASE d = t.device
    <3>1. found \in Evidence
      BY PollingAssumption DEF Evidence, Reachable
    <3>2. rows'[d] = [rows[d] EXCEPT ![t.cycle] = found]
      BY <2>2, <2>4
    <3>3. Good(tracking[d], incidents[d], rows[d])
      BY DEF Inv
    <3>4. tracking[d].last < t.cycle
      <4>1. tracking[d].last <= t.cycle
        BY <1>1, <2>4 DEF Inv, PoolInv, PollsAreCurrent, IsPoll, Collect
      <4>2. tracking[d].last \in Nat /\ t.cycle \in Nat /\ t.cycle # 0
        BY <1>1, <3>3, CyclesAre DEF Good, TrackingRecords
      <4>3. tracking[d].last # t.cycle
        BY <1>3, <2>4, <3>3, <4>2 DEF Good, TracksLastCycle, EndsAt, Evidence, Reachable
      <4> QED BY <4>1, <4>2, <4>3
    <3>5. incidents'[d] = RecordedIn(incidents[d], rows[d], tracking[d].last, t.cycle, found)
      BY <1>1, <1>3, <2>4, <3>1, <3>3, <3>4, RecordedIs
    <3>6. tracking'[d] = AdvanceCycleState(tracking[d], t.cycle, found \in Reachable).tracking
      BY <1>1, <1>3, <2>4 DEF ApplyReachability, TypeOK
    <3>7. Processes(d, t.cycle, found)
      BY <1>3, <2>4, <3>2, <3>4, <3>5, <3>6 DEF Processes
    <3> QED BY <1>1, <3>1, <3>7
  <2> QED BY <2>3, <2>4
<1> QED BY <1>2, <1>3 DEF Collect

LEMMA RecordStep ==
  ASSUME Inv, NEW t \in running, NEW o, RecordUnattempted(t, o), NEW d \in Devices
  PROVE  Keeps(d) \/ Skips(d)
<1>1. TypeOK /\ t \in Tasks /\ t.device \in Devices /\ t.cycle \in Cycles
  BY InPoolIsTyped, TaskIsTyped DEF Inv, PoolInv
<1>2. tracking' = tracking /\ incidents' = incidents /\ rows \in [Devices -> Histories]
  BY <1>1 DEF RecordUnattempted, TypeOK, Histories
<1>3. CASE rows' = rows
  BY <1>2, <1>3 DEF Keeps
<1>4. CASE rows[t.device][t.cycle] = "none" /\ rows' = [rows EXCEPT ![t.device][t.cycle] = "unattempted"]
  <2>1. CASE d # t.device
    BY <1>2, <1>4, <2>1 DEF Keeps
  <2>2. CASE d = t.device
    <3>1. rows'[d] = [rows[d] EXCEPT ![t.cycle] = "unattempted"]
      BY <1>2, <1>4, <2>2
    <3> QED BY <1>1, <1>2, <1>4, <2>2, <3>1 DEF Skips
  <2> QED BY <2>1, <2>2
<1> QED BY <1>3, <1>4 DEF RecordUnattempted, InsertRow

LEMMA DatabaseStep ==
  ASSUME Inv, [Next]_vars, NEW d \in Devices
  PROVE  Keeps(d) \/ Skips(d) \/ \E c \in Cycles, found \in Evidence : Processes(d, c, found)
<1>1. CASE \/ PlanCycle \/ CycleDue \/ LoadDevices \/ LoadDevicesFails \/ CycleSubmitted
           \/ Restart \/ Stop \/ Crash \/ StartTask \/ Tick \/ UNCHANGED vars
  BY <1>1 DEF PlanCycle, CycleDue, LoadDevices, LoadDevicesFails, CycleSubmitted, Restart, Stop,
              Crash, StartTask, Tick, vars, database, Keeps
<1>2. ASSUME NEW e \in Devices, Submit(e) PROVE Keeps(d)
  BY <1>2 DEF Submit, database, Keeps
<1>3. ASSUME NEW t \in running, NEW o \in Outcomes, Check(t, o) PROVE Keeps(d)
  BY <1>3 DEF Check, database, Keeps
<1>4. ASSUME NEW t \in running, NEW o \in Outcomes, RecordUnattempted(t, o)
      PROVE  Keeps(d) \/ Skips(d)
  BY <1>4, RecordStep
<1>5. ASSUME NEW t \in running, NEW o \in Outcomes, NEW found \in Results, Collect(t, found, o)
      PROVE  Keeps(d) \/ \E c \in Cycles, e \in Evidence : Processes(d, c, e)
  BY <1>5, CollectStep
<1> QED BY <1>1, <1>2, <1>3, <1>4, <1>5 DEF Next, SchedulerStep, TaskStep, CollectionStep

LEMMA InvHolds == Spec => []Inv
<1>1. Init => Inv
  <2>1. Init => PoolInv
    BY PoolInvAtFirst
  <2>2. Init => \A d \in Devices : Good(tracking[d], incidents[d], rows[d])
    BY GoodAtFirst DEF Init
  <2> QED BY <2>1, <2>2 DEF Inv
<1>2. Inv /\ [Next]_vars => Inv'
  <2> SUFFICES ASSUME Inv, [Next]_vars PROVE Inv'
    OBVIOUS
  <2>1. PoolInv'
    BY PoolStep DEF Inv
  <2>2. ASSUME NEW d \in Devices PROVE Good(tracking'[d], incidents'[d], rows'[d])
    <3>1. Good(tracking[d], incidents[d], rows[d])
      BY DEF Inv
    <3>2. CASE Keeps(d)
      BY <3>1, <3>2 DEF Keeps
    <3>3. CASE Skips(d)
      BY <3>1, <3>3, GoodSkips DEF Skips
    <3>4. ASSUME NEW c \in Cycles, NEW found \in Evidence, Processes(d, c, found)
          PROVE  Good(tracking'[d], incidents'[d], rows'[d])
      BY <3>1, <3>4, GoodSteps DEF Processes
    <3> QED BY <3>2, <3>3, <3>4, DatabaseStep
  <2> QED BY <2>1, <2>2 DEF Inv
<1> QED BY <1>1, <1>2, PTL DEF Spec

\* A cycle advances the machine at most once, in the step that writes its row, whatever
\* is replayed, lost, skipped or restarted (poll.py:19-23).
THEOREM ProcessedAtMostOnce == Spec => ProcessedOnce
<1>1. Inv /\ [Next]_vars =>
        [\A d \in Devices :
           tracking'[d] # tracking[d] =>
             \E c \in Cycles : /\ rows[d][c] = "none"
                               /\ rows'[d][c] \in Evidence
                               /\ tracking'[d].last = c]_vars
  <2> SUFFICES ASSUME Inv, [Next]_vars, NEW d \in Devices, tracking'[d] # tracking[d]
               PROVE  \E c \in Cycles : /\ rows[d][c] = "none"
                                        /\ rows'[d][c] \in Evidence
                                        /\ tracking'[d].last = c
    OBVIOUS
  <2>1. PICK c \in Cycles, found \in Evidence : Processes(d, c, found)
    BY DatabaseStep DEF Keeps, Skips
  <2>2. tracking[d] \in TrackingRecords /\ rows[d] \in Histories
    BY DEF Inv, Good
  <2>3. tracking'[d].last = c
    BY <2>1, <2>2, AdvanceIsTyped DEF Processes
  <2>4. rows'[d][c] = found
    BY <2>1, <2>2 DEF Processes, Histories
  <2> QED BY <2>1, <2>3, <2>4 DEF Processes
<1> QED BY <1>1, InvHolds, PTL DEF Spec, ProcessedOnce

\* The recorded incidents and the confirmed state are what the poll runs say, for any
\* interleaving, gap, crash, skip or lost reply (reachability.py:9-13).
THEOREM EvidenceIsExact == Spec => []EvidenceDecides
<1>1. Inv => EvidenceDecides
  <2> SUFFICES ASSUME Inv, NEW d \in Devices
               PROVE  /\ incidents[d] = {Episode(d, c) : c \in {e \in Cycles : Confirms(d, e)}}
                      /\ tracking[d].state = "down" <=> DownAt(d, MaxCycle + 1)
    BY DEF EvidenceDecides
  <2>1. /\ incidents[d] = EpisodesIn(rows[d])
        /\ tracking[d].state = "down" <=> DownIn(rows[d], MaxCycle + 1)
    BY DEF Inv, Good, ReferenceHolds, TracksLastCycle
  <2>2. \A c : /\ FailedPair(d, c) <=> PairIn(rows[d], c, {"dead"})
               /\ ReachablePair(d, c) <=> PairIn(rows[d], c, Reachable)
    BY DEF FailedPair, ReachablePair, PairIn
  <2>3. \A c : DownAt(d, c) <=> DownIn(rows[d], c)
    BY <2>2 DEF DownAt, DownIn
  <2>4. \A c : Recovery(d, c) = RecoveryIn(rows[d], c)
    BY <2>2 DEF Recovery, RecoveryIn
  <2>5. ASSUME NEW c PROVE Episode(d, c) = EpisodeIn(rows[d], c)
    <3>1. Recovery(d, c) = RecoveryIn(rows[d], c)
      BY <2>4
    <3>2. Earliest(Recovery(d, c)) = CHOOSE r \in Recovery(d, c) : \A s \in Recovery(d, c) : r <= s
      BY DEF Earliest
    <3>3. Episode(d, c) = [started_at |-> c - 1,
                           recovered_at |-> IF Recovery(d, c) = {} THEN 0
                                            ELSE Earliest(Recovery(d, c)) - 1]
      BY <3>2 DEF Episode
    <3> QED BY <3>1, <3>3 DEF EpisodeIn, NewEpisode
  <2>6. {e \in Cycles : Confirms(d, e)} = Confirming(rows[d])
    BY <2>2, <2>3 DEF Confirms, Confirming, ConfirmsIn
  <2> QED BY <2>1, <2>3, <2>5, <2>6 DEF EpisodesIn
<1> QED BY <1>1, InvHolds, PTL

LEMMA LedgerStep ==
  ASSUME Inv, [Next]_vars, NEW d \in Devices
  PROVE  \/ DeviceLedger!OpenIncident(d) \/ DeviceLedger!CloseIncident(d)
         \/ incidents'[d] = incidents[d]
<1>1. ASSUME NEW c \in Cycles, NEW found \in Evidence, Processes(d, c, found)
      PROVE  \/ DeviceLedger!OpenIncident(d) \/ DeviceLedger!CloseIncident(d)
             \/ incidents'[d] = incidents[d]
  <2> DEFINE inc == incidents[d]
             l == tracking[d].last
             r == c - 1
             opens == Opens(rows[d], l, c, found)
             closes == Closes(rows[d], l, c, found)
  <2>1. /\ inc \in SUBSET IncidentRecords /\ rows[d] \in Histories
        /\ tracking[d] \in TrackingRecords
        /\ EpisodesArePast(tracking[d], inc) /\ TracksLastCycle(tracking[d], rows[d])
    BY DEF Inv, Good
  <2>2. l \in Nat /\ l < c /\ EndsAt(rows[d], l) /\ c \in Nat
    BY <1>1, <2>1, CyclesAre DEF TrackingRecords, TracksLastCycle, Processes
  <2>3. tracking[d].state = "down" <=> DownIn(rows[d], c - 1)
    <3>1. MaxCycle + 1 \in c .. MaxCycle + 1
      BY CyclesAre
    <3> QED BY <2>1, <2>2, <3>1, DownGrows DEF TracksLastCycle
  <2>4. opens \/ closes => l = r
    BY <2>2 DEF Opens, Closes, Falls, Rises
  <2>5. incidents'[d] = IF opens THEN inc \union {NewEpisode(r, 0)}
                        ELSE IF closes
                        THEN (inc \ OpenIn(inc)) \union {NewEpisode(i.started_at, r) : i \in OpenIn(inc)}
                        ELSE inc
    BY <1>1 DEF Processes, RecordedIn
  <2>6. \A i \in inc : i.started_at < l /\ i.recovered_at < l /\ i.recovered_at \in Nat
    BY <2>1, CyclesAre DEF EpisodesArePast, IncidentRecords
  <2>7. \A s : NewEpisode(s, r).started_at = s /\ NewEpisode(s, r).recovered_at = r
    BY DEF NewEpisode
  <2>8. NewEpisode(r, 0).started_at = r /\ NewEpisode(r, 0).recovered_at = 0
    BY DEF NewEpisode
  <2>9. /\ opens => OpenIn(inc) = {}
        /\ closes => ~opens /\ OpenIn(inc) # {} /\ \A i, j \in OpenIn(inc) : i = j
    BY <2>1, <2>3 DEF Opens, Closes, EpisodesArePast
  <2> HIDE DEF inc, l, r, opens, closes
  <2>10. CASE opens
    <3>1. incidents'[d] = inc \union {NewEpisode(r, 0)}
      BY <2>5, <2>10
    <3>2. \A i \in inc : 0 < i.recovered_at /\ i.recovered_at < r
      BY <2>4, <2>6, <2>9, <2>10 DEF OpenIn
    <3> QED BY <2>8, <3>1, <3>2 DEF DeviceLedger!OpenIncident, inc
  <2>11. CASE closes
    <3>1. PICK i \in OpenIn(inc) : TRUE
      BY <2>9, <2>11
    <3>2. OpenIn(inc) = {i}
      BY <2>9, <2>11, <3>1
    <3>3. incidents'[d] = (inc \ {i}) \union {NewEpisode(i.started_at, r)}
      BY <2>5, <2>9, <2>11, <3>2
    <3>4. i \in inc /\ i.recovered_at = 0 /\ r > i.started_at
      BY <2>4, <2>6, <2>11, <3>1 DEF OpenIn
    <3>5. NewEpisode(i.started_at, r) \in incidents'[d]
      BY <3>3
    <3> QED BY <2>7, <3>3, <3>4, <3>5 DEF DeviceLedger!CloseIncident, inc
  <2>12. CASE ~opens /\ ~closes
    BY <2>5, <2>12 DEF inc
  <2> QED BY <2>10, <2>11, <2>12
<1> QED BY <1>1, DatabaseStep DEF Keeps, Skips

\* The device poll implements the ledger: the episodes of a device stay disjoint, in order
\* and unchanged, for any devices, pool and failures (reachability.py:15-18).
THEOREM LedgerKept == Spec => KeepsLedger
<1>1. Init => DeviceLedger!LedgerInit
  BY DEF Init, DeviceLedger!LedgerInit
<1>2. Inv /\ [Next]_vars => [DeviceLedger!LedgerNext]_incidents
  BY LedgerStep DEF DeviceLedger!LedgerNext
<1> QED BY <1>1, <1>2, InvHolds, PTL DEF Spec, KeepsLedger, DeviceLedger!Ledger
================================================================================
