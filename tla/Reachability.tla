------------------------------ MODULE Reachability ------------------------------
(***************************************************************************)
(* The Down/Recovery transition of a device for one processed poll cycle   *)
(* (monitoring/reachability.py, advance_cycle_state): a pure function of   *)
(* the stored tracking values, the cycle and what the cycle found out.     *)
(* Cycles are numbered by their five-minute boundary; 0 stands for NULL.   *)
(***************************************************************************)
EXTENDS Integers

CycleTracking(state, last, failed, reachable, failed_run, reachable_run) ==
  [state |-> state, last |-> last, failed |-> failed, reachable |-> reachable,
   failed_run |-> failed_run, reachable_run |-> reachable_run]

Normal(c) == CycleTracking("normal", c, 0, 0, 0, 0)

Fresh == Normal(0)

\* (The definitions named *_Faulty are deliberate mistakes that no specification uses.)
\* The run goes on only if the previous planned cycle was processed as well.
Continuous_Faulty(tr, c) == tr.last # 0
Continuous(tr, c) == tr.last # 0 /\ c - tr.last = 1

Decision(tr, started, recovered) ==
  [tracking |-> tr, incident_started_at |-> started, incident_recovered_at |-> recovered]

\* Reachable cycles are counted, and the recovery is confirmed one too late.
ReachableWhileDown_Faulty(tr, c) ==
  LET goes_on == Continuous(tr, c) /\ tr.reachable > 0
      run == IF goes_on THEN tr.reachable_run ELSE c
  IN IF goes_on /\ tr.reachable > 1
     THEN Decision(Normal(c), 0, run)
     ELSE Decision(CycleTracking("down", c, 0, IF goes_on THEN 2 ELSE 1, 0, run), 0, 0)

ReachableWhileDown(tr, c) ==
  IF Continuous(tr, c) /\ tr.reachable > 0
  THEN Decision(Normal(c), 0, tr.reachable_run)
  ELSE Decision(CycleTracking("down", c, 0, 1, 0, c), 0, 0)

FailedWhileDown(tr, c) ==
  Decision(CycleTracking("down", c, tr.failed, 0, tr.failed_run, 0), 0, 0)

FailedWhileNormal(tr, c) ==
  IF Continuous(tr, c) /\ tr.failed > 0
  THEN Decision(CycleTracking("down", c, 2, 0, tr.failed_run, 0), tr.failed_run, 0)
  ELSE Decision(CycleTracking("normal", c, 1, 0, c, 0), 0, 0)

AdvanceCycleState(tr, c, reachable) ==
  CASE reachable /\ tr.state = "down"   -> ReachableWhileDown(tr, c)
    [] reachable /\ tr.state = "normal" -> Decision(Normal(c), 0, 0)
    [] ~reachable /\ tr.state = "down"  -> FailedWhileDown(tr, c)
    [] OTHER                            -> FailedWhileNormal(tr, c)

=================================================================================
