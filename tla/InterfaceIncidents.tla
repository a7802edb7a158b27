--------------------------- MODULE InterfaceIncidents ---------------------------
(***************************************************************************)
(* Priority-interface Down/Recovery: the valid-sample machine that each    *)
(* poll's transaction advances for the monitored interfaces of its device  *)
(* (monitoring/interface_state.py), and the administrator's switch that    *)
(* makes an interface a priority one (monitoring/interface_config.py,      *)
(* web/interfaces.py).                                                     *)
(*                                                                         *)
(* A poll is named by the instant `at` it read from the clock, and 0       *)
(* stands for NULL. The poll's transaction and the switch both update the  *)
(* interface row, so the row lock makes each one step for the other.       *)
(***************************************************************************)
EXTENDS Integers, Sequences

CONSTANTS
  Interfaces,   \* interfaces of one device
  MaxPolls      \* polls whose interfaces section is persisted

ASSUME InterfacesAssumption == MaxPolls \in Nat

VARIABLES
  monitored,   \* interfaces.monitored
  tracking,    \* interface_monitoring_states
  incidents,   \* interface_state_incidents
  at,          \* collected_at of the latest poll
  valid        \* history: the valid samples each interface had while monitored

vars == <<monitored, tracking, incidents, at, valid>>

\* Of all collected oper states only these two are valid; the rest and a sample that is
\* missing from a successful section say nothing.
Samples == {"up", "down", "undetermined", "missing"}

Instants == 1 .. MaxPolls

TrackingRecords == [state: {"normal", "down"}, down: 0 .. 2, up: 0 .. 1,
                    down_run: 0 .. MaxPolls, up_run: 0 .. MaxPolls]

InterfaceTracking(state, down, up, down_run, up_run) ==
  [state |-> state, down |-> down, up |-> up, down_run |-> down_run, up_run |-> up_run]

Fresh == InterfaceTracking("normal", 0, 0, 0, 0)

TypeOK ==
  /\ monitored \in [Interfaces -> BOOLEAN]
  /\ tracking \in [Interfaces -> TrackingRecords]
  /\ incidents \in [Interfaces -> SUBSET [started_at: Instants, recovered_at: 0 .. MaxPolls]]
  /\ at \in 0 .. MaxPolls
  /\ valid \in [Interfaces -> Seq([at: Instants, state: {"up", "down"}])]

Init ==
  /\ monitored = [i \in Interfaces |-> FALSE]
  /\ tracking = [i \in Interfaces |-> Fresh]
  /\ incidents = [i \in Interfaces |-> {}]
  /\ at = 0
  /\ valid = [i \in Interfaces |-> <<>>]

------------------------------------------------------------------------------
(* advance_interface_state: the decision on one sample. *)

Decision(tr, started, recovered) ==
  [tracking |-> tr, incident_started_at |-> started, incident_recovered_at |-> recovered]

\* A Down sample keeps counting within the open episode.
DownWhileDown_Faulty(tr) ==
  Decision(InterfaceTracking("down", tr.down + 1, 0, tr.down_run, 0), 0, 0)
DownWhileDown(tr) == Decision(InterfaceTracking("down", tr.down, 0, tr.down_run, 0), 0, 0)

DownWhileNormal(tr, t) ==
  LET run == IF tr.down > 0 THEN tr.down_run ELSE t
      confirmed == tr.down + 1 >= 2
  IN Decision(InterfaceTracking(IF confirmed THEN "down" ELSE "normal", tr.down + 1, 0, run, 0),
              IF confirmed THEN run ELSE 0, 0)

UpWhileDown(tr, t) ==
  IF tr.up > 0
  THEN Decision(Fresh, 0, tr.up_run)
  ELSE Decision(InterfaceTracking("down", 0, 1, 0, t), 0, 0)

\* An up sample leaves the partial down run alone.
UpWhileNormal_Faulty(tr) == Decision(tr, 0, 0)
UpWhileNormal(tr) == Decision(Fresh, 0, 0)

AdvanceInterfaceState(tr, sample, t) ==
  CASE sample = "down" /\ tr.state = "down"   -> DownWhileDown(tr)
    [] sample = "down" /\ tr.state = "normal" -> DownWhileNormal(tr, t)
    [] sample = "up" /\ tr.state = "down"     -> UpWhileDown(tr, t)
    [] sample = "up" /\ tr.state = "normal"   -> UpWhileNormal(tr)
    [] OTHER                                  -> Decision(tr, 0, 0)

Open(i) == {x \in incidents[i] : x.recovered_at = 0}

\* The incidents of i after a decision; the reopened episode replaces the old one.
Recorded_Faulty(i, decision) ==
  IF decision.incident_started_at # 0
  THEN {[started_at |-> decision.incident_started_at, recovered_at |-> 0]}
  ELSE IF decision.incident_recovered_at # 0
       THEN (incidents[i] \ Open(i)) \union
              {[x EXCEPT !.recovered_at = decision.incident_recovered_at] : x \in Open(i)}
       ELSE incidents[i]

Recorded(i, decision) ==
  CASE decision.incident_started_at # 0 /\ Open(i) = {} ->
         incidents[i] \union
           {[started_at |-> decision.incident_started_at, recovered_at |-> 0]}
    [] decision.incident_recovered_at # 0 ->
         (incidents[i] \ Open(i)) \union
           {[x EXCEPT !.recovered_at = decision.incident_recovered_at] : x \in Open(i)}
    [] OTHER -> incidents[i]

------------------------------------------------------------------------------
(* The transaction of a poll whose interfaces section succeeded. A poll without *)
(* that section, or whose transaction fails, leaves all of this alone.          *)

RecordInterfaceStates(sample) ==
  LET decision(i) == AdvanceInterfaceState(tracking[i], sample[i], at + 1)
      Processed == {i \in Interfaces : monitored[i] /\ sample[i] # "missing"}
  IN /\ at < MaxPolls
     /\ at' = at + 1
     /\ tracking' = [i \in Interfaces |->
                       IF i \in Processed THEN decision(i).tracking ELSE tracking[i]]
     /\ incidents' = [i \in Interfaces |->
                        IF i \in Processed THEN Recorded(i, decision(i)) ELSE incidents[i]]
     /\ valid' = [i \in Interfaces |->
                    IF i \in Processed /\ sample[i] \in {"up", "down"}
                    THEN Append(valid[i], [at |-> at + 1, state |-> sample[i]])
                    ELSE valid[i]]
     /\ UNCHANGED monitored

\* POST /interfaces/{id}/monitored: the flag, and nothing but the flag.
SetMonitored(i, flag) ==
  /\ monitored[i] # flag
  /\ monitored' = [monitored EXCEPT ![i] = flag]
  /\ UNCHANGED <<tracking, incidents, at, valid>>

Next ==
  \/ \E sample \in [Interfaces -> Samples] : RecordInterfaceStates(sample)
  \/ \E i \in Interfaces, flag \in BOOLEAN : SetMonitored(i, flag)

Spec == Init /\ [][Next]_vars

------------------------------------------------------------------------------
(* Properties. *)

\* The reference for SYSTEM_SPEC 13.1 to 13.3, on the valid samples alone: two successive
\* Down samples confirm Down from the first one on, two successive Up samples after that
\* confirm the recovery at the first one.
Pair(i, n, state) == n > 1 /\ valid[i][n].state = state /\ valid[i][n - 1].state = state

DownAt(i, n) ==
  \E d \in 1 .. n : Pair(i, d, "down") /\ \A u \in d .. n : ~Pair(i, u, "up")

Recovery(i, n) == {u \in n .. Len(valid[i]) : Pair(i, u, "up")}

Episode(i, n) ==
  [started_at |-> valid[i][n - 1].at,
   recovered_at |->
     IF Recovery(i, n) = {} THEN 0
     ELSE valid[i][(CHOOSE u \in Recovery(i, n) : \A v \in Recovery(i, n) : u <= v) - 1].at]

\* Whatever is undetermined, missing, unmonitored or persisted late in between, the
\* incidents are those of the reference: a flapping interface is neither confirmed down
\* nor recovered by samples that are not successive (interface_state.py:5-15).
ValidSamplesDecide ==
  \A i \in Interfaces :
    incidents[i] =
      {Episode(i, n) : n \in {m \in 1 .. Len(valid[i]) :
                                Pair(i, m, "down") /\ ~DownAt(i, m - 1)}}

\* The episodes of an interface stay disjoint, ordered and unchanged, also when it is
\* taken out of monitoring and put back in the middle of a run or of an episode
\* (interface_state.py:17-20).
Ledger == INSTANCE IncidentLedger WITH Subjects <- Interfaces
KeepsLedger == Ledger!Ledger

================================================================================
