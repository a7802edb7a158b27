---------------------------- MODULE Retention_proofs ----------------------------
(***************************************************************************)
(* Retention beside polls and reports, for weeks of any length, any number *)
(* of them, any retention and any batch size; and the loop that finds the  *)
(* sustained intervals of a week, for any series.                          *)
(***************************************************************************)
EXTENDS Retention, SequenceTheorems, WellFoundedInduction, TLAPS

TrackingRecords ==
  [state: {"normal", "down"}, last: 0 .. MaxCycle, failed: 0 .. 2, reachable: 0 .. 1,
   failed_run: 0 .. MaxCycle, reachable_run: 0 .. MaxCycle]

Episodes == [started_at: Cycles, recovered_at: 0 .. MaxCycle]

\* The cutoff of a pass only falls behind the clock, and a table is finished for good.
CutoffIsPast == pass # Idle => pass.cutoff <= 2 * (now - Kept) + 2

TablesFinished ==
  /\ pass.table = "device" => Expired("interface", pass.cutoff) = {}
  /\ pass.table = "runs" => /\ Expired("interface", pass.cutoff) = {}
                            /\ Expired("device", pass.cutoff) = {}

\* A poll in flight began no more than Delay boundaries ago.
PollIsRecent == polling # 0 => polling <= now /\ now <= polling + Delay

PassInv == RetentionTypeOK /\ CutoffIsPast /\ TablesFinished /\ PollIsRecent

------------------------------------------------------------------------------
(* Types. *)

LEMMA ConstantsAreTyped ==
  /\ Slots \in Nat /\ Slots > 0
  /\ Lead \in Nat /\ MaxCycle \in Nat
  /\ Kept \in Nat /\ Delay \in Nat /\ Kept > Delay
  /\ LastPoll \in Nat /\ LastPoll <= MaxCycle
BY StatisticsAssumption, RetentionAssumption

LEMMA TrackingIsTyped ==
  TypeOK => /\ tracking \in TrackingRecords
            /\ incidents \subseteq Episodes
BY DEF TypeOK, TrackingRecords, Episodes

\* The five outcomes of a cycle.
LEMMA Transition ==
  ASSUME NEW tr \in TrackingRecords, NEW c, NEW reachable \in BOOLEAN
  PROVE  AdvanceCycleState(tr, c, reachable) =
           IF reachable
           THEN IF tr.state = "normal"
                THEN Decision(Normal(c), 0, 0)
                ELSE IF Continuous(tr, c) /\ tr.reachable > 0
                     THEN Decision(Normal(c), 0, tr.reachable_run)
                     ELSE Decision(CycleTracking("down", c, 0, 1, 0, c), 0, 0)
           ELSE IF tr.state = "down"
                THEN Decision(CycleTracking("down", c, tr.failed, 0, tr.failed_run, 0), 0, 0)
                ELSE IF Continuous(tr, c) /\ tr.failed > 0
                     THEN Decision(CycleTracking("down", c, 2, 0, tr.failed_run, 0),
                                   tr.failed_run, 0)
                     ELSE Decision(CycleTracking("normal", c, 1, 0, c, 0), 0, 0)
<1>1. tr.state \in {"normal", "down"}
  BY DEF TrackingRecords
<1> QED
  BY <1>1 DEF AdvanceCycleState, ReachableWhileDown, FailedWhileDown, FailedWhileNormal

LEMMA DecisionFields ==
  ASSUME NEW tr, NEW started, NEW recovered
  PROVE  LET decision == Decision(tr, started, recovered)
         IN /\ decision.tracking = tr
            /\ decision.incident_started_at = started
            /\ decision.incident_recovered_at = recovered
BY DEF Decision

LEMMA DecisionIsTyped ==
  ASSUME NEW tr \in TrackingRecords, NEW c \in Cycles, NEW reachable \in BOOLEAN
  PROVE  LET decision == AdvanceCycleState(tr, c, reachable)
         IN /\ decision.tracking \in TrackingRecords
            /\ decision.incident_started_at \in 0 .. MaxCycle
            /\ decision.incident_recovered_at \in 0 .. MaxCycle
<1>1. /\ tr.failed \in 0 .. 2
      /\ tr.failed_run \in 0 .. MaxCycle
      /\ tr.reachable_run \in 0 .. MaxCycle
      /\ c \in 0 .. MaxCycle /\ 0 \in 0 .. MaxCycle
  BY ConstantsAreTyped DEF TrackingRecords, Cycles
<1>2. \A state \in {"normal", "down"}, failed \in 0 .. 2, reached \in 0 .. 1,
         failed_run, reachable_run \in 0 .. MaxCycle :
        CycleTracking(state, c, failed, reached, failed_run, reachable_run) \in TrackingRecords
  BY <1>1 DEF CycleTracking, TrackingRecords
<1>3. Normal(c) \in TrackingRecords
  BY <1>1 DEF Normal, CycleTracking, TrackingRecords
<1> DEFINE decision == AdvanceCycleState(tr, c, reachable)
<1>4. \A tracked \in TrackingRecords, started, recovered \in 0 .. MaxCycle :
        decision = Decision(tracked, started, recovered)
          => /\ decision.tracking \in TrackingRecords
             /\ decision.incident_started_at \in 0 .. MaxCycle
             /\ decision.incident_recovered_at \in 0 .. MaxCycle
  BY DecisionFields
<1>5. \E tracked \in TrackingRecords, started, recovered \in 0 .. MaxCycle :
        decision = Decision(tracked, started, recovered)
  <2>1. /\ CycleTracking("down", c, 0, 1, 0, c) \in TrackingRecords
        /\ CycleTracking("down", c, tr.failed, 0, tr.failed_run, 0) \in TrackingRecords
        /\ CycleTracking("down", c, 2, 0, tr.failed_run, 0) \in TrackingRecords
        /\ CycleTracking("normal", c, 1, 0, c, 0) \in TrackingRecords
    BY <1>1, <1>2
  <2> QED BY <1>1, <1>3, <2>1, Transition
<1> HIDE DEF decision
<1>6. /\ decision.tracking \in TrackingRecords
      /\ decision.incident_started_at \in 0 .. MaxCycle
      /\ decision.incident_recovered_at \in 0 .. MaxCycle
  BY <1>4, <1>5
<1> QED BY <1>6 DEF decision

LEMMA RecordedIsTyped ==
  ASSUME TypeOK, NEW decision,
         decision.incident_started_at \in 0 .. MaxCycle,
         decision.incident_recovered_at \in 0 .. MaxCycle
  PROVE  Recorded(decision) \subseteq Episodes
<1> DEFINE started == decision.incident_started_at
           recovered == decision.incident_recovered_at
<1> USE ConstantsAreTyped
<1>1. incidents \subseteq Episodes
  BY TrackingIsTyped
<1>2. CASE started # 0 /\ Open = {}
  <2>1. [started_at |-> started, recovered_at |-> 0] \in Episodes
    BY <1>2 DEF Episodes, Cycles
  <2> QED BY <1>1, <1>2, <2>1 DEF Recorded
<1>3. CASE ~(started # 0 /\ Open = {}) /\ recovered # 0
  <2>1. \A i \in Open : [i EXCEPT !.recovered_at = recovered] \in Episodes
    BY <1>1 DEF Open, Episodes, Cycles
  <2> QED BY <1>1, <1>3, <2>1 DEF Recorded
<1>4. CASE ~(started # 0 /\ Open = {}) /\ recovered = 0
  BY <1>1, <1>4 DEF Recorded
<1> QED BY <1>2, <1>3, <1>4

LEMMA PollIsTyped ==
  ASSUME TypeOK, NEW result \in Samples \ {"none"}, Poll(result)
  PROVE  /\ TypeOK'
         /\ polling \in Cycles
<1> USE ConstantsAreTyped
<1>1. polling \in Cycles
  BY DEF TypeOK, Poll, Cycles
<1> DEFINE decision == AdvanceCycleState(tracking, polling, result # "dead")
<1>2. /\ decision.tracking \in TrackingRecords
      /\ decision.incident_started_at \in 0 .. MaxCycle
      /\ decision.incident_recovered_at \in 0 .. MaxCycle
  BY <1>1, TrackingIsTyped, DecisionIsTyped
<1>3. Recorded(decision) \subseteq Episodes
  BY <1>2, RecordedIsTyped
<1>4. /\ now' = now /\ polling' = 0
      /\ sample' = [sample EXCEPT ![polling] = result]
      /\ tracking' = decision.tracking
      /\ incidents' = Recorded(decision)
  BY DEF Poll
<1>5. now' \in 0 .. MaxCycle /\ polling' \in 0 .. MaxCycle
  BY <1>4 DEF TypeOK
<1>6. sample' \in [Cycles -> Samples]
  BY <1>4 DEF TypeOK
<1>7. tracking' \in TrackingRecords /\ incidents' \in SUBSET Episodes
  BY <1>2, <1>3, <1>4
<1> QED BY <1>1, <1>5, <1>6, <1>7 DEF TypeOK, TrackingRecords, Episodes

LEMMA RowsAreCycles ==
  ASSUME RetentionTypeOK, NEW table \in DOMAIN Following
  PROVE  /\ Rows(table) \subseteq Cycles
         /\ \A c \in Cycles : Instant(table, c) \in Nat
BY ConstantsAreTyped DEF RetentionTypeOK, Rows, Runs, Instant, Following, Cycles

LEMMA DeletedIsTyped ==
  ASSUME RetentionTypeOK, pass # Idle, NEW batch, batch \subseteq Cycles, Deleted(batch)
  PROVE  /\ sample' \in [Cycles -> Samples]
         /\ metrics' \in [interface: SUBSET Cycles, device: SUBSET Cycles]
         /\ \A t \in {"interface", "device"} : metrics'[t] \subseteq metrics[t]
<1> USE DEF RetentionTypeOK, TypeOK
<1>1. pass.table \in {"interface", "device", "runs"}
  BY DEF Following
<1>2. DOMAIN metrics = {"interface", "device"}
  OBVIOUS
<1>3. CASE pass.table = "runs"
  BY <1>2, <1>3 DEF Deleted, Samples
<1>4. CASE pass.table # "runs"
  BY <1>2, <1>4 DEF Deleted, Samples
<1> QED BY <1>3, <1>4

LEMMA BatchIsExpired ==
  ASSUME RetentionTypeOK, DeleteBatch
  PROVE  /\ pass # Idle
         /\ \E batch \in SUBSET Expired(pass.table, pass.cutoff) : Deleted(batch)
BY DEF DeleteBatch, kSubset

LEMMA MetricsGrow ==
  ASSUME RetentionTypeOK, NEW result \in Samples \ {"none"}, PollAndStore(result)
  PROVE  /\ metrics' \in [interface: SUBSET Cycles, device: SUBSET Cycles]
         /\ \A t \in {"interface", "device"} : metrics'[t] \subseteq metrics[t] \union {polling}
<1>1. polling \in Cycles
  BY PollIsTyped DEF RetentionTypeOK, PollAndStore
<1> QED BY <1>1 DEF RetentionTypeOK, PollAndStore

LEMMA CutoffIsTyped ==
  ASSUME RetentionTypeOK, BeginPass
  PROVE  /\ pass'.cutoff \in Instants
         /\ pass'.cutoff <= 2 * (now - Kept) + 2
         /\ pass' = [table |-> "interface", cutoff |-> pass'.cutoff]
<1> USE ConstantsAreTyped
<1>1. PICK half \in 1 .. 2 :
        LET cutoff == 2 * (now - Kept) + half
        IN /\ \E table \in DOMAIN Following : Expired(table, cutoff) # {}
           /\ pass' = [table |-> "interface", cutoff |-> cutoff]
  BY DEF BeginPass
<1> DEFINE cutoff == 2 * (now - Kept) + half
<1>2. now \in 0 .. MaxCycle /\ cutoff \in Int
  BY DEF RetentionTypeOK, TypeOK
<1>3. PICK table \in DOMAIN Following, c \in Cycles : Instant(table, c) < cutoff
  BY <1>1, RowsAreCycles DEF Expired
<1>4. Instant(table, c) \in Nat
  BY <1>3, RowsAreCycles
<1>5. 0 <= cutoff /\ cutoff <= 2 * (now - Kept) + 2
  BY <1>2, <1>3, <1>4
<1>6. 2 * (now - Kept) + 2 <= 2 * MaxCycle
  BY <1>2
<1> HIDE DEF cutoff
<1>7. cutoff \in Instants
  BY <1>2, <1>5, <1>6 DEF Instants
<1> QED BY <1>1, <1>5, <1>7 DEF cutoff

LEMMA TypesKept ==
  ASSUME RetentionTypeOK, [RetentionNext]_retentionVars
  PROVE  RetentionTypeOK'
<1>1. ASSUME NEW result \in Samples \ {"none"}, PollAndStore(result)
      PROVE  RetentionTypeOK'
  <2>1. TypeOK' /\ polling \in Cycles
    BY <1>1, PollIsTyped DEF RetentionTypeOK, PollAndStore
  <2>2. found' \in [Cycles -> Samples]
    BY <1>1, <2>1 DEF RetentionTypeOK, PollAndStore
  <2> QED BY <1>1, <2>1, <2>2, MetricsGrow DEF RetentionTypeOK, PollAndStore, Instants
<1>2. ASSUME NEW starts \in BOOLEAN, TimePasses(starts)
      PROVE  RetentionTypeOK'
  <2>1. now' \in 0 .. MaxCycle /\ polling' \in 0 .. MaxCycle
    BY <1>2, ConstantsAreTyped DEF RetentionTypeOK, TypeOK, TimePasses, NextCycle
  <2> QED BY <1>2, <2>1 DEF RetentionTypeOK, TypeOK, TimePasses, NextCycle, Instants
<1>3. CASE BeginPass
  <2>1. pass' \in [table: DOMAIN Following, cutoff: Instants]
    BY <1>3, CutoffIsTyped DEF Following
  <2> QED BY <1>3, <2>1 DEF RetentionTypeOK, TypeOK, BeginPass, Instants
<1>4. CASE DeleteBatch
  <2>1. PICK batch \in SUBSET Expired(pass.table, pass.cutoff) : Deleted(batch)
    BY <1>4, BatchIsExpired
  <2>2. batch \subseteq Cycles
    <3>1. pass.table \in DOMAIN Following
      BY <1>4 DEF RetentionTypeOK, DeleteBatch
    <3> QED BY <2>1, <3>1, RowsAreCycles DEF Expired
  <2> QED BY <1>4, <2>1, <2>2, BatchIsExpired, DeletedIsTyped
          DEF RetentionTypeOK, TypeOK, DeleteBatch, Instants
<1>5. CASE NextTable
  <2>1. pass \in [table: {"interface", "device", "runs"}, cutoff: Instants]
    BY <1>5 DEF RetentionTypeOK, NextTable, Following
  <2>2. pass' \in {Idle} \union [table: DOMAIN Following, cutoff: Instants]
    BY <1>5, <2>1 DEF NextTable, Following
  <2> QED BY <1>5, <2>2 DEF RetentionTypeOK, TypeOK, NextTable
<1>6. CASE PassEnds
  BY <1>6, ConstantsAreTyped DEF RetentionTypeOK, TypeOK, PassEnds, Idle, Instants
<1>7. CASE UNCHANGED retentionVars
  BY <1>7 DEF RetentionTypeOK, TypeOK, retentionVars, Instants
<1>8. CASE PollLost
  <2>1. polling' \in 0 .. MaxCycle
    BY <1>8, ConstantsAreTyped DEF PollLost, PollFails
  <2> QED BY <1>8, <2>1 DEF RetentionTypeOK, TypeOK, PollLost, PollFails, Instants
<1> QED BY <1>1, <1>2, <1>3, <1>4, <1>5, <1>6, <1>7, <1>8 DEF RetentionNext

------------------------------------------------------------------------------
(* A pass and its tables. *)

LEMMA FinishedStays ==
  ASSUME RetentionTypeOK, NEW t \in {"interface", "device"}, NEW cutoff \in Nat,
         NEW n \in Nat, cutoff <= 2 * n + 1, Expired(t, cutoff) = {},
         metrics'[t] \subseteq metrics[t] \union {n}
  PROVE  Expired(t, cutoff)' = {}
<1>1. ~(2 * n + 1 < cutoff)
  OBVIOUS
<1>2. \A c \in metrics[t] : ~(2 * c + 1 < cutoff)
  BY DEF Expired, Rows, Instant
<1> QED BY <1>1, <1>2 DEF Expired, Rows, Instant

LEMMA PassInvHolds == RetentionSpec => []PassInv
<1>1. RetentionInit => PassInv
  <2> SUFFICES ASSUME RetentionInit PROVE PassInv
    OBVIOUS
  <2>1. TypeOK
    BY ConstantsAreTyped DEF RetentionInit, Init, TypeOK, Fresh, Normal, CycleTracking, Samples
  <2>2. RetentionTypeOK
    BY <2>1 DEF RetentionInit, Init, RetentionTypeOK, Samples
  <2> QED BY <2>2 DEF RetentionInit, Init, PassInv, CutoffIsPast, TablesFinished, PollIsRecent, Idle
<1>2. ASSUME PassInv, [RetentionNext]_retentionVars
      PROVE  PassInv'
  <2> USE ConstantsAreTyped
  <2>1. RetentionTypeOK /\ CutoffIsPast /\ TablesFinished /\ PollIsRecent
    BY <1>2 DEF PassInv
  <2>2. RetentionTypeOK'
    BY <1>2, <2>1, TypesKept
  <2>3. now \in Nat /\ now' \in Nat /\ polling \in Nat /\ polling' \in Nat
    BY <2>1, <2>2 DEF RetentionTypeOK, TypeOK
  <2>4. pass # Idle => pass.cutoff \in Nat
    BY <2>1 DEF RetentionTypeOK, Instants
  <2>0. PollIsRecent'
    <3>1. ASSUME NEW starts \in BOOLEAN, TimePasses(starts) PROVE PollIsRecent'
      BY <2>1, <2>3, <3>1 DEF TimePasses, NextCycle, PollIsRecent
    <3>2. CASE polling' = 0
      BY <3>2 DEF PollIsRecent
    <3>3. CASE UNCHANGED <<now, polling>>
      BY <2>1, <3>3 DEF PollIsRecent
    <3> QED BY <1>2, <3>1, <3>2, <3>3
            DEF RetentionNext, PollAndStore, Poll, PollLost, PollFails, BeginPass, DeleteBatch,
                NextTable, PassEnds, retentionVars
  \* A step that goes on with the pass adds at most the rows of a recent poll.
  <2>5. ASSUME pass' = pass, now <= now', NEW n \in Nat, now <= n + Delay,
               \A t \in {"interface", "device"} : metrics'[t] \subseteq metrics[t] \union {n}
        PROVE  PassInv'
    <3>1. CutoffIsPast'
      BY <2>1, <2>3, <2>4, <2>5 DEF CutoffIsPast
    <3>2. pass # Idle => pass.cutoff <= 2 * n + 1
      BY <2>1, <2>3, <2>4, <2>5 DEF CutoffIsPast
    <3>3. TablesFinished'
      BY <2>1, <2>4, <2>5, <3>2, FinishedStays DEF TablesFinished, Idle
    <3> QED BY <2>0, <2>2, <3>1, <3>3 DEF PassInv
  <2>6. ASSUME NEW result \in Samples \ {"none"}, PollAndStore(result)
        PROVE  PassInv'
    <3>1. pass' = pass /\ now' = now /\ now <= polling + Delay
      BY <2>1, <2>6 DEF PollAndStore, Poll, PollIsRecent
    <3>2. \A t \in {"interface", "device"} : metrics'[t] \subseteq metrics[t] \union {polling}
      BY <2>1, <2>6, MetricsGrow
    <3> QED BY <2>3, <2>5, <3>1, <3>2
  <2>7. ASSUME NEW starts \in BOOLEAN, TimePasses(starts)
        PROVE  PassInv'
    BY <2>3, <2>5, <2>7 DEF TimePasses, NextCycle
  <2>8. CASE BeginPass
    <3>1. pass'.cutoff <= 2 * (now - Kept) + 2 /\ pass'.table = "interface"
      BY <2>1, <2>8, CutoffIsTyped
    <3> QED BY <2>0, <2>2, <2>8, <3>1 DEF BeginPass, PassInv, CutoffIsPast, TablesFinished
  <2>9. CASE DeleteBatch
    <3>1. PICK batch \in SUBSET Expired(pass.table, pass.cutoff) : pass # Idle /\ Deleted(batch)
      BY <2>1, <2>9, BatchIsExpired
    <3>2. pass.table \in DOMAIN Following
      BY <2>1, <3>1 DEF RetentionTypeOK
    <3>3. batch \subseteq Cycles
      BY <2>1, <3>1, <3>2, RowsAreCycles DEF Expired
    <3>4. \A t \in {"interface", "device"} : metrics'[t] \subseteq metrics[t]
      BY <2>1, <3>1, <3>3, DeletedIsTyped
    <3> QED BY <2>3, <2>5, <2>9, <3>4 DEF DeleteBatch
  <2>10. CASE NextTable
    <3>1. /\ pass.table \in {"interface", "device", "runs"}
          /\ pass' = IF pass.table = "runs" THEN Idle ELSE [pass EXCEPT !.table = Following[@]]
          /\ Expired(pass.table, pass.cutoff) = {}
          /\ UNCHANGED <<now, sample, metrics>>
          /\ pass = [table |-> pass.table, cutoff |-> pass.cutoff]
      BY <2>1, <2>10 DEF NextTable, RetentionTypeOK, Following
    <3>2. \A t \in {"interface", "device"} : \A cutoff :
            Expired(t, cutoff) = {} => Expired(t, cutoff)' = {}
      BY <3>1 DEF Expired, Rows, Instant
    <3>3. CASE pass.table = "interface"
      <4>1. pass' = [table |-> "device", cutoff |-> pass.cutoff]
        BY <3>1, <3>3 DEF Following
      <4> QED BY <2>0, <2>1, <2>2, <2>10, <3>1, <3>2, <3>3, <4>1
              DEF NextTable, PassInv, CutoffIsPast, TablesFinished
    <3>4. CASE pass.table = "device"
      <4>1. pass' = [table |-> "runs", cutoff |-> pass.cutoff]
        BY <3>1, <3>4 DEF Following
      <4> QED BY <2>0, <2>1, <2>2, <2>10, <3>1, <3>2, <3>4, <4>1
              DEF NextTable, PassInv, CutoffIsPast, TablesFinished
    <3>5. CASE pass.table = "runs"
      BY <2>0, <2>2, <3>1, <3>5 DEF PassInv, CutoffIsPast, TablesFinished, Idle
    <3> QED BY <3>1, <3>3, <3>4, <3>5
  <2>11. CASE PassEnds
    BY <2>0, <2>2, <2>11 DEF PassEnds, PassInv, CutoffIsPast, TablesFinished, Idle
  <2>12. CASE UNCHANGED retentionVars
    BY <2>3, <2>5, <2>12 DEF retentionVars
  <2>13. CASE PollLost
    BY <2>3, <2>5, <2>13 DEF PollLost, PollFails
  <2> QED BY <1>2, <2>6, <2>7, <2>8, <2>9, <2>10, <2>11, <2>12, <2>13 DEF RetentionNext
<1> QED BY <1>1, <1>2, PTL DEF RetentionSpec

\* Every state has its type: what polls store, what a pass deletes and at which table it is
\* (retention.py, and the tables in db/models.py).
THEOREM TypeCorrect == RetentionSpec => []RetentionTypeOK
<1>1. PassInv => RetentionTypeOK
  BY DEF PassInv
<1> QED BY <1>1, PassInvHolds, PTL

\* When the runs are deleted, no metric that the pass should have deleted itself is left
\* to go with them, whatever polls were stored meanwhile (retention.py:9-12, 105-109).
THEOREM NoLargeCascade == RetentionSpec => CascadeIsSmall
<1>1. ASSUME PassInv, [RetentionNext]_retentionVars
      PROVE  pass.table = "runs" =>
               \A t \in DOMAIN metrics :
                 Expired(t, pass.cutoff) \intersect (metrics[t] \ metrics'[t]) = {}
  <2>1. DOMAIN metrics = {"interface", "device"}
    BY <1>1 DEF PassInv, RetentionTypeOK
  <2> QED BY <1>1, <2>1 DEF PassInv, TablesFinished
<1> QED BY <1>1, PassInvHolds, PTL DEF RetentionSpec, CascadeIsSmall

------------------------------------------------------------------------------
(* The machine and its incidents, against what the polls found. *)

\* The device is Down at boundary c, read off the polls, and off the incidents.
Answers == {"ssh", "high", "low"}

Pair(history, c, kinds) == history[c] \in kinds /\ history[c + 1] \in kinds

DownIn(history, c) ==
  \E f \in 1 .. c - 1 :
    Pair(history, f, {"dead"}) /\ \A r \in f + 1 .. c - 1 : ~Pair(history, r, Answers)

LedgerSays(c) ==
  \E i \in incidents : i.started_at < c /\ (i.recovered_at = 0 \/ i.recovered_at >= c)

\* The tracking values are those of the last cycle that was processed, the latest of which
\* there is evidence; a poll in flight is of a later one.
TracksLastCycle ==
  /\ tracking.last <= now
  /\ polling # 0 => tracking.last < polling
  /\ \A c \in Cycles : c > tracking.last => found[c] = "none"
  /\ tracking.state = "normal" =>
       /\ tracking.failed > 0 <=> tracking.last # 0 /\ Dead(tracking.last)
       /\ tracking.failed > 0 => tracking.failed_run = tracking.last
  /\ tracking.state = "down" =>
       /\ tracking.reachable > 0 <=> tracking.last # 0 /\ Reached(tracking.last)
       /\ tracking.reachable > 0 => tracking.reachable_run = tracking.last
  /\ tracking.state = "down" <=> DownIn(found, tracking.last)

EpisodesArePast ==
  /\ tracking.state = "down" <=> Open # {}
  /\ \A i \in incidents : i.started_at < tracking.last /\ i.recovered_at < tracking.last

LedgerIsTrue == \A c \in Cycles : LedgerSays(c) <=> DownIn(found, c)

Inv == PassInv /\ TracksLastCycle /\ EpisodesArePast /\ LedgerIsTrue

\* Without later evidence the device stays as it was.
LEMMA DownStays ==
  ASSUME NEW history, NEW m \in Nat, \A c \in Cycles : c > m => history[c] = "none",
         NEW c \in m .. MaxCycle
  PROVE  DownIn(history, c) <=> DownIn(history, m)
<1> USE ConstantsAreTyped
<1>1. \A r \in m .. c - 1 : r + 1 \in Cycles /\ history[r + 1] = "none"
  <2>1. \A r \in m .. c - 1 : r + 1 \in Cycles /\ r + 1 > m
    BY DEF Cycles
  <2> QED BY <2>1
<1>2. \A r \in m .. c - 1 : ~Pair(history, r, {"dead"}) /\ ~Pair(history, r, Answers)
  BY <1>1 DEF Pair, Answers
<1>3. \A r \in 1 .. c - 1 : r \in 1 .. m - 1 \/ r \in m .. c - 1
  OBVIOUS
<1>4. ASSUME DownIn(history, c) PROVE DownIn(history, m)
  <2>1. PICK f \in 1 .. c - 1 :
          Pair(history, f, {"dead"}) /\ \A r \in f + 1 .. c - 1 : ~Pair(history, r, Answers)
    BY <1>4 DEF DownIn
  <2>2. f \in 1 .. m - 1 /\ \A r \in f + 1 .. m - 1 : r \in f + 1 .. c - 1
    BY <1>2, <1>3, <2>1
  <2> QED BY <2>1, <2>2 DEF DownIn
<1>5. ASSUME DownIn(history, m) PROVE DownIn(history, c)
  <2>1. PICK f \in 1 .. m - 1 :
          Pair(history, f, {"dead"}) /\ \A r \in f + 1 .. m - 1 : ~Pair(history, r, Answers)
    BY <1>5 DEF DownIn
  <2>2. f \in 1 .. c - 1 /\ \A r \in f + 1 .. c - 1 : r \in f + 1 .. m - 1 \/ r \in m .. c - 1
    BY <2>1
  <2> QED BY <1>2, <2>1, <2>2 DEF DownIn
<1> QED BY <1>4, <1>5

\* What one more cycle adds.
LEMMA DownGrows ==
  ASSUME NEW n \in Nat, NEW old, NEW new, \A c \in 1 .. n : new[c] = old[c]
  PROVE  /\ \A c \in 0 .. n : DownIn(new, c) <=> DownIn(old, c)
         /\ DownIn(new, n + 1) <=>
              \/ n # 0 /\ old[n] = "dead" /\ new[n + 1] = "dead"
              \/ DownIn(old, n) /\ ~(n # 0 /\ old[n] \in Answers /\ new[n + 1] \in Answers)
<1>1. \A f \in 1 .. n - 1 : \A kinds : Pair(new, f, kinds) <=> Pair(old, f, kinds)
  BY DEF Pair
<1>2. ASSUME NEW c \in 0 .. n
      PROVE  DownIn(new, c) <=> DownIn(old, c)
  <2>1. \A f \in 1 .. c - 1 : f \in 1 .. n - 1 /\ \A r \in f + 1 .. c - 1 : r \in 1 .. n - 1
    OBVIOUS
  <2> QED BY <1>1, <2>1 DEF DownIn
<1>3. \A kinds : n # 0 => (Pair(new, n, kinds) <=> old[n] \in kinds /\ new[n + 1] \in kinds)
  BY DEF Pair
<1>4. ASSUME DownIn(new, n + 1)
      PROVE  \/ n # 0 /\ old[n] = "dead" /\ new[n + 1] = "dead"
             \/ DownIn(old, n) /\ ~(n # 0 /\ old[n] \in Answers /\ new[n + 1] \in Answers)
  <2>1. PICK f \in 1 .. n :
          Pair(new, f, {"dead"}) /\ \A r \in f + 1 .. n : ~Pair(new, r, Answers)
    BY <1>4 DEF DownIn
  <2>2. CASE f = n
    BY <1>3, <2>1, <2>2
  <2>3. CASE f # n
    <3>1. f \in 1 .. n - 1 /\ n \in f + 1 .. n
      BY <2>3
    <3>2. \A r \in f + 1 .. n - 1 : r \in f + 1 .. n /\ r \in 1 .. n - 1
      BY <3>1
    <3>3. DownIn(old, n)
      BY <1>1, <2>1, <3>1, <3>2 DEF DownIn
    <3> QED BY <1>3, <2>1, <3>1, <3>3
  <2> QED BY <2>2, <2>3
<1>5. ASSUME n # 0, old[n] = "dead", new[n + 1] = "dead"
      PROVE  DownIn(new, n + 1)
  <2>1. n \in 1 .. n /\ \A r \in n + 1 .. n : FALSE
    BY <1>5
  <2>2. Pair(new, n, {"dead"})
    BY <1>3, <1>5
  <2> QED BY <2>1, <2>2 DEF DownIn
<1>6. ASSUME DownIn(old, n), ~(n # 0 /\ old[n] \in Answers /\ new[n + 1] \in Answers)
      PROVE  DownIn(new, n + 1)
  <2>1. PICK f \in 1 .. n - 1 :
          Pair(old, f, {"dead"}) /\ \A r \in f + 1 .. n - 1 : ~Pair(old, r, Answers)
    BY <1>6 DEF DownIn
  <2>2. f \in 1 .. n /\ n # 0
    BY <2>1
  <2>3. ASSUME NEW r \in f + 1 .. n
        PROVE  ~Pair(new, r, Answers)
    <3>1. CASE r = n
      BY <1>3, <1>6, <2>2, <3>1
    <3>2. CASE r # n
      <4>1. r \in f + 1 .. n - 1 /\ r \in 1 .. n - 1
        BY <2>2, <3>2
      <4> QED BY <1>1, <2>1, <4>1
    <3> QED BY <3>1, <3>2
  <2> QED BY <1>1, <2>1, <2>2, <2>3 DEF DownIn
<1> QED BY <1>2, <1>4, <1>5, <1>6

\* A cycle's decision may open an incident or close the open one, at m, the cycle before.
Opens(m) == /\ Open = {} /\ m # 0
            /\ incidents' = incidents \union {[started_at |-> m, recovered_at |-> 0]}

Closes(m) == /\ Open # {} /\ m # 0
             /\ incidents' = (incidents \ Open) \union
                                {[i EXCEPT !.recovered_at = m] : i \in Open}

LEMMA ClosedEpisode ==
  ASSUME NEW i \in Episodes, NEW at
  PROVE  [i EXCEPT !.recovered_at = at] = [started_at |-> i.started_at, recovered_at |-> at]
<1>1. i = [started_at |-> i.started_at, recovered_at |-> i.recovered_at]
  BY DEF Episodes
<1> QED BY <1>1

LEMMA LedgerGrows ==
  ASSUME RetentionTypeOK, EpisodesArePast, NEW m \in Nat, tracking.last <= m,
         Opens(m) \/ Closes(m) \/ incidents' = incidents
  PROVE  /\ \A c \in 1 .. m : LedgerSays(c)' <=> LedgerSays(c)
         /\ \A i \in incidents' : i.started_at < m + 1 /\ i.recovered_at < m + 1
         /\ Opens(m) => Open' # {}
         /\ Closes(m) => Open' = {}
<1>1. /\ tracking.last \in Nat
      /\ incidents \subseteq Episodes
      /\ \A i \in incidents : i.started_at \in Nat /\ i.recovered_at \in Nat
  BY TrackingIsTyped, ConstantsAreTyped
     DEF RetentionTypeOK, TypeOK, TrackingRecords, Episodes, Cycles
<1>2. \A i \in incidents : i.started_at < m /\ i.recovered_at < m
  BY <1>1 DEF EpisodesArePast
<1>3. CASE incidents' = incidents
  <2>1. ~Opens(m) /\ ~Closes(m)
    <3>1. Opens(m) => FALSE
      <4>1. Opens(m) => [started_at |-> m, recovered_at |-> 0] \in incidents
        BY <1>3 DEF Opens
      <4> QED BY <1>1, <1>2, <4>1
    <3>2. Closes(m) => FALSE
      <4> SUFFICES ASSUME Closes(m) PROVE FALSE
        OBVIOUS
      <4>1. PICK i \in Open : TRUE
        BY DEF Closes
      <4>2. [i EXCEPT !.recovered_at = m] \in incidents
        BY <1>3, <4>1 DEF Closes
      <4>3. [i EXCEPT !.recovered_at = m] = [started_at |-> i.started_at, recovered_at |-> m]
        BY <1>1, <4>1, ClosedEpisode DEF Open
      <4> QED BY <1>1, <1>2, <4>2, <4>3
    <3> QED BY <3>1, <3>2
  <2> QED BY <1>1, <1>2, <1>3, <2>1 DEF LedgerSays
<1>4. CASE Opens(m)
  <2> DEFINE new == [started_at |-> m, recovered_at |-> 0]
  <2>1. incidents' = incidents \union {new} /\ new.started_at = m /\ new.recovered_at = 0
    BY <1>4 DEF Opens
  <2>2. new \in Open'
    BY <2>1 DEF Open
  <2> HIDE DEF new
  <2>3. \A c \in 1 .. m : ~(new.started_at < c)
    BY <1>1, <2>1
  <2>4. ~Closes(m)
    <3>1. Closes(m) => Open # {}
      BY DEF Closes
    <3> QED BY <1>4, <3>1 DEF Opens
  <2> QED BY <1>1, <1>2, <2>1, <2>2, <2>3, <2>4 DEF LedgerSays
<1>5. CASE Closes(m)
  <2>1. \A i \in Open : [i EXCEPT !.recovered_at = m]
                         = [started_at |-> i.started_at, recovered_at |-> m]
    BY <1>1, ClosedEpisode DEF Open
  <2>2. incidents' = (incidents \ Open) \union
                       {[started_at |-> i.started_at, recovered_at |-> m] : i \in Open}
    BY <1>5, <2>1 DEF Closes
  <2>3. m # 0 /\ ~Opens(m)
    BY <1>5 DEF Closes, Opens
  <2>4. \A i \in incidents' : i.started_at < m + 1 /\ i.recovered_at < m + 1 /\ i.recovered_at # 0
    BY <1>1, <1>2, <2>2, <2>3 DEF Open
  <2>5. ASSUME NEW c \in 1 .. m
        PROVE  LedgerSays(c)' <=> LedgerSays(c)
    <3>1. ASSUME LedgerSays(c) PROVE LedgerSays(c)'
      <4>1. PICK i \in incidents : i.started_at < c /\ (i.recovered_at = 0 \/ i.recovered_at >= c)
        BY <3>1 DEF LedgerSays
      <4>2. CASE i \in Open
        <5>1. [started_at |-> i.started_at, recovered_at |-> m] \in incidents'
          BY <2>2, <4>2
        <5> QED BY <1>1, <4>1, <5>1 DEF LedgerSays
      <4>3. CASE i \notin Open
        BY <2>2, <4>1, <4>3 DEF LedgerSays
      <4> QED BY <4>2, <4>3
    <3>2. ASSUME LedgerSays(c)' PROVE LedgerSays(c)
      <4>1. PICK i \in incidents' : i.started_at < c /\ (i.recovered_at = 0 \/ i.recovered_at >= c)
        BY <3>2 DEF LedgerSays
      <4>2. CASE i \in incidents \ Open
        BY <4>1, <4>2 DEF LedgerSays
      <4>3. CASE i \notin incidents \ Open
        <5>1. PICK o \in Open : i = [started_at |-> o.started_at, recovered_at |-> m]
          BY <2>2, <4>1, <4>3
        <5> QED BY <4>1, <5>1 DEF LedgerSays, Open
      <4> QED BY <4>2, <4>3
    <3> QED BY <3>1, <3>2
  <2>6. Open' = {}
    BY <2>4 DEF Open
  <2> QED BY <2>3, <2>4, <2>5, <2>6
<1> QED BY <1>3, <1>4, <1>5

LEMMA TrackingFields ==
  ASSUME NEW state, NEW last, NEW failed, NEW reachable, NEW failed_run, NEW reachable_run
  PROVE  LET tr == CycleTracking(state, last, failed, reachable, failed_run, reachable_run)
         IN /\ tr.state = state /\ tr.last = last
            /\ tr.failed = failed /\ tr.reachable = reachable
            /\ tr.failed_run = failed_run /\ tr.reachable_run = reachable_run
BY DEF CycleTracking

\* The machine before the cycle, in terms of the last two cycles.
LEMMA MachineSays ==
  ASSUME RetentionTypeOK, TracksLastCycle, NEW m \in 0 .. MaxCycle, tracking.last <= m
  PROVE  /\ tracking.state = "normal" =>
              (Continuous(tracking, m + 1) /\ tracking.failed > 0
                 <=> m # 0 /\ found[m] = "dead")
         /\ tracking.state = "down" =>
              (Continuous(tracking, m + 1) /\ tracking.reachable > 0
                 <=> m # 0 /\ found[m] \in Answers)
         /\ Continuous(tracking, m + 1) => tracking.last = m /\ m # 0
<1>1. m \in Nat /\ tracking.last \in Nat /\ tracking.failed \in Nat /\ tracking.reachable \in Nat
  BY TrackingIsTyped, ConstantsAreTyped DEF RetentionTypeOK, TypeOK, TrackingRecords
<1>2. Continuous(tracking, m + 1) <=> tracking.last # 0 /\ tracking.last = m
  BY <1>1 DEF Continuous
<1>3. tracking.last # m /\ m # 0 => found[m] = "none"
  <2>1. tracking.last # m /\ m # 0 => m \in Cycles /\ m > tracking.last
    BY <1>1, ConstantsAreTyped DEF Cycles
  <2> QED BY <2>1 DEF TracksLastCycle
<1> QED BY <1>1, <1>2, <1>3 DEF TracksLastCycle, Dead, Reached, Answers

LEMMA EvidenceOfCycle ==
  ASSUME RetentionTypeOK, RetentionTypeOK', EpisodesArePast, LedgerIsTrue,
         NEW m \in Nat, NEW n \in Cycles, n = m + 1, tracking.last <= m,
         tracking'.last = n, n <= now', polling' = 0,
         \A c \in Cycles : c # n => found'[c] = found[c],
         \A c \in Cycles : c > n => found'[c] = "none",
         Opens(m) \/ Closes(m) \/ incidents' = incidents,
         tracking'.state = "down" <=> Open' # {},
         tracking'.state = "down" <=> DownIn(found', n),
         tracking'.state = "normal" =>
           /\ tracking'.failed > 0 <=> found'[n] = "dead"
           /\ tracking'.failed > 0 => tracking'.failed_run = n,
         tracking'.state = "down" =>
           /\ tracking'.reachable > 0 <=> found'[n] \in Answers
           /\ tracking'.reachable > 0 => tracking'.reachable_run = n
  PROVE  TracksLastCycle' /\ EpisodesArePast' /\ LedgerIsTrue'
<1>0. n \in Nat /\ n # 0 /\ MaxCycle \in Nat
  BY ConstantsAreTyped DEF Cycles
<1>1. TracksLastCycle'
  BY <1>0 DEF TracksLastCycle, Dead, Reached, Answers
<1>2. /\ \A c \in 1 .. m : LedgerSays(c)' <=> LedgerSays(c)
      /\ \A i \in incidents' : i.started_at < n /\ i.recovered_at < n
  BY LedgerGrows
<1>3. EpisodesArePast'
  BY <1>2 DEF EpisodesArePast
<1>4. \A c \in 1 .. m : c \in Cycles /\ c # n /\ c \in 0 .. m
  BY <1>0 DEF Cycles
<1>5. \A c \in 1 .. m : DownIn(found', c) <=> DownIn(found, c)
  BY <1>4, DownGrows
<1>6. \A i \in incidents' : i.started_at \in Nat /\ i.recovered_at \in Nat
  <2>1. incidents' \subseteq [started_at: Cycles, recovered_at: 0 .. MaxCycle]
    BY DEF RetentionTypeOK, TypeOK
  <2> QED BY <1>0, <2>1 DEF Cycles
<1>7. ASSUME NEW c \in Cycles
      PROVE  LedgerSays(c)' <=> DownIn(found', c)
  <2>0. c \in Nat /\ c >= 1 /\ c <= MaxCycle
    BY <1>0 DEF Cycles
  <2>1. CASE c <= m
    <3>1. c \in 1 .. m
      BY <2>0, <2>1
    <3> QED BY <1>2, <1>5, <3>1 DEF LedgerIsTrue
  <2>2. CASE ~(c <= m)
    <3>1. c \in n .. MaxCycle
      BY <1>0, <2>0, <2>2
    <3>2. DownIn(found', c) <=> DownIn(found', n)
      BY <1>0, <3>1, DownStays
    <3>3. \A i \in incidents' : i.started_at < c /\ ~(i.recovered_at >= c)
      BY <1>0, <1>2, <1>6, <3>1
    <3>4. LedgerSays(c)' <=> Open' # {}
      BY <3>3 DEF LedgerSays, Open
    <3> QED BY <3>2, <3>4
  <2> QED BY <2>1, <2>2
<1> QED BY <1>1, <1>3, <1>7 DEF LedgerIsTrue

LEMMA PollKeepsEvidence ==
  ASSUME Inv, RetentionTypeOK', NEW result \in Samples \ {"none"}, PollAndStore(result)
  PROVE  TracksLastCycle' /\ EpisodesArePast' /\ LedgerIsTrue'
<1>1. RetentionTypeOK /\ PollIsRecent /\ TracksLastCycle /\ EpisodesArePast /\ LedgerIsTrue
  BY DEF Inv, PassInv
<1>0. PICK n \in Cycles, m \in 0 .. MaxCycle : n = polling /\ n = m + 1
  <2>1. polling \in Cycles
    BY <1>1, PollIsTyped DEF RetentionTypeOK, PollAndStore
  <2>2. polling - 1 \in 0 .. MaxCycle /\ polling = (polling - 1) + 1
    BY <2>1, ConstantsAreTyped DEF Cycles
  <2> QED BY <2>1, <2>2
<1> DEFINE decision == AdvanceCycleState(tracking, n, result # "dead")
<1>2. /\ m \in Nat /\ n \in Nat /\ n # 0 /\ tracking.last \in Nat
      /\ tracking.last <= m /\ n <= now' /\ polling' = 0
      /\ found \in [Cycles -> Samples] /\ tracking \in TrackingRecords
      /\ tracking.state \in {"normal", "down"}
  <2>1. m \in Nat /\ n \in Nat /\ n # 0 /\ now' = now /\ polling' = 0 /\ now \in Nat
    BY <1>0, <1>1, ConstantsAreTyped DEF RetentionTypeOK, TypeOK, PollAndStore, Poll, Cycles
  <2>2. found \in [Cycles -> Samples]
    BY <1>1 DEF RetentionTypeOK
  <2>3. tracking \in TrackingRecords /\ tracking.state \in {"normal", "down"}
        /\ tracking.last \in Nat
    BY <1>1, TrackingIsTyped, ConstantsAreTyped DEF RetentionTypeOK, TrackingRecords
  <2>4. tracking.last < n /\ n <= now
    BY <1>0, <1>1, <2>1 DEF TracksLastCycle, PollIsRecent
  <2> QED BY <1>0, <2>1, <2>2, <2>3, <2>4
<1>3. /\ found' = [found EXCEPT ![n] = result]
      /\ tracking' = decision.tracking
      /\ incidents' = Recorded(decision)
  BY <1>0 DEF PollAndStore, Poll
<1> HIDE DEF decision
<1>4. /\ found'[n] = result
      /\ \A c \in Cycles : c # n => found'[c] = found[c]
  BY <1>2, <1>3
<1>5. \A c \in Cycles : c > n => found'[c] = "none"
  <2>1. \A c \in Cycles : c > n => c # n /\ c > tracking.last
    BY <1>0, <1>2, ConstantsAreTyped DEF Cycles
  <2> QED BY <1>1, <1>4, <2>1 DEF TracksLastCycle
<1>6. result = "dead" <=> ~(result \in Answers)
  BY DEF Samples, Answers
<1>7. DownIn(found', n) <=>
        \/ m # 0 /\ found[m] = "dead" /\ result = "dead"
        \/ DownIn(found, m) /\ ~(m # 0 /\ found[m] \in Answers /\ result \in Answers)
  <2>1. \A c \in 1 .. m : found'[c] = found[c]
    BY <1>0, <1>2, <1>4, ConstantsAreTyped DEF Cycles
  <2> QED BY <1>0, <1>2, <1>4, <2>1, DownGrows
<1>8. /\ tracking.state = "down" <=> DownIn(found, m)
      /\ tracking.state = "down" <=> Open # {}
      /\ m # 0 => ~(found[m] = "dead" /\ found[m] \in Answers)
  <2>1. DownIn(found, m) <=> DownIn(found, tracking.last)
    <3>1. m \in tracking.last .. MaxCycle
      BY <1>2
    <3>2. PICK last \in Nat : last = tracking.last
      BY <1>2
    <3>3. \A c \in Cycles : c > last => found[c] = "none"
      BY <1>1, <3>2 DEF TracksLastCycle
    <3> QED BY <3>1, <3>2, <3>3, DownStays
  <2> QED BY <1>1, <2>1 DEF TracksLastCycle, EpisodesArePast, Answers
<1>9. \A tracked, started, recovered :
        decision = Decision(tracked, started, recovered)
          => /\ decision.tracking = tracked
             /\ decision.incident_started_at = started
             /\ decision.incident_recovered_at = recovered
  BY DecisionFields
<1> DEFINE goes_on == Continuous(tracking, n)
\* Each outcome of the machine.
<1>10. CASE result # "dead" /\ tracking.state = "normal"
  <2>1. decision = Decision(Normal(n), 0, 0)
    BY <1>2, <1>10, Transition DEF decision
  <2>2. incidents' = incidents
    BY <1>3, <1>9, <2>1 DEF Recorded
  <2>3. tracking'.state = "normal" /\ tracking'.last = n /\ tracking'.failed = 0
    BY <1>3, <1>9, <2>1, TrackingFields DEF Normal
  <2>4. Open' = Open
    BY <2>2 DEF Open
  <2> QED BY <1>0, <1>1, <1>2, <1>4, <1>5, <1>6, <1>7, <1>8, <1>10, <2>2, <2>3, <2>4, EvidenceOfCycle
<1>11. CASE result # "dead" /\ tracking.state = "down" /\ goes_on /\ tracking.reachable > 0
  <2>1. m # 0 /\ found[m] \in Answers /\ tracking.reachable_run = m
    BY <1>0, <1>1, <1>2, <1>11, MachineSays DEF TracksLastCycle
  <2>2. decision = Decision(Normal(n), 0, m)
    BY <1>2, <1>11, <2>1, Transition DEF decision
  <2>3. Closes(m)
    BY <1>3, <1>8, <1>9, <1>11, <2>1, <2>2 DEF Recorded, Closes
  <2>4. tracking'.state = "normal" /\ tracking'.last = n /\ tracking'.failed = 0
    BY <1>3, <1>9, <2>2, TrackingFields DEF Normal
  <2>5. Open' = {}
    BY <1>1, <1>2, <2>3, LedgerGrows
  <2> QED BY <1>0, <1>1, <1>2, <1>4, <1>5, <1>6, <1>7, <1>11, <2>1, <2>3, <2>4, <2>5, EvidenceOfCycle
<1>12. CASE result # "dead" /\ tracking.state = "down" /\ ~(goes_on /\ tracking.reachable > 0)
  <2>1. ~(m # 0 /\ found[m] \in Answers)
    BY <1>0, <1>1, <1>2, <1>12, MachineSays
  <2>2. decision = Decision(CycleTracking("down", n, 0, 1, 0, n), 0, 0)
    BY <1>2, <1>12, Transition DEF decision
  <2>3. incidents' = incidents
    BY <1>3, <1>9, <2>2 DEF Recorded
  <2>4. /\ tracking'.state = "down" /\ tracking'.last = n
        /\ tracking'.reachable = 1 /\ tracking'.reachable_run = n
    BY <1>3, <1>9, <2>2, TrackingFields
  <2>5. Open' = Open
    BY <2>3 DEF Open
  <2>6. DownIn(found', n)
    BY <1>7, <1>8, <1>12, <2>1
  <2> QED BY <1>0, <1>1, <1>2, <1>4, <1>5, <1>6, <1>8, <1>12, <2>3, <2>4, <2>5, <2>6, EvidenceOfCycle
<1>13. CASE result = "dead" /\ tracking.state = "down"
  <2>1. decision = Decision(CycleTracking("down", n, tracking.failed, 0, tracking.failed_run, 0), 0, 0)
    BY <1>2, <1>13, Transition DEF decision
  <2>2. incidents' = incidents
    BY <1>3, <1>9, <2>1 DEF Recorded
  <2>3. tracking'.state = "down" /\ tracking'.last = n /\ tracking'.reachable = 0
    BY <1>3, <1>9, <2>1, TrackingFields
  <2>4. Open' = Open
    BY <2>2 DEF Open
  <2> QED BY <1>0, <1>1, <1>2, <1>4, <1>5, <1>6, <1>7, <1>8, <1>13, <2>2, <2>3, <2>4, EvidenceOfCycle
<1>14. CASE result = "dead" /\ tracking.state = "normal" /\ goes_on /\ tracking.failed > 0
  <2>1. m # 0 /\ found[m] = "dead" /\ tracking.failed_run = m
    BY <1>0, <1>1, <1>2, <1>14, MachineSays DEF TracksLastCycle
  <2>2. decision = Decision(CycleTracking("down", n, 2, 0, m, 0), m, 0)
    BY <1>2, <1>14, <2>1, Transition DEF decision
  <2>3. Opens(m)
    BY <1>3, <1>8, <1>9, <1>14, <2>1, <2>2 DEF Recorded, Opens
  <2>4. tracking'.state = "down" /\ tracking'.last = n /\ tracking'.reachable = 0
    BY <1>3, <1>9, <2>2, TrackingFields
  <2>5. Open' # {}
    BY <1>1, <1>2, <2>3, LedgerGrows
  <2>6. DownIn(found', n)
    BY <1>7, <1>14, <2>1
  <2> QED BY <1>0, <1>1, <1>2, <1>4, <1>5, <1>6, <1>14, <2>3, <2>4, <2>5, <2>6, EvidenceOfCycle
<1>15. CASE result = "dead" /\ tracking.state = "normal" /\ ~(goes_on /\ tracking.failed > 0)
  <2>1. ~(m # 0 /\ found[m] = "dead")
    BY <1>0, <1>1, <1>2, <1>15, MachineSays
  <2>2. decision = Decision(CycleTracking("normal", n, 1, 0, n, 0), 0, 0)
    BY <1>2, <1>15, Transition DEF decision
  <2>3. incidents' = incidents
    BY <1>3, <1>9, <2>2 DEF Recorded
  <2>4. /\ tracking'.state = "normal" /\ tracking'.last = n
        /\ tracking'.failed = 1 /\ tracking'.failed_run = n
    BY <1>3, <1>9, <2>2, TrackingFields
  <2>5. Open' = Open
    BY <2>3 DEF Open
  <2>6. ~DownIn(found', n)
    BY <1>7, <1>8, <1>15, <2>1
  <2> QED BY <1>0, <1>1, <1>2, <1>4, <1>5, <1>8, <1>15, <2>3, <2>4, <2>5, <2>6, EvidenceOfCycle
<1> QED BY <1>2, <1>10, <1>11, <1>12, <1>13, <1>14, <1>15

LEMMA TimeKeepsEvidence ==
  ASSUME Inv, RetentionTypeOK', tracking' = tracking, incidents' = incidents, found' = found,
         now' \in {now, now + 1}, polling' \in {0, polling, now + 1}
  PROVE  TracksLastCycle' /\ EpisodesArePast' /\ LedgerIsTrue'
<1>1. RetentionTypeOK /\ TracksLastCycle /\ EpisodesArePast /\ LedgerIsTrue
  BY DEF Inv, PassInv
<1>2. now \in Nat /\ tracking.last \in Nat
  BY <1>1, TrackingIsTyped, ConstantsAreTyped DEF RetentionTypeOK, TypeOK, TrackingRecords
<1>3. tracking'.last <= now' /\ (polling' # 0 => tracking'.last < polling')
  BY <1>1, <1>2 DEF TracksLastCycle
<1> QED BY <1>1, <1>3
        DEF TracksLastCycle, EpisodesArePast, LedgerIsTrue, LedgerSays, Open, Dead, Reached

LEMMA Invariant == RetentionSpec => []Inv
<1>1. RetentionInit => TracksLastCycle /\ EpisodesArePast /\ LedgerIsTrue
  <2> SUFFICES ASSUME RetentionInit
               PROVE  TracksLastCycle /\ EpisodesArePast /\ LedgerIsTrue
    OBVIOUS
  <2>1. /\ now = 0 /\ polling = 0 /\ incidents = {} /\ found = [c \in Cycles |-> "none"]
        /\ tracking.state = "normal" /\ tracking.last = 0 /\ tracking.failed = 0
    BY TrackingFields DEF RetentionInit, Init, Fresh, Normal
  <2>2. ~DownIn(found, 0)
    BY DEF DownIn
  <2>3. \A c \in Cycles : ~DownIn(found, c)
    <3>1. \A c \in Cycles : c > 0 => found[c] = "none"
      BY <2>1
    <3>2. \A c \in Cycles : c \in 0 .. MaxCycle
      BY ConstantsAreTyped DEF Cycles
    <3> QED BY <2>2, <3>1, <3>2, DownStays
  <2> QED BY <2>1, <2>2, <2>3
          DEF TracksLastCycle, EpisodesArePast, LedgerIsTrue, LedgerSays, Open
<1>2. ASSUME PassInv, PassInv', TracksLastCycle, EpisodesArePast, LedgerIsTrue,
             [RetentionNext]_retentionVars
      PROVE  (TracksLastCycle /\ EpisodesArePast /\ LedgerIsTrue)'
  <2>1. Inv /\ RetentionTypeOK'
    BY <1>2 DEF Inv, PassInv
  <2>2. ASSUME NEW result \in Samples \ {"none"}, PollAndStore(result)
        PROVE  (TracksLastCycle /\ EpisodesArePast /\ LedgerIsTrue)'
    BY <2>1, <2>2, PollKeepsEvidence
  <2>3. ASSUME NEW starts \in BOOLEAN, TimePasses(starts)
        PROVE  (TracksLastCycle /\ EpisodesArePast /\ LedgerIsTrue)'
    BY <2>1, <2>3, TimeKeepsEvidence DEF TimePasses, NextCycle
  <2>4. CASE UNCHANGED <<now, polling, tracking, incidents, found>>
    BY <2>1, <2>4, TimeKeepsEvidence
  <2>5. CASE PollLost
    BY <2>1, <2>5, TimeKeepsEvidence DEF PollLost, PollFails
  <2> QED BY <1>2, <2>2, <2>3, <2>4, <2>5
          DEF RetentionNext, BeginPass, DeleteBatch, NextTable, PassEnds, retentionVars
<1> QED BY <1>1, <1>2, PassInvHolds, PTL DEF RetentionSpec, Inv

------------------------------------------------------------------------------
(* What the reports say. *)

LEMMA WeekBounds ==
  ASSUME NEW w \in 1 .. Weeks
  PROVE  /\ Start(w) \in Nat \ {0} /\ End(w) \in Nat /\ Start(w) < End(w)
         /\ End(w) = Start(w) + Slots
<1>1. w - 1 \in Nat /\ Slots \in Nat \ {0} /\ Lead \in Nat
  BY StatisticsAssumption
<1>2. Slots * (w - 1) \in Nat
  BY ONLY <1>1
<1> QED BY <1>1, <1>2 DEF Start, End

LEMMA AbnormalIsOngoing ==
  ASSUME NEW w
  PROVE  OverallStatus(w) = "abnormal" <=>
           \E i \in WeeklyIncidents(w) : OngoingAtPeriodEnd(i, w)
BY DEF OverallStatus

LEMMA StatusFromLedger ==
  ASSUME RetentionTypeOK, NEW w \in 1 .. Weeks
  PROVE  OverallStatus(w) = "abnormal" <=> LedgerSays(End(w))
<1>1. \A i \in incidents : i.recovered_at \in Nat
  BY ConstantsAreTyped DEF RetentionTypeOK, TypeOK
<1> QED BY <1>1, WeekBounds, AbnormalIsOngoing DEF WeeklyIncidents, OngoingAtPeriodEnd, LedgerSays

\* A report of a completed week is abnormal exactly if the polls that have landed found the
\* device Down when the week ended, whatever the retention has deleted since
\* (service.py:245-275, retention.py:14-17).
THEOREM StatusIsTrue == RetentionSpec => []AbnormalIffDownAtEnd
<1>1. ASSUME Inv PROVE AbnormalIffDownAtEnd
  <2>1. RetentionTypeOK /\ LedgerIsTrue /\ now \in 0 .. MaxCycle
    BY <1>1 DEF Inv, PassInv, RetentionTypeOK, TypeOK
  <2>2. ASSUME NEW w \in 1 .. Weeks, IsComplete(w)
        PROVE  OverallStatus(w) = "abnormal" <=> DownAtEnd(w)
    <3>1. End(w) \in Cycles
      BY <2>1, <2>2, WeekBounds, ConstantsAreTyped DEF IsComplete, Cycles
    <3>2. OverallStatus(w) = "abnormal" <=> DownIn(found, End(w))
      BY <2>1, <3>1, StatusFromLedger DEF LedgerIsTrue
    <3>3. DownAtEnd(w) <=> DownIn(found, End(w))
      BY DEF DownAtEnd, DownIn, Pair, Dead, Reached, Answers
    <3> QED BY <3>2, <3>3
  <2> QED BY <2>2 DEF AbnormalIffDownAtEnd
<1> QED BY <1>1, Invariant, PTL

LEMMA OngoingAsOfEnd ==
  ASSUME NEW i \in Episodes, NEW w \in 1 .. Weeks
  PROVE  /\ AsOfEnd(i, w).recovered_at = 0 <=> OngoingAtPeriodEnd(i, w)
         /\ OngoingAtPeriodEnd(i, w) =>
              AsOfEnd(i, w) = [started_at |-> i.started_at, recovered_at |-> 0]
<1>1. OngoingAtPeriodEnd(i, w) =>
        AsOfEnd(i, w) = [started_at |-> i.started_at, recovered_at |-> 0]
  BY ClosedEpisode DEF AsOfEnd
<1>2. ~OngoingAtPeriodEnd(i, w) => AsOfEnd(i, w) = i /\ i.recovered_at # 0
  BY DEF AsOfEnd, OngoingAtPeriodEnd
<1> QED BY <1>1, <1>2

Episodic(w) == {AsOfEnd(i, w) : i \in WeeklyIncidents(w)}

\* Whether a week has incidents, and one still ongoing at its end, shows in its episodes.
StatusShows(w) ==
  /\ WeeklyIncidents(w) = {} <=> Episodic(w) = {}
  /\ (\E i \in WeeklyIncidents(w) : OngoingAtPeriodEnd(i, w))
       <=> \E e \in Episodic(w) : e.recovered_at = 0

EveryStatusShows == \A w \in 1 .. Weeks : StatusShows(w)

LEMMA StatusFromEpisodes == RetentionTypeOK => EveryStatusShows
<1> SUFFICES ASSUME RetentionTypeOK, NEW w \in 1 .. Weeks PROVE StatusShows(w)
  BY DEF EveryStatusShows
<1>1. \A i \in WeeklyIncidents(w) : i \in Episodes
  BY TrackingIsTyped DEF RetentionTypeOK, WeeklyIncidents
<1>2. \A i \in WeeklyIncidents(w) : AsOfEnd(i, w).recovered_at = 0 <=> OngoingAtPeriodEnd(i, w)
  BY <1>1, OngoingAsOfEnd
<1> QED BY <1>2 DEF StatusShows, Episodic

LEMMA StatusFromNextEpisodes == RetentionTypeOK' => EveryStatusShows'
BY StatusFromEpisodes, PTL

\* What a report says follows from the week's series and its episodes.
LEMMA SummaryFollows ==
  ASSUME RetentionTypeOK, RetentionTypeOK', NEW w \in 1 .. Weeks,
         \A c \in CycleSlots(w) : sample'[c] = sample[c],
         Episodic(w)' = Episodic(w)
  PROVE  Summary(w)' = Summary(w)
<1>1. Series(w)' = Series(w)
  BY DEF Series, CycleSlots, Start, End
<1>2. SustainedHigh(w)' = SustainedHigh(w)
  BY <1>1 DEF SustainedHigh, Start
<1>3. Covered(w)' = Covered(w)
  <2>1. {c \in CycleSlots(w) : sample'[c] \in {"high", "low"}}
          = {c \in CycleSlots(w) : sample[c] \in {"high", "low"}}
    OBVIOUS
  <2> QED BY <2>1 DEF Covered, CycleSlots, Start, End
<1>4. BelowTarget(w)' <=> BelowTarget(w)
  BY <1>3 DEF BelowTarget
<1>5. StatusShows(w)
  BY StatusFromEpisodes DEF EveryStatusShows
<1>6. StatusShows(w)'
  BY StatusFromNextEpisodes DEF EveryStatusShows
<1>7. OverallStatus(w)' = OverallStatus(w)
  BY <1>2, <1>4, <1>5, <1>6 DEF OverallStatus, StatusShows
<1> QED BY <1>2, <1>3, <1>7 DEF Summary, Episodic

\* What a poll of a cycle after the end of a week does to the week's episodes: m is the
\* cycle before it.
LEMMA EpisodesSettled ==
  ASSUME RetentionTypeOK, EpisodesArePast, NEW w \in 1 .. Weeks,
         NEW m \in Nat, tracking.last <= m, End(w) <= m,
         Opens(m) \/ Closes(m) \/ incidents' = incidents
  PROVE  /\ Episodic(w)' = Episodic(w)
         /\ \A i \in WeeklyIncidents(w) : i.recovered_at # 0 => i \in incidents'
<1>1. /\ End(w) \in Nat /\ Start(w) \in Nat /\ Start(w) < End(w)
      /\ incidents \subseteq Episodes
      /\ \A i \in incidents : i.started_at \in Nat /\ i.recovered_at \in Nat
  BY TrackingIsTyped, WeekBounds, ConstantsAreTyped
     DEF RetentionTypeOK, TypeOK, Episodes, Cycles
<1>2. \A i \in WeeklyIncidents(w) : i.recovered_at # 0 => i \in incidents'
  BY DEF WeeklyIncidents, Opens, Closes, Open
<1> DEFINE in(i) == /\ i.started_at < End(w)
                    /\ i.recovered_at = 0 \/ i.recovered_at > Start(w)
           as(i) == IF i.recovered_at = 0 \/ i.recovered_at >= End(w)
                    THEN [i EXCEPT !.recovered_at = 0] ELSE i
<1>3. {as(i) : i \in {x \in incidents' : in(x)}} = {as(i) : i \in {x \in incidents : in(x)}}
  <2>1. CASE incidents' = incidents
    BY <2>1
  <2>2. CASE Opens(m)
    <3> DEFINE new == [started_at |-> m, recovered_at |-> 0]
    <3>1. incidents' = incidents \union {new} /\ ~in(new)
      BY <1>1, <2>2 DEF Opens
    <3> HIDE DEF in, as, new
    <3> QED BY <3>1
  <2>3. CASE Closes(m)
    <3> DEFINE closed(i) == [started_at |-> i.started_at, recovered_at |-> m]
    <3>1. \A i \in Open : i \in Episodes
      BY <1>1 DEF Open
    <3>2. \A i \in Open : [i EXCEPT !.recovered_at = m] = closed(i)
      BY <3>1, ClosedEpisode
    <3>3. incidents' = (incidents \ Open) \union {closed(i) : i \in Open}
      BY <2>3, <3>2 DEF Closes
    <3>4. \A i \in Open : (in(closed(i)) <=> in(i)) /\ as(closed(i)) = as(i)
      <4> SUFFICES ASSUME NEW i \in Open
                   PROVE  (in(closed(i)) <=> in(i)) /\ as(closed(i)) = as(i)
        OBVIOUS
      <4>1. i \in Episodes /\ i.recovered_at = 0 /\ i.started_at \in Nat
        BY <1>1 DEF Open
      <4>2. closed(i).recovered_at = m /\ closed(i).started_at = i.started_at
        OBVIOUS
      <4>3. in(closed(i)) <=> in(i)
        BY <1>1, <4>1, <4>2
      <4>4. as(i) = [started_at |-> i.started_at, recovered_at |-> 0]
        BY <4>1, ClosedEpisode
      <4>5. as(closed(i)) = [closed(i) EXCEPT !.recovered_at = 0]
        BY <4>2
      <4>6. [closed(i) EXCEPT !.recovered_at = 0]
              = [started_at |-> i.started_at, recovered_at |-> 0]
        OBVIOUS
      <4> QED BY <4>3, <4>4, <4>5, <4>6
    <3>5. Open \subseteq incidents
      BY DEF Open
    <3> HIDE DEF in, as, closed
    <3> DEFINE old == {x \in incidents : in(x)}
               next == {x \in incidents' : in(x)}
    <3>6. ASSUME NEW i \in next PROVE \E j \in old : as(i) = as(j)
      <4>1. CASE i \in incidents
        BY <4>1
      <4>2. CASE i \notin incidents
        <5>1. PICK j \in Open : i = closed(j)
          BY <3>3, <4>2
        <5> QED BY <3>4, <3>5, <5>1
      <4> QED BY <4>1, <4>2
    <3>7. ASSUME NEW j \in old PROVE \E i \in next : as(i) = as(j)
      <4>1. CASE j \in Open
        <5>1. closed(j) \in incidents'
          BY <3>3, <4>1
        <5> QED BY <3>4, <4>1, <5>1
      <4>2. CASE j \notin Open
        BY <3>3, <4>2
      <4> QED BY <4>1, <4>2
    <3>8. {as(i) : i \in next} \subseteq {as(i) : i \in old}
      BY <3>6
    <3>9. {as(i) : i \in old} \subseteq {as(i) : i \in next}
      BY <3>7
    <3> QED BY <3>8, <3>9
  <2> QED BY <2>1, <2>2, <2>3
<1> QED BY <1>2, <1>3 DEF Episodic, AsOfEnd, WeeklyIncidents, OngoingAtPeriodEnd, Start, End

\* A poll's cycle and its decision, as far as incidents are concerned.
LEMMA PollOpensOrCloses ==
  ASSUME Inv, NEW result \in Samples \ {"none"}, PollAndStore(result)
  PROVE  \E m \in 0 .. MaxCycle :
           /\ polling = m + 1 /\ tracking.last <= m
           /\ Opens(m) \/ Closes(m) \/ incidents' = incidents
<1>1. /\ RetentionTypeOK /\ TracksLastCycle /\ EpisodesArePast
      /\ tracking \in TrackingRecords /\ tracking.state \in {"normal", "down"}
      /\ tracking.last \in Nat
  BY TrackingIsTyped, ConstantsAreTyped DEF Inv, PassInv, RetentionTypeOK, TrackingRecords
<1>2. PICK n \in Cycles, m \in 0 .. MaxCycle : n = polling /\ n = m + 1
  <2>1. polling \in Cycles
    BY <1>1, PollIsTyped DEF RetentionTypeOK, PollAndStore
  <2>2. polling - 1 \in 0 .. MaxCycle /\ polling = (polling - 1) + 1
    BY <2>1, ConstantsAreTyped DEF Cycles
  <2> QED BY <2>1, <2>2
<1>3. tracking.last <= m
  <2>1. n # 0 /\ m \in Nat
    BY <1>2, ConstantsAreTyped DEF Cycles
  <2>2. tracking.last < n
    BY <1>1, <1>2, <2>1 DEF TracksLastCycle
  <2> QED BY <1>1, <1>2, <2>1, <2>2
<1> DEFINE decision == AdvanceCycleState(tracking, n, result # "dead")
<1>4. incidents' = Recorded(decision)
  BY <1>2 DEF PollAndStore, Poll
<1>5. /\ tracking.state = "normal" /\ Continuous(tracking, n) /\ tracking.failed > 0
           => m # 0 /\ tracking.failed_run = m /\ Open = {}
      /\ tracking.state = "down" /\ Continuous(tracking, n) /\ tracking.reachable > 0
           => m # 0 /\ tracking.reachable_run = m /\ Open # {}
  BY <1>1, <1>2, <1>3, MachineSays DEF TracksLastCycle, EpisodesArePast
<1> DEFINE started == decision.incident_started_at
           recovered == decision.incident_recovered_at
<1>6. \/ started = m /\ recovered = 0 /\ m # 0 /\ Open = {}
      \/ started = 0 /\ recovered = m /\ m # 0 /\ Open # {}
      \/ started = 0 /\ recovered = 0
  <2>1. \A tracked, opened, closed :
          decision = Decision(tracked, opened, closed) => started = opened /\ recovered = closed
    BY DecisionFields
  <2>2. \/ \E tracked : decision = Decision(tracked, 0, 0)
        \/ /\ tracking.state = "down" /\ Continuous(tracking, n) /\ tracking.reachable > 0
           /\ decision = Decision(Normal(n), 0, tracking.reachable_run)
        \/ /\ tracking.state = "normal" /\ Continuous(tracking, n) /\ tracking.failed > 0
           /\ \E tracked : decision = Decision(tracked, tracking.failed_run, 0)
    BY <1>1, Transition, Zenon
  <2> HIDE DEF decision
  <2> QED BY <1>5, <2>1, <2>2
<1> HIDE DEF decision
<1>7. Opens(m) \/ Closes(m) \/ incidents' = incidents
  BY <1>4, <1>6 DEF Recorded, Opens, Closes
<1> QED BY <1>2, <1>3, <1>7

\* Once no poll of a finished week, or of the cycle that begins at its end, is in flight,
\* and while the retention has not reached the week, what its report says is final:
\* neither later polls nor a pass, wherever it stops, changes it, but for the recovery of an
\* episode that was ongoing at the end (service.py:245-275, retention.py:65-80).
THEOREM KeptWeeksAreSettled == RetentionSpec => KeptWeekIsSettled
<1> DEFINE Same(w) == /\ Summary(w)' = Summary(w)
                      /\ \A i \in WeeklyIncidents(w) : i.recovered_at # 0 => i \in incidents'
           Settled == sample' # sample \/ incidents' # incidents =>
                        \A w \in 1 .. Weeks : IsSettled(w) /\ IsKept(w) => Same(w)
<1>1. ASSUME Inv, Inv', [RetentionNext]_retentionVars
      PROVE  Settled
  <2> SUFFICES ASSUME NEW w \in 1 .. Weeks, IsSettled(w), IsKept(w),
                      sample' # sample \/ incidents' # incidents
               PROVE  Same(w)
    OBVIOUS
  <2>1. /\ RetentionTypeOK /\ CutoffIsPast /\ EpisodesArePast /\ RetentionTypeOK'
        /\ now \in Nat /\ Start(w) \in Nat /\ End(w) \in Nat /\ End(w) <= now
        /\ polling # 0 => polling > End(w)
    BY <1>1, WeekBounds, ConstantsAreTyped
       DEF Inv, PassInv, RetentionTypeOK, TypeOK, IsComplete, IsSettled
  <2>2. ASSUME NEW result \in Samples \ {"none"}, PollAndStore(result)
        PROVE  Same(w)
    <3>1. PICK m \in 0 .. MaxCycle :
            /\ polling = m + 1 /\ tracking.last <= m
            /\ Opens(m) \/ Closes(m) \/ incidents' = incidents
      BY <1>1, <2>2, PollOpensOrCloses
    <3>2. m \in Nat /\ End(w) <= m
      BY <2>1, <3>1, ConstantsAreTyped
    <3>3. sample' = [sample EXCEPT ![polling] = result] /\ sample \in [Cycles -> Samples]
      BY <2>1, <2>2 DEF PollAndStore, Poll, RetentionTypeOK, TypeOK
    <3>4. \A c \in CycleSlots(w) : c # polling
      BY <2>1, <3>1, <3>2 DEF CycleSlots
    <3>5. \A c \in CycleSlots(w) : sample'[c] = sample[c]
      BY <3>3, <3>4
    <3> QED BY <2>1, <3>1, <3>2, <3>5, EpisodesSettled, SummaryFollows
  <2>3. CASE DeleteBatch
    <3>1. PICK batch \in SUBSET Expired(pass.table, pass.cutoff) : pass # Idle /\ Deleted(batch)
      BY <2>1, <2>3, BatchIsExpired
    <3>2. pass.cutoff \in Nat /\ pass.cutoff <= 2 * Start(w)
      BY <2>1, <3>1, ConstantsAreTyped DEF CutoffIsPast, IsKept, RetentionTypeOK, Instants
    <3>3. \A c \in CycleSlots(w) : c \notin batch
      BY <2>1, <3>1, <3>2 DEF Expired, Instant, CycleSlots
    <3>4. \A c \in CycleSlots(w) : c \in Cycles
      <4>1. 1 <= Start(w) /\ MaxCycle \in Nat
        BY WeekBounds, ConstantsAreTyped
      <4>2. now <= MaxCycle
        BY <2>1, <4>1 DEF RetentionTypeOK, TypeOK
      <4> QED BY <2>1, <4>1, <4>2 DEF CycleSlots, Cycles
    <3>5. \A c \in CycleSlots(w) : sample'[c] = sample[c]
      BY <3>1, <3>3, <3>4 DEF Deleted
    <3>6. incidents' = incidents
      BY <2>3 DEF DeleteBatch
    <3>7. WeeklyIncidents(w)' = WeeklyIncidents(w)
      BY <3>6 DEF WeeklyIncidents, Start, End
    <3>8. Episodic(w)' = Episodic(w)
      BY <3>7 DEF Episodic, AsOfEnd, OngoingAtPeriodEnd, End, Start
    <3> QED BY <2>1, <3>5, <3>6, <3>8, SummaryFollows DEF WeeklyIncidents
  <2> QED BY <1>1, <2>2, <2>3
          DEF RetentionNext, TimePasses, NextCycle, PollLost, PollFails, BeginPass, NextTable,
              PassEnds, retentionVars
<1> QED BY <1>1, Invariant, PTL DEF RetentionSpec, KeptWeekIsSettled, Settled

------------------------------------------------------------------------------
(* The sustained intervals of a week, as the loop over its slots makes them. H *)
(* is the set of the high slots, s the first slot and e the next to be taken.  *)

\* What holds of 0, and of the next number with each, holds up to n.
LEMMA UpTo ==
  ASSUME NEW n \in Nat, NEW S, 0 \in S,
         \A i \in 0 .. n : i \in S /\ i < n => i + 1 \in S
  PROVE  n \in S
<1> DEFINE T == {i \in 0 .. n : i \notin S}
           R == OpToRel(<, Nat)
<1> SUFFICES ASSUME T # {} PROVE FALSE
  BY DEF T
<1>1. T \subseteq Nat
  OBVIOUS
<1>2. IsWellFoundedOn(R, Nat)
  BY NatLessThanWellFounded
<1>3. \A x, y \in Nat : <<y, x>> \in R <=> y < x
  BY DEF OpToRel
<1> HIDE DEF R
<1>4. PICK x \in T : \A y \in T : <<y, x>> \notin R
  BY <1>1, <1>2, WFMin
<1>5. x \in 0 .. n /\ x \notin S /\ x # 0
  BY <1>4
<1>6. x - 1 \in 0 .. n /\ x - 1 \in Nat /\ x - 1 < x /\ x - 1 < n
  BY <1>5
<1>7. x - 1 \in S
  <2>1. x - 1 \in T => FALSE
    BY <1>1, <1>3, <1>4, <1>6
  <2> QED BY <1>6, <2>1
<1>8. (x - 1) + 1 \in S
  BY <1>6, <1>7
<1> QED BY <1>5, <1>8

IsRun(H, s, e, a, b) ==
  /\ a \in s .. e - 1 /\ b \in a .. e - 1 /\ b - a + 1 >= Required
  /\ \A c \in a .. b : c \in H
  /\ a = s \/ a - 1 \notin H
  /\ b = e - 1 \/ b + 1 \notin H

\* The last n slots are high, and no more.
EndsHigh(H, s, e, n) ==
  /\ n \in Nat /\ n <= e - s
  /\ \A c \in e - n .. e - 1 : c \in H
  /\ n = e - s \/ e - n - 1 \notin H

LEMMA RunAtEnd ==
  ASSUME NEW H, NEW s \in Int, NEW e \in Int, NEW n, EndsHigh(H, s, e, n)
  PROVE  /\ \A a, b \in Int : IsRun(H, s, e, a, b) /\ b = e - 1 => a = e - n /\ n >= Required
         /\ \A a, b \in Int : IsRun(H, s, e, a, b) /\ b # e - 1 => b + 1 < e - n
         /\ n >= Required => IsRun(H, s, e, e - n, e - 1)
<1> USE StatisticsAssumption
<1>1. n \in Nat /\ n <= e - s /\ (n = e - s \/ e - n - 1 \notin H)
      /\ \A c \in e - n .. e - 1 : c \in H
  BY DEF EndsHigh
<1>2. ASSUME NEW a \in Int, NEW b \in Int, IsRun(H, s, e, a, b), b = e - 1
      PROVE  a = e - n /\ n >= Required
  <2>1. /\ a >= s /\ a <= e - 1 /\ b - a + 1 >= Required
        /\ \A c \in a .. e - 1 : c \in H
        /\ a = s \/ a - 1 \notin H
    BY <1>2 DEF IsRun
  <2>2. ~(a < e - n)
    <3> SUFFICES ASSUME a < e - n PROVE FALSE
      OBVIOUS
    <3>1. n # e - s /\ e - n - 1 \in a .. e - 1
      BY <1>1, <2>1
    <3> QED BY <1>1, <2>1, <3>1
  <2>3. ~(a > e - n)
    <3> SUFFICES ASSUME a > e - n PROVE FALSE
      OBVIOUS
    <3>1. a # s /\ a - 1 \in e - n .. e - 1
      BY <1>1, <2>1
    <3> QED BY <1>1, <2>1, <3>1
  <2> QED BY <1>1, <1>2, <2>1, <2>2, <2>3
<1>3. ASSUME NEW a \in Int, NEW b \in Int, IsRun(H, s, e, a, b), b # e - 1
      PROVE  b + 1 < e - n
  <2>1. b <= e - 1 /\ b + 1 \notin H /\ b \in H /\ b >= a /\ a >= s
    BY <1>3 DEF IsRun
  <2>2. b + 1 \notin e - n .. e - 1
    BY <1>1, <2>1
  <2>3. b + 1 <= e - 1
    BY <1>3, <2>1
  <2> QED BY <1>1, <2>2, <2>3
<1>4. ASSUME n >= Required PROVE IsRun(H, s, e, e - n, e - 1)
  <2>1. n >= 1
    BY <1>1, <1>4
  <2>2. e - n \in s .. e - 1 /\ e - 1 \in e - n .. e - 1 /\ (e - 1) - (e - n) + 1 = n
    BY <1>1, <2>1
  <2>3. e - n = s \/ (e - n) - 1 \notin H
    BY <1>1
  <2> QED BY <1>1, <1>4, <2>2, <2>3 DEF IsRun
<1> QED BY <1>2, <1>3, <1>4

\* A slot that is not high ends every run, and begins none.
LEMMA RunsWithLow ==
  ASSUME NEW H, NEW s \in Int, NEW e \in Int, e \notin H
  PROVE  \A a, b \in Int : IsRun(H, s, e + 1, a, b) <=> IsRun(H, s, e, a, b)
<1> SUFFICES ASSUME NEW a \in Int, NEW b \in Int
             PROVE  IsRun(H, s, e + 1, a, b) <=> IsRun(H, s, e, a, b)
  OBVIOUS
<1>1. (e + 1) - 1 = e
  OBVIOUS
<1>2. ASSUME IsRun(H, s, e + 1, a, b) PROVE IsRun(H, s, e, a, b)
  <2>1. /\ a \in s .. e /\ b \in a .. e /\ b - a + 1 >= Required
        /\ \A c \in a .. b : c \in H
        /\ a = s \/ a - 1 \notin H
        /\ b = e \/ b + 1 \notin H
    BY <1>1, <1>2 DEF IsRun
  <2>2. b # e
    BY <2>1
  <2>3. a \in s .. e - 1 /\ b \in a .. e - 1
    BY <2>1, <2>2
  <2> QED BY <2>1, <2>2, <2>3 DEF IsRun
<1>3. ASSUME IsRun(H, s, e, a, b) PROVE IsRun(H, s, e + 1, a, b)
  <2>1. /\ a \in s .. e - 1 /\ b \in a .. e - 1 /\ b - a + 1 >= Required
        /\ \A c \in a .. b : c \in H
        /\ a = s \/ a - 1 \notin H
        /\ b = e - 1 \/ b + 1 \notin H
    BY <1>3 DEF IsRun
  <2>2. b + 1 \notin H
    <3>1. CASE b = e - 1
      <4>1. b + 1 = e
        BY <3>1
      <4> QED BY <4>1
    <3> QED BY <2>1, <3>1
  <2>3. a \in s .. e /\ b \in a .. e
    BY <2>1
  <2> QED BY <1>1, <2>1, <2>2, <2>3 DEF IsRun
<1> QED BY <1>2, <1>3

RunsGrow(H, s, e, n) ==
  \A a, b \in Int :
    IsRun(H, s, e + 1, a, b) <=>
      \/ IsRun(H, s, e, a, b) /\ b # e - 1
      \/ a = e - n /\ b = e /\ n + 1 >= Required

\* A high slot lengthens the run at the end, or begins one, and leaves the others.
LEMMA RunsWithHigh ==
  ASSUME NEW H, NEW s \in Int, NEW e \in Int, NEW n, EndsHigh(H, s, e, n), e \in H
  PROVE  EndsHigh(H, s, e + 1, n + 1) /\ RunsGrow(H, s, e, n)
<1>1. n \in Nat /\ n <= e - s /\ (n = e - s \/ e - n - 1 \notin H)
      /\ \A c \in e - n .. e - 1 : c \in H
  BY DEF EndsHigh
<1>2. (e + 1) - 1 = e /\ (e + 1) - (n + 1) = e - n
  BY <1>1
<1>3. EndsHigh(H, s, e + 1, n + 1)
  <2>1. n + 1 \in Nat /\ n + 1 <= (e + 1) - s
    BY <1>1
  <2>2. \A c \in e - n .. e : c \in H
    <3>1. \A c \in e - n .. e : c = e \/ c \in e - n .. e - 1
      BY <1>1
    <3> QED BY <1>1, <3>1
  <2>3. n + 1 = (e + 1) - s \/ e - n - 1 \notin H
    BY <1>1
  <2> QED BY <1>2, <2>1, <2>2, <2>3 DEF EndsHigh
<1>4. ASSUME NEW a \in Int, NEW b \in Int, b # e
      PROVE  IsRun(H, s, e + 1, a, b) <=> IsRun(H, s, e, a, b) /\ b # e - 1
  <2>1. ASSUME IsRun(H, s, e + 1, a, b) PROVE IsRun(H, s, e, a, b) /\ b # e - 1
    <3>1. /\ a \in s .. e /\ b \in a .. e /\ b - a + 1 >= Required
          /\ \A c \in a .. b : c \in H
          /\ a = s \/ a - 1 \notin H
          /\ b + 1 \notin H
      BY <1>2, <1>4, <2>1 DEF IsRun
    <3>2. b # e - 1
      <4>1. b = e - 1 => b + 1 = e
        OBVIOUS
      <4> QED BY <3>1, <4>1
    <3>3. a \in s .. e - 1 /\ b \in a .. e - 1
      BY <1>4, <3>1
    <3> QED BY <3>1, <3>2, <3>3 DEF IsRun
  <2>2. ASSUME IsRun(H, s, e, a, b), b # e - 1 PROVE IsRun(H, s, e + 1, a, b)
    <3>1. /\ a \in s .. e - 1 /\ b \in a .. e - 1 /\ b - a + 1 >= Required
          /\ \A c \in a .. b : c \in H
          /\ a = s \/ a - 1 \notin H
          /\ b + 1 \notin H
      BY <2>2 DEF IsRun
    <3>2. a \in s .. e /\ b \in a .. e
      BY <3>1
    <3> QED BY <1>2, <3>1, <3>2 DEF IsRun
  <2> QED BY <2>1, <2>2
<1>5. \A a, b \in Int : b = e => (IsRun(H, s, e + 1, a, b) <=> a = e - n /\ n + 1 >= Required)
  <2>1. /\ \A a, b \in Int : IsRun(H, s, e + 1, a, b) /\ b = (e + 1) - 1
                               => a = (e + 1) - (n + 1) /\ n + 1 >= Required
        /\ n + 1 >= Required => IsRun(H, s, e + 1, (e + 1) - (n + 1), (e + 1) - 1)
    BY <1>3, RunAtEnd
  <2> QED BY <1>2, <2>1
<1>6. \A a, b \in Int : IsRun(H, s, e, a, b) => b # e
  BY DEF IsRun
<1>7. ASSUME NEW a \in Int, NEW b \in Int
      PROVE  IsRun(H, s, e + 1, a, b) <=>
               \/ IsRun(H, s, e, a, b) /\ b # e - 1
               \/ a = e - n /\ b = e /\ n + 1 >= Required
  <2>1. CASE b = e
    BY <1>5, <1>6, <2>1
  <2>2. CASE b # e
    BY <1>4, <2>2
  <2> QED BY <2>1, <2>2
<1> QED BY <1>3, <1>7 DEF RunsGrow

Intervals == [start: Int, end: Int, sample_count: Int]

IntervalOf(a, b) == Interval(a, b + 1, b - a + 1)

\* A sequence of intervals holds every run up to e and nothing else, in their order.
Emitted(H, s, e, intervals) ==
  /\ intervals \in Seq(Intervals)
  /\ \A i \in 1 .. Len(intervals) :
       \E a, b \in Int : IsRun(H, s, e, a, b) /\ intervals[i] = IntervalOf(a, b)
  /\ \A a, b \in Int :
       IsRun(H, s, e, a, b) => \E i \in 1 .. Len(intervals) : intervals[i] = IntervalOf(a, b)
  /\ \A i, j \in 1 .. Len(intervals) : i < j => intervals[i].end < intervals[j].start

\* The run that is still open is the last interval, once it is long enough to be one.
LoopState(H, s, e, st) ==
  /\ EndsHigh(H, s, e, st.length)
  /\ st.length > 0 => st.start = e - st.length
  /\ st.length >= Required =>
       /\ Len(st.intervals) >= 1
       /\ st.intervals[Len(st.intervals)] = IntervalOf(e - st.length, e - 1)
  /\ Emitted(H, s, e, st.intervals)

LEMMA LastReplaced ==
  ASSUME NEW S, NEW q \in Seq(S), Len(q) >= 1, NEW x \in S
  PROVE  LET r == Append(Front(q), x)
         IN /\ r \in Seq(S) /\ Len(r) = Len(q) /\ r[Len(q)] = x
            /\ \A i \in 1 .. Len(q) - 1 : r[i] = q[i]
<1> DEFINE f == Front(q)
           n == Len(q) - 1
<1>1. n \in Nat /\ \A i \in 1 .. n : q[i] \in S
  BY ElementOfSeq
<1>2. f \in Seq(S) /\ Len(f) = n /\ \A i \in 1 .. n : f[i] = q[i]
  <2>1. /\ SubSeq(q, 1, n) \in Seq(S)
        /\ Len(SubSeq(q, 1, n)) = IF 1 <= n THEN n - 1 + 1 ELSE 0
        /\ \A i \in 1 .. n - 1 + 1 : SubSeq(q, 1, n)[i] = q[1 + i - 1]
    <3>1. \A i \in 1 .. n : q[i] \in S
      BY <1>1
    <3>2. PICK k \in Int : k = n
      OBVIOUS
    <3>3. /\ SubSeq(q, 1, k) \in Seq(S)
          /\ Len(SubSeq(q, 1, k)) = IF 1 <= k THEN k - 1 + 1 ELSE 0
          /\ \A i \in 1 .. k - 1 + 1 : SubSeq(q, 1, k)[i] = q[1 + i - 1]
      BY <3>1, <3>2, SubSeqProperties
    <3> QED BY <3>2, <3>3
  <2>2. f = SubSeq(q, 1, n)
    BY DEF Front
  <2>3. n - 1 + 1 = n /\ (~(1 <= n) => n = 0) /\ \A i \in 1 .. n : 1 + i - 1 = i
    <3>1. n \in Nat
      BY <1>1
    <3> HIDE DEF n
    <3> QED BY ONLY <3>1
  <2> HIDE DEF f, n
  <2> QED BY <1>1, <2>1, <2>2, <2>3
<1> HIDE DEF f
<1>3. /\ Append(f, x) \in Seq(S) /\ Len(Append(f, x)) = Len(f) + 1
      /\ \A i \in 1 .. Len(f) : Append(f, x)[i] = f[i]
      /\ Append(f, x)[Len(f) + 1] = x
  BY <1>2, AppendProperties
<1> QED BY <1>1, <1>2, <1>3 DEF f

\* A slot that is not high.
LEMMA LowTaken ==
  ASSUME NEW H, NEW s \in Int, NEW e \in Int, NEW st, LoopState(H, s, e, st), e \notin H,
         s <= e
  PROVE  LoopState(H, s, e + 1, NoRun(st.intervals))
<1> DEFINE q == st.intervals
           new == NoRun(q)
<1>1. new.length = 0 /\ new.intervals = q
  BY DEF NoRun
<1>2. EndsHigh(H, s, e + 1, 0)
  <2>1. (e + 1) - 0 - 1 = e /\ 0 <= (e + 1) - s
    OBVIOUS
  <2>2. \A c \in (e + 1) - 0 .. (e + 1) - 1 : c \in H
    OBVIOUS
  <2> QED BY <2>1, <2>2 DEF EndsHigh
<1>3. Emitted(H, s, e + 1, q)
  <2>1. \A a, b \in Int : IsRun(H, s, e + 1, a, b) <=> IsRun(H, s, e, a, b)
    BY RunsWithLow
  <2>2. Emitted(H, s, e, q)
    BY DEF LoopState
  <2> HIDE DEF q
  <2> QED BY <2>1, <2>2 DEF Emitted
<1>4. ~(0 >= Required)
  BY StatisticsAssumption
<1> HIDE DEF new, q
<1> QED BY <1>1, <1>2, <1>3, <1>4 DEF LoopState, new, q

\* The run at the end is emitted, after the first m intervals.
LEMMA RunEmitted ==
  ASSUME NEW H, NEW s \in Int, NEW e \in Int, NEW n \in Nat,
         EndsHigh(H, s, e, n), e \in H, n + 1 >= Required,
         NEW q, Emitted(H, s, e, q), NEW m \in 0 .. Len(q),
         \A i \in 1 .. m : q[i].end < e - n,
         \A i \in m + 1 .. Len(q) : q[i].end = e,
         NEW r \in Seq(Intervals), Len(r) = m + 1, r[m + 1] = IntervalOf(e - n, e),
         \A i \in 1 .. m : r[i] = q[i]
  PROVE  Emitted(H, s, e + 1, r)
<1>1. RunsGrow(H, s, e, n)
  BY RunsWithHigh
<1>2. /\ q \in Seq(Intervals) /\ Len(q) \in Nat
      /\ \A i \in 1 .. Len(q) :
           \E a, b \in Int : IsRun(H, s, e, a, b) /\ q[i] = IntervalOf(a, b)
      /\ \A a, b \in Int :
           IsRun(H, s, e, a, b) => \E i \in 1 .. Len(q) : q[i] = IntervalOf(a, b)
      /\ \A i, j \in 1 .. Len(q) : i < j => q[i].end < q[j].start
  <2>1. q \in Seq(Intervals)
    BY ONLY Emitted(H, s, e, q) DEF Emitted
  <2>2. Len(q) \in Nat
    BY ONLY <2>1
  <2> QED BY ONLY Emitted(H, s, e, q), <2>1, <2>2 DEF Emitted
<1>3. \A i \in 1 .. m + 1 : i \in 1 .. m \/ i = m + 1
  OBVIOUS
<1>4. \A i \in 1 .. m : i \in 1 .. Len(q) /\ i \in 1 .. m + 1
  BY <1>2
<1>5. m + 1 \in 1 .. m + 1
  OBVIOUS
<1>6. ASSUME NEW i \in 1 .. m + 1
      PROVE  \E a, b \in Int : IsRun(H, s, e + 1, a, b) /\ r[i] = IntervalOf(a, b)
  <2>1. CASE i \in 1 .. m
    <3>1. PICK a \in Int, b \in Int : IsRun(H, s, e, a, b) /\ q[i] = IntervalOf(a, b)
      BY <1>2, <1>4, <2>1
    <3>2. q[i].end = b + 1
      BY <3>1 DEF IntervalOf, Interval
    <3>3. b # e - 1
      BY <2>1, <3>2
    <3> QED BY <1>1, <2>1, <3>1, <3>3 DEF RunsGrow
  <2>2. CASE i = m + 1
    <3>1. PICK a \in Int : a = e - n
      OBVIOUS
    <3>2. IsRun(H, s, e + 1, a, e)
      BY <1>1, <3>1 DEF RunsGrow
    <3> QED BY <2>2, <3>1, <3>2
  <2> QED BY <1>3, <2>1, <2>2
<1>7. ASSUME NEW a \in Int, NEW b \in Int, IsRun(H, s, e + 1, a, b)
      PROVE  \E i \in 1 .. m + 1 : r[i] = IntervalOf(a, b)
  <2>1. CASE IsRun(H, s, e, a, b) /\ b # e - 1
    <3>1. PICK i \in 1 .. Len(q) : q[i] = IntervalOf(a, b)
      BY <1>2, <2>1
    <3>2. q[i].end # e
      <4>1. q[i].end = b + 1
        BY <3>1 DEF IntervalOf, Interval
      <4> QED BY <2>1, <4>1
    <3>3. i \in 1 .. m
      <4>1. i \notin m + 1 .. Len(q)
        BY <3>2
      <4> QED BY <1>2, <4>1
    <3> QED BY <1>4, <3>1, <3>3
  <2>2. CASE a = e - n /\ b = e
    BY <1>5, <2>2
  <2> QED BY <1>1, <1>7, <2>1, <2>2 DEF RunsGrow
<1>8. ASSUME NEW i \in 1 .. m + 1, NEW j \in 1 .. m + 1, i < j
      PROVE  r[i].end < r[j].start
  <2>1. i \in 1 .. m
    BY <1>8
  <2>2. CASE j \in 1 .. m
    BY <1>2, <1>4, <1>8, <2>1, <2>2
  <2>3. CASE j = m + 1
    <3>1. e - n \in Int /\ r[j] = IntervalOf(e - n, e)
      BY <2>3
    <3>2. r[j].start = e - n
      BY <3>1 DEF IntervalOf, Interval
    <3> QED BY <2>1, <3>2
  <2> QED BY <1>3, <2>2, <2>3
<1> QED BY <1>6, <1>7, <1>8 DEF Emitted

\* A slot that is.
LEMMA HighTaken ==
  ASSUME NEW H, NEW s \in Int, NEW e \in Int, NEW st, LoopState(H, s, e, st), e \in H
  PROVE  LoopState(H, s, e + 1, TakePoint(st, e, "high"))
<1> USE StatisticsAssumption
<1> DEFINE q == st.intervals
           grown(n) == IntervalOf(e - n, e)
           new == TakePoint(st, e, "high")
<1>1. PICK n : n = st.length
  OBVIOUS
<1>2. /\ EndsHigh(H, s, e, n) /\ n \in Nat
      /\ n > 0 => st.start = e - n
      /\ n >= Required => Len(q) >= 1 /\ q[Len(q)] = IntervalOf(e - n, e - 1)
      /\ Emitted(H, s, e, q)
  BY <1>1 DEF LoopState, EndsHigh
<1>3. /\ new.length = n + 1
      /\ new.start = e - n
      /\ new.intervals = CASE n + 1 < Required -> q
                           [] n + 1 = Required -> Append(q, grown(n))
                           [] OTHER -> Append(Front(q), grown(n))
  <2>1. PICK start : start = IF n = 0 THEN e ELSE st.start
    OBVIOUS
  <2>2. start = e - n
    BY <1>2, <2>1
  <2>3. Interval(start, e + 1, n + 1) = grown(n)
    <3>1. e - (e - n) + 1 = n + 1
      BY <1>2
    <3> QED BY <2>2, <3>1 DEF IntervalOf
  <2>4. new = [start |-> start, length |-> n + 1,
               intervals |-> CASE n + 1 < Required -> q
                               [] n + 1 = Required -> Append(q, Interval(start, e + 1, n + 1))
                               [] OTHER -> Append(Front(q), Interval(start, e + 1, n + 1))]
    BY <1>1, <2>1 DEF TakePoint
  <2> HIDE DEF new, q
  <2> QED BY <2>2, <2>3, <2>4
<1>4. EndsHigh(H, s, e + 1, n + 1) /\ RunsGrow(H, s, e, n)
  BY <1>2, RunsWithHigh
<1>5. /\ \A a, b \in Int : IsRun(H, s, e, a, b) /\ b = e - 1 => n >= Required
      /\ \A a, b \in Int : IsRun(H, s, e, a, b) /\ b # e - 1 => b + 1 < e - n
  BY <1>2, RunAtEnd
<1>6. /\ q \in Seq(Intervals) /\ Len(q) \in Nat
      /\ \A i \in 1 .. Len(q) :
           \E a, b \in Int : IsRun(H, s, e, a, b) /\ q[i] = IntervalOf(a, b)
      /\ \A i, j \in 1 .. Len(q) : i < j => q[i].end < q[j].start
  BY <1>2 DEF Emitted
<1>7. grown(n) \in Intervals
  BY <1>2 DEF IntervalOf, Interval, Intervals
<1> SUFFICES LoopState(H, s, e + 1, new)
  OBVIOUS
<1> HIDE DEF new, q
<1>8. ASSUME n < Required PROVE \A i \in 1 .. Len(q) : q[i].end < e - n
  <2> SUFFICES ASSUME NEW i \in 1 .. Len(q) PROVE q[i].end < e - n
    OBVIOUS
  <2>1. PICK a \in Int, b \in Int : IsRun(H, s, e, a, b) /\ q[i] = IntervalOf(a, b)
    BY <1>6
  <2>2. b + 1 < e - n
    BY <1>2, <1>5, <1>8, <2>1
  <2>3. q[i].end = b + 1
    BY <2>1 DEF IntervalOf, Interval
  <2> QED BY <2>2, <2>3
<1>9. CASE n + 1 < Required
  <2>1. new.intervals = q /\ n < Required /\ ~(n >= Required) /\ ~(n + 1 >= Required)
    BY <1>2, <1>3, <1>9
  <2>2. \A a, b \in Int : IsRun(H, s, e + 1, a, b) <=> IsRun(H, s, e, a, b)
    BY <1>4, <1>5, <2>1 DEF RunsGrow
  <2>3. Emitted(H, s, e + 1, q)
    BY <1>2, <2>2 DEF Emitted
  <2>4. (e + 1) - (n + 1) = e - n
    BY <1>2
  <2> QED BY <1>3, <1>4, <2>1, <2>3, <2>4 DEF LoopState
<1>10. ASSUME n + 1 >= Required, Emitted(H, s, e + 1, new.intervals),
              Len(new.intervals) >= 1, new.intervals[Len(new.intervals)] = grown(n)
       PROVE  LoopState(H, s, e + 1, new)
  <2>1. (e + 1) - (n + 1) = e - n /\ (e + 1) - 1 = e
    BY <1>2
  <2> QED BY <1>3, <1>4, <1>10, <2>1 DEF LoopState
<1>11. CASE n + 1 = Required
  <2> DEFINE r == Append(q, grown(n))
  <2>1. new.intervals = r
    BY <1>2, <1>3, <1>11
  <2>2. /\ r \in Seq(Intervals) /\ Len(r) = Len(q) + 1 /\ r[Len(q) + 1] = grown(n)
        /\ \A i \in 1 .. Len(q) : r[i] = q[i]
    BY <1>6, <1>7, AppendProperties
  <2> HIDE DEF r
  <2>3. n + 1 >= Required /\ n < Required /\ Len(q) \in 0 .. Len(q)
        /\ \A i : i \notin Len(q) + 1 .. Len(q)
    BY <1>2, <1>6, <1>11
  <2>4. Emitted(H, s, e + 1, r)
    BY <1>2, <1>8, <2>2, <2>3, RunEmitted
  <2>5. Len(r) >= 1
    BY <1>6, <2>2
  <2> QED BY <1>10, <2>1, <2>2, <2>3, <2>4, <2>5
<1>12. CASE n + 1 > Required
  <2> DEFINE r == Append(Front(q), grown(n))
             m == Len(q) - 1
  <2>1. new.intervals = r /\ n >= Required
    BY <1>2, <1>3, <1>12
  <2>2. Len(q) >= 1 /\ q[Len(q)] = IntervalOf(e - n, e - 1)
    BY <1>2, <2>1
  <2>3. /\ r \in Seq(Intervals) /\ Len(r) = Len(q) /\ r[Len(q)] = grown(n)
        /\ \A i \in 1 .. Len(q) - 1 : r[i] = q[i]
    BY <1>6, <1>7, <2>2, LastReplaced
  <2>4. m \in 0 .. Len(q) /\ m + 1 = Len(q) /\ n + 1 >= Required
        /\ \A i \in m + 1 .. Len(q) : i = Len(q)
    BY <1>2, <1>6, <1>12, <2>2
  <2>5. q[Len(q)].end = e /\ q[Len(q)].start = e - n
    <3>1. e - n \in Int /\ e - 1 \in Int
      BY <1>2
    <3>2. q[Len(q)].end = (e - 1) + 1 /\ q[Len(q)].start = e - n
      BY <2>2, <3>1 DEF IntervalOf, Interval
    <3> QED BY <3>2
  <2>6. \A i \in 1 .. m : q[i].end < e - n
    <3>1. \A i \in 1 .. m : i \in 1 .. Len(q) /\ i < Len(q) /\ Len(q) \in 1 .. Len(q)
      BY <1>6, <2>2
    <3> QED BY <1>6, <2>5, <3>1
  <2> HIDE DEF r, m
  <2>7. Emitted(H, s, e + 1, r)
    <3>1. /\ Len(r) = m + 1 /\ r[m + 1] = IntervalOf(e - n, e)
          /\ \A i \in 1 .. m : r[i] = q[i]
          /\ \A i \in m + 1 .. Len(q) : q[i].end = e
      BY <2>3, <2>4, <2>5 DEF m
    <3> QED BY <1>2, <2>3, <2>4, <2>6, <3>1, RunEmitted
  <2> QED BY <1>10, <2>1, <2>2, <2>3, <2>4, <2>7
<1>13. n + 1 < Required \/ n + 1 = Required \/ n + 1 > Required
  BY <1>2
<1> QED BY <1>9, <1>11, <1>12, <1>13

\* The loop of the code, over the first N slots of a series.
IsLoop(f, series, first, N) ==
  f = [k \in 0 .. N |->
         IF k = 0 THEN NoRun(<<>>)
         ELSE TakePoint(f[k - 1], first + k - 1, series[first + k - 1])]

LEMMA LoopExists ==
  ASSUME NEW series, NEW first, NEW N \in Nat
  PROVE  \E f : IsLoop(f, series, first, N)
<1> DEFINE none == NoRun(<<>>)
           next(k, st) == TakePoint(st, first + k - 1, series[first + k - 1])
           S == {n \in 0 .. N : \E f : IsLoop(f, series, first, n)}
<1>1. 0 \in S
  <2>1. IsLoop([k \in 0 .. 0 |-> none], series, first, 0)
    BY DEF IsLoop
  <2> QED BY <2>1
<1>2. ASSUME NEW n \in 0 .. N, n \in S, n < N PROVE n + 1 \in S
  <2>1. PICK f : IsLoop(f, series, first, n)
    BY <1>2
  <2>2. \A k \in 0 .. n : f[k] = IF k = 0 THEN none ELSE next(k, f[k - 1])
    BY <2>1 DEF IsLoop
  <2> HIDE DEF none, next
  <2> DEFINE g == [k \in 0 .. n + 1 |-> IF k \in 0 .. n THEN f[k] ELSE next(n + 1, f[n])]
  <2>3. ASSUME NEW k \in 0 .. n + 1
        PROVE  g[k] = IF k = 0 THEN none ELSE next(k, g[k - 1])
    <3>1. CASE k = n + 1
      <4>1. k - 1 = n /\ n \in 0 .. n /\ k # 0 /\ k \notin 0 .. n
        BY <3>1
      <4> QED BY <3>1, <4>1
    <3>2. CASE k \in 0 .. n
      <4>1. k # 0 => k - 1 \in 0 .. n
        BY <3>2
      <4> QED BY <2>2, <3>2, <4>1
    <3> QED BY <3>1, <3>2
  <2>4. g = [k \in 0 .. n + 1 |-> g[k]]
    OBVIOUS
  <2> HIDE DEF g
  <2>5. IsLoop(g, series, first, n + 1)
    BY <2>3, <2>4 DEF IsLoop, none, next
  <2> QED BY <1>2, <2>5
<1> HIDE DEF S
<1>3. N \in S
  BY <1>1, <1>2, UpTo
<1> QED BY <1>3 DEF S

LEMMA SustainedAreLoop ==
  ASSUME NEW series, NEW first
  PROVE  \E f : /\ IsLoop(f, series, first, Slots)
                /\ FindSustainedHighIntervals(series, first) = f[Slots].intervals
<1> DEFINE run[k \in 0 .. Slots] ==
             IF k = 0 THEN NoRun(<<>>)
             ELSE TakePoint(run[k - 1], first + k - 1, series[first + k - 1])
<1>1. IsLoop(run, series, first, Slots)
  <2>1. \E f : IsLoop(f, series, first, Slots)
    BY ConstantsAreTyped, LoopExists
  <2>2. \E f : f = [k \in 0 .. Slots |->
                     IF k = 0 THEN NoRun(<<>>)
                     ELSE TakePoint(f[k - 1], first + k - 1, series[first + k - 1])]
    BY <2>1 DEF IsLoop
  <2>3. run = [k \in 0 .. Slots |->
                 IF k = 0 THEN NoRun(<<>>)
                 ELSE TakePoint(run[k - 1], first + k - 1, series[first + k - 1])]
    BY <2>2, Zenon
  <2> HIDE DEF run
  <2> QED BY <2>3 DEF IsLoop
<1>2. FindSustainedHighIntervals(series, first) = run[Slots].intervals
  BY DEF FindSustainedHighIntervals
<1> QED BY <1>1, <1>2

LEMMA NothingTaken ==
  ASSUME NEW H, NEW s \in Int
  PROVE  LoopState(H, s, s, NoRun(<<>>))
<1>1. EndsHigh(H, s, s, 0)
  <2>1. s - 0 = s /\ 0 = s - s /\ \A c \in s - 0 .. s - 1 : c \in H
    OBVIOUS
  <2> QED BY <2>1 DEF EndsHigh
<1>2. Emitted(H, s, s, <<>>)
  <2>1. \A a, b : ~IsRun(H, s, s, a, b)
    BY DEF IsRun
  <2>2. <<>> \in Seq(Intervals) /\ Len(<<>>) = 0 /\ \A i : i \notin 1 .. 0
    OBVIOUS
  <2> QED BY <2>1, <2>2 DEF Emitted
<1>3. NoRun(<<>>).length = 0 /\ NoRun(<<>>).intervals = <<>> /\ ~(0 >= Required)
  BY StatisticsAssumption DEF NoRun
<1> QED BY <1>1, <1>2, <1>3 DEF LoopState

HighSlots(w) == {c \in CycleSlots(w) : sample[c] = "high"}

\* What is emitted for a week are the runs of its high slots.
LEMMA WeekEmitted ==
  ASSUME NEW w \in 1 .. Weeks
  PROVE  Emitted(HighSlots(w), Start(w), End(w), SustainedHigh(w))
<1> DEFINE H == HighSlots(w)
           series == Series(w)
<1>1. PICK s \in Int : s = Start(w) /\ End(w) = s + Slots /\ Slots \in Nat
  BY WeekBounds, ConstantsAreTyped
<1>2. PICK f : IsLoop(f, series, s, Slots) /\ SustainedHigh(w) = f[Slots].intervals
  BY <1>1, SustainedAreLoop DEF SustainedHigh
<1>3. \A k \in 0 .. Slots :
        f[k] = IF k = 0 THEN NoRun(<<>>)
               ELSE TakePoint(f[k - 1], s + k - 1, series[s + k - 1])
  BY <1>2 DEF IsLoop
<1>4. \A c \in s .. s + Slots - 1 : (c \in H <=> series[c] = "high")
  BY <1>1 DEF HighSlots, Series, CycleSlots
<1> HIDE DEF H, series
<1> DEFINE S == {k \in 0 .. Slots : LoopState(H, s, s + k, f[k])}
<1>5. 0 \in S
  <2>1. 0 \in 0 .. Slots /\ s + 0 = s /\ f[0] = NoRun(<<>>)
    BY <1>1, <1>3
  <2> QED BY <2>1, NothingTaken
<1>6. ASSUME NEW k \in 0 .. Slots, k \in S, k < Slots PROVE k + 1 \in S
  <2>1. PICK e \in Int : e = s + k
    OBVIOUS
  <2>2. /\ k + 1 \in 0 .. Slots /\ k + 1 # 0 /\ (k + 1) - 1 = k
        /\ s + (k + 1) - 1 = e /\ s + (k + 1) = e + 1
        /\ e \in s .. s + Slots - 1 /\ s <= e
    BY <1>1, <1>6, <2>1
  <2>3. f[k + 1] = TakePoint(f[k], e, series[e])
    BY <1>3, <2>2
  <2>4. LoopState(H, s, e, f[k])
    BY <1>6, <2>1
  <2>5. LoopState(H, s, e + 1, f[k + 1])
    <3>1. CASE e \in H
      <4>1. series[e] = "high"
        BY <1>4, <2>2, <3>1
      <4> QED BY <2>3, <2>4, <3>1, <4>1, HighTaken
    <3>2. CASE e \notin H
      <4>1. series[e] # "high"
        BY <1>4, <2>2, <3>2
      <4>2. f[k + 1] = NoRun(f[k].intervals)
        BY <2>3, <4>1 DEF TakePoint
      <4> QED BY <2>2, <2>4, <3>2, <4>2, LowTaken
    <3> QED BY <3>1, <3>2
  <2> QED BY <2>2, <2>5
<1> HIDE DEF S
<1>7. Slots \in S
  BY <1>1, <1>5, <1>6, UpTo
<1>8. LoopState(H, s, s + Slots, f[Slots])
  BY <1>7 DEF S
<1> QED BY <1>1, <1>2, <1>8 DEF LoopState, H

LEMMA RunsOfWeek ==
  ASSUME NEW w \in 1 .. Weeks, NEW a \in Int, NEW b \in Int
  PROVE  IsRun(HighSlots(w), Start(w), End(w), a, b) <=>
           /\ a \in CycleSlots(w) /\ b \in CycleSlots(w) /\ b - a + 1 >= Required
           /\ Run(w, a, b)
<1>1. PICK s \in Int, e \in Int : s = Start(w) /\ e = End(w)
  BY WeekBounds
<1>2. Required \in Nat /\ Required >= 1
  BY StatisticsAssumption
<1>3. \A c \in Int : c \in HighSlots(w) <=> c \in s .. e - 1 /\ sample[c] = "high"
  BY <1>1 DEF HighSlots, CycleSlots
<1>4. ASSUME IsRun(HighSlots(w), s, e, a, b)
      PROVE  a \in s .. e - 1 /\ b \in s .. e - 1 /\ b - a + 1 >= Required /\ Run(w, a, b)
  <2>1. /\ a \in s .. e - 1 /\ b \in a .. e - 1 /\ b - a + 1 >= Required
        /\ \A c \in a .. b : c \in HighSlots(w)
        /\ a = s \/ a - 1 \notin HighSlots(w)
        /\ b = e - 1 \/ b + 1 \notin HighSlots(w)
    BY <1>4 DEF IsRun
  <2>2. \A c \in a .. b : sample[c] = "high"
    BY <1>3, <2>1
  <2>3. a # s => a - 1 \in Int /\ a - 1 \in s .. e - 1
    BY <2>1
  <2>4. b # e - 1 => b + 1 \in Int /\ b + 1 \in s .. e - 1
    BY <2>1
  <2>5. b \in s .. e - 1
    BY <2>1
  <2> QED BY <1>1, <1>3, <2>1, <2>2, <2>3, <2>4, <2>5 DEF Run
<1>5. ASSUME a \in s .. e - 1, b \in s .. e - 1, b - a + 1 >= Required, Run(w, a, b)
      PROVE  IsRun(HighSlots(w), s, e, a, b)
  <2>1. /\ \A c \in a .. b : sample[c] = "high"
        /\ a = s \/ sample[a - 1] # "high"
        /\ b = e - 1 \/ sample[b + 1] # "high"
    BY <1>1, <1>5 DEF Run
  <2>2. b \in a .. e - 1
    BY <1>2, <1>5
  <2>3. \A c \in a .. b : c \in Int /\ c \in s .. e - 1
    BY <1>5
  <2>4. a - 1 \in Int /\ b + 1 \in Int
    OBVIOUS
  <2> QED BY <1>3, <1>5, <2>1, <2>2, <2>3, <2>4 DEF IsRun
<1> QED BY <1>1, <1>4, <1>5 DEF CycleSlots

\* The intervals of a week are its maximal runs of enough high samples, each once and in
\* their order, whatever the series (sustained.py, find_sustained_high_intervals).
THEOREM SustainedAreMaximal == RetentionSpec => []SustainedIsMaximal
<1>1. SustainedIsMaximal
  <2> SUFFICES ASSUME NEW w \in 1 .. Weeks
               PROVE  LET intervals == SustainedHigh(w)
                      IN /\ Range(intervals)
                              = {Interval(r[1], r[2] + 1, r[2] - r[1] + 1) :
                                   r \in {x \in CycleSlots(w) \X CycleSlots(w) :
                                            /\ x[2] - x[1] + 1 >= Required
                                            /\ Run(w, x[1], x[2])}}
                         /\ \A k \in 1 .. Len(intervals) - 1 :
                              intervals[k].end < intervals[k + 1].start
    BY DEF SustainedIsMaximal
  <2> DEFINE q == SustainedHigh(w)
             runs == {x \in CycleSlots(w) \X CycleSlots(w) :
                        x[2] - x[1] + 1 >= Required /\ Run(w, x[1], x[2])}
             Sustained(a, b) == IsRun(HighSlots(w), Start(w), End(w), a, b)
  <2>1. /\ q \in Seq(Intervals)
        /\ \A i \in 1 .. Len(q) :
             \E a, b \in Int : Sustained(a, b) /\ q[i] = IntervalOf(a, b)
        /\ \A a, b \in Int : Sustained(a, b) => \E i \in 1 .. Len(q) : q[i] = IntervalOf(a, b)
        /\ \A i, j \in 1 .. Len(q) : i < j => q[i].end < q[j].start
    BY WeekEmitted DEF Emitted
  <2>2. \A a, b \in Int :
          Sustained(a, b) <=> /\ a \in CycleSlots(w) /\ b \in CycleSlots(w)
                              /\ b - a + 1 >= Required /\ Run(w, a, b)
    BY RunsOfWeek
  <2>3. \A c \in CycleSlots(w) : c \in Int
    BY DEF CycleSlots
  <2>4. \A a, b \in Int : Sustained(a, b) <=> <<a, b>> \in runs
    BY <2>2
  <2>5. \A x \in runs : x = <<x[1], x[2]>> /\ x[1] \in Int /\ x[2] \in Int
    BY <2>3
  <2>6. Range(q) = {q[i] : i \in 1 .. Len(q)} /\ Len(q) \in Nat
    BY <2>1 DEF Range
  <2> HIDE DEF q, runs, Sustained
  <2>7. Range(q) = {IntervalOf(r[1], r[2]) : r \in runs}
    <3>1. ASSUME NEW i \in 1 .. Len(q)
          PROVE  \E r \in runs : q[i] = IntervalOf(r[1], r[2])
      <4>1. PICK a \in Int, b \in Int : Sustained(a, b) /\ q[i] = IntervalOf(a, b)
        BY <2>1
      <4>2. <<a, b>> \in runs /\ <<a, b>>[1] = a /\ <<a, b>>[2] = b
        BY <2>4, <4>1
      <4> QED BY <4>1, <4>2
    <3>2. ASSUME NEW r \in runs
          PROVE  \E i \in 1 .. Len(q) : q[i] = IntervalOf(r[1], r[2])
      BY <2>1, <2>4, <2>5
    <3> QED BY <2>6, <3>1, <3>2
  <2>8. \A k \in 1 .. Len(q) - 1 : q[k].end < q[k + 1].start
    <3>1. \A k \in 1 .. Len(q) - 1 : k \in 1 .. Len(q) /\ k + 1 \in 1 .. Len(q) /\ k < k + 1
      BY <2>6
    <3> QED BY <2>1, <3>1
  <2> QED BY <2>7, <2>8 DEF q, runs, IntervalOf
<1> QED BY <1>1, PTL

================================================================================
