------------------------------- MODULE Retention -------------------------------
(***************************************************************************)
(* The 90-day retention (monitoring/retention.py and its thread in         *)
(* worker.py) beside the polls that write the raw tables and the reports   *)
(* that read them: what WeeklyStatistics says of a week while, and after,  *)
(* its raw data is deleted in batches, each a transaction of its own.      *)
(*                                                                         *)
(* Instants are half cycles: 2 * c is the boundary of cycle c, 2 * c + 1   *)
(* the collected_at of its poll, which is read when the poll starts. A     *)
(* poll that gets data leaves a run, a device metric and one interface     *)
(* metric; one that does not leaves a run alone.                           *)
(***************************************************************************)
EXTENDS WeeklyStatistics, FiniteSetsExt

CONSTANTS
  Kept,       \* retention_days, in cycles
  Batch,      \* batch_size
  LastPoll    \* bound: the last cycle whose poll starts, time runs on to MaxCycle

ASSUME RetentionAssumption ==
  /\ Kept \in Nat \ {0}
  /\ Kept > Delay         \* no poll is in flight for ninety days
  /\ Batch \in Nat \ {0}
  /\ LastPoll \in 0 .. MaxCycle
  /\ LastPoll > Lead + Slots * Weeks

VARIABLES
  found,      \* history: what the poll of each cycle found, whatever became of its rows
  metrics,    \* cycles with an interface_metrics row, and with a device_metrics row
  pass        \* run_retention: the table it is at and its cutoff

retentionVars == <<now, polling, sample, tracking, incidents, found, metrics, pass>>

Idle == [table |-> "none", cutoff |-> 0]

\* (The definitions named *_Faulty are deliberate mistakes that no specification uses.)
\* The runs are taken before the device metrics.
Following_Faulty == [interface |-> "runs", runs |-> "none", device |-> "none"]

\* The order in which a pass takes the tables.
Following == [interface |-> "device", device |-> "runs", runs |-> "none"]

Instants == 0 .. 2 * MaxCycle + 2

RetentionTypeOK ==
  /\ TypeOK
  /\ found \in [Cycles -> Samples]
  /\ metrics \in [interface: SUBSET Cycles, device: SUBSET Cycles]
  /\ pass \in {Idle} \union [table: DOMAIN Following, cutoff: Instants]

RetentionInit ==
  /\ Init
  /\ found = sample
  /\ metrics = [interface |-> {}, device |-> {}]
  /\ pass = Idle

Runs == {c \in Cycles : sample[c] # "none"}

Rows(table) == IF table = "runs" THEN Runs ELSE metrics[table]

Instant(table, c) == IF table = "runs" THEN 2 * c ELSE 2 * c + 1

\* A row exactly as old as the retention goes too.
Expired_Faulty(table, cutoff) == {c \in Rows(table) : Instant(table, c) <= cutoff}
Expired(table, cutoff) == {c \in Rows(table) : Instant(table, c) < cutoff}

------------------------------------------------------------------------------

TimePasses(starts) ==
  /\ starts => now < LastPoll
  /\ NextCycle(starts)
  /\ UNCHANGED <<found, metrics, pass>>

PollAndStore(result) ==
  /\ Poll(result)
  /\ found' = [found EXCEPT ![polling] = result]
  /\ metrics' = [t \in DOMAIN metrics |->
                   IF result \in {"high", "low"} THEN metrics[t] \union {polling}
                   ELSE metrics[t]]
  /\ UNCHANGED pass

PollLost == PollFails /\ UNCHANGED <<found, metrics, pass>>

\* The clock is read once. A pass that would find nothing changes nothing and is left out.
BeginPass ==
  /\ pass = Idle
  /\ \E half \in 1 .. 2 :
       LET cutoff == 2 * (now - Kept) + half
       IN /\ \E table \in DOMAIN Following : Expired(table, cutoff) # {}
          /\ pass' = [table |-> "interface", cutoff |-> cutoff]
  /\ UNCHANGED <<now, polling, sample, tracking, incidents, found, metrics>>

\* Without a device metric the series has no value for the cycle; with the run go the
\* metrics that reference it.
Deleted(batch) ==
  IF pass.table = "runs"
  THEN /\ sample' = [c \in Cycles |-> IF c \in batch THEN "none" ELSE sample[c]]
       /\ metrics' = [t \in DOMAIN metrics |-> metrics[t] \ batch]
  ELSE /\ sample' = [c \in Cycles |-> IF pass.table = "device" /\ c \in batch
                                         /\ sample[c] = "high"
                                      THEN "low" ELSE sample[c]]
       /\ metrics' = [metrics EXCEPT ![pass.table] = @ \ batch]

\* _delete_batch: any batch_size of the expired rows, there is no ORDER BY.
DeleteBatch ==
  LET expired == Expired(pass.table, pass.cutoff)
      size == IF Cardinality(expired) < Batch THEN Cardinality(expired) ELSE Batch
  IN /\ pass # Idle /\ expired # {}
     /\ \E batch \in kSubset(size, expired) : Deleted(batch)
     /\ UNCHANGED <<now, polling, tracking, incidents, found, pass>>

\* An empty batch ends the table; after the last one the thread waits for its interval.
NextTable ==
  /\ pass # Idle /\ Expired(pass.table, pass.cutoff) = {}
  /\ pass' = IF pass.table = "runs" THEN Idle ELSE [pass EXCEPT !.table = Following[@]]
  /\ UNCHANGED <<now, polling, sample, tracking, incidents, found, metrics>>

\* The database fails, or the worker dies: the next pass starts from the tables again.
PassEnds ==
  /\ pass # Idle
  /\ pass' = Idle
  /\ UNCHANGED <<now, polling, sample, tracking, incidents, found, metrics>>

RetentionNext ==
  \/ \E starts \in BOOLEAN : TimePasses(starts)
  \/ \E result \in Samples \ {"none"} : PollAndStore(result)
  \/ PollLost
  \/ BeginPass \/ DeleteBatch \/ NextTable \/ PassEnds

RetentionSpec == RetentionInit /\ [][RetentionNext]_retentionVars

------------------------------------------------------------------------------
(* Properties. *)

\* SYSTEM_SPEC 19 and 24, read off what the polls that landed found: at the end of the week
\* the device is confirmed Down if two adjacent dead cycles began before it and no two
\* adjacent reachable ones after them began before it. The cycle that begins at the end
\* decides the pair that straddles it.
Dead(c) == found[c] = "dead"
Reached(c) == found[c] \in {"ssh", "high", "low"}

DownAtEnd(w) ==
  \E f \in 1 .. End(w) - 1 :
    /\ Dead(f) /\ Dead(f + 1)
    /\ \A r \in f + 1 .. End(w) - 1 : ~(Reached(r) /\ Reached(r + 1))

\* A report of a completed week is abnormal exactly if, by the polls that have landed, the
\* device was Down when the week ended, however late it is made, also when the raw data
\* that showed it is gone (service.py:245-275, retention.py:14-17).
AbnormalIffDownAtEnd ==
  \A w \in 1 .. Weeks :
    IsComplete(w) => (OverallStatus(w) = "abnormal" <=> DownAtEnd(w))

\* No poll of the week, or of the cycle that begins at its end, is in flight.
IsSettled(w) == IsComplete(w) /\ (polling # 0 => polling > End(w))

IsKept(w) == 2 * (now - Kept) + 2 <= 2 * Start(w)

\* From that moment, and while the week is within the retention, a report of it says the
\* same whenever it is made again, whatever later polls find and wherever a pass stops: the
\* episodes with their instants, the intervals, the coverage and the status. The only thing
\* a later report adds is the recovery of an episode that was ongoing at the end, once, and
\* that instant stays (SYSTEM_SPEC 4.4, 24, incidents.py:12-17). A report made before may
\* change: a poll of the week can land at any time after its end (scheduler.py:112-130).
KeptWeekIsSettled ==
  [][sample' # sample \/ incidents' # incidents =>
       \A w \in 1 .. Weeks :
         IsSettled(w) /\ IsKept(w) =>
           /\ Summary(w)' = Summary(w)
           /\ \A i \in WeeklyIncidents(w) : i.recovered_at # 0 => i \in incidents']_retentionVars

\* Deleting runs cascades to no metric the pass should have deleted itself: only what was
\* collected between the cutoff's own cycle boundary and the cutoff is left to go with its
\* run, so the transactions stay short (retention.py:9-12).
CascadeIsSmall ==
  [][pass.table = "runs" =>
       \A t \in DOMAIN metrics :
         Expired(t, pass.cutoff) \intersect (metrics[t] \ metrics'[t]) = {}]_retentionVars

================================================================================
