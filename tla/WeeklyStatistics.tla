--------------------------- MODULE WeeklyStatistics ---------------------------
(***************************************************************************)
(* What a weekly report says of one device, as its poll cycles pass: the   *)
(* Down episodes of the week (reporting/incidents.py), its sustained-high  *)
(* intervals (monitoring/sustained.py, thresholds.py), its coverage        *)
(* (reporting/counters_coverage.py) and the overall status that follows    *)
(* (reporting/service.py). Each operator reads the tables as they are at   *)
(* the moment of the read, so a report made again may say something else;  *)
(* Retention composes it with what deletes the raw tables.                 *)
(*                                                                         *)
(* Instants are five-minute boundaries. A cycle leaves nothing to go by    *)
(* ("none": no poll run, or one that was not attempted), finds the device  *)
(* "dead", learns only that it answers to SSH ("ssh": reachable, and a     *)
(* FAILED run), or has data of it, with a CPU value at the threshold or    *)
(* above ("high"), or one below it or none at all ("low").                 *)
(*                                                                         *)
(* A poll may outlive cycles, which are skipped meanwhile, and land after  *)
(* its week is over and reported.                                          *)
(***************************************************************************)
EXTENDS Reachability, Sequences, FiniteSets, SequencesExt

CONSTANTS
  Slots,      \* cycles in a week: 2016
  Weeks,      \* weeks that are reported
  Lead,       \* cycles before the first of them
  MaxCycle,   \* the last cycle of a behaviour
  Required,   \* sustained_high_required_samples
  Delay       \* bound: the boundaries that may pass while a poll is in flight

ASSUME StatisticsAssumption ==
  /\ Slots \in Nat \ {0}
  /\ Weeks \in Nat \ {0}
  /\ Required \in Nat \ {0}
  /\ Lead \in Nat
  /\ Delay \in Nat
  /\ MaxCycle \in Nat
  /\ MaxCycle > Lead + Slots * Weeks    \* the pair at the last week's end is decided

VARIABLES
  now,        \* the latest boundary reached
  polling,    \* the cycle whose poll is in flight, or 0
  sample,     \* what each cycle left behind
  tracking,   \* device_monitoring_states
  incidents   \* device_reachability_incidents

Cycles == 1 .. MaxCycle

Samples == {"none", "dead", "ssh", "high", "low"}

TypeOK ==
  /\ now \in 0 .. MaxCycle
  /\ polling \in 0 .. MaxCycle
  /\ sample \in [Cycles -> Samples]
  /\ tracking \in [state: {"normal", "down"}, last: 0 .. MaxCycle, failed: 0 .. 2,
                   reachable: 0 .. 1, failed_run: 0 .. MaxCycle, reachable_run: 0 .. MaxCycle]
  /\ incidents \in SUBSET [started_at: Cycles, recovered_at: 0 .. MaxCycle]

Init ==
  /\ now = 0
  /\ polling = 0
  /\ sample = [c \in Cycles |-> "none"]
  /\ tracking = Fresh
  /\ incidents = {}

Open == {i \in incidents : i.recovered_at = 0}

Recorded(decision) ==
  CASE decision.incident_started_at # 0 /\ Open = {} ->
         incidents \union {[started_at |-> decision.incident_started_at, recovered_at |-> 0]}
    [] decision.incident_recovered_at # 0 ->
         (incidents \ Open) \union
           {[i EXCEPT !.recovered_at = decision.incident_recovered_at] : i \in Open}
    [] OTHER -> incidents

\* The next boundary. Its poll starts only if the last one is no longer in flight; it does
\* not if the device is disabled, has no credentials, or the worker is down.
NextCycle(starts) ==
  /\ now < MaxCycle
  /\ starts => polling = 0
  /\ polling # 0 => now + 1 - polling <= Delay
  /\ now' = now + 1
  /\ polling' = IF starts THEN now + 1 ELSE polling
  /\ UNCHANGED <<sample, tracking, incidents>>

\* The poll in flight lands: its run, the machine and the incident in one transaction.
Poll(found) ==
  LET decision == AdvanceCycleState(tracking, polling, found # "dead")
  IN /\ polling # 0
     /\ polling' = 0
     /\ sample' = [sample EXCEPT ![polling] = found]
     /\ tracking' = decision.tracking
     /\ incidents' = Recorded(decision)
     /\ UNCHANGED now

\* Its transaction fails, or the worker dies.
PollFails ==
  /\ polling # 0
  /\ polling' = 0
  /\ UNCHANGED <<now, sample, tracking, incidents>>

------------------------------------------------------------------------------
(* period.py: the half-open week [start, end). *)

Start(w) == Lead + Slots * (w - 1) + 1
End(w) == Start(w) + Slots

IsComplete(w) == End(w) <= now

\* thresholds.py, cycle_slots: the boundaries of the week, all aligned.
CycleSlots(w) == Start(w) .. End(w) - 1

------------------------------------------------------------------------------
(* sustained.py: find_sustained_high_intervals, its loop over the series as a    *)
(* recursive function. A state is the run so far and the intervals emitted.      *)

Interval(start, end, count) == [start |-> start, end |-> end, sample_count |-> count]

NoRun(intervals) == [start |-> 0, length |-> 0, intervals |-> intervals]

\* (The definitions named *_Faulty are deliberate mistakes that no specification uses.)
\* A missing sample is passed over instead of breaking the run.
TakePoint_Faulty(run, t, value) ==
  CASE value = "none" -> run
    [] value # "high" -> NoRun(run.intervals)
    [] OTHER ->
         LET length == run.length + 1
             start == IF run.length = 0 THEN t ELSE run.start
             grown == Interval(start, t + 1, length)
         IN [start |-> start, length |-> length,
             intervals |-> CASE length < Required -> run.intervals
                             [] length = Required -> Append(run.intervals, grown)
                             [] OTHER -> Append(Front(run.intervals), grown)]

TakePoint(run, t, value) ==
  IF value # "high"
  THEN NoRun(run.intervals)
  ELSE LET length == run.length + 1
           start == IF run.length = 0 THEN t ELSE run.start
           grown == Interval(start, t + 1, length)
       IN [start |-> start, length |-> length,
           intervals |-> CASE length < Required -> run.intervals
                           [] length = Required -> Append(run.intervals, grown)
                           [] OTHER -> Append(Front(run.intervals), grown)]

FindSustainedHighIntervals(series, first) ==
  LET run[k \in 0 .. Slots] ==
        IF k = 0 THEN NoRun(<<>>)
        ELSE TakePoint(run[k - 1], first + k - 1, series[first + k - 1])
  IN run[Slots].intervals

\* The week's series is full length: every slot without a row counts as missing.
Series(w) == [c \in CycleSlots(w) |-> sample[c]]

SustainedHigh(w) == FindSustainedHighIntervals(Series(w), Start(w))

------------------------------------------------------------------------------
(* incidents.py: the episodes of a week. *)

\* WHERE started_at < end AND (recovered_at IS NULL OR recovered_at > start)
WeeklyIncidents(w) ==
  {i \in incidents : /\ i.started_at < End(w)
                     /\ i.recovered_at = 0 \/ i.recovered_at > Start(w)}

OngoingAtPeriodEnd(i, w) == i.recovered_at = 0 \/ i.recovered_at >= End(w)

------------------------------------------------------------------------------
(* counters_coverage.py and service.py. *)

Covered(w) == Cardinality({c \in CycleSlots(w) : sample[c] \in {"high", "low"}})

BelowTarget(w) == Covered(w) * 100 < 95 * Slots

\* Whatever is still open when the report is made counts as down at the week's end.
OverallStatus_Faulty(w) ==
  IF Open # {}
  THEN "abnormal"
  ELSE IF WeeklyIncidents(w) # {} \/ SustainedHigh(w) # <<>> \/ BelowTarget(w)
       THEN "attention"
       ELSE "normal"

OverallStatus(w) ==
  IF \E i \in WeeklyIncidents(w) : OngoingAtPeriodEnd(i, w)
  THEN "abnormal"
  ELSE IF WeeklyIncidents(w) # {} \/ SustainedHigh(w) # <<>> \/ BelowTarget(w)
       THEN "attention"
       ELSE "normal"

------------------------------------------------------------------------------
(* Properties. *)

\* The intervals of a week are its maximal runs of at least Required consecutive high
\* samples, in order, each ending with its last sample's slot: no gap is bridged, no run
\* is emitted twice or cut short, and its length is its duration (sustained.py:13-22).
Run(w, a, b) ==
  /\ \A c \in a .. b : sample[c] = "high"
  /\ a = Start(w) \/ sample[a - 1] # "high"
  /\ b = End(w) - 1 \/ sample[b + 1] # "high"

SustainedIsMaximal ==
  \A w \in 1 .. Weeks :
    LET intervals == SustainedHigh(w)
    IN /\ Range(intervals) = {Interval(r[1], r[2] + 1, r[2] - r[1] + 1) :
                               r \in {x \in CycleSlots(w) \X CycleSlots(w) :
                                        x[2] - x[1] + 1 >= Required /\ Run(w, x[1], x[2])}}
       /\ \A k \in 1 .. Len(intervals) - 1 : intervals[k].end < intervals[k + 1].start

\* What a report of the week says: its episodes with their instants, its intervals, its
\* coverage and its status. A recovery after the end is read as not recovered by then.
AsOfEnd(i, w) == IF OngoingAtPeriodEnd(i, w) THEN [i EXCEPT !.recovered_at = 0] ELSE i

Summary(w) ==
  [episodes |-> {AsOfEnd(i, w) : i \in WeeklyIncidents(w)}, sustained |-> SustainedHigh(w),
   covered |-> Covered(w), status |-> OverallStatus(w)]

================================================================================
