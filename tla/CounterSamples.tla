----------------------------- MODULE CounterSamples -----------------------------
(***************************************************************************)
(* The cumulative counters of one interface: what the device counts, the   *)
(* samples the poll stores, the utilization computed against the latest    *)
(* stored sample (monitoring/utilization.py, the baseline half of          *)
(* monitoring/pipeline.py) and the weekly increment of a counter           *)
(* (reporting/counters_coverage.py).                                       *)
(*                                                                         *)
(* One direction and one counter stand for all of them: each is computed   *)
(* from its own columns. Traffic is counted in units, time in ticks, and a *)
(* speed in units per tick, so utilization is at most 100 percent when     *)
(* delta <= elapsed * speed. Null stands for NULL.                         *)
(***************************************************************************)
EXTENDS Integers, Sequences

CONSTANTS
  Width,         \* the counter wraps to 0 here: 2^64, or 2^32 on old devices
  Speeds,        \* effective speeds an interface may have
  MaxInterval,   \* MAX_SAMPLE_INTERVAL_SECONDS
  MaxTime,       \* ticks of a behaviour
  MaxRows,       \* samples stored
  MaxUpsets      \* counter resets and speed changes that happen

ASSUME CountersAssumption ==
  /\ Width \in Nat
  /\ Speeds \subseteq 1 .. Width - 1
  /\ MaxInterval \in Nat
  /\ MaxTime \in Nat
  /\ MaxRows \in Nat
  /\ MaxUpsets \in Nat

Null == -1
NoPoll == -1

VARIABLES
  now,      \* the wall clock
  counter,  \* what the device would answer
  speed,    \* the interface's effective speed
  poll,     \* collected_at of the poll in progress
  rows,     \* interface_metrics, oldest first
  upsets,   \* resets and speed changes so far
  total,    \* history: all traffic so far
  life,     \* history: how often the counter started again from below
  truth     \* history: for each row, what was true when the device answered

device == <<counter, speed, upsets, total, life>>
store == <<rows, truth>>
vars == <<now, counter, speed, poll, rows, upsets, total, life, truth>>

\* A stored row: octets and speed as reported, and the utilization as its delta (Null
\* when it was rebaselined) over its elapsed time.
Rows == [at: Nat, octets: Nat \union {Null}, speed: Nat \union {Null},
         delta: Nat \union {Null}, elapsed: Nat \union {Null}]

Truths == [total: Nat, life: Nat, upsets: Nat, read_at: Nat]

TypeOK ==
  /\ now \in Nat
  /\ counter \in 0 .. Width - 1
  /\ speed \in Speeds
  /\ poll \in Nat \union {NoPoll}
  /\ rows \in Seq(Rows)
  /\ upsets \in 0 .. MaxUpsets
  /\ total \in Nat
  /\ life \in Nat
  /\ truth \in Seq(Truths)
  /\ Len(truth) = Len(rows)

Init ==
  /\ now = 0
  /\ counter = 0
  /\ speed \in Speeds
  /\ poll = NoPoll
  /\ rows = <<>> /\ truth = <<>>
  /\ upsets = 0 /\ total = 0 /\ life = 0

------------------------------------------------------------------------------
(* The device. *)

Carry(n) ==
  /\ now < MaxTime
  /\ n <= speed
  /\ now' = now + 1
  /\ total' = total + n
  /\ counter' = IF counter + n < Width THEN counter + n ELSE counter + n - Width
  /\ life' = IF counter + n < Width THEN life ELSE life + 1
  /\ UNCHANGED <<speed, upsets, poll, store>>

\* A reboot or a "reset counters" on the device.
ResetCounter ==
  /\ upsets < MaxUpsets
  /\ upsets' = upsets + 1
  /\ counter' = 0
  /\ life' = life + 1
  /\ UNCHANGED <<now, speed, poll, store, total>>

ChangeSpeed(s) ==
  /\ upsets < MaxUpsets
  /\ s # speed
  /\ upsets' = upsets + 1
  /\ speed' = s
  /\ UNCHANGED <<now, counter, poll, store, total, life>>

------------------------------------------------------------------------------
(* utilization.py: the result for one sample. *)

Rebaselined == [delta |-> Null, elapsed |-> Null]

\* (The definitions named *_Faulty and *_Wrapped are deliberate mistakes that no
\* specification uses.) A counter that went back gives a negative rate.
DirectionDelta_Faulty(prev_octets, octets, elapsed, s) ==
  IF prev_octets = Null \/ octets = Null \/ octets - prev_octets > elapsed * s
  THEN Null
  ELSE octets - prev_octets

\* A counter that went back is taken to have wrapped.
DirectionDelta_Wrapped(prev_octets, octets, elapsed, s) ==
  LET delta == IF octets >= prev_octets THEN octets - prev_octets
               ELSE octets - prev_octets + Width
  IN IF prev_octets = Null \/ octets = Null \/ delta > elapsed * s THEN Null ELSE delta

DirectionDelta(prev_octets, octets, elapsed, s) ==
  IF prev_octets = Null \/ octets = Null \/ octets < prev_octets
  THEN Null
  ELSE IF octets - prev_octets > elapsed * s THEN Null ELSE octets - prev_octets

\* A gap of exactly the longest interval is taken for a stale one.
ComputeUtilization_Faulty(prev, at, octets, s) ==
  IF s = Null \/ s <= 0 \/ prev.speed # s
     \/ at - prev.at <= 0 \/ at - prev.at >= MaxInterval
  THEN Rebaselined
  ELSE [delta |-> DirectionDelta(prev.octets, octets, at - prev.at, s),
        elapsed |-> at - prev.at]

ComputeUtilization(prev, at, octets, s) ==
  IF s = Null \/ s <= 0 \/ prev.speed # s
     \/ at - prev.at <= 0 \/ at - prev.at > MaxInterval
  THEN Rebaselined
  ELSE [delta |-> DirectionDelta(prev.octets, octets, at - prev.at, s),
        elapsed |-> at - prev.at]

------------------------------------------------------------------------------
(* The poll: collected_at is read first, the device answers some time later, and *)
(* the row is stored against the latest one.                                     *)

BeginPoll ==
  /\ poll = NoPoll
  /\ Len(rows) < MaxRows
  /\ rows # <<>> => now > rows[Len(rows)].at
  /\ poll' = now
  /\ UNCHANGED <<now, device, store>>

\* The section fails, the cycle is persisted already, the transaction fails.
PollWithoutSample ==
  /\ poll # NoPoll
  /\ poll' = NoPoll
  /\ UNCHANGED <<now, device, store>>

\* The device may leave out the counter or the speed.
PersistSample(octets, s) ==
  LET result == IF rows = <<>>
                THEN Rebaselined
                ELSE ComputeUtilization(rows[Len(rows)], poll, octets, s)
  IN /\ poll # NoPoll
     /\ octets \in {counter, Null}
     /\ s \in {speed, Null}
     /\ rows' = Append(rows, [at |-> poll, octets |-> octets, speed |-> s,
                              delta |-> result.delta, elapsed |-> result.elapsed])
     /\ truth' = Append(truth, [total |-> total, life |-> life, upsets |-> upsets,
                                read_at |-> now])
     /\ poll' = NoPoll
     /\ UNCHANGED <<now, device>>

Next ==
  \/ \E n \in 0 .. speed : Carry(n)
  \/ ResetCounter
  \/ \E s \in Speeds : ChangeSpeed(s)
  \/ BeginPoll
  \/ PollWithoutSample
  \/ \E octets \in {counter, Null}, s \in {speed, Null} : PersistSample(octets, s)

Spec == Init /\ [][Next]_vars

------------------------------------------------------------------------------
(* counters_coverage.py: the increment of the rows k .. m of a week. *)

\* A sample whose predecessor has no value counts from zero.
ForwardIncrement_Faulty(k) ==
  LET prev == IF rows[k - 1].octets = Null THEN 0 ELSE rows[k - 1].octets
  IN IF rows[k].octets # Null /\ rows[k].octets >= prev THEN rows[k].octets - prev ELSE 0

ForwardIncrement(k) ==
  IF /\ rows[k].octets # Null
     /\ rows[k - 1].octets # Null
     /\ rows[k].octets >= rows[k - 1].octets
  THEN rows[k].octets - rows[k - 1].octets
  ELSE 0

WeeklyDelta(k, m) ==
  LET sum[i \in k .. m] == IF i = k THEN 0 ELSE sum[i - 1] + ForwardIncrement(i)
  IN sum[m]

------------------------------------------------------------------------------
(* Properties. *)

Sampled == 2 .. Len(rows)
Traffic(k) == truth[k].total - truth[k - 1].total

\* Whatever resets, wraps, changes of speed, missing values and gaps there were, no
\* stored utilization claims more traffic than the interface carried between the two
\* answers of the device: "never fabricate a spike" (utilization.py:73).
NoFabricatedTraffic ==
  \A k \in Sampled : rows[k].delta # Null => rows[k].delta <= Traffic(k)

\* The weekly increment of a counter is at most what the device really counted: "a fake
\* huge increment is impossible" (counters_coverage.py:4-9).
WeeklyDeltaIsReal ==
  \A k \in 1 .. Len(rows) : \A m \in k .. Len(rows) :
    WeeklyDelta(k, m) <= truth[m].total - truth[k].total

\* An interval with no reset, wrap or change, between two complete samples.
Undisturbed(k) ==
  /\ truth[k].life = truth[k - 1].life
  /\ truth[k].upsets = truth[k - 1].upsets
  /\ Null \notin {rows[k].octets, rows[k - 1].octets, rows[k].speed, rows[k - 1].speed}
  /\ rows[k].at - rows[k - 1].at <= MaxInterval

Delay(k) == truth[k].read_at - rows[k].at

\* An undisturbed interval is measured, exactly, if the device took no longer to answer
\* the later poll than the earlier one. Otherwise a busy interface may come out above
\* 100% and is dropped as "physically impossible" (utilization.py:77), though nothing is
\* broken: collected_at is read before the counters are (poll.py:154).
UndisturbedIsExact ==
  \A k \in Sampled :
    Undisturbed(k) /\ Delay(k) <= Delay(k - 1) => rows[k].delta = Traffic(k)

================================================================================
