------------------------- MODULE CounterSamples_proofs -------------------------
(***************************************************************************)
(* Proofs about CounterSamples, for every counter width, every set of      *)
(* speeds and any number of polls, resets and samples.                     *)
(*                                                                         *)
(* The argument: since any stored sample, the device's counter has risen   *)
(* by no more than was carried (CounterBehindTraffic), whatever it did in  *)
(* between; a new sample therefore exceeds the one before it by no more    *)
(* than the traffic between the two answers (RisesAreReal), and a stored   *)
(* utilization is such a rise or nothing (DeltaIsRise). While nothing      *)
(* disturbs it the counter has risen by exactly what was carried           *)
(* (Measured); and what holds of each increment of a week holds of their   *)
(* sum, by induction over the rows (WeeklyDeltaReal).                      *)
(***************************************************************************)
EXTENDS CounterSamples, SequenceTheorems, WellFoundedInduction, TLAPS

CounterBehindTraffic ==
  \A k \in 1 .. Len(rows) :
    /\ truth[k].total <= total
    /\ rows[k].octets # Null => counter - rows[k].octets <= total - truth[k].total

RisesAreReal ==
  \A k \in Sampled :
    /\ Traffic(k) >= 0
    /\ rows[k].octets # Null /\ rows[k - 1].octets # Null
         => rows[k].octets - rows[k - 1].octets <= Traffic(k)

DeltaIsRise ==
  \A k \in Sampled :
    rows[k].delta # Null =>
      /\ rows[k].octets # Null /\ rows[k - 1].octets # Null
      /\ rows[k].delta = rows[k].octets - rows[k - 1].octets

Inv == TypeOK /\ CounterBehindTraffic /\ RisesAreReal /\ DeltaIsRise

\* What compute_utilization stores is nothing, or the rise over a positive time.
IsResult(result, prev_octets, octets) ==
  /\ result.delta \in Nat \union {Null}
  /\ result.elapsed \in Nat \union {Null}
  /\ result.delta # Null =>
       /\ octets # Null /\ prev_octets # Null
       /\ result.delta = octets - prev_octets

LEMMA ComputedResult ==
  ASSUME NEW prev \in Rows, NEW at \in Nat, NEW octets \in Nat \union {Null},
         NEW s \in Nat \union {Null}
  PROVE  IsResult(ComputeUtilization(prev, at, octets, s), prev.octets, octets)
PROOF
  <1>1. CASE s = Null \/ s <= 0 \/ prev.speed # s
             \/ at - prev.at <= 0 \/ at - prev.at > MaxInterval
    BY <1>1 DEF ComputeUtilization, Rebaselined, IsResult, Null
  <1>2. CASE ~(s = Null \/ s <= 0 \/ prev.speed # s
               \/ at - prev.at <= 0 \/ at - prev.at > MaxInterval)
    <2>1. ComputeUtilization(prev, at, octets, s)
            = [delta |-> DirectionDelta(prev.octets, octets, at - prev.at, s),
               elapsed |-> at - prev.at]
      BY <1>2 DEF ComputeUtilization
    <2>2. at - prev.at \in Nat
      BY <1>2 DEF Rows
    <2>3. prev.octets \in Nat \union {Null}
      BY DEF Rows
    <2>4. /\ DirectionDelta(prev.octets, octets, at - prev.at, s) \in Nat \union {Null}
          /\ DirectionDelta(prev.octets, octets, at - prev.at, s) # Null =>
               /\ octets # Null /\ prev.octets # Null
               /\ DirectionDelta(prev.octets, octets, at - prev.at, s)
                    = octets - prev.octets
      BY <2>2, <2>3 DEF DirectionDelta, Null
    <2> QED BY <2>1, <2>2, <2>4 DEF IsResult
  <1> QED BY <1>1, <1>2

LEMMA InitInv == Init => Inv
PROOF
  <1> SUFFICES ASSUME Init PROVE Inv
    OBVIOUS
  <1>1. TypeOK
    BY CountersAssumption DEF Init, TypeOK, NoPoll, Rows, Truths
  <1>2. Len(rows) = 0
    BY DEF Init
  <1>3. CounterBehindTraffic /\ RisesAreReal /\ DeltaIsRise
    BY <1>2 DEF CounterBehindTraffic, RisesAreReal, DeltaIsRise, Sampled
  <1> QED BY <1>1, <1>3 DEF Inv

\* What the type invariant says of one stored sample.
LEMMA StoredSample ==
  ASSUME TypeOK, NEW k \in 1 .. Len(rows)
  PROVE  rows[k].octets \in Nat \union {Null} /\ truth[k].total \in Nat
PROOF
  <1>1. rows[k] \in Rows /\ truth[k] \in Truths
    BY DEF TypeOK
  <1> QED BY <1>1 DEF Rows, Truths

\* A step that stores nothing keeps what is said of the stored samples alone.
LEMMA StoreUnchanged ==
  ASSUME Inv, UNCHANGED store
  PROVE  RisesAreReal' /\ DeltaIsRise'
PROOF
  BY DEF Inv, store, RisesAreReal, DeltaIsRise, Sampled, Traffic

\* A counter that rises by at most what is carried stays behind the traffic.
LEMMA RiseBounded ==
  \A c, c1, o, u, u1, t, n \in Nat :
    c - o <= u - t /\ c1 <= c + n /\ u1 = u + n => c1 - o <= u1 - t
PROOF OBVIOUS

LEMMA CarryKeeps ==
  ASSUME Inv, NEW n \in Nat, Carry(n)
  PROVE  Inv'
PROOF
  <1> USE DEF Inv
  <1>1. UNCHANGED <<rows, truth, speed, upsets, poll>>
    BY DEF Carry, store
  <1>2. n < Width /\ Width \in Nat
    BY CountersAssumption DEF Carry, TypeOK
  <1>3. /\ counter' \in 0 .. Width - 1
        /\ counter' <= counter + n
        /\ total' = total + n
        /\ now' \in Nat /\ life' \in Nat
    BY <1>2 DEF Carry, TypeOK
  <1>4. TypeOK'
    BY <1>1, <1>3 DEF TypeOK
  <1>5. CounterBehindTraffic'
    <2> SUFFICES ASSUME NEW k \in 1 .. Len(rows)
                 PROVE  /\ truth[k].total <= total'
                        /\ rows[k].octets # Null =>
                             counter' - rows[k].octets <= total' - truth[k].total
      BY <1>1 DEF CounterBehindTraffic, Null
    <2>1. rows[k].octets \in Nat \union {Null} /\ truth[k].total \in Nat
      BY StoredSample
    <2>2. counter \in Nat /\ total \in Nat /\ counter' \in Nat /\ total' \in Nat
      BY <1>2, <1>3 DEF TypeOK
    <2>3. /\ truth[k].total <= total
          /\ rows[k].octets # Null =>
               counter - rows[k].octets <= total - truth[k].total
      BY DEF CounterBehindTraffic
    <2>4. counter' <= counter + n /\ total' = total + n
      BY <1>3
    <2>5. truth[k].total <= total'
      BY ONLY <2>1, <2>2, <2>3, <2>4, n \in Nat
    <2>6. ASSUME rows[k].octets # Null
          PROVE  counter' - rows[k].octets <= total' - truth[k].total
      <3>1. rows[k].octets \in Nat /\ truth[k].total \in Nat
        BY <2>1, <2>6
      <3>2. counter - rows[k].octets <= total - truth[k].total
        BY <2>3, <2>6
      <3> QED BY ONLY <3>1, <3>2, <2>2, <2>4, n \in Nat, RiseBounded
    <2> QED BY <2>5, <2>6
  <1> QED BY <1>1, <1>4, <1>5, StoreUnchanged DEF store

LEMMA ResetKeeps ==
  ASSUME Inv, ResetCounter
  PROVE  Inv'
PROOF
  <1> USE DEF Inv
  <1>1. UNCHANGED <<rows, truth, now, speed, poll, total>> /\ counter' = 0
    BY DEF ResetCounter, store
  <1>2. TypeOK'
    BY <1>1, CountersAssumption DEF ResetCounter, TypeOK
  <1>3. CounterBehindTraffic'
    <2> SUFFICES ASSUME NEW k \in 1 .. Len(rows)
                 PROVE  /\ truth[k].total <= total
                        /\ rows[k].octets # Null =>
                             0 - rows[k].octets <= total - truth[k].total
      BY <1>1 DEF CounterBehindTraffic, Null
    <2>1. /\ rows[k].octets \in Nat \union {Null}
          /\ truth[k].total \in Nat /\ total \in Nat
      BY StoredSample DEF TypeOK
    <2> QED BY <2>1 DEF CounterBehindTraffic, Null
  <1> QED BY <1>1, <1>2, <1>3, StoreUnchanged DEF store

\* The remaining steps that store nothing leave counter and traffic alone.
LEMMA IdleKeeps ==
  ASSUME Inv, UNCHANGED <<counter, total, rows, truth>>, TypeOK'
  PROVE  Inv'
PROOF
  BY StoreUnchanged DEF Inv, CounterBehindTraffic, store, Null

LEMMA PersistKeeps ==
  ASSUME Inv, NEW octets \in {counter, Null}, NEW s \in {speed, Null},
         PersistSample(octets, s)
  PROVE  Inv'
PROOF
  <1> USE DEF Inv
  <1> DEFINE n == Len(rows)
             result == IF rows = <<>> THEN Rebaselined
                       ELSE ComputeUtilization(rows[Len(rows)], poll, octets, s)
             new == [at |-> poll, octets |-> octets, speed |-> s,
                     delta |-> result.delta, elapsed |-> result.elapsed]
             true == [total |-> total, life |-> life, upsets |-> upsets, read_at |-> now]
  <1>1. /\ rows' = Append(rows, new) /\ truth' = Append(truth, true)
        /\ poll \in Nat /\ poll' = NoPoll
        /\ UNCHANGED <<now, counter, speed, upsets, total, life>>
    BY DEF PersistSample, TypeOK, device, NoPoll
  <1>2. /\ octets \in Nat \union {Null} /\ s \in Nat \union {Null}
        /\ counter \in Nat /\ total \in Nat /\ upsets \in Nat
    BY CountersAssumption DEF TypeOK
  <1>3. rows # <<>> => rows[n] \in Rows /\ n \in 1 .. Len(rows)
    BY DEF TypeOK
  <1>4. /\ result.delta \in Nat \union {Null}
        /\ result.elapsed \in Nat \union {Null}
        /\ result.delta # Null =>
             /\ rows # <<>>
             /\ octets # Null /\ rows[n].octets # Null
             /\ result.delta = octets - rows[n].octets
    <2>1. CASE rows = <<>>
      BY <2>1 DEF Rebaselined, Null
    <2>2. CASE rows # <<>>
      <3>1. result = ComputeUtilization(rows[n], poll, octets, s)
        BY <2>2
      <3>2. rows[n] \in Rows /\ poll \in Nat
        BY <2>2, <1>1, <1>3
      <3> HIDE DEF n, result
      <3>3. IsResult(result, rows[n].octets, octets)
        BY ONLY <3>1, <3>2, <1>2, ComputedResult
      <3> QED BY <2>2, <3>3 DEF IsResult
    <2> QED BY <2>1, <2>2
  <1> HIDE DEF result
  <1>5. new \in Rows /\ true \in Truths
    BY <1>1, <1>2, <1>4 DEF Rows, Truths, TypeOK
  <1>6. TypeOK'
    BY <1>1, <1>5 DEF TypeOK
  <1>7. /\ Len(rows') = n + 1 /\ n \in Nat /\ Len(truth) = n
        /\ rows'[n + 1] = new /\ truth'[n + 1] = true
        /\ \A k \in 1 .. n : rows'[k] = rows[k] /\ truth'[k] = truth[k]
    BY <1>1, <1>5 DEF TypeOK
  <1> HIDE DEF n
  <1>8. CounterBehindTraffic'
    <2> SUFFICES ASSUME NEW k \in 1 .. n + 1
                 PROVE  /\ truth'[k].total <= total
                        /\ rows'[k].octets # Null =>
                             counter - rows'[k].octets <= total - truth'[k].total
      BY <1>1, <1>7 DEF CounterBehindTraffic, Null
    <2>1. CASE k = n + 1
      BY <2>1, <1>2, <1>7
    <2>2. CASE k \in 1 .. n
      BY <2>2, <1>7 DEF CounterBehindTraffic, n
    <2> QED BY <1>7, <2>1, <2>2
  <1>9. RisesAreReal' /\ DeltaIsRise'
    <2> SUFFICES ASSUME NEW k \in 2 .. n + 1
                 PROVE  /\ truth'[k].total - truth'[k - 1].total >= 0
                        /\ rows'[k].octets # Null /\ rows'[k - 1].octets # Null
                             => rows'[k].octets - rows'[k - 1].octets
                                  <= truth'[k].total - truth'[k - 1].total
                        /\ rows'[k].delta # Null =>
                             /\ rows'[k].octets # Null /\ rows'[k - 1].octets # Null
                             /\ rows'[k].delta = rows'[k].octets - rows'[k - 1].octets
      BY <1>7 DEF RisesAreReal, DeltaIsRise, Sampled, Traffic, Null
    <2>1. CASE k = n + 1
      <3>1. /\ rows'[k] = new /\ truth'[k] = true
            /\ rows'[k - 1] = rows[n] /\ truth'[k - 1] = truth[n]
        BY <2>1, <1>7
      <3>2. /\ truth[n].total <= total
            /\ rows[n].octets # Null => counter - rows[n].octets <= total - truth[n].total
        BY <2>1, <1>7 DEF CounterBehindTraffic, n
      <3>3. rows[n] \in Rows /\ truth[n] \in Truths
        BY <2>1, <1>7 DEF TypeOK, n
      <3>4. rows[n].octets \in Nat \union {Null} /\ truth[n].total \in Nat
        BY <3>3 DEF Rows, Truths
      <3>5. total - truth[n].total >= 0
        BY ONLY <3>2, <3>4, <1>2
      <3>6. octets # Null /\ rows[n].octets # Null
              => octets - rows[n].octets <= total - truth[n].total
        BY <3>2
      <3> QED BY <3>1, <3>5, <3>6, <1>4
    <2>2. CASE k \in 2 .. n
      <3>1. k \in Sampled
        BY <2>2 DEF Sampled, n
      <3>2. /\ rows'[k] = rows[k] /\ truth'[k] = truth[k]
            /\ rows'[k - 1] = rows[k - 1] /\ truth'[k - 1] = truth[k - 1]
        BY <2>2, <1>7
      <3> QED BY <3>1, <3>2 DEF RisesAreReal, DeltaIsRise, Traffic
    <2> QED BY <1>7, <2>1, <2>2
  <1> QED BY <1>6, <1>8, <1>9

LEMMA NextInv == Inv /\ [Next]_vars => Inv'
PROOF
  <1> SUFFICES ASSUME Inv, [Next]_vars PROVE Inv'
    OBVIOUS
  <1> USE DEF Inv
  <1>1. ASSUME NEW n \in 0 .. speed, Carry(n) PROVE Inv'
    <2>1. n \in Nat
      BY DEF TypeOK
    <2> QED BY <1>1, <2>1, CarryKeeps
  <1>2. CASE ResetCounter
    BY <1>2, ResetKeeps
  <1>3. ASSUME NEW s \in Speeds, ChangeSpeed(s) PROVE Inv'
    <2>1. TypeOK'
      BY <1>3, CountersAssumption DEF ChangeSpeed, TypeOK, store
    <2> QED BY <1>3, <2>1, IdleKeeps DEF ChangeSpeed, store
  <1>4. CASE BeginPoll
    <2>1. TypeOK'
      BY <1>4 DEF BeginPoll, TypeOK, store, device
    <2> QED BY <1>4, <2>1, IdleKeeps DEF BeginPoll, store, device
  <1>5. CASE PollWithoutSample
    <2>1. TypeOK'
      BY <1>5 DEF PollWithoutSample, TypeOK, store, device
    <2> QED BY <1>5, <2>1, IdleKeeps DEF PollWithoutSample, store, device
  <1>6. ASSUME NEW octets \in {counter, Null}, NEW s \in {speed, Null},
               PersistSample(octets, s)
        PROVE  Inv'
    BY <1>6, PersistKeeps
  <1>7. CASE UNCHANGED vars
    <2>1. TypeOK'
      BY <1>7 DEF vars, TypeOK
    <2> QED BY <1>7, <2>1, IdleKeeps DEF vars
  <1> QED BY <1>1, <1>2, <1>3, <1>4, <1>5, <1>6, <1>7 DEF Next

\* The invariant holds in every reachable state.
THEOREM Invariant == Spec => []Inv
PROOF
  BY InitInv, NextInv, PTL DEF Spec

\* Every variable keeps its type: no stored delta or elapsed time is ever negative
\* (utilization.py, compute_utilization).
THEOREM TypeCorrect == Spec => []TypeOK
PROOF
  <1>1. Inv => TypeOK
    BY DEF Inv
  <1> QED BY <1>1, Invariant, PTL

\* No stored utilization claims traffic that was not carried (utilization.py:73).
THEOREM NothingFabricated == Spec => []NoFabricatedTraffic
PROOF
  <1>1. ASSUME Inv PROVE NoFabricatedTraffic
    <2> SUFFICES ASSUME NEW k \in Sampled, rows[k].delta # Null
                 PROVE  rows[k].delta <= Traffic(k)
      BY DEF NoFabricatedTraffic
    <2>1. /\ rows[k].octets # Null /\ rows[k - 1].octets # Null
          /\ rows[k].delta = rows[k].octets - rows[k - 1].octets
      BY <1>1 DEF Inv, DeltaIsRise
    <2> QED BY <1>1, <2>1 DEF Inv, RisesAreReal
  <1> QED BY <1>1, Invariant, PTL

------------------------------------------------------------------------------
(* What an undisturbed interval is measured as. *)

\* A stored sample was asked for before it was answered, and both are past.
SamplesArePast ==
  \A k \in 1 .. Len(rows) :
    /\ rows[k].at <= truth[k].read_at /\ truth[k].read_at <= now
    /\ truth[k].life <= life /\ truth[k].upsets <= upsets

\* The poll in progress is later than the latest sample.
PollIsLater ==
  poll # NoPoll =>
    /\ poll <= now
    /\ rows # <<>> => rows[Len(rows)].at < poll

\* While the counter lives on it counts what is carried, and while the speed stays no more
\* is carried than it allows.
CountedSince(k) ==
  truth[k].life = life /\ rows[k].octets # Null
    => counter - rows[k].octets = total - truth[k].total

CarriedSince(k) ==
  truth[k].upsets = upsets /\ rows[k].speed # Null
    => /\ rows[k].speed = speed
       /\ total - truth[k].total <= (now - truth[k].read_at) * speed

Measured ==
  /\ SamplesArePast
  /\ PollIsLater
  /\ \A k \in 1 .. Len(rows) : CountedSince(k) /\ CarriedSince(k)
  /\ UndisturbedIsExact

\* One more tick at a speed allows that much more, and a longer time allows more.
LEMMA OneMoreTick == \A a, s \in Nat : (a + 1) * s = a * s + s
PROOF OBVIOUS

LEMMA LongerAllowsMore == \A a, b, s \in Nat : a <= b => a * s <= b * s
PROOF
  <1> SUFFICES ASSUME NEW a \in Nat, NEW b \in Nat, NEW s \in Nat, a <= b
               PROVE  a * s <= b * s
    OBVIOUS
  <1>1. PICK c \in Nat : b = a + c
    <2>1. b - a \in Nat /\ b = a + (b - a)
      OBVIOUS
    <2> QED BY <2>1
  <1>2. b * s = a * s + c * s
    BY <1>1
  <1>3. a * s \in Nat /\ c * s \in Nat
    OBVIOUS
  <1> QED BY <1>2, <1>3

\* The parts of a stored sample that the measurement reads.
LEMMA StoredParts ==
  ASSUME TypeOK, NEW k \in 1 .. Len(rows)
  PROVE  /\ rows[k].at \in Nat /\ rows[k].octets \in Nat \union {Null}
         /\ rows[k].speed \in Nat \union {Null}
         /\ truth[k].total \in Nat /\ truth[k].life \in Nat
         /\ truth[k].upsets \in Nat /\ truth[k].read_at \in Nat
PROOF
  <1>1. rows[k] \in Rows /\ truth[k] \in Truths
    BY DEF TypeOK
  <1> QED BY <1>1 DEF Rows, Truths

\* What appending leaves and adds.
LEMMA LatestAppended ==
  ASSUME NEW S, NEW q \in Seq(S), NEW e
  PROVE  /\ Len(Append(q, e)) = Len(q) + 1
         /\ Append(q, e)[Len(q) + 1] = e
         /\ \A k \in 1 .. Len(q) : Append(q, e)[k] = q[k]
PROOF
  <1>1. q \in Seq(S \union {e}) /\ e \in S \union {e}
    OBVIOUS
  <1> QED BY <1>1

LEMMA SampleAppended ==
  ASSUME TypeOK, NEW row, NEW true,
         rows' = Append(rows, row), truth' = Append(truth, true)
  PROVE  /\ Len(rows') = Len(rows) + 1
         /\ rows'[Len(rows) + 1] = row /\ truth'[Len(rows) + 1] = true
         /\ \A k \in 1 .. Len(rows) : rows'[k] = rows[k] /\ truth'[k] = truth[k]
PROOF
  <1>1. rows \in Seq(Rows)
    BY DEF TypeOK
  <1>2. truth \in Seq(Truths)
    BY DEF TypeOK
  <1>3. /\ Len(Append(rows, row)) = Len(rows) + 1
        /\ Append(rows, row)[Len(rows) + 1] = row
        /\ \A k \in 1 .. Len(rows) : Append(rows, row)[k] = rows[k]
    BY ONLY <1>1, LatestAppended
  <1>4. /\ Len(Append(truth, true)) = Len(truth) + 1
        /\ Append(truth, true)[Len(truth) + 1] = true
        /\ \A k \in 1 .. Len(truth) : Append(truth, true)[k] = truth[k]
    BY ONLY <1>2, LatestAppended
  <1>5. Len(truth) = Len(rows)
    BY DEF TypeOK
  <1> QED BY <1>3, <1>4, <1>5

\* UndisturbedIsExact speaks of stored rows only.
LEMMA ExactnessStored ==
  ASSUME UndisturbedIsExact, UNCHANGED store
  PROVE  UndisturbedIsExact'
PROOF
  BY DEF store, UndisturbedIsExact, Undisturbed, Delay, Sampled, Traffic

LEMMA InitMeasured == Init => Measured
PROOF
  BY DEF Init, Measured, SamplesArePast, PollIsLater, UndisturbedIsExact, Sampled

LEMMA CarryMeasures ==
  ASSUME Inv, Inv', Measured, NEW n \in Nat, Carry(n)
  PROVE  Measured'
PROOF
  <1>1. /\ UNCHANGED <<rows, truth, speed, upsets, poll>> /\ now' = now + 1
        /\ total' = total + n /\ n <= speed
        /\ \/ counter' = counter + n /\ life' = life
           \/ life' = life + 1
    BY DEF Carry, store
  <1>2. /\ now \in Nat /\ total \in Nat /\ life \in Nat /\ counter \in Nat
        /\ speed \in Nat /\ upsets \in Nat /\ poll \in Nat \union {NoPoll}
        /\ (rows # <<>> => rows[Len(rows)].at \in Nat)
    <2>1. TypeOK
      BY DEF Inv
    <2>2. rows # <<>> => Len(rows) \in 1 .. Len(rows)
      BY <2>1 DEF TypeOK
    <2> QED BY <2>1, <2>2, StoredParts, CountersAssumption DEF TypeOK
  <1>3. PollIsLater'
    BY <1>1, <1>2 DEF Measured, PollIsLater, NoPoll
  <1>4. ASSUME NEW k \in 1 .. Len(rows)
        PROVE  /\ rows[k].at <= truth[k].read_at /\ truth[k].read_at <= now'
               /\ truth[k].life <= life' /\ truth[k].upsets <= upsets'
               /\ CountedSince(k)' /\ CarriedSince(k)'
    <2>1. /\ rows[k].at \in Nat /\ rows[k].octets \in Nat \union {Null}
          /\ rows[k].speed \in Nat \union {Null}
          /\ truth[k].total \in Nat /\ truth[k].life \in Nat
          /\ truth[k].upsets \in Nat /\ truth[k].read_at \in Nat
      BY StoredParts DEF Inv
    <2>2. /\ rows[k].at <= truth[k].read_at /\ truth[k].read_at <= now
          /\ truth[k].life <= life /\ truth[k].upsets <= upsets
          /\ CountedSince(k) /\ CarriedSince(k)
      BY DEF Measured, SamplesArePast
    <2>3. CountedSince(k)'
      <3> SUFFICES ASSUME truth[k].life = life', rows[k].octets # Null
                   PROVE  counter' - rows[k].octets = total' - truth[k].total
        BY <1>1 DEF CountedSince, Null
      <3>1. counter' = counter + n /\ life' = life
        <4>1. truth[k].life \in Nat /\ truth[k].life <= life /\ life \in Nat
          BY <1>2, <2>1, <2>2
        <4> QED BY <1>1, <4>1
      <3>2. counter - rows[k].octets = total - truth[k].total
        BY <2>2, <3>1 DEF CountedSince
      <3>3. rows[k].octets \in Nat /\ truth[k].total \in Nat
        BY <2>1
      <3>4. total' = total + n /\ counter \in Nat /\ total \in Nat
        BY <1>1, <1>2
      <3>5. PICK o \in Nat : o = rows[k].octets
        BY <3>3
      <3>6. PICK t \in Nat : t = truth[k].total
        BY <3>3
      <3>7. counter - o = total - t
        BY <3>2, <3>5, <3>6
      <3>8. (counter + n) - o = (total + n) - t
        BY ONLY <3>4, <3>7, n \in Nat, o \in Nat, t \in Nat
      <3> QED BY ONLY <3>1, <3>4, <3>5, <3>6, <3>8
    <2>4. CarriedSince(k)'
      <3> SUFFICES ASSUME truth[k].upsets = upsets, rows[k].speed # Null
                   PROVE  /\ rows[k].speed = speed
                          /\ total' - truth[k].total <= (now' - truth[k].read_at) * speed
        BY <1>1 DEF CarriedSince, Null
      <3>1. /\ rows[k].speed = speed
            /\ total - truth[k].total <= (now - truth[k].read_at) * speed
        BY <2>2 DEF CarriedSince
      <3> DEFINE a == now - truth[k].read_at
      <3>2. a \in Nat /\ now' - truth[k].read_at = a + 1
        <4>1. /\ now \in Nat /\ now' = now + 1
              /\ truth[k].read_at \in Nat /\ truth[k].read_at <= now
          BY <1>1, <1>2, <2>1, <2>2
        <4> QED BY ONLY <4>1
      <3>3. total - truth[k].total <= a * speed
        BY <3>1
      <3> HIDE DEF a
      <3>4. (a + 1) * speed = a * speed + speed /\ a * speed \in Nat
        BY <1>2, <3>2, OneMoreTick
      <3>5. total' - truth[k].total <= (a + 1) * speed
        BY ONLY <1>1, <1>2, <2>1, <3>3, <3>4, n \in Nat
      <3> QED BY <3>1, <3>2, <3>5
    <2>5. truth[k].read_at <= now'
      BY ONLY <1>1, <1>2, <2>1, <2>2
    <2>6. truth[k].life <= life' /\ truth[k].upsets <= upsets'
      BY ONLY <1>1, <1>2, <2>1, <2>2
    <2> QED BY <2>2, <2>3, <2>4, <2>5, <2>6
  <1>5. SamplesArePast'
    BY <1>1, <1>4 DEF SamplesArePast
  <1>6. UndisturbedIsExact'
    BY <1>1, ExactnessStored DEF Measured, store
  <1>7. \A k \in 1 .. Len(rows') : CountedSince(k)' /\ CarriedSince(k)'
    BY <1>1, <1>4
  <1> QED BY <1>3, <1>5, <1>6, <1>7 DEF Measured

\* A reset ends the life of the counter, a change of speed the samples' upsets: what was
\* said of either no longer applies to any stored sample.
LEMMA UpsetMeasures ==
  ASSUME Inv, Measured, UNCHANGED <<now, total, poll, rows, truth>>,
         upsets' = upsets + 1,
         \/ life' = life + 1
         \/ life' = life /\ counter' = counter
  PROVE  Measured'
PROOF
  <1>1. upsets \in Nat /\ life \in Nat
    BY DEF Inv, TypeOK
  <1>2. ASSUME NEW k \in 1 .. Len(rows)
        PROVE  /\ truth[k].life <= life' /\ truth[k].upsets <= upsets'
               /\ CountedSince(k)' /\ CarriedSince(k)'
    <2>1. truth[k].life \in Nat /\ truth[k].upsets \in Nat
      BY StoredParts DEF Inv
    <2>2. truth[k].life <= life /\ truth[k].upsets <= upsets /\ CountedSince(k)
      BY DEF Measured, SamplesArePast
    <2>3. truth[k].upsets # upsets'
      BY <1>1, <2>1, <2>2
    <2>4. CarriedSince(k)'
      BY <2>3 DEF CarriedSince
    <2>5. CountedSince(k)'
      BY <1>1, <2>1, <2>2 DEF CountedSince, Null
    <2> QED BY <1>1, <2>1, <2>2, <2>4, <2>5
  <1>3. SamplesArePast'
    BY <1>2 DEF Measured, SamplesArePast
  <1>4. PollIsLater'
    BY DEF Measured, PollIsLater, NoPoll
  <1>5. UndisturbedIsExact'
    BY ExactnessStored DEF Measured, store
  <1> QED BY <1>2, <1>3, <1>4, <1>5 DEF Measured

\* A sample that follows an undisturbed interval is stored with the traffic it saw.
LEMMA UndisturbedResult ==
  ASSUME NEW prev \in Rows, NEW at \in Nat, NEW octets \in Nat, NEW s \in Nat,
         s > 0, prev.speed = s, prev.octets \in Nat, octets >= prev.octets,
         at > prev.at, at - prev.at <= MaxInterval,
         octets - prev.octets <= (at - prev.at) * s
  PROVE  ComputeUtilization(prev, at, octets, s).delta = octets - prev.octets
PROOF
  <1>1. prev.at \in Nat /\ MaxInterval \in Nat
    BY CountersAssumption DEF Rows
  <1>2. ~(s = Null \/ s <= 0 \/ prev.speed # s
          \/ at - prev.at <= 0 \/ at - prev.at > MaxInterval)
    BY <1>1 DEF Null
  <1>3. ComputeUtilization(prev, at, octets, s).delta
          = DirectionDelta(prev.octets, octets, at - prev.at, s)
    BY <1>2 DEF ComputeUtilization
  <1>4. (at - prev.at) * s \in Nat
    BY <1>1
  <1>5. ~(octets - prev.octets > (at - prev.at) * s)
    BY <1>4
  <1>6. ~(prev.octets = Null \/ octets = Null \/ octets < prev.octets)
    BY DEF Null
  <1> QED BY <1>3, <1>5, <1>6 DEF DirectionDelta

LEMMA PersistMeasures ==
  ASSUME Inv, Measured, NEW octets \in {counter, Null}, NEW s \in {speed, Null},
         PersistSample(octets, s)
  PROVE  Measured'
PROOF
  <1> DEFINE result == IF rows = <<>> THEN Rebaselined
                       ELSE ComputeUtilization(rows[Len(rows)], poll, octets, s)
             new == [at |-> poll, octets |-> octets, speed |-> s,
                     delta |-> result.delta, elapsed |-> result.elapsed]
             true == [total |-> total, life |-> life, upsets |-> upsets, read_at |-> now]
  <1>1. PICK n : n = Len(rows)
    OBVIOUS
  <1>2. /\ rows' = Append(rows, new) /\ truth' = Append(truth, true)
        /\ poll \in Nat /\ poll' = NoPoll
        /\ UNCHANGED <<now, counter, speed, upsets, total, life>>
    BY DEF PersistSample, Inv, TypeOK, device, NoPoll
  <1>3. /\ counter \in Nat /\ total \in Nat /\ upsets \in Nat /\ life \in Nat
        /\ now \in Nat /\ speed \in Nat /\ speed > 0 /\ n \in Nat
    BY <1>1, CountersAssumption DEF Inv, TypeOK
  <1>4. /\ new.at = poll /\ new.octets = octets /\ new.speed = s
        /\ new.delta = result.delta
        /\ true.total = total /\ true.life = life /\ true.upsets = upsets
        /\ true.read_at = now
    OBVIOUS
  <1>5. poll <= now /\ (n > 0 => rows[n].at < poll)
    BY <1>1, <1>2, <1>3 DEF Measured, PollIsLater, NoPoll
  <1>6. n > 0 => result = ComputeUtilization(rows[n], poll, octets, s)
    BY <1>1
  <1> HIDE DEF result, new, true
  <1>7. /\ Len(rows') = n + 1
        /\ rows'[n + 1] = new /\ truth'[n + 1] = true
        /\ \A k \in 1 .. n : rows'[k] = rows[k] /\ truth'[k] = truth[k]
    <2>1. TypeOK /\ rows' = Append(rows, new) /\ truth' = Append(truth, true)
      BY <1>2 DEF Inv
    <2> QED BY ONLY <1>1, <2>1, SampleAppended
  <1>8. ASSUME NEW k \in 1 .. n + 1
        PROVE  /\ rows'[k].at <= truth'[k].read_at /\ truth'[k].read_at <= now
               /\ truth'[k].life <= life /\ truth'[k].upsets <= upsets
               /\ CountedSince(k)' /\ CarriedSince(k)'
    <2>1. CASE k = n + 1
      <3>1. rows'[k] = new /\ truth'[k] = true
        BY <1>7, <2>1
      <3>2. CountedSince(k)'
        BY <1>2, <1>3, <1>4, <3>1 DEF CountedSince, Null
      <3>3. (now - now) * speed = 0
        BY <1>3
      <3>4. CarriedSince(k)'
        BY <1>2, <1>3, <1>4, <3>1, <3>3 DEF CarriedSince, Null
      <3> QED BY <1>2, <1>3, <1>4, <1>5, <3>1, <3>2, <3>4
    <2>2. CASE k \in 1 .. n
      <3>1. rows'[k] = rows[k] /\ truth'[k] = truth[k]
        BY <1>7, <2>2
      <3>2. /\ rows[k].at <= truth[k].read_at /\ truth[k].read_at <= now
            /\ truth[k].life <= life /\ truth[k].upsets <= upsets
            /\ CountedSince(k) /\ CarriedSince(k)
        BY <1>1, <2>2 DEF Measured, SamplesArePast
      <3> QED BY <1>2, <3>1, <3>2 DEF CountedSince, CarriedSince, Null
    <2> QED BY <1>3, <2>1, <2>2
  <1>9. SamplesArePast'
    BY <1>2, <1>7, <1>8 DEF SamplesArePast
  <1>10. PollIsLater'
    BY <1>2 DEF PollIsLater, NoPoll
  <1>11. UndisturbedIsExact'
    <2> SUFFICES ASSUME NEW k \in 2 .. n + 1, Undisturbed(k)', (Delay(k) <= Delay(k - 1))'
                 PROVE  rows'[k].delta = truth'[k].total - truth'[k - 1].total
      BY <1>7 DEF UndisturbedIsExact, Sampled, Traffic
    <2>1. CASE k = n + 1
      <3>1. /\ rows'[k] = new /\ truth'[k] = true
            /\ rows'[k - 1] = rows[n] /\ truth'[k - 1] = truth[n] /\ n \in 1 .. Len(rows)
        BY <1>1, <1>3, <1>7, <2>1
      <3>2. /\ life = truth[n].life /\ upsets = truth[n].upsets
            /\ octets # Null /\ rows[n].octets # Null /\ s # Null /\ rows[n].speed # Null
            /\ poll - rows[n].at <= MaxInterval
        BY <1>4, <3>1 DEF Undisturbed, Null
      <3>3. octets = counter /\ s = speed
        BY <3>2
      <3>4. now - poll <= truth[n].read_at - rows[n].at
        BY <1>2, <1>4, <3>1 DEF Delay
      <3>5. /\ rows[n].at \in Nat /\ rows[n].octets \in Nat
            /\ truth[n].total \in Nat /\ truth[n].read_at \in Nat
        BY <3>1, <3>2, StoredParts DEF Inv
      <3>6. /\ counter - rows[n].octets = total - truth[n].total
            /\ rows[n].speed = speed
            /\ total - truth[n].total <= (now - truth[n].read_at) * speed
            /\ truth[n].read_at <= now
        BY <3>1, <3>2 DEF Measured, CountedSince, CarriedSince, SamplesArePast
      <3>7. truth[n].total <= total
        BY <3>1 DEF Inv, CounterBehindTraffic
      <3>8. /\ now - truth[n].read_at \in Nat /\ poll - rows[n].at \in Nat
            /\ now - truth[n].read_at <= poll - rows[n].at
        <4>1. /\ now \in Nat /\ poll \in Nat /\ rows[n].at < poll
              /\ truth[n].read_at <= now
          BY <1>2, <1>3, <1>5, <3>1, <3>6
        <4> QED BY ONLY <4>1, <3>4, <3>5
      <3>9. (now - truth[n].read_at) * speed <= (poll - rows[n].at) * speed
        BY <1>3, <3>8, LongerAllowsMore
      <3>10. /\ (now - truth[n].read_at) * speed \in Nat
             /\ (poll - rows[n].at) * speed \in Nat
        BY <1>3, <3>8
      <3>11. counter - rows[n].octets <= (poll - rows[n].at) * speed
        BY ONLY <1>3, <3>5, <3>6, <3>9, <3>10
      <3>12. counter >= rows[n].octets /\ poll > rows[n].at
        <4>1. poll \in Nat /\ rows[n].at < poll /\ counter \in Nat /\ total \in Nat
          BY <1>2, <1>3, <1>5, <3>1
        <4> QED BY ONLY <4>1, <3>5, <3>6, <3>7
      <3>13. rows[n] \in Rows
        BY <3>1 DEF Inv, TypeOK
      <3>14. poll - rows[n].at <= MaxInterval
        BY <3>2
      <3>15. ComputeUtilization(rows[n], poll, counter, speed).delta
               = counter - rows[n].octets
        <4>1. poll \in Nat /\ counter \in Nat /\ speed \in Nat /\ speed > 0
          BY <1>2, <1>3
        <4>2. rows[n].speed = speed /\ rows[n].octets \in Nat
          BY <3>5, <3>6
        <4> QED BY ONLY <4>1, <4>2, <3>11, <3>12, <3>13, <3>14, UndisturbedResult
      <3> QED BY <1>4, <1>6, <1>3, <3>1, <3>3, <3>6, <3>15
    <2>2. CASE k \in 2 .. n
      <3>1. k \in Sampled
        BY <1>1, <2>2 DEF Sampled
      <3>2. /\ rows'[k] = rows[k] /\ truth'[k] = truth[k]
            /\ rows'[k - 1] = rows[k - 1] /\ truth'[k - 1] = truth[k - 1]
        <4>1. k \in 1 .. n /\ k - 1 \in 1 .. n
          BY <1>3, <2>2
        <4> QED BY ONLY <1>7, <4>1
      <3>3. Undisturbed(k) /\ Delay(k) <= Delay(k - 1)
        BY <3>2 DEF Undisturbed, Delay, Null
      <3> QED BY <3>1, <3>2, <3>3 DEF Measured, UndisturbedIsExact, Traffic
    <2> QED BY <1>3, <2>1, <2>2
  <1>12. \A k \in 1 .. Len(rows') : CountedSince(k)' /\ CarriedSince(k)'
    BY <1>7, <1>8
  <1> QED BY <1>9, <1>10, <1>11, <1>12 DEF Measured

LEMMA NextMeasured == Inv /\ Inv' /\ Measured /\ [Next]_vars => Measured'
PROOF
  <1> SUFFICES ASSUME Inv, Inv', Measured, [Next]_vars PROVE Measured'
    OBVIOUS
  <1>1. ASSUME NEW n \in 0 .. speed, Carry(n) PROVE Measured'
    <2>1. n \in Nat
      BY DEF Inv, TypeOK
    <2> QED BY <1>1, <2>1, CarryMeasures
  <1>2. CASE ResetCounter
    BY <1>2, UpsetMeasures DEF ResetCounter, store
  <1>3. ASSUME NEW s \in Speeds, ChangeSpeed(s) PROVE Measured'
    BY <1>3, UpsetMeasures DEF ChangeSpeed, store
  <1>4. ASSUME UNCHANGED <<now, device, store>>, PollIsLater' PROVE Measured'
    BY <1>4, ExactnessStored
       DEF Measured, SamplesArePast, CountedSince, CarriedSince, device, store, Null
  <1>5. CASE BeginPoll
    <2>1. now \in Nat
      BY DEF Inv, TypeOK
    <2>2. rows # <<>> => rows[Len(rows)].at \in Nat
      <3>1. TypeOK /\ (rows # <<>> => Len(rows) \in 1 .. Len(rows))
        BY DEF Inv, TypeOK
      <3> QED BY <3>1, StoredParts
    <2>3. PollIsLater'
      BY <1>5, <2>1, <2>2 DEF BeginPoll, PollIsLater, store
    <2> QED BY <1>4, <1>5, <2>3 DEF BeginPoll
  <1>6. CASE PollWithoutSample
    BY <1>4, <1>6 DEF PollWithoutSample, PollIsLater, NoPoll
  <1>7. ASSUME NEW octets \in {counter, Null}, NEW s \in {speed, Null},
               PersistSample(octets, s)
        PROVE  Measured'
    BY <1>7, PersistMeasures
  <1>8. CASE UNCHANGED vars
    BY <1>4, <1>8 DEF vars, device, store, Measured, PollIsLater, NoPoll
  <1> QED BY <1>1, <1>2, <1>3, <1>5, <1>6, <1>7, <1>8 DEF Next

\* An undisturbed interval is measured exactly, if the later answer was not slower
\* (utilization.py, compute_utilization; poll.py:154).
THEOREM ExactWhenUndisturbed == Spec => []UndisturbedIsExact
PROOF
  <1>1. Spec => []Measured
    BY Invariant, InitMeasured, NextMeasured, PTL DEF Spec
  <1>2. Measured => UndisturbedIsExact
    BY DEF Measured
  <1> QED BY <1>1, <1>2, PTL

------------------------------------------------------------------------------
(* The weekly increment. *)

\* Each term of a weekly increment is at most what the device really counted between the
\* two samples (counters_coverage.py, _reset_safe_delta).
IncrementsAreReal == \A k \in Sampled : ForwardIncrement(k) <= Traffic(k)

LEMMA IncrementBounded ==
  ASSUME Inv, NEW k \in Sampled
  PROVE  ForwardIncrement(k) \in Nat /\ ForwardIncrement(k) <= truth[k].total - truth[k - 1].total
PROOF
  <1>1. /\ truth[k].total - truth[k - 1].total >= 0
        /\ rows[k].octets # Null /\ rows[k - 1].octets # Null
             => rows[k].octets - rows[k - 1].octets <= truth[k].total - truth[k - 1].total
    BY DEF Inv, RisesAreReal, Traffic
  <1>2. k \in 1 .. Len(rows) /\ k - 1 \in 1 .. Len(rows)
    BY DEF Sampled
  <1>3. rows[k].octets \in Nat \union {Null} /\ rows[k - 1].octets \in Nat \union {Null}
    BY <1>2, StoredSample DEF Inv
  <1> QED BY <1>1, <1>3 DEF ForwardIncrement, Null

THEOREM EveryIncrementIsReal == Spec => []IncrementsAreReal
PROOF
  <1>1. ASSUME Inv PROVE IncrementsAreReal
    <2> SUFFICES ASSUME NEW k \in Sampled
                 PROVE  ForwardIncrement(k) <= Traffic(k)
      BY DEF IncrementsAreReal
    <2>1. /\ Traffic(k) >= 0
          /\ rows[k].octets # Null /\ rows[k - 1].octets # Null
               => rows[k].octets - rows[k - 1].octets <= Traffic(k)
      BY <1>1 DEF Inv, RisesAreReal
    <2> HIDE DEF Traffic
    <2> QED BY <2>1 DEF ForwardIncrement
  <1> QED BY <1>1, Invariant, PTL

\* What holds of k, and of the next number with each, holds up to m.
LEMMA UpTo ==
  ASSUME NEW k \in Nat, NEW m \in Nat, NEW S, k \in S,
         \A i \in k .. m : i \in S /\ i < m => i + 1 \in S
  PROVE  \A i \in k .. m : i \in S
PROOF
  <1> DEFINE T == {i \in k .. m : i \notin S}
             R == OpToRel(<, Nat)
  <1> SUFFICES ASSUME T # {} PROVE FALSE
    OBVIOUS
  <1>1. T \subseteq Nat
    OBVIOUS
  <1>2. IsWellFoundedOn(R, Nat)
    BY NatLessThanWellFounded
  <1>3. \A x, y \in Nat : <<y, x>> \in R <=> y < x
    BY DEF OpToRel
  <1> HIDE DEF R
  <1>4. PICK x \in T : \A y \in T : <<y, x>> \notin R
    BY <1>1, <1>2, WFMin
  <1>5. x \in k .. m /\ x \notin S /\ x # k
    BY <1>4
  <1>6. x - 1 \in k .. m /\ x - 1 \in Nat /\ x - 1 < x /\ x - 1 < m
    BY <1>5
  <1>7. x - 1 \in S
    <2>1. x - 1 \in T => FALSE
      BY <1>1, <1>3, <1>4, <1>6
    <2> QED BY <1>6, <2>1
  <1>8. (x - 1) + 1 \in S
    BY <1>6, <1>7
  <1> QED BY <1>5, <1>8

\* The running sum is defined: each entry is made from the one before.
IsSum(f, k, m) ==
  f = [i \in k .. m |-> IF i = k THEN 0 ELSE f[i - 1] + ForwardIncrement(i)]

LEMMA SumExists ==
  ASSUME NEW k \in Nat, NEW m \in Nat, k <= m
  PROVE  \E f : IsSum(f, k, m)
PROOF
  <1> DEFINE S == {n \in k .. m : \E f : IsSum(f, k, n)}
  <1>1. k \in S
    <2>1. IsSum([i \in k .. k |-> 0], k, k)
      BY DEF IsSum
    <2> QED BY <2>1
  <1>2. ASSUME NEW n \in k .. m, n \in S, n < m PROVE n + 1 \in S
    <2>1. PICK f : IsSum(f, k, n)
      BY <1>2
    <2> DEFINE g == [i \in k .. n + 1 |->
                       IF i \in k .. n THEN f[i] ELSE f[n] + ForwardIncrement(n + 1)]
    <2>2. ASSUME NEW i \in k .. n + 1
          PROVE  g[i] = IF i = k THEN 0 ELSE g[i - 1] + ForwardIncrement(i)
      <3>1. CASE i = n + 1
        <4>1. i - 1 = n /\ n \in k .. n /\ i # k /\ i \notin k .. n
          BY <3>1
        <4> QED BY <3>1, <4>1
      <3>2. CASE i \in k .. n
        <4>1. i # k => i - 1 \in k .. n
          BY <3>2
        <4>2. f[i] = IF i = k THEN 0 ELSE f[i - 1] + ForwardIncrement(i)
          BY <2>1, <3>2 DEF IsSum
        <4> QED BY <3>2, <4>1, <4>2
      <3> QED BY <3>1, <3>2
    <2>3. g = [i \in DOMAIN g |-> g[i]] /\ DOMAIN g = k .. n + 1
      OBVIOUS
    <2> HIDE DEF g
    <2>4. IsSum(g, k, n + 1)
      BY <2>2, <2>3 DEF IsSum
    <2> QED BY <1>2, <2>4
  <1> HIDE DEF S
  <1>3. m \in S
    BY <1>1, <1>2, UpTo
  <1> QED BY <1>3 DEF S

LEMMA WeeklyDeltaIsSum ==
  ASSUME NEW k \in Nat, NEW m \in Nat, k <= m
  PROVE  \E f : IsSum(f, k, m) /\ WeeklyDelta(k, m) = f[m]
PROOF
  <1> DEFINE sum[i \in k .. m] == IF i = k THEN 0 ELSE sum[i - 1] + ForwardIncrement(i)
  <1>1. IsSum(sum, k, m)
    BY SumExists DEF IsSum
  <1>2. WeeklyDelta(k, m) = sum[m]
    BY DEF WeeklyDelta
  <1> QED BY <1>1, <1>2

LEMMA OneMoreTerm ==
  \A s, d, a, b, c \in Nat :
    s <= b - a /\ d <= c - b => s + d \in Nat /\ s + d <= c - a
PROOF OBVIOUS

\* The weekly increment of a counter is at most what the device really counted
\* (counters_coverage.py:4-9).
THEOREM WeeklyDeltaReal == Spec => []WeeklyDeltaIsReal
PROOF
  <1>1. ASSUME Inv PROVE WeeklyDeltaIsReal
    <2> SUFFICES ASSUME NEW k \in 1 .. Len(rows), NEW m \in k .. Len(rows)
                 PROVE  WeeklyDelta(k, m) <= truth[m].total - truth[k].total
      BY DEF WeeklyDeltaIsReal
    <2>1. k \in Nat /\ m \in Nat /\ k <= m
      OBVIOUS
    <2>2. PICK f : IsSum(f, k, m) /\ WeeklyDelta(k, m) = f[m]
      BY <2>1, WeeklyDeltaIsSum
    <2> DEFINE S == {n \in k .. m : f[n] \in Nat /\ f[n] <= truth[n].total - truth[k].total}
    <2>3. \A n \in k .. m : truth[n].total \in Nat
      <3>1. \A n \in k .. m : n \in 1 .. Len(rows)
        OBVIOUS
      <3> QED BY <1>1, <3>1, StoredSample DEF Inv
    <2>4. k \in S
      BY <2>1, <2>2, <2>3 DEF IsSum
    <2>5. ASSUME NEW n \in k .. m, n \in S, n < m PROVE n + 1 \in S
      <3>1. n + 1 \in k .. m /\ n + 1 # k /\ (n + 1) - 1 = n /\ n + 1 \in Sampled
        BY <2>1, <2>5 DEF Sampled
      <3>2. f[n + 1] = f[n] + ForwardIncrement(n + 1)
        BY <2>2, <3>1 DEF IsSum
      <3>3. /\ ForwardIncrement(n + 1) \in Nat
            /\ ForwardIncrement(n + 1) <= truth[n + 1].total - truth[n].total
        BY <1>1, <3>1, IncrementBounded
      <3>4. f[n] \in Nat /\ f[n] <= truth[n].total - truth[k].total
        BY <2>5
      <3>5. truth[n].total \in Nat /\ truth[n + 1].total \in Nat /\ truth[k].total \in Nat
        BY <2>1, <2>3, <3>1
      <3>6. f[n + 1] \in Nat /\ f[n + 1] <= truth[n + 1].total - truth[k].total
        <4> DEFINE d == ForwardIncrement(n + 1)
        <4>1. d \in Nat /\ f[n] \in Nat /\ f[n + 1] = f[n] + d
          BY <3>2, <3>3, <3>4
        <4>2. f[n] <= truth[n].total - truth[k].total /\ d <= truth[n + 1].total - truth[n].total
          BY <3>3, <3>4
        <4> HIDE DEF d
        <4>3. f[n] + d \in Nat /\ f[n] + d <= truth[n + 1].total - truth[k].total
          BY ONLY <4>1, <4>2, <3>5, OneMoreTerm
        <4> QED BY <4>1, <4>3
      <3> QED BY <3>1, <3>6
    <2> HIDE DEF S
    <2>6. \A i \in k .. m : i \in S
      BY <2>1, <2>4, <2>5, UpTo
    <2>7. m \in S
      BY <2>1, <2>6
    <2> QED BY <2>2, <2>7 DEF S
  <1> QED BY <1>1, Invariant, PTL

================================================================================
