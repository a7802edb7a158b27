------------------------ MODULE InterfaceIncidents_proofs ------------------------
(***************************************************************************)
(* The machine of the priority interfaces, for any interfaces and any      *)
(* number of polls. The definitions and lemmas before the step are about   *)
(* one interface: its tracking values, its incidents and its valid samples.*)
(***************************************************************************)
EXTENDS InterfaceIncidents, TLAPS

ValidSamples == [at: Instants, state: {"up", "down"}]
Episodes == [started_at: Instants, recovered_at: 0 .. MaxPolls]

\* The reference of ValidSamplesDecide, as a function of the samples.
PairIn(v, n, state) == n > 1 /\ v[n].state = state /\ v[n - 1].state = state

DownIn(v, n) ==
  \E d \in 1 .. n : PairIn(v, d, "down") /\ \A u \in d .. n : ~PairIn(v, u, "up")

ConfirmsIn(v, n) == PairIn(v, n, "down") /\ ~DownIn(v, n - 1)

RecoveryIn(v, n) == {u \in n .. Len(v) : PairIn(v, u, "up")}

Earliest(set) == CHOOSE u \in set : \A x \in set : u <= x

HasEarliest(set) == \E u \in set : \A x \in set : u <= x

EpisodeIn(v, n) ==
  [started_at |-> v[n - 1].at,
   recovered_at |-> IF RecoveryIn(v, n) = {} THEN 0 ELSE v[Earliest(RecoveryIn(v, n)) - 1].at]

Confirming(v) == {n \in 1 .. Len(v) : ConfirmsIn(v, n)}

EpisodesIn(v) == {EpisodeIn(v, n) : n \in Confirming(v)}

\* The parts of the invariant.
SamplesInOrder(v, t) ==
  /\ \A n \in 1 .. Len(v) : v[n].at <= t
  /\ \A m, n \in 1 .. Len(v) : m < n => v[m].at < v[n].at

LastIs(v, state) == Len(v) > 0 /\ v[Len(v)].state = state

TracksLastSample(tr, v) ==
  /\ tr.state = "normal" =>
       /\ tr.down <= 1
       /\ tr.down > 0 <=> LastIs(v, "down")
       /\ tr.down > 0 => tr.down_run = v[Len(v)].at
  /\ tr.state = "down" =>
       /\ tr.up > 0 <=> LastIs(v, "up")
       /\ tr.up > 0 => tr.up_run = v[Len(v)].at
  /\ tr.state = "down" <=> DownIn(v, Len(v))

OpenIn(inc) == {x \in inc : x.recovered_at = 0}

EpisodesArePast(tr, inc, v) ==
  /\ tr.state = "down" <=> OpenIn(inc) # {}
  /\ \A x, y \in OpenIn(inc) : x = y
  /\ \A x \in inc : Len(v) > 0 /\ x.started_at < v[Len(v)].at /\ x.recovered_at < v[Len(v)].at

ReferenceHolds(inc, v) ==
  /\ inc = EpisodesIn(v)
  /\ \A n \in Confirming(v) : RecoveryIn(v, n) # {} => HasEarliest(RecoveryIn(v, n))

Good(tr, inc, v, t) ==
  /\ tr \in TrackingRecords /\ inc \subseteq Episodes /\ v \in Seq(ValidSamples)
  /\ SamplesInOrder(v, t)
  /\ TracksLastSample(tr, v)
  /\ EpisodesArePast(tr, inc, v)
  /\ ReferenceHolds(inc, v)

Inv ==
  /\ TypeOK
  /\ \A i \in Interfaces : Good(tracking[i], incidents[i], valid[i], at)

------------------------------------------------------------------------------
(* One more valid sample. *)

LEMMA EarliestIs ==
  ASSUME NEW set \in SUBSET Nat, NEW m \in set, \A x \in set : m <= x
  PROVE  Earliest(set) = m
<1>1. \E u \in set : \A x \in set : u <= x
  OBVIOUS
<1>2. Earliest(set) \in set /\ \A x \in set : Earliest(set) <= x
  BY <1>1 DEF Earliest
<1>3. m \in Nat /\ Earliest(set) \in Nat /\ m <= Earliest(set) /\ Earliest(set) <= m
  BY <1>2
<1> QED BY ONLY <1>3

LEMMA AppendedIs ==
  ASSUME NEW v \in Seq(ValidSamples), NEW x \in ValidSamples
  PROVE  /\ Append(v, x) \in Seq(ValidSamples)
         /\ Len(v) \in Nat /\ Len(Append(v, x)) = Len(v) + 1
         /\ \A n \in 1 .. Len(v) : Append(v, x)[n] = v[n]
         /\ Append(v, x)[Len(v) + 1] = x
OBVIOUS

LEMMA SampleIs ==
  ASSUME NEW v \in Seq(ValidSamples), NEW n \in 1 .. Len(v)
  PROVE  /\ v[n] \in ValidSamples
         /\ v[n].at \in Instants /\ v[n].state \in {"up", "down"}
<1>1. v[n] \in ValidSamples
  OBVIOUS
<1> QED BY <1>1 DEF ValidSamples

LEMMA PairsGrow ==
  ASSUME NEW v \in Seq(ValidSamples), NEW x \in ValidSamples, NEW state
  PROVE  /\ \A n \in 1 .. Len(v) : PairIn(Append(v, x), n, state) <=> PairIn(v, n, state)
         /\ PairIn(Append(v, x), Len(v) + 1, state) <=> x.state = state /\ LastIs(v, state)
<1> DEFINE w == Append(v, x)
<1>1. /\ Len(v) \in Nat
      /\ \A n \in 1 .. Len(v) : w[n] = v[n]
      /\ w[Len(v) + 1] = x
  BY AppendedIs
<1> HIDE DEF w
<1>2. \A n \in 1 .. Len(v) : n > 1 => n - 1 \in 1 .. Len(v)
  BY <1>1
<1>3. \A n \in 1 .. Len(v) : PairIn(w, n, state) <=> PairIn(v, n, state)
  BY <1>1, <1>2 DEF PairIn
<1>4. PairIn(w, Len(v) + 1, state) <=> x.state = state /\ LastIs(v, state)
  BY <1>1 DEF PairIn, LastIs
<1> QED BY <1>3, <1>4 DEF w

LEMMA DownGrows ==
  ASSUME NEW v \in Seq(ValidSamples), NEW x \in ValidSamples
  PROVE  /\ \A n \in 0 .. Len(v) : DownIn(Append(v, x), n) <=> DownIn(v, n)
         /\ DownIn(Append(v, x), Len(v) + 1) <=>
              \/ x.state = "down" /\ LastIs(v, "down")
              \/ DownIn(v, Len(v)) /\ ~(x.state = "up" /\ LastIs(v, "up"))
<1> DEFINE w == Append(v, x)
           k == Len(v)
           up(n) == PairIn(v, n, "up")
           down(n) == PairIn(v, n, "down")
           rise(n) == PairIn(w, n, "up")
           fall(n) == PairIn(w, n, "down")
<1>1. k \in Nat
  BY AppendedIs
<1>2. \A n \in 1 .. k : (rise(n) <=> up(n)) /\ (fall(n) <=> down(n))
  BY PairsGrow
<1>3. /\ rise(k + 1) <=> x.state = "up" /\ LastIs(v, "up")
      /\ fall(k + 1) <=> x.state = "down" /\ LastIs(v, "down")
  BY PairsGrow
<1>4. ~(rise(k + 1) /\ fall(k + 1))
  BY <1>3
<1>5. \A n : /\ DownIn(v, n) <=> \E d \in 1 .. n : down(d) /\ \A u \in d .. n : ~up(u)
             /\ DownIn(w, n) <=> \E d \in 1 .. n : fall(d) /\ \A u \in d .. n : ~rise(u)
  BY DEF DownIn
<1> HIDE DEF w, k, up, down, rise, fall
<1>6. ASSUME NEW n \in 0 .. k PROVE DownIn(w, n) <=> DownIn(v, n)
  <2>1. \A d \in 1 .. n : d \in 1 .. k /\ \A u \in d .. n : u \in 1 .. k
    BY <1>1
  <2> QED BY <1>2, <1>5, <2>1
<1>7. DownIn(w, k + 1) <=> fall(k + 1) \/ (DownIn(v, k) /\ ~rise(k + 1))
  <2>1. /\ k + 1 \in 1 .. k + 1 /\ \A u \in k + 1 .. k + 1 : u = k + 1
        /\ \A d \in 1 .. k + 1 : d = k + 1 \/ d \in 1 .. k
        /\ \A d \in 1 .. k : /\ d \in 1 .. k + 1 /\ k + 1 \in d .. k + 1
                             /\ \A u \in d .. k : u \in 1 .. k /\ u \in d .. k + 1
                             /\ \A u \in d .. k + 1 : u = k + 1 \/ u \in d .. k
    BY <1>1
  <2> QED BY <1>2, <1>4, <1>5, <2>1
<1> QED BY <1>3, <1>6, <1>7 DEF w, k

LEMMA ReferenceGrows ==
  ASSUME NEW v \in Seq(ValidSamples), NEW x \in ValidSamples
  PROVE  LET w == Append(v, x)
             k == Len(v)
         IN /\ \A n \in 1 .. k : ConfirmsIn(w, n) <=> ConfirmsIn(v, n)
            /\ ConfirmsIn(w, k + 1) <=> x.state = "down" /\ LastIs(v, "down") /\ ~DownIn(v, k)
            /\ \A n \in 1 .. k : RecoveryIn(w, n) = RecoveryIn(v, n) \union
                   (IF x.state = "up" /\ LastIs(v, "up") THEN {k + 1} ELSE {})
            /\ x.state = "down" => RecoveryIn(w, k + 1) = {}
<1> DEFINE w == Append(v, x)
           k == Len(v)
           up(n) == PairIn(v, n, "up")
           rise(n) == PairIn(w, n, "up")
           fall(n) == PairIn(w, n, "down")
           down(n) == PairIn(v, n, "down")
<1>1. k \in Nat /\ Len(w) = k + 1
  BY AppendedIs
<1>2. /\ \A n \in 1 .. k : (rise(n) <=> up(n)) /\ (fall(n) <=> down(n))
      /\ rise(k + 1) <=> x.state = "up" /\ LastIs(v, "up")
      /\ fall(k + 1) <=> x.state = "down" /\ LastIs(v, "down")
  BY PairsGrow
<1>3. \A n \in 0 .. k : DownIn(w, n) <=> DownIn(v, n)
  BY DownGrows
<1>4. \A n : /\ RecoveryIn(v, n) = {u \in n .. k : up(u)}
             /\ RecoveryIn(w, n) = {u \in n .. k + 1 : rise(u)}
  BY <1>1 DEF RecoveryIn
<1>5. \A n : /\ ConfirmsIn(w, n) <=> fall(n) /\ ~DownIn(w, n - 1)
             /\ ConfirmsIn(v, n) <=> down(n) /\ ~DownIn(v, n - 1)
  BY DEF ConfirmsIn
<1> HIDE DEF w, k, up, rise, fall, down
<1>6. ASSUME NEW n \in 1 .. k PROVE ConfirmsIn(w, n) <=> ConfirmsIn(v, n)
  <2>1. n - 1 \in 0 .. k
    BY <1>1
  <2>2. DownIn(w, n - 1) <=> DownIn(v, n - 1)
    BY <1>3, <2>1
  <2>3. fall(n) <=> down(n)
    BY <1>2
  <2> QED BY <1>5, <2>2, <2>3
<1>7. ConfirmsIn(w, k + 1) <=> x.state = "down" /\ LastIs(v, "down") /\ ~DownIn(v, k)
  <2>1. (k + 1) - 1 = k /\ k \in 0 .. k
    BY <1>1
  <2> QED BY <1>2, <1>3, <1>5, <2>1
<1>8. ASSUME NEW n \in 1 .. k
      PROVE  RecoveryIn(w, n) = RecoveryIn(v, n) \union
               (IF x.state = "up" /\ LastIs(v, "up") THEN {k + 1} ELSE {})
  <2>1. /\ k + 1 \in n .. k + 1
        /\ \A u \in n .. k + 1 : u = k + 1 \/ u \in n .. k
        /\ \A u \in n .. k : u \in n .. k + 1 /\ u \in 1 .. k /\ u # k + 1
    BY <1>1
  <2> QED BY <1>2, <1>4, <2>1
<1>9. ASSUME x.state = "down"
      PROVE  RecoveryIn(w, k + 1) = {}
  <2>1. \A u \in k + 1 .. k + 1 : u = k + 1
    BY <1>1
  <2>2. ~rise(k + 1)
    BY <1>2, <1>9
  <2>3. RecoveryIn(w, k + 1) = {u \in k + 1 .. k + 1 : rise(u)}
    BY <1>4
  <2> QED BY <2>1, <2>2, <2>3
<1> QED BY <1>6, <1>7, <1>8, <1>9 DEF w, k

LEMMA EpisodeIsOpen ==
  ASSUME NEW v \in Seq(ValidSamples), NEW n \in Confirming(v),
         RecoveryIn(v, n) # {} => HasEarliest(RecoveryIn(v, n))
  PROVE  /\ n \in 2 .. Len(v)
         /\ EpisodeIn(v, n).started_at = v[n - 1].at
         /\ EpisodeIn(v, n).recovered_at = 0 <=> RecoveryIn(v, n) = {}
<1>1. n \in 2 .. Len(v)
  BY AppendedIs DEF Confirming, ConfirmsIn, PairIn
<1>2. CASE RecoveryIn(v, n) = {}
  BY <1>1, <1>2 DEF EpisodeIn
<1>3. CASE RecoveryIn(v, n) # {}
  <2> DEFINE m == Earliest(RecoveryIn(v, n))
  <2>1. m \in RecoveryIn(v, n)
    BY <1>3 DEF HasEarliest, Earliest
  <2>2. m - 1 \in 1 .. Len(v)
    BY <1>1, <2>1 DEF RecoveryIn
  <2> HIDE DEF m
  <2>4. v[m - 1].at # 0
    BY <2>2, SampleIs DEF Instants
  <2>5. EpisodeIn(v, n) = [started_at |-> v[n - 1].at, recovered_at |-> v[m - 1].at]
    BY <1>3 DEF EpisodeIn, m
  <2> QED BY <1>1, <1>3, <2>4, <2>5
<1> QED BY <1>2, <1>3

LEMMA EpisodeGrows ==
  ASSUME NEW v \in Seq(ValidSamples), NEW x \in ValidSamples, NEW n \in Confirming(v),
         RecoveryIn(v, n) # {} => HasEarliest(RecoveryIn(v, n))
  PROVE  LET w == Append(v, x)
             recovers == RecoveryIn(v, n) = {} /\ x.state = "up" /\ LastIs(v, "up")
         IN /\ EpisodeIn(w, n) = IF recovers
                                 THEN [started_at |-> v[n - 1].at, recovered_at |-> v[Len(v)].at]
                                 ELSE EpisodeIn(v, n)
            /\ RecoveryIn(w, n) # {} => HasEarliest(RecoveryIn(w, n))
<1> DEFINE w == Append(v, x)
           k == Len(v)
           old == RecoveryIn(v, n)
           new == RecoveryIn(w, n)
           rises == x.state = "up" /\ LastIs(v, "up")
<1>1. /\ k \in Nat /\ n \in 2 .. k /\ n \in 1 .. k
      /\ \A j \in 1 .. k : w[j] = v[j]
  BY AppendedIs, EpisodeIsOpen
<1>2. new = old \union (IF rises THEN {k + 1} ELSE {})
  BY <1>1, ReferenceGrows
<1>3. old \subseteq n .. k
  BY DEF RecoveryIn
<1>4. /\ EpisodeIn(w, n) = [started_at |-> w[n - 1].at,
                            recovered_at |-> IF new = {} THEN 0 ELSE w[Earliest(new) - 1].at]
      /\ EpisodeIn(v, n) = [started_at |-> v[n - 1].at,
                            recovered_at |-> IF old = {} THEN 0 ELSE v[Earliest(old) - 1].at]
  BY DEF EpisodeIn
<1> HIDE DEF w, k, old, new, rises
<1>5. w[n - 1] = v[n - 1]
  BY <1>1
<1>6. CASE old = {} /\ rises
  <2>1. new = {k + 1} /\ new \in SUBSET Nat
    BY <1>1, <1>2, <1>6
  <2>2. Earliest(new) = k + 1 /\ HasEarliest(new)
    BY <1>1, <2>1, EarliestIs DEF HasEarliest
  <2>3. w[(k + 1) - 1] = v[k]
    BY <1>1
  <2> QED BY <1>4, <1>5, <1>6, <2>1, <2>2, <2>3 DEF w, k, old, new, rises
<1>7. CASE old = {} /\ ~rises
  BY <1>2, <1>4, <1>5, <1>7 DEF w, k, old, new, rises
<1>8. CASE old # {}
  <2>1. PICK m \in old : \A u \in old : m <= u
    BY <1>8 DEF HasEarliest, old
  <2>2. m \in n .. k /\ m \in Nat /\ m - 1 \in 1 .. k /\ m <= k + 1
    BY <1>1, <1>3
  <2>3. /\ m \in new /\ \A u \in new : m <= u
        /\ new \in SUBSET Nat /\ old \in SUBSET Nat
    BY <1>1, <1>2, <1>3, <2>1, <2>2
  <2>4. Earliest(new) = m /\ Earliest(old) = m /\ HasEarliest(new)
    BY <2>1, <2>3, EarliestIs DEF HasEarliest
  <2>5. w[m - 1] = v[m - 1]
    BY <1>1, <2>2
  <2> QED BY <1>4, <1>5, <1>8, <2>3, <2>4, <2>5 DEF w, k, old, new, rises
<1> QED BY <1>6, <1>7, <1>8

------------------------------------------------------------------------------
(* The machine on one valid sample. *)

\* What the sample decides, said of the samples before it.
Opens(v, x) == x.state = "down" /\ LastIs(v, "down") /\ ~DownIn(v, Len(v))
Closes(v, x) == x.state = "up" /\ LastIs(v, "up") /\ DownIn(v, Len(v))

NewEpisode(s, r) == [started_at |-> s, recovered_at |-> r]

RecordedIn(inc, v, x) ==
  IF Opens(v, x) THEN inc \union {NewEpisode(v[Len(v)].at, 0)}
  ELSE IF Closes(v, x)
       THEN (inc \ OpenIn(inc)) \union {NewEpisode(y.started_at, v[Len(v)].at) : y \in OpenIn(inc)}
       ELSE inc

LEMMA SamplesGrow ==
  ASSUME NEW v \in Seq(ValidSamples), NEW t \in Nat, NEW x \in ValidSamples, x.at = t + 1,
         SamplesInOrder(v, t)
  PROVE  SamplesInOrder(Append(v, x), t + 1)
<1> DEFINE w == Append(v, x)
           k == Len(v)
           time(n) == v[n].at
<1>1. /\ k \in Nat /\ Len(w) = k + 1
      /\ \A n \in 1 .. k : w[n].at = time(n)
      /\ w[k + 1].at = t + 1
  BY AppendedIs
<1>2. /\ \A n \in 1 .. k : time(n) <= t /\ time(n) \in Nat
      /\ \A m, n \in 1 .. k : m < n => time(m) < time(n)
  BY SampleIs DEF SamplesInOrder, Instants
<1> HIDE DEF w, k, time
<1>3. \A n \in 1 .. k + 1 : n \in 1 .. k \/ n = k + 1
  BY <1>1
<1>4. \A n \in 1 .. k + 1 : w[n].at <= t + 1
  BY <1>1, <1>2, <1>3
<1>5. ASSUME NEW m \in 1 .. k + 1, NEW n \in 1 .. k + 1, m < n
      PROVE  w[m].at < w[n].at
  <2>1. m \in 1 .. k
    BY <1>1, <1>3, <1>5
  <2>2. CASE n \in 1 .. k
    BY <1>1, <1>2, <1>5, <2>1, <2>2
  <2>3. CASE n = k + 1
    <3>1. w[m].at = time(m) /\ time(m) <= t /\ time(m) \in Nat
      BY <1>1, <1>2, <2>1
    <3> QED BY <1>1, <2>3, <3>1
  <2> QED BY <1>3, <2>2, <2>3
<1> QED BY <1>1, <1>4, <1>5 DEF SamplesInOrder, w

LEMMA FreshIs ==
  /\ Fresh \in TrackingRecords
  /\ \A v : ~DownIn(v, Len(v)) /\ ~LastIs(v, "down") => TracksLastSample(Fresh, v)
<1>1. Fresh.state = "normal" /\ Fresh.down = 0
  BY DEF Fresh, InterfaceTracking
<1>2. Fresh \in TrackingRecords
  BY InterfacesAssumption DEF Fresh, InterfaceTracking, TrackingRecords
<1>3. \A v : ~DownIn(v, Len(v)) /\ ~LastIs(v, "down") => TracksLastSample(Fresh, v)
  BY <1>1 DEF TracksLastSample
<1> QED BY <1>2, <1>3

LEMMA MachineStep ==
  ASSUME NEW v \in Seq(ValidSamples), NEW t \in Nat, t < MaxPolls,
         NEW x \in ValidSamples, x.at = t + 1,
         NEW tr \in TrackingRecords, TracksLastSample(tr, v)
  PROVE  LET d == AdvanceInterfaceState(tr, x.state, t + 1)
             r == v[Len(v)].at
         IN /\ d.tracking \in TrackingRecords
            /\ TracksLastSample(d.tracking, Append(v, x))
            /\ d.incident_started_at = IF Opens(v, x) THEN r ELSE 0
            /\ d.incident_recovered_at = IF Closes(v, x) THEN r ELSE 0
            /\ Opens(v, x) \/ Closes(v, x) => r \in Instants
<1> DEFINE w == Append(v, x)
           k == Len(v)
           r == v[k].at
           d == AdvanceInterfaceState(tr, x.state, t + 1)
<1>1. /\ k \in Nat /\ Len(w) = k + 1 /\ w[k + 1] = x
      /\ x.state \in {"up", "down"} /\ t + 1 \in Instants /\ t + 1 # 0
  BY AppendedIs, InterfacesAssumption DEF ValidSamples, Instants
<1>2. /\ LastIs(w, "down") <=> x.state = "down"
      /\ LastIs(w, "up") <=> x.state = "up"
      /\ w[Len(w)].at = t + 1
  BY <1>1 DEF LastIs
<1>3. DownIn(w, Len(w)) <=> \/ x.state = "down" /\ LastIs(v, "down")
                            \/ DownIn(v, k) /\ ~(x.state = "up" /\ LastIs(v, "up"))
  BY <1>1, DownGrows
<1>4. \A state : LastIs(v, state) => r \in Instants /\ r # 0
  BY <1>1, SampleIs DEF LastIs, Instants
<1>5. ~(LastIs(v, "up") /\ LastIs(v, "down"))
  BY DEF LastIs
<1> HIDE DEF w, k, r
<1>6. CASE x.state = "down" /\ tr.state = "down"
  <2>1. d = Decision(InterfaceTracking("down", tr.down, 0, tr.down_run, 0), 0, 0)
    BY <1>6 DEF AdvanceInterfaceState, DownWhileDown
  <2>2. /\ d.tracking.state = "down" /\ d.tracking.up = 0
        /\ d.tracking \in TrackingRecords
        /\ d.incident_started_at = 0 /\ d.incident_recovered_at = 0
    BY <2>1, InterfacesAssumption DEF Decision, InterfaceTracking, TrackingRecords
  <2>3. DownIn(w, Len(w)) /\ ~LastIs(w, "up")
    BY <1>2, <1>3, <1>6 DEF TracksLastSample, k
  <2>4. TracksLastSample(d.tracking, w)
    BY <2>2, <2>3 DEF TracksLastSample
  <2>5. ~Opens(v, x) /\ ~Closes(v, x)
    BY <1>6 DEF TracksLastSample, Opens, Closes
  <2> QED BY <2>2, <2>4, <2>5 DEF w, k, r
<1>7. CASE x.state = "down" /\ tr.state = "normal" /\ tr.down > 0
  <2>1. /\ tr.down = 1 /\ tr.down_run = r /\ LastIs(v, "down") /\ ~DownIn(v, k)
        /\ r \in Instants
    BY <1>4, <1>7 DEF TracksLastSample, TrackingRecords, k, r
  <2>2. d = Decision(InterfaceTracking("down", 2, 0, r, 0), r, 0)
    BY <1>7, <2>1 DEF AdvanceInterfaceState, DownWhileNormal
  <2>3. /\ d.tracking.state = "down" /\ d.tracking.up = 0
        /\ d.tracking \in TrackingRecords
        /\ d.incident_started_at = r /\ d.incident_recovered_at = 0
    BY <2>1, <2>2, InterfacesAssumption
    DEF Decision, InterfaceTracking, TrackingRecords, Instants
  <2>4. DownIn(w, Len(w)) /\ ~LastIs(w, "up")
    BY <1>2, <1>3, <1>7, <2>1
  <2>5. TracksLastSample(d.tracking, w)
    BY <2>3, <2>4 DEF TracksLastSample
  <2>6. Opens(v, x) /\ ~Closes(v, x)
    BY <1>7, <2>1 DEF Opens, Closes, k
  <2> QED BY <2>1, <2>3, <2>5, <2>6 DEF w, k, r
<1>8. CASE x.state = "down" /\ tr.state = "normal" /\ ~(tr.down > 0)
  <2>1. ~LastIs(v, "down") /\ ~DownIn(v, k) /\ tr.down = 0
    BY <1>8 DEF TracksLastSample, TrackingRecords, k
  <2>2. d = Decision(InterfaceTracking("normal", 1, 0, t + 1, 0), 0, 0)
    BY <1>8, <2>1 DEF AdvanceInterfaceState, DownWhileNormal
  <2>3. /\ d.tracking.state = "normal" /\ d.tracking.down = 1 /\ d.tracking.down_run = t + 1
        /\ d.tracking \in TrackingRecords
        /\ d.incident_started_at = 0 /\ d.incident_recovered_at = 0
    BY <1>1, <2>2, InterfacesAssumption
    DEF Decision, InterfaceTracking, TrackingRecords, Instants
  <2>4. ~DownIn(w, Len(w)) /\ LastIs(w, "down")
    BY <1>2, <1>3, <1>8, <2>1
  <2>5. TracksLastSample(d.tracking, w)
    BY <1>2, <2>3, <2>4 DEF TracksLastSample
  <2>6. ~Opens(v, x) /\ ~Closes(v, x)
    BY <1>8, <2>1 DEF Opens, Closes
  <2> QED BY <2>3, <2>5, <2>6 DEF w, k, r
<1>9. CASE x.state = "up" /\ tr.state = "down" /\ tr.up > 0
  <2>1. /\ tr.up_run = r /\ LastIs(v, "up") /\ DownIn(v, k)
        /\ r \in Instants
    BY <1>4, <1>9 DEF TracksLastSample, k, r
  <2>2. d = Decision(Fresh, 0, r)
    BY <1>9, <2>1 DEF AdvanceInterfaceState, UpWhileDown
  <2>3. /\ d.tracking = Fresh
        /\ d.incident_started_at = 0 /\ d.incident_recovered_at = r
    BY <2>2 DEF Decision
  <2>4. ~DownIn(w, Len(w)) /\ ~LastIs(w, "down")
    BY <1>2, <1>3, <1>5, <1>9, <2>1
  <2>5. ~Opens(v, x) /\ Closes(v, x)
    BY <1>9, <2>1 DEF Opens, Closes, k
  <2> QED BY <2>1, <2>3, <2>4, <2>5, FreshIs DEF w, k, r
<1>10. CASE x.state = "up" /\ tr.state = "down" /\ ~(tr.up > 0)
  <2>1. ~LastIs(v, "up") /\ DownIn(v, k)
    BY <1>10 DEF TracksLastSample, k
  <2>2. d = Decision(InterfaceTracking("down", 0, 1, 0, t + 1), 0, 0)
    BY <1>10 DEF AdvanceInterfaceState, UpWhileDown
  <2>3. /\ d.tracking.state = "down" /\ d.tracking.up = 1 /\ d.tracking.up_run = t + 1
        /\ d.tracking \in TrackingRecords
        /\ d.incident_started_at = 0 /\ d.incident_recovered_at = 0
    BY <1>1, <2>2, InterfacesAssumption
    DEF Decision, InterfaceTracking, TrackingRecords, Instants
  <2>4. DownIn(w, Len(w)) /\ LastIs(w, "up")
    BY <1>2, <1>3, <1>10, <2>1
  <2>5. TracksLastSample(d.tracking, w)
    BY <1>2, <2>3, <2>4 DEF TracksLastSample
  <2>6. ~Opens(v, x) /\ ~Closes(v, x)
    BY <1>10, <2>1 DEF Opens, Closes
  <2> QED BY <2>3, <2>5, <2>6 DEF w, k, r
<1>11. CASE x.state = "up" /\ tr.state = "normal"
  <2>1. ~DownIn(v, k)
    BY <1>11 DEF TracksLastSample, k
  <2>2. d = Decision(Fresh, 0, 0)
    BY <1>11 DEF AdvanceInterfaceState, UpWhileNormal
  <2>3. /\ d.tracking = Fresh
        /\ d.incident_started_at = 0 /\ d.incident_recovered_at = 0
    BY <2>2 DEF Decision
  <2>4. ~DownIn(w, Len(w)) /\ ~LastIs(w, "down")
    BY <1>2, <1>3, <1>11, <2>1
  <2>5. ~Opens(v, x) /\ ~Closes(v, x)
    BY <1>11, <2>1 DEF Opens, Closes, k
  <2> QED BY <2>3, <2>4, <2>5, FreshIs DEF w, k, r
<1>12. tr.state \in {"normal", "down"}
  BY DEF TrackingRecords
<1> QED BY <1>1, <1>6, <1>7, <1>8, <1>9, <1>10, <1>11, <1>12

LEMMA EpisodesStep ==
  ASSUME NEW v \in Seq(ValidSamples), NEW t \in Nat, NEW x \in ValidSamples, x.at = t + 1,
         SamplesInOrder(v, t),
         NEW tr, NEW next, NEW inc \in SUBSET Episodes,
         tr.state = "down" <=> DownIn(v, Len(v)), EpisodesArePast(tr, inc, v),
         next.state = "down" <=> DownIn(Append(v, x), Len(v) + 1),
         Opens(v, x) \/ Closes(v, x) => v[Len(v)].at \in Instants
  PROVE  /\ RecordedIn(inc, v, x) \in SUBSET Episodes
         /\ EpisodesArePast(next, RecordedIn(inc, v, x), Append(v, x))
<1> DEFINE w == Append(v, x)
           k == Len(v)
           r == v[k].at
           inc2 == RecordedIn(inc, v, x)
<1>1. /\ k \in Nat /\ Len(w) = k + 1 /\ w[Len(w)].at = t + 1 /\ 0 < t + 1
  BY AppendedIs
<1>2. \A y \in inc : y \in Episodes /\ y.started_at < t + 1 /\ y.recovered_at < t + 1
  <2>1. k > 0 => r <= t /\ r \in Nat
    BY <1>1, SampleIs DEF SamplesInOrder, Instants
  <2>2. \A y \in inc : k > 0 /\ y.started_at < r /\ y.recovered_at < r
    BY DEF EpisodesArePast
  <2>3. \A y \in inc : y \in Episodes /\ y.started_at \in Nat /\ y.recovered_at \in Nat
    BY InterfacesAssumption DEF Episodes, Instants
  <2> HIDE DEF r, k
  <2> QED BY <2>1, <2>2, <2>3
<1>3. Opens(v, x) \/ Closes(v, x) => r \in Instants /\ r < t + 1 /\ 0 < r
  <2>1. SUFFICES ASSUME Opens(v, x) \/ Closes(v, x) PROVE r \in Instants /\ r < t + 1 /\ 0 < r
    OBVIOUS
  <2>2. k > 0
    BY <2>1 DEF Opens, Closes, LastIs
  <2>3. r <= t /\ r \in Nat
    BY <1>1, <2>2, SampleIs DEF SamplesInOrder, Instants
  <2> QED BY <2>1, <2>3 DEF Instants
<1>4. DownIn(w, k + 1) <=> \/ x.state = "down" /\ LastIs(v, "down")
                           \/ DownIn(v, k) /\ ~(x.state = "up" /\ LastIs(v, "up"))
  BY DownGrows
<1> HIDE DEF w, k, r
<1>5. CASE Opens(v, x)
  <2>1. inc2 = inc \union {NewEpisode(r, 0)}
    BY <1>5 DEF RecordedIn, r, k
  <2>2. /\ OpenIn(inc) = {} /\ next.state = "down"
    BY <1>4, <1>5 DEF Opens, EpisodesArePast, k, w
  <2>3. /\ NewEpisode(r, 0) \in Episodes /\ NewEpisode(r, 0).started_at = r
        /\ NewEpisode(r, 0).recovered_at = 0
    BY <1>3, <1>5, InterfacesAssumption DEF NewEpisode, Episodes
  <2>4. OpenIn(inc2) = {NewEpisode(r, 0)}
    BY <2>1, <2>2, <2>3 DEF OpenIn
  <2>5. \A y \in inc2 : y \in Episodes /\ y.started_at < t + 1 /\ y.recovered_at < t + 1
    BY <1>1, <1>2, <1>3, <1>5, <2>1, <2>3
  <2> HIDE DEF inc2
  <2> QED BY <1>1, <2>2, <2>4, <2>5 DEF EpisodesArePast, inc2, w
<1>6. CASE Closes(v, x)
  <2>1. inc2 = (inc \ OpenIn(inc)) \union {NewEpisode(y.started_at, r) : y \in OpenIn(inc)}
    BY <1>6 DEF RecordedIn, Opens, Closes, r, k
  <2>2. next.state # "down"
    BY <1>4, <1>6 DEF Closes, k, w
  <2>3. \A y \in OpenIn(inc) :
          /\ NewEpisode(y.started_at, r) \in Episodes
          /\ NewEpisode(y.started_at, r).started_at < t + 1
          /\ NewEpisode(y.started_at, r).recovered_at = r
    BY <1>2, <1>3, <1>6 DEF NewEpisode, Episodes, OpenIn, Instants
  <2>4. OpenIn(inc2) = {}
    BY <1>3, <1>6, <2>1, <2>3 DEF OpenIn
  <2>5. \A y \in inc2 : y \in Episodes /\ y.started_at < t + 1 /\ y.recovered_at < t + 1
    BY <1>2, <1>3, <1>6, <2>1, <2>3
  <2> HIDE DEF inc2
  <2> QED BY <1>1, <2>2, <2>4, <2>5 DEF EpisodesArePast, inc2, w
<1>7. CASE ~Opens(v, x) /\ ~Closes(v, x)
  <2>1. inc2 = inc
    BY <1>7 DEF RecordedIn
  <2>2. next.state = "down" <=> tr.state = "down"
    BY <1>4, <1>7 DEF Opens, Closes, k, w
  <2>3. \A y \in inc2 : y \in Episodes /\ y.started_at < t + 1 /\ y.recovered_at < t + 1
    BY <1>2, <2>1
  <2>4. (tr.state = "down" <=> OpenIn(inc) # {}) /\ \A y, z \in OpenIn(inc) : y = z
    BY DEF EpisodesArePast
  <2> HIDE DEF inc2
  <2> QED BY <1>1, <2>1, <2>2, <2>3, <2>4 DEF EpisodesArePast, inc2, w
<1> QED BY <1>5, <1>6, <1>7

LEMMA ReferenceStep ==
  ASSUME NEW v \in Seq(ValidSamples), NEW x \in ValidSamples, NEW inc, ReferenceHolds(inc, v),
         ~DownIn(v, Len(v)) => OpenIn(inc) = {}
  PROVE  ReferenceHolds(RecordedIn(inc, v, x), Append(v, x))
<1> DEFINE w == Append(v, x)
           k == Len(v)
           r == v[k].at
           inc2 == RecordedIn(inc, v, x)
           rises == x.state = "up" /\ LastIs(v, "up")
<1>1. k \in Nat /\ Len(w) = k + 1 /\ w[k + 1] = x /\ \A n \in 1 .. k : w[n] = v[n]
  BY AppendedIs
<1>2. /\ inc = {EpisodeIn(v, n) : n \in Confirming(v)}
      /\ \A n \in Confirming(v) : RecoveryIn(v, n) # {} => HasEarliest(RecoveryIn(v, n))
  BY DEF ReferenceHolds, EpisodesIn
<1>3. /\ \A n \in 1 .. k : ConfirmsIn(w, n) <=> ConfirmsIn(v, n)
      /\ ConfirmsIn(w, k + 1) <=> Opens(v, x)
      /\ x.state = "down" => RecoveryIn(w, k + 1) = {}
  BY ReferenceGrows DEF Opens
<1>4. \A n \in Confirming(v) :
        /\ n \in 2 .. k
        /\ EpisodeIn(v, n).started_at = v[n - 1].at
        /\ EpisodeIn(v, n) \in OpenIn(inc) <=> RecoveryIn(v, n) = {}
  <2>1. \A n \in Confirming(v) :
          /\ n \in 2 .. k /\ EpisodeIn(v, n).started_at = v[n - 1].at
          /\ EpisodeIn(v, n).recovered_at = 0 <=> RecoveryIn(v, n) = {}
    BY <1>2, EpisodeIsOpen
  <2> HIDE DEF k
  <2> QED BY <1>2, <2>1 DEF OpenIn
<1>5. \A n \in Confirming(v) :
        /\ EpisodeIn(w, n) = IF RecoveryIn(v, n) = {} /\ rises
                             THEN NewEpisode(v[n - 1].at, r) ELSE EpisodeIn(v, n)
        /\ RecoveryIn(w, n) # {} => HasEarliest(RecoveryIn(w, n))
  <2>1. ASSUME NEW n \in Confirming(v)
        PROVE  /\ EpisodeIn(w, n) = IF RecoveryIn(v, n) = {} /\ rises
                                    THEN NewEpisode(v[n - 1].at, r) ELSE EpisodeIn(v, n)
               /\ RecoveryIn(w, n) # {} => HasEarliest(RecoveryIn(w, n))
    BY <1>2, EpisodeGrows DEF NewEpisode
  <2> QED BY <2>1
<1>6. \A n : n \in Confirming(w) <=> n \in Confirming(v) \/ (n = k + 1 /\ Opens(v, x))
  <2>1. \A n : /\ n \in 1 .. k + 1 <=> n \in 1 .. k \/ n = k + 1
               /\ k + 1 \notin 1 .. k
    BY <1>1
  <2>2. \A n : /\ n \in Confirming(w) <=> n \in 1 .. k + 1 /\ ConfirmsIn(w, n)
               /\ n \in Confirming(v) <=> n \in 1 .. k /\ ConfirmsIn(v, n)
    BY <1>1 DEF Confirming
  <2> HIDE DEF w, k
  <2> QED BY <1>3, <2>1, <2>2
<1>7. EpisodesIn(w) = {EpisodeIn(w, n) : n \in Confirming(w)}
  BY DEF EpisodesIn
<1> HIDE DEF w, k, r, rises
<1>8. inc2 = EpisodesIn(w)
  <2>1. CASE Opens(v, x)
    <3>1. inc2 = inc \union {NewEpisode(r, 0)} /\ ~rises
      BY <2>1 DEF RecordedIn, Opens, r, k, rises
    <3>2. EpisodeIn(w, k + 1) = NewEpisode(r, 0)
      <4>1. RecoveryIn(w, k + 1) = {}
        BY <1>3, <2>1 DEF Opens
      <4>2. (k + 1) - 1 = k /\ k > 0 /\ w[k] = v[k]
        BY <1>1, <2>1 DEF Opens, LastIs, k
      <4> QED BY <4>1, <4>2 DEF EpisodeIn, NewEpisode, r
    <3>3. \A n \in Confirming(v) : EpisodeIn(w, n) = EpisodeIn(v, n)
      BY <1>5, <3>1
    <3> QED BY <1>2, <1>6, <1>7, <2>1, <3>1, <3>2, <3>3
  <2>2. CASE Closes(v, x)
    <3>1. /\ inc2 = (inc \ OpenIn(inc)) \union {NewEpisode(y.started_at, r) : y \in OpenIn(inc)}
          /\ rises /\ ~Opens(v, x)
      BY <2>2 DEF RecordedIn, Opens, Closes, r, k, rises
    <3>2. \A n \in Confirming(v) :
            EpisodeIn(w, n) = IF EpisodeIn(v, n) \in OpenIn(inc)
                              THEN NewEpisode(EpisodeIn(v, n).started_at, r)
                              ELSE EpisodeIn(v, n)
      BY <1>4, <1>5, <3>1
    <3>3. OpenIn(inc) \subseteq inc
      BY DEF OpenIn
    <3>4. Confirming(w) = Confirming(v)
      BY <1>6, <3>1
    <3>5. EpisodesIn(w) = {IF y \in OpenIn(inc) THEN NewEpisode(y.started_at, r) ELSE y : y \in inc}
      BY <1>2, <1>7, <3>2, <3>4
    <3> QED BY <3>1, <3>3, <3>5
  <2>3. CASE ~Opens(v, x) /\ ~Closes(v, x)
    <3>1. inc2 = inc
      BY <2>3 DEF RecordedIn
    <3>2. \A n \in Confirming(v) : ~(RecoveryIn(v, n) = {} /\ rises)
      BY <1>4, <2>3 DEF Closes, rises, k
    <3>3. \A n \in Confirming(v) : EpisodeIn(w, n) = EpisodeIn(v, n)
      BY <1>5, <3>2
    <3>4. Confirming(w) = Confirming(v)
      BY <1>6, <2>3
    <3> QED BY <1>2, <1>7, <3>1, <3>3, <3>4
  <2> QED BY <2>1, <2>2, <2>3
<1>9. \A n \in Confirming(w) : RecoveryIn(w, n) # {} => HasEarliest(RecoveryIn(w, n))
  BY <1>3, <1>5, <1>6 DEF Opens
<1> QED BY <1>8, <1>9 DEF ReferenceHolds, w

------------------------------------------------------------------------------
(* The steps of the module. *)

LEMMA GoodAtFirst == Good(Fresh, {}, <<>>, 0)
<1>1. <<>> \in Seq(ValidSamples) /\ Len(<<>>) = 0
  OBVIOUS
<1>2. ~DownIn(<<>>, Len(<<>>)) /\ ~LastIs(<<>>, "down") /\ Confirming(<<>>) = {}
  BY <1>1 DEF DownIn, LastIs, Confirming
<1>3. Fresh.state = "normal"
  BY DEF Fresh, InterfaceTracking
<1>4. Fresh \in TrackingRecords /\ TracksLastSample(Fresh, <<>>)
  BY <1>2, FreshIs
<1>5. SamplesInOrder(<<>>, 0) /\ EpisodesArePast(Fresh, {}, <<>>) /\ ReferenceHolds({}, <<>>)
  BY <1>1, <1>2, <1>3
  DEF SamplesInOrder, EpisodesArePast, OpenIn, ReferenceHolds, EpisodesIn
<1> QED BY <1>1, <1>4, <1>5 DEF Good

LEMMA GoodWaits ==
  ASSUME NEW tr, NEW inc, NEW v, NEW t \in Nat, Good(tr, inc, v, t)
  PROVE  Good(tr, inc, v, t + 1)
<1>1. \A n \in 1 .. Len(v) : v[n].at <= t + 1
  <2>1. v \in Seq(ValidSamples) /\ SamplesInOrder(v, t)
    BY DEF Good
  <2>2. \A n \in 1 .. Len(v) : v[n].at \in Nat /\ v[n].at <= t
    BY <2>1, SampleIs DEF SamplesInOrder, Instants
  <2> QED BY <2>2
<1> QED BY <1>1 DEF Good, SamplesInOrder

LEMMA RecordedIs ==
  ASSUME NEW i, NEW tr, NEW v, NEW x, NEW d,
         incidents[i] \in SUBSET Episodes, EpisodesArePast(tr, incidents[i], v),
         tr.state = "down" <=> DownIn(v, Len(v)),
         d.incident_started_at = IF Opens(v, x) THEN v[Len(v)].at ELSE 0,
         d.incident_recovered_at = IF Closes(v, x) THEN v[Len(v)].at ELSE 0,
         Opens(v, x) \/ Closes(v, x) => v[Len(v)].at \in Instants
  PROVE  Recorded(i, d) = RecordedIn(incidents[i], v, x)
<1> DEFINE r == v[Len(v)].at
<1>1. Open(i) = OpenIn(incidents[i])
  BY DEF Open, OpenIn
<1>2. Opens(v, x) \/ Closes(v, x) => r # 0
  BY DEF Instants
<1>3. ~(Opens(v, x) /\ Closes(v, x))
  BY DEF Opens, Closes
<1>4. Opens(v, x) => OpenIn(incidents[i]) = {}
  BY DEF Opens, EpisodesArePast
<1>5. \A y \in OpenIn(incidents[i]) :
        [y EXCEPT !.recovered_at = r] = NewEpisode(y.started_at, r)
  BY DEF OpenIn, Episodes, NewEpisode
<1> HIDE DEF r
<1>6. CASE Opens(v, x)
  <2>1. /\ d.incident_started_at = r /\ r # 0 /\ Open(i) = {}
        /\ d.incident_recovered_at = 0
    BY <1>1, <1>2, <1>3, <1>4, <1>6 DEF r
  <2>2. Recorded(i, d) = incidents[i] \union {NewEpisode(r, 0)}
    BY <2>1 DEF Recorded, NewEpisode
  <2> QED BY <1>6, <2>2 DEF RecordedIn, r
<1>7. CASE Closes(v, x)
  <2>1. {[y EXCEPT !.recovered_at = r] : y \in OpenIn(incidents[i])} =
          {NewEpisode(y.started_at, r) : y \in OpenIn(incidents[i])}
    BY <1>5
  <2>2. d.incident_started_at = 0 /\ d.incident_recovered_at = r /\ r # 0
    BY <1>2, <1>3, <1>7 DEF r
  <2>3. Recorded(i, d) = (incidents[i] \ OpenIn(incidents[i])) \union
                           {[y EXCEPT !.recovered_at = r] : y \in OpenIn(incidents[i])}
    BY <1>1, <2>2 DEF Recorded
  <2> QED BY <1>3, <1>7, <2>1, <2>3 DEF RecordedIn, r
<1>8. CASE ~Opens(v, x) /\ ~Closes(v, x)
  BY <1>8 DEF Recorded, RecordedIn
<1> QED BY <1>6, <1>7, <1>8

\* What a poll does to one interface: nothing, or what its valid sample decides.
LEMMA PollStep ==
  ASSUME Inv, NEW sample \in [Interfaces -> Samples], RecordInterfaceStates(sample),
         NEW i \in Interfaces
  PROVE  \/ /\ tracking'[i] = tracking[i] /\ incidents'[i] = incidents[i]
            /\ valid'[i] = valid[i]
         \/ \E x \in ValidSamples :
              /\ x.at = at + 1
              /\ tracking'[i] = AdvanceInterfaceState(tracking[i], x.state, at + 1).tracking
              /\ incidents'[i] = RecordedIn(incidents[i], valid[i], x)
              /\ valid'[i] = Append(valid[i], x)
<1> DEFINE d == AdvanceInterfaceState(tracking[i], sample[i], at + 1)
           processed == monitored[i] /\ sample[i] # "missing"
<1>1. /\ tracking'[i] = IF processed THEN d.tracking ELSE tracking[i]
      /\ incidents'[i] = IF processed THEN Recorded(i, d) ELSE incidents[i]
      /\ valid'[i] = IF processed /\ sample[i] \in {"up", "down"}
                     THEN Append(valid[i], [at |-> at + 1, state |-> sample[i]])
                     ELSE valid[i]
  BY DEF RecordInterfaceStates
<1>2. /\ Good(tracking[i], incidents[i], valid[i], at) /\ at \in Nat /\ at < MaxPolls
      /\ at + 1 \in Instants
  BY InterfacesAssumption DEF Inv, TypeOK, RecordInterfaceStates, Instants
<1>3. CASE ~processed
  BY <1>1, <1>3
<1>4. CASE processed /\ sample[i] \notin {"up", "down"}
  <2>1. d = Decision(tracking[i], 0, 0)
    BY <1>4 DEF AdvanceInterfaceState
  <2>2. d.tracking = tracking[i] /\ Recorded(i, d) = incidents[i]
    BY <2>1 DEF Decision, Recorded
  <2> QED BY <1>1, <1>4, <2>2
<1>5. CASE processed /\ sample[i] \in {"up", "down"}
  <2> DEFINE x == [at |-> at + 1, state |-> sample[i]]
  <2>1. x \in ValidSamples /\ x.at = at + 1 /\ x.state = sample[i]
    BY <1>2, <1>5 DEF ValidSamples
  <2>2. /\ tracking[i] \in TrackingRecords /\ incidents[i] \in SUBSET Episodes
        /\ valid[i] \in Seq(ValidSamples)
        /\ TracksLastSample(tracking[i], valid[i])
        /\ EpisodesArePast(tracking[i], incidents[i], valid[i])
    BY <1>2 DEF Good
  <2> HIDE DEF x
  <2>3. d = AdvanceInterfaceState(tracking[i], x.state, at + 1)
    BY <2>1
  <2>4. /\ d.incident_started_at = IF Opens(valid[i], x) THEN valid[i][Len(valid[i])].at ELSE 0
        /\ d.incident_recovered_at = IF Closes(valid[i], x) THEN valid[i][Len(valid[i])].at ELSE 0
        /\ Opens(valid[i], x) \/ Closes(valid[i], x) => valid[i][Len(valid[i])].at \in Instants
    BY <1>2, <2>1, <2>2, <2>3, MachineStep
  <2>5. tracking[i].state = "down" <=> DownIn(valid[i], Len(valid[i]))
    BY <2>2 DEF TracksLastSample
  <2> HIDE DEF d
  <2>6. Recorded(i, d) = RecordedIn(incidents[i], valid[i], x)
    BY <2>2, <2>4, <2>5, RecordedIs
  <2> QED BY <1>1, <1>5, <2>1, <2>3, <2>6 DEF x
<1> QED BY <1>3, <1>4, <1>5

LEMMA GoodSteps ==
  ASSUME NEW tr, NEW inc, NEW v, NEW t \in Nat, t < MaxPolls, Good(tr, inc, v, t),
         NEW x \in ValidSamples, x.at = t + 1
  PROVE  Good(AdvanceInterfaceState(tr, x.state, t + 1).tracking, RecordedIn(inc, v, x),
              Append(v, x), t + 1)
<1> DEFINE next == AdvanceInterfaceState(tr, x.state, t + 1).tracking
<1>1. /\ tr \in TrackingRecords /\ inc \in SUBSET Episodes /\ v \in Seq(ValidSamples)
      /\ SamplesInOrder(v, t) /\ TracksLastSample(tr, v) /\ EpisodesArePast(tr, inc, v)
      /\ ReferenceHolds(inc, v)
  BY DEF Good
<1>2. /\ Append(v, x) \in Seq(ValidSamples) /\ Len(Append(v, x)) = Len(v) + 1
      /\ SamplesInOrder(Append(v, x), t + 1)
  BY <1>1, AppendedIs, SamplesGrow
<1>3. /\ next \in TrackingRecords /\ TracksLastSample(next, Append(v, x))
      /\ Opens(v, x) \/ Closes(v, x) => v[Len(v)].at \in Instants
  BY <1>1, MachineStep
<1>4. /\ tr.state = "down" <=> DownIn(v, Len(v))
      /\ next.state = "down" <=> DownIn(Append(v, x), Len(v) + 1)
  BY <1>1, <1>2, <1>3 DEF TracksLastSample
<1> HIDE DEF next
<1>5. /\ RecordedIn(inc, v, x) \in SUBSET Episodes
      /\ EpisodesArePast(next, RecordedIn(inc, v, x), Append(v, x))
  BY <1>1, <1>3, <1>4, EpisodesStep
<1>6. ~DownIn(v, Len(v)) => OpenIn(inc) = {}
  BY <1>1, <1>4 DEF EpisodesArePast
<1>7. ReferenceHolds(RecordedIn(inc, v, x), Append(v, x))
  BY <1>1, <1>6, ReferenceStep
<1> QED BY <1>2, <1>3, <1>5, <1>7 DEF Good, next

LEMMA GoodIsInvariant ==
  /\ Init => Inv
  /\ Inv /\ [Next]_vars => Inv'
<1>1. Init => Inv
  <2> SUFFICES ASSUME Init PROVE Inv
    OBVIOUS
  <2>1. TypeOK
    <3>1. Fresh \in TrackingRecords
      BY FreshIs
    <3> QED BY <3>1, InterfacesAssumption DEF Init, TypeOK
  <2>2. \A i \in Interfaces : /\ tracking[i] = Fresh /\ incidents[i] = {}
                              /\ valid[i] = <<>> /\ at = 0
    BY DEF Init
  <2> QED BY <2>1, <2>2, GoodAtFirst DEF Inv
<1>2. Inv /\ [Next]_vars => Inv'
  <2> SUFFICES ASSUME Inv, [Next]_vars PROVE Inv'
    OBVIOUS
  <2>1. ASSUME NEW sample \in [Interfaces -> Samples], RecordInterfaceStates(sample)
        PROVE  Inv'
    <3>1. at \in Nat /\ at < MaxPolls /\ at' = at + 1
      BY <2>1, InterfacesAssumption DEF Inv, TypeOK, RecordInterfaceStates
    <3>2. ASSUME NEW i \in Interfaces
          PROVE  Good(tracking'[i], incidents'[i], valid'[i], at + 1)
      <4>1. Good(tracking[i], incidents[i], valid[i], at)
        BY DEF Inv
      <4>2. CASE /\ tracking'[i] = tracking[i] /\ incidents'[i] = incidents[i]
                 /\ valid'[i] = valid[i]
        BY <3>1, <4>1, <4>2, GoodWaits
      <4>3. CASE \E x \in ValidSamples :
                   /\ x.at = at + 1
                   /\ tracking'[i] = AdvanceInterfaceState(tracking[i], x.state, at + 1).tracking
                   /\ incidents'[i] = RecordedIn(incidents[i], valid[i], x)
                   /\ valid'[i] = Append(valid[i], x)
        BY <3>1, <4>1, <4>3, GoodSteps
      <4> QED BY <2>1, <4>2, <4>3, PollStep
    <3>3. /\ DOMAIN tracking' = Interfaces /\ DOMAIN incidents' = Interfaces
          /\ DOMAIN valid' = Interfaces
          /\ tracking' = [i \in Interfaces |-> tracking'[i]]
          /\ incidents' = [i \in Interfaces |-> incidents'[i]]
          /\ valid' = [i \in Interfaces |-> valid'[i]]
      BY <2>1 DEF RecordInterfaceStates
    <3>4. \A i \in Interfaces :
            /\ tracking'[i] \in TrackingRecords /\ incidents'[i] \in SUBSET Episodes
            /\ valid'[i] \in Seq(ValidSamples)
      BY <3>2 DEF Good
    <3>5. /\ tracking' \in [Interfaces -> TrackingRecords]
          /\ incidents' \in [Interfaces -> SUBSET Episodes]
          /\ valid' \in [Interfaces -> Seq(ValidSamples)]
      BY <3>3, <3>4
    <3>6. monitored' \in [Interfaces -> BOOLEAN] /\ at' \in 0 .. MaxPolls
      BY <2>1, <3>1, InterfacesAssumption DEF Inv, TypeOK, RecordInterfaceStates
    <3>7. TypeOK'
      BY <3>5, <3>6 DEF TypeOK, Episodes, ValidSamples
    <3> QED BY <3>1, <3>2, <3>7 DEF Inv
  <2>2. ASSUME NEW i \in Interfaces, NEW flag \in BOOLEAN, SetMonitored(i, flag)
        PROVE  Inv'
    BY <2>2 DEF Inv, TypeOK, SetMonitored
  <2>3. CASE UNCHANGED vars
    BY <2>3 DEF Inv, TypeOK, vars
  <2> QED BY <2>1, <2>2, <2>3 DEF Next
<1> QED BY <1>1, <1>2

LEMMA InvHolds == Spec => []Inv
<1> QED BY GoodIsInvariant, PTL DEF Spec

\* Every state of the module has the type the comments of its variables give.
THEOREM TypeCorrect == Spec => []TypeOK
<1>1. Inv => TypeOK
  BY DEF Inv
<1> QED BY <1>1, InvHolds, PTL

\* Whatever is undetermined, missing or unmonitored between the samples, the incidents
\* are those the reference reads off the valid ones.
THEOREM EvidenceIsExact == Spec => []ValidSamplesDecide
<1>1. Inv => ValidSamplesDecide
  <2> SUFFICES ASSUME Inv, NEW i \in Interfaces
               PROVE  incidents[i] = {Episode(i, n) : n \in {m \in 1 .. Len(valid[i]) :
                                        Pair(i, m, "down") /\ ~DownAt(i, m - 1)}}
    BY DEF ValidSamplesDecide
  <2>1. incidents[i] = EpisodesIn(valid[i])
    BY DEF Inv, Good, ReferenceHolds
  <2>2. \A n, state : Pair(i, n, state) <=> PairIn(valid[i], n, state)
    BY DEF Pair, PairIn
  <2>3. \A n : /\ DownAt(i, n) <=> DownIn(valid[i], n)
               /\ Recovery(i, n) = RecoveryIn(valid[i], n)
    BY <2>2 DEF DownAt, DownIn, Recovery, RecoveryIn
  <2>4. ASSUME NEW n PROVE Episode(i, n) = EpisodeIn(valid[i], n)
    <3>1. Recovery(i, n) = RecoveryIn(valid[i], n)
      BY <2>3
    <3>2. Earliest(Recovery(i, n)) = CHOOSE u \in Recovery(i, n) : \A v \in Recovery(i, n) : u <= v
      BY DEF Earliest
    <3>3. Episode(i, n) = [started_at |-> valid[i][n - 1].at,
                           recovered_at |-> IF Recovery(i, n) = {} THEN 0
                                            ELSE valid[i][Earliest(Recovery(i, n)) - 1].at]
      BY <3>2 DEF Episode
    <3> QED BY <3>1, <3>3 DEF EpisodeIn
  <2>5. {m \in 1 .. Len(valid[i]) : Pair(i, m, "down") /\ ~DownAt(i, m - 1)} =
          Confirming(valid[i])
    BY <2>2, <2>3 DEF Confirming, ConfirmsIn
  <2> QED BY <2>1, <2>4, <2>5 DEF EpisodesIn
<1> QED BY <1>1, InvHolds, PTL

LEMMA LedgerStep == ASSUME Inv, Next PROVE Ledger!LedgerNext
<1> SUFFICES ASSUME NEW s \in Interfaces
             PROVE  \/ Ledger!OpenIncident(s) \/ Ledger!CloseIncident(s)
                    \/ incidents'[s] = incidents[s]
  BY DEF Ledger!LedgerNext
<1>1. ASSUME NEW sample \in [Interfaces -> Samples], RecordInterfaceStates(sample),
             NEW x \in ValidSamples, incidents'[s] = RecordedIn(incidents[s], valid[s], x)
      PROVE  \/ Ledger!OpenIncident(s) \/ Ledger!CloseIncident(s)
             \/ incidents'[s] = incidents[s]
  <2> DEFINE r == valid[s][Len(valid[s])].at
             inc == incidents[s]
  <2>1. /\ inc \in SUBSET Episodes /\ valid[s] \in Seq(ValidSamples)
        /\ EpisodesArePast(tracking[s], inc, valid[s])
        /\ TracksLastSample(tracking[s], valid[s])
    BY DEF Inv, Good
  <2>2. \A y \in inc : y.started_at < r /\ y.recovered_at < r /\ y.recovered_at \in 0 .. MaxPolls
    BY <2>1 DEF EpisodesArePast, Episodes
  <2> HIDE DEF r, inc
  <2>3. CASE Opens(valid[s], x)
    <3>1. OpenIn(inc) = {}
      BY <2>1, <2>3 DEF Opens, EpisodesArePast, TracksLastSample
    <3>2. incidents'[s] = inc \union {NewEpisode(r, 0)}
      BY <1>1, <2>3 DEF RecordedIn, r, inc
    <3>3. NewEpisode(r, 0).recovered_at = 0 /\ NewEpisode(r, 0).started_at = r
      BY DEF NewEpisode
    <3>4. \A y \in inc : 0 < y.recovered_at /\ y.recovered_at < r
      BY <2>2, <3>1, InterfacesAssumption DEF OpenIn
    <3> QED BY <3>2, <3>3, <3>4 DEF Ledger!OpenIncident, inc
  <2>4. CASE Closes(valid[s], x)
    <3>1. PICK o : OpenIn(inc) = {o}
      <4>1. OpenIn(inc) # {} /\ \A y, z \in OpenIn(inc) : y = z
        BY <2>1, <2>4 DEF Closes, EpisodesArePast, TracksLastSample
      <4> QED BY <4>1
    <3>2. incidents'[s] = (inc \ {o}) \union {NewEpisode(o.started_at, r)}
      BY <1>1, <2>4, <3>1 DEF RecordedIn, Opens, Closes, r, inc
    <3>3. /\ NewEpisode(o.started_at, r).started_at = o.started_at
          /\ NewEpisode(o.started_at, r).recovered_at = r
      BY DEF NewEpisode
    <3>4. o \in inc /\ o.recovered_at = 0 /\ r > o.started_at
      BY <2>2, <3>1 DEF OpenIn
    <3>5. NewEpisode(o.started_at, r) \in incidents'[s]
      BY <3>2
    <3> QED BY <3>2, <3>3, <3>4, <3>5 DEF Ledger!CloseIncident, inc
  <2>5. CASE ~Opens(valid[s], x) /\ ~Closes(valid[s], x)
    BY <1>1, <2>5 DEF RecordedIn
  <2> QED BY <2>3, <2>4, <2>5
<1>2. ASSUME NEW sample \in [Interfaces -> Samples], RecordInterfaceStates(sample)
      PROVE  \/ incidents'[s] = incidents[s]
             \/ \E x \in ValidSamples : incidents'[s] = RecordedIn(incidents[s], valid[s], x)
  BY <1>2, PollStep
<1>3. ASSUME NEW i \in Interfaces, NEW flag \in BOOLEAN, SetMonitored(i, flag)
      PROVE  incidents'[s] = incidents[s]
  BY <1>3 DEF SetMonitored
<1> QED BY <1>1, <1>2, <1>3 DEF Next

\* The episodes stay disjoint, in order and unchanged, whichever interfaces are taken out
\* of monitoring and put back, and whenever.
THEOREM LedgerKept == Spec => KeepsLedger
<1>1. Init => Ledger!LedgerInit
  BY DEF Init, Ledger!LedgerInit
<1>2. Inv /\ [Next]_vars => [Ledger!LedgerNext]_incidents
  BY LedgerStep DEF vars
<1> QED BY <1>1, <1>2, InvHolds, PTL DEF Spec, KeepsLedger, Ledger!Ledger
================================================================================
