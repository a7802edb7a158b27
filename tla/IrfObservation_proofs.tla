------------------------- MODULE IrfObservation_proofs -------------------------
(***************************************************************************)
(* That the rows of a fabric say what its answers said: which member was   *)
(* lacking at the end of a week and when it was lacking before, and where  *)
(* a role changed; and that what a report says of a week is settled once   *)
(* its answers are in. For any members and roles, any number of answers    *)
(* and any lengths of week and answer.                                     *)
(***************************************************************************)
EXTENDS IrfObservation, FiniteSetTheorems, SequenceTheorems, WellFoundedInduction, TLAPS

AnswerRecords == [at: Times, sample: Samples]

\* The answers that recognized a role of the member.
Recognized(m) == {i \in DOMAIN answers : Lists(i, m) /\ answers[i].sample[m] # NoRole}
IsLast(i, S) == i \in S /\ \A j \in S : j <= i

\* One answer after the other, the one in progress after all.
AnswersOrdered ==
  /\ answers \in Seq(AnswerRecords)
  /\ \A i, j \in DOMAIN answers : i < j => answers[i].at < answers[j].at
  /\ Observed => \A i \in DOMAIN answers : answers[i].at < asked

\* A member is known once it was listed, with the role last recognized.
MembersFollow ==
  \A m \in Members :
    /\ members[m] # Absent <=> \E i \in DOMAIN answers : Lists(i, m)
    /\ \/ members[m] \in {Absent, NoRole} /\ Recognized(m) = {}
       \/ \E i \in DOMAIN answers :
            IsLast(i, Recognized(m)) /\ members[m] = answers[i].sample[m]

\* Every row is of an answer, and says whether that listed the member.
RowFollows(row) ==
  \E i \in DOMAIN answers :
    /\ row.at = answers[i].at
    /\ row.observed <=> Lists(i, row.member)
    /\ ListedBy(i, row.member)

\* Every answer has a row for each member that was known by then.
AnswersAreStored ==
  \A i \in DOMAIN answers, m \in Members :
    ListedBy(i, m) => \E k \in DOMAIN rows : rows[k].member = m /\ rows[k].at = answers[i].at

RowsOrdered == \A k, l \in DOMAIN rows : k < l => rows[k].at <= rows[l].at

\* RoleChangesAreReliable, row by row, with a witness for the last answer before.
Earlier(row) == {i \in Recognized(row.member) : answers[i].at < row.at}
ChangeIsReliable(row) ==
  IF row.role_changed
  THEN /\ row.role # NoRole
       /\ \E i \in DOMAIN answers : /\ IsLast(i, Earlier(row))
                                    /\ answers[i].sample[row.member] = row.previous_role
                                    /\ row.previous_role # row.role
  ELSE \/ row.role = NoRole
       \/ Earlier(row) = {}
       \/ \E i \in DOMAIN answers : /\ IsLast(i, Earlier(row))
                                    /\ answers[i].sample[row.member] = row.role

Inv ==
  /\ TypeOK
  /\ AnswersOrdered
  /\ MembersFollow
  /\ \A k \in DOMAIN rows : RowFollows(rows[k])
  /\ AnswersAreStored
  /\ RowsOrdered
  /\ \A k \in DOMAIN rows : ChangeIsReliable(rows[k])

------------------------------------------------------------------------------
(* Last elements. *)

LEMMA MaxIs ==
  ASSUME NEW S \in SUBSET Int, NEW i, IsLast(i, S)
  PROVE  Max(S) = i
<1>1. i \in S /\ S \subseteq Int /\ \A y \in S : y <= i
  BY DEF IsLast
<1>2. \A y \in S : i >= y
  BY <1>1
<1>3. \A x \in S : (\A y \in S : x >= y) => x = i
  BY <1>1
<1> QED BY <1>1, <1>2, <1>3 DEF Max

LEMMA LatestExists ==
  ASSUME NEW n \in Nat, NEW S \in SUBSET (0 .. n), S # {}
  PROVE  IsLast(Max(S), S)
<1> DEFINE T == {n - i : i \in S}
           R == OpToRel(<, Nat)
<1>1. T \subseteq Nat /\ T # {}
  <2>1. \A i \in S : n - i \in Nat
    OBVIOUS
  <2>2. PICK i \in S : TRUE
    OBVIOUS
  <2>3. n - i \in T
    OBVIOUS
  <2> QED BY <2>1, <2>3
<1>2. IsWellFoundedOn(R, Nat)
  BY NatLessThanWellFounded
<1>3. \A x, y \in Nat : <<y, x>> \in R <=> y < x
  BY DEF OpToRel
<1> HIDE DEF R
<1>4. PICK x \in T : \A y \in T : <<y, x>> \notin R
  BY <1>1, <1>2, WFMin
<1>5. PICK i \in S : x = n - i
  BY <1>4
<1>6. \A j \in S : j <= i
  <2>1. ASSUME NEW j \in S PROVE j <= i
    <3>1. n - j \in T /\ n - j \in Nat /\ x \in Nat
      BY <1>1
    <3>2. ~(n - j < x)
      BY <1>3, <1>4, <3>1
    <3> QED BY <1>5, <3>2
  <2> QED BY <2>1
<1>7. IsLast(i, S)
  BY <1>6 DEF IsLast
<1> QED BY <1>7, MaxIs

LEMMA MaxExists ==
  ASSUME NEW n \in Nat, NEW S \in SUBSET (1 .. n), S # {}
  PROVE  IsLast(Max(S), S)
<1>1. S \in SUBSET (0 .. n)
  OBVIOUS
<1> QED BY <1>1, LatestExists

------------------------------------------------------------------------------
(* What an answer adds. *)

\* Every member that is known or listed, and no other, is in the batch.
LEMMA BatchIsComplete ==
  ASSUME NEW S \in SUBSET Members, NEW batch \in Ascending(S)
  PROVE  /\ Cardinality(S) \in Nat
         /\ DOMAIN batch = 1 .. Cardinality(S)
         /\ \A i \in DOMAIN batch : batch[i] \in S
         /\ \A m \in S : \E i \in DOMAIN batch : batch[i] = m
<1> DEFINE n == Cardinality(S)
<1>1. IsFiniteSet(S) /\ n \in Nat
  BY IrfAssumption, FS_Subset, FS_CardinalityType
<1>2. /\ batch \in [1 .. n -> S]
      /\ \A i, j \in 1 .. n : i < j => batch[i] < batch[j]
  BY DEF Ascending
<1>3. S \subseteq Int
  BY IrfAssumption
<1> HIDE DEF n
<1>4. batch \in Injection(1 .. n, S)
  <2>1. ASSUME NEW i \in 1 .. n, NEW j \in 1 .. n, batch[i] = batch[j] PROVE i = j
    <3>1. /\ batch[i] \in Int /\ batch[j] \in Int
          /\ ~(batch[i] < batch[j]) /\ ~(batch[j] < batch[i])
      <4>1. batch[i] \in Int /\ batch[j] \in Int
        BY <1>2, <1>3
      <4> QED BY <2>1, <4>1
    <3>2. ~(i < j) /\ ~(j < i)
      BY <1>2, <3>1
    <3> QED BY <1>1, <3>2
  <2> QED BY <1>2, <2>1 DEF Injection, IsInjective
<1>5. Cardinality(1 .. n) = n
  BY <1>1, FS_Interval
<1>6. batch \in Surjection(1 .. n, S)
  BY <1>1, <1>4, <1>5, FS_Injection DEF n
<1> QED BY <1>1, <1>2, <1>6 DEF Surjection, n

\* A sample is a role, or none, for each member it lists.
LEMMA SamplesAre ==
  ASSUME NEW sample \in Samples
  PROVE  /\ DOMAIN sample \subseteq Members
         /\ \A m \in DOMAIN sample : sample[m] \in Roles \union {NoRole}
BY DEF Samples

LEMMA ObservationTyped ==
  ASSUME TypeOK, Observed, NEW sample \in Samples, NEW m \in Members
  PROVE  /\ Observation(m, sample) \in RowRecords
         /\ StoredRole(m, sample) \in Roles \union {NoRole, Absent}
<1>1. asked \in Times /\ members[m] \in Roles \union {NoRole, Absent}
  BY DEF TypeOK, Observed
<1>2. \A x \in DOMAIN sample : sample[x] \in Roles \union {NoRole}
  BY SamplesAre
<1>3. (m \in DOMAIN sample) \in BOOLEAN /\ RoleChanged(m, sample) \in BOOLEAN
  BY DEF RoleChanged
<1>4. RoleChanged(m, sample) => members[m] \in Roles
  BY <1>1 DEF RoleChanged
<1>5. Observation(m, sample) \in RowRecords
  BY <1>1, <1>2, <1>3, <1>4 DEF Observation, RowRecords
<1>6. StoredRole(m, sample) \in Roles \union {NoRole, Absent}
  BY <1>1, <1>2 DEF StoredRole
<1> QED BY <1>5, <1>6

\* The step adds one answer, and one row per member of the batch.
AnswerAdded(sample) ==
  LET n == Len(answers)
  IN /\ n \in Nat
     /\ answers' \in Seq(AnswerRecords)
     /\ DOMAIN answers = 1 .. n /\ DOMAIN answers' = 1 .. n + 1
     /\ \A i \in 1 .. n : answers'[i] = answers[i]
     /\ answers'[n + 1] = [at |-> asked, sample |-> sample]

RowsAdded(sample) ==
  LET r == Len(rows)
  IN /\ r \in Nat
     /\ rows' \in Seq(RowRecords)
     /\ DOMAIN rows = 1 .. r /\ r <= Len(rows') /\ DOMAIN rows' = 1 .. Len(rows')
     /\ \A k \in 1 .. r : rows'[k] = rows[k]
     /\ \A k \in DOMAIN rows' : k > r =>
          \E m \in ObservedMembers(sample) : rows'[k] = Observation(m, sample)
     /\ \A m \in ObservedMembers(sample) :
          \E k \in DOMAIN rows' : k > r /\ rows'[k] = Observation(m, sample)

LEMMA ApplyAdds ==
  ASSUME Inv, NEW sample \in Samples, ApplyIrfObservation(sample)
  PROVE  AnswerAdded(sample) /\ RowsAdded(sample)
<1>1. /\ answers \in Seq(AnswerRecords) /\ rows \in Seq(RowRecords)
      /\ Observed /\ asked \in Times /\ TypeOK
  BY DEF Inv, TypeOK, AnswersOrdered, ApplyIrfObservation, Observed
<1>2. AnswerAdded(sample)
  <2>1. [at |-> asked, sample |-> sample] \in AnswerRecords
    BY <1>1 DEF AnswerRecords
  <2>2. answers' = Append(answers, [at |-> asked, sample |-> sample])
    BY DEF ApplyIrfObservation
  <2> QED BY <1>1, <2>1, <2>2, AppendProperties DEF AnswerAdded
<1>3. RowsAdded(sample)
  <2> DEFINE S == ObservedMembers(sample)
             c == Cardinality(S)
             r == Len(rows)
             row(m) == Observation(m, sample)
  <2>1. S \in SUBSET Members
    BY SamplesAre DEF ObservedMembers, Known
  <2>2. PICK batch \in Ascending(S) : rows' = rows \o [k \in DOMAIN batch |-> row(batch[k])]
    BY DEF ApplyIrfObservation
  <2>3. /\ c \in Nat /\ DOMAIN batch = 1 .. c
        /\ \A i \in DOMAIN batch : batch[i] \in S
        /\ \A m \in S : \E i \in DOMAIN batch : batch[i] = m
    BY <2>1, BatchIsComplete
  <2>4. \A m \in S : row(m) \in RowRecords
    BY <1>1, <2>1, ObservationTyped
  <2> DEFINE more == [k \in DOMAIN batch |-> row(batch[k])]
  <2> HIDE DEF S, c, row
  <2>5. more \in [1 .. c -> RowRecords]
    BY <2>3, <2>4
  <2>6. more \in Seq(RowRecords) /\ Len(more) = c
    BY <2>3, <2>5
  <2>7. \A k \in 1 .. c : more[k] = row(batch[k]) /\ batch[k] \in S
    BY <2>3
  <2> HIDE DEF more
  <2>8. /\ rows' \in Seq(RowRecords) /\ Len(rows') = r + c
        /\ \A k \in 1 .. r + c : rows'[k] = IF k <= r THEN rows[k] ELSE more[k - r]
    BY <1>1, <2>2, <2>6, ConcatProperties DEF more
  <2>9. r \in Nat /\ DOMAIN rows = 1 .. r /\ DOMAIN rows' = 1 .. r + c
    BY <1>1, <2>8
  <2>10. \A k \in 1 .. r : rows'[k] = rows[k]
    BY <2>3, <2>8, <2>9
  <2>11. ASSUME NEW k \in DOMAIN rows', k > r PROVE \E m \in S : rows'[k] = row(m)
    <3>1. k - r \in 1 .. c /\ rows'[k] = more[k - r]
      BY <2>3, <2>8, <2>9, <2>11
    <3> QED BY <2>7, <3>1
  <2>12. ASSUME NEW m \in S PROVE \E k \in DOMAIN rows' : k > r /\ rows'[k] = row(m)
    <3>1. PICK i \in 1 .. c : batch[i] = m
      BY <2>3
    <3>2. r + i \in DOMAIN rows' /\ r + i > r /\ rows'[r + i] = more[i]
      BY <2>3, <2>8, <2>9, <3>1
    <3> QED BY <2>7, <3>1, <3>2
  <2>13. Len(rows') >= r /\ DOMAIN rows' = 1 .. Len(rows')
    BY <2>3, <2>8, <2>9
  <2> QED BY <2>8, <2>9, <2>10, <2>11, <2>12, <2>13 DEF RowsAdded, S, row
<1> QED BY <1>2, <1>3

\* What the new answer lists, and what stays as it was.
LEMMA ListsAre ==
  ASSUME Inv, NEW sample \in Samples, AnswerAdded(sample), NEW n, n = Len(answers)
  PROVE  /\ \A m : \A i \in 1 .. n : /\ Lists(i, m)' <=> Lists(i, m)
                                     /\ ListedBy(i, m)' <=> ListedBy(i, m)
         /\ \A m : Lists(n + 1, m)' <=> m \in DOMAIN sample
         /\ \A m \in Members : ListedBy(n + 1, m)' <=> m \in ObservedMembers(sample)
<1>0. /\ n \in Nat /\ DOMAIN answers = 1 .. n /\ DOMAIN answers' = 1 .. n + 1
      /\ \A i \in 1 .. n : answers'[i] = answers[i]
      /\ answers'[n + 1] = [at |-> asked, sample |-> sample]
  BY DEF AnswerAdded
<1>1. \A m : \A i \in 1 .. n : Lists(i, m)' <=> Lists(i, m)
  BY <1>0 DEF Lists
<1>2. \A m : \A i \in 1 .. n : ListedBy(i, m)' <=> ListedBy(i, m)
  <2>1. \A i \in 1 .. n : \A j \in 1 .. i : j \in 1 .. n
    BY <1>0
  <2> QED BY <1>1, <2>1 DEF ListedBy
<1>3. \A m : Lists(n + 1, m)' <=> m \in DOMAIN sample
  BY <1>0 DEF Lists
<1>4. ASSUME NEW m \in Members
      PROVE  ListedBy(n + 1, m)' <=> m \in ObservedMembers(sample)
  <2>1. members[m] # Absent <=> \E i \in 1 .. n : Lists(i, m)
    BY <1>0 DEF Inv, MembersFollow
  <2>2. 1 .. n + 1 = (1 .. n) \union {n + 1}
    BY <1>0
  <2>3. ListedBy(n + 1, m)' <=> \E i \in 1 .. n + 1 : Lists(i, m)'
    BY DEF ListedBy
  <2> QED BY <1>1, <1>3, <2>1, <2>2, <2>3 DEF ObservedMembers, Known
<1> QED BY <1>1, <1>2, <1>3, <1>4

LEMMA RecognizedIs ==
  ASSUME Inv, NEW sample \in Samples, AnswerAdded(sample), NEW n, n = Len(answers), NEW m
  PROVE  /\ Recognized(m) \subseteq 1 .. n
         /\ \A i \in 1 .. n : i \in Recognized(m)' <=> i \in Recognized(m)
         /\ n + 1 \in Recognized(m)' <=> m \in DOMAIN sample /\ sample[m] # NoRole
         /\ Recognized(m)' \subseteq 1 .. n + 1
<1>1. /\ n \in Nat /\ DOMAIN answers = 1 .. n /\ DOMAIN answers' = 1 .. n + 1
      /\ \A i \in 1 .. n : answers'[i] = answers[i]
      /\ answers'[n + 1] = [at |-> asked, sample |-> sample]
  BY DEF AnswerAdded
<1>2. /\ \A i \in 1 .. n : Lists(i, m)' <=> Lists(i, m)
      /\ Lists(n + 1, m)' <=> m \in DOMAIN sample
  BY ListsAre
<1>3. Recognized(m)' = {i \in DOMAIN answers' : Lists(i, m)' /\ answers'[i].sample[m] # NoRole}
  BY DEF Recognized
<1>4. n + 1 \in DOMAIN answers' /\ answers'[n + 1].sample[m] = sample[m]
  BY <1>1
<1>5. \A i \in 1 .. n : i \in DOMAIN answers' /\ i \in DOMAIN answers
  BY <1>1
<1> QED BY <1>1, <1>2, <1>3, <1>4, <1>5 DEF Recognized

\* The new answer is not before any row.
LEMMA EarlierStays ==
  ASSUME Inv, NEW sample \in Samples, AnswerAdded(sample), asked \in Int,
         NEW row, row.at \in Int, row.at <= asked
  PROVE  Earlier(row)' = Earlier(row)
<1>1. PICK n : n = Len(answers)
  OBVIOUS
<1>2. /\ n \in Nat
      /\ \A i \in 1 .. n : answers'[i] = answers[i]
      /\ answers'[n + 1] = [at |-> asked, sample |-> sample]
  BY <1>1 DEF AnswerAdded
<1>3. ~(answers'[n + 1].at < row.at)
  BY <1>2
<1>4. /\ Recognized(row.member) \subseteq 1 .. n
      /\ \A i \in 1 .. n : i \in Recognized(row.member)' <=> i \in Recognized(row.member)
      /\ Recognized(row.member)' \subseteq 1 .. n + 1
  BY <1>1, RecognizedIs
<1>5. Earlier(row)' = {i \in Recognized(row.member)' : answers'[i].at < row.at}
  BY DEF Earlier
<1>6. \A i \in 1 .. n + 1 : i \in 1 .. n \/ i = n + 1
  BY <1>2
<1> QED BY <1>2, <1>3, <1>4, <1>5, <1>6 DEF Earlier

\* Rows that are there stay as true as they were.
LEMMA OldRowsStayTrue ==
  ASSUME Inv, NEW sample \in Samples, ApplyIrfObservation(sample), AnswerAdded(sample),
         NEW row \in RowRecords, RowFollows(row), ChangeIsReliable(row)
  PROVE  RowFollows(row)' /\ ChangeIsReliable(row)' /\ row.at < asked
<1>1. PICK n : n = Len(answers)
  OBVIOUS
<1>2. /\ n \in Nat /\ DOMAIN answers = 1 .. n /\ DOMAIN answers' = 1 .. n + 1
      /\ \A i \in 1 .. n : answers'[i] = answers[i] /\ i \in DOMAIN answers'
  BY <1>1 DEF AnswerAdded
<1>3. asked \in Int /\ row.at \in Int /\ \A i \in 1 .. n : answers[i].at < asked
  BY <1>2 DEF Inv, TypeOK, AnswersOrdered, ApplyIrfObservation, Observed, Times, Never, RowRecords
<1>4. row.at < asked
  BY <1>2, <1>3 DEF RowFollows
<1>5. RowFollows(row)'
  <2>1. PICK i \in 1 .. n : /\ row.at = answers[i].at
                            /\ row.observed <=> Lists(i, row.member)
                            /\ ListedBy(i, row.member)
    BY <1>2 DEF RowFollows
  <2>2. /\ Lists(i, row.member)' <=> Lists(i, row.member)
        /\ ListedBy(i, row.member)' <=> ListedBy(i, row.member)
    BY <1>1, ListsAre
  <2>3. i \in DOMAIN answers' /\ row.at = answers'[i].at
    BY <1>2, <2>1
  <2> QED BY <2>1, <2>2, <2>3 DEF RowFollows
<1>6. ChangeIsReliable(row)'
  <2>1. Earlier(row)' = Earlier(row)
    BY <1>3, <1>4, EarlierStays
  <2>2. /\ DOMAIN answers \subseteq DOMAIN answers'
        /\ \A i \in DOMAIN answers : answers'[i] = answers[i]
    BY <1>2
  <2>3. \A i : IsLast(i, Earlier(row))' <=> IsLast(i, Earlier(row))
    BY <2>1 DEF IsLast
  <2> QED BY <2>1, <2>2, <2>3 DEF ChangeIsReliable
<1> QED BY <1>4, <1>5, <1>6

\* The rows of the new answer are true.
LEMMA NewRowsAreTrue ==
  ASSUME Inv, NEW sample \in Samples, ApplyIrfObservation(sample), AnswerAdded(sample),
         NEW m \in ObservedMembers(sample), NEW row, row = Observation(m, sample)
  PROVE  RowFollows(row)' /\ ChangeIsReliable(row)'
<1>1. PICK n : n = Len(answers)
  OBVIOUS
<1>2. /\ n \in Nat /\ DOMAIN answers = 1 .. n /\ DOMAIN answers' = 1 .. n + 1
      /\ \A i \in 1 .. n : answers'[i] = answers[i] /\ i \in DOMAIN answers'
      /\ n + 1 \in DOMAIN answers' /\ answers'[n + 1] = [at |-> asked, sample |-> sample]
  BY <1>1 DEF AnswerAdded
<1>0. Observed
  BY DEF ApplyIrfObservation
<1>3. asked \in Int /\ \A i \in 1 .. n : answers[i].at < asked
  BY <1>0, <1>2 DEF Inv, TypeOK, AnswersOrdered, Observed, Times
<1>4. /\ row.member = m /\ row.at = asked
      /\ row.observed <=> m \in DOMAIN sample
      /\ row.role = IF m \in DOMAIN sample THEN sample[m] ELSE NoRole
      /\ row.role_changed <=> RoleChanged(m, sample)
      /\ RoleChanged(m, sample) => row.previous_role = members[m]
  BY DEF Observation
<1>5. m \in Members
  BY SamplesAre DEF ObservedMembers, Known
<1>6. RowFollows(row)'
  <2>1. (Lists(n + 1, m)' <=> m \in DOMAIN sample) /\ ListedBy(n + 1, m)'
    BY <1>1, <1>5, ListsAre
  <2>2. row.at = answers'[n + 1].at
    BY <1>2, <1>4
  <2> QED BY <1>2, <1>4, <2>1, <2>2 DEF RowFollows
<1>7. ChangeIsReliable(row)'
  <2>1. Earlier(row)' = Earlier(row)
    BY <1>3, <1>4, EarlierStays
  <2>2. Recognized(m) \subseteq 1 .. n
    BY <1>1, RecognizedIs
  <2>3. Earlier(row) = Recognized(m)
    BY <1>3, <1>4, <2>2 DEF Earlier
  <2>4. \/ members[m] \in {Absent, NoRole} /\ Recognized(m) = {}
        \/ \E i \in 1 .. n : IsLast(i, Recognized(m)) /\ members[m] = answers[i].sample[m]
    BY <1>2, <1>5 DEF Inv, MembersFollow
  <2>5. CASE RoleChanged(m, sample)
    <3>1. /\ row.role # NoRole /\ row.previous_role # row.role
          /\ row.previous_role = members[m] /\ members[m] \notin {Absent, NoRole}
      BY <1>4, <2>5 DEF RoleChanged
    <3>2. PICK i \in 1 .. n : IsLast(i, Recognized(m)) /\ members[m] = answers[i].sample[m]
      BY <2>4, <3>1
    <3>3. /\ i \in DOMAIN answers' /\ answers'[i].sample[row.member] = row.previous_role
          /\ IsLast(i, Earlier(row))'
      BY <1>2, <1>4, <2>1, <2>3, <3>1, <3>2 DEF IsLast
    <3> QED BY <1>4, <2>5, <3>1, <3>3 DEF ChangeIsReliable
  <2>6. CASE ~RoleChanged(m, sample)
    <3>1. CASE m \notin DOMAIN sample \/ sample[m] = NoRole
      <4>1. row.role = NoRole
        BY <1>4, <3>1
      <4> QED BY <1>4, <2>6, <4>1 DEF ChangeIsReliable
    <3>2. CASE Recognized(m) = {}
      BY <1>4, <2>1, <2>3, <2>6, <3>2 DEF ChangeIsReliable
    <3>3. CASE m \in DOMAIN sample /\ sample[m] # NoRole /\ Recognized(m) # {}
      <4>1. PICK i \in 1 .. n : IsLast(i, Recognized(m)) /\ members[m] = answers[i].sample[m]
        BY <2>4, <3>3
      <4>2. Lists(i, m) /\ answers[i].sample[m] # NoRole
        BY <4>1 DEF IsLast, Recognized
      <4>3. answers[i].sample[m] \in Roles
        <5>1. answers[i] \in AnswerRecords
          BY <1>2, <4>1 DEF Inv, AnswersOrdered
        <5>2. answers[i].sample \in Samples
          BY <5>1 DEF AnswerRecords
        <5> QED BY <4>2, <5>2, SamplesAre DEF Lists
      <4>4. members[m] \notin {Absent, NoRole}
        BY <4>1, <4>3, IrfAssumption
      <4>5. row.role = members[m]
        BY <1>4, <2>6, <3>3, <4>4 DEF RoleChanged
      <4>6. /\ i \in DOMAIN answers' /\ answers'[i].sample[row.member] = row.role
            /\ IsLast(i, Earlier(row))'
        BY <1>2, <1>4, <2>1, <2>3, <4>1, <4>5 DEF IsLast
      <4> QED BY <1>4, <2>6, <4>6 DEF ChangeIsReliable
    <3> QED BY <3>1, <3>2, <3>3
  <2> QED BY <2>5, <2>6
<1> QED BY <1>6, <1>7

LEMMA MembersFollowAnswer ==
  ASSUME Inv, NEW sample \in Samples, ApplyIrfObservation(sample), AnswerAdded(sample)
  PROVE  MembersFollow'
<1>1. PICK n : n = Len(answers)
  OBVIOUS
<1>2. /\ n \in Nat /\ DOMAIN answers = 1 .. n /\ DOMAIN answers' = 1 .. n + 1
      /\ \A i \in 1 .. n : answers'[i] = answers[i] /\ i \in DOMAIN answers'
      /\ n + 1 \in DOMAIN answers' /\ answers'[n + 1] = [at |-> asked, sample |-> sample]
  BY <1>1 DEF AnswerAdded
<1>3. SUFFICES ASSUME NEW m \in Members
               PROVE  /\ members'[m] # Absent <=> \E i \in DOMAIN answers' : Lists(i, m)'
                      /\ \/ members'[m] \in {Absent, NoRole} /\ Recognized(m)' = {}
                         \/ \E i \in DOMAIN answers' :
                              IsLast(i, Recognized(m)') /\ members'[m] = answers'[i].sample[m]
  BY DEF MembersFollow
<1>4. /\ members[m] # Absent <=> \E i \in 1 .. n : Lists(i, m)
      /\ \/ members[m] \in {Absent, NoRole} /\ Recognized(m) = {}
         \/ \E i \in 1 .. n : IsLast(i, Recognized(m)) /\ members[m] = answers[i].sample[m]
  BY <1>2 DEF Inv, MembersFollow
<1>5. members'[m] = StoredRole(m, sample)
  BY DEF ApplyIrfObservation
<1>6. /\ \A i \in 1 .. n : Lists(i, m)' <=> Lists(i, m)
      /\ Lists(n + 1, m)' <=> m \in DOMAIN sample
  BY <1>1, ListsAre
<1>7. /\ Recognized(m) \subseteq 1 .. n
      /\ \A i \in 1 .. n : i \in Recognized(m)' <=> i \in Recognized(m)
      /\ n + 1 \in Recognized(m)' <=> m \in DOMAIN sample /\ sample[m] # NoRole
      /\ Recognized(m)' \subseteq 1 .. n + 1
  BY <1>1, RecognizedIs
<1>8. \A i \in 1 .. n + 1 : i \in 1 .. n \/ i = n + 1
  BY <1>2
<1>9. members'[m] # Absent <=> \E i \in DOMAIN answers' : Lists(i, m)'
  <2>1. (\E i \in DOMAIN answers' : Lists(i, m)')
          <=> m \in DOMAIN sample \/ \E i \in 1 .. n : Lists(i, m)
    BY <1>2, <1>6, <1>8
  <2>2. m \in DOMAIN sample => sample[m] # Absent
    BY SamplesAre, IrfAssumption DEF Absent, NoRole
  <2>3. NoRole # Absent
    BY DEF Absent, NoRole
  <2>4. StoredRole(m, sample) # Absent <=> m \in DOMAIN sample \/ members[m] # Absent
    BY <2>2, <2>3 DEF StoredRole
  <2> QED BY <1>4, <1>5, <2>1, <2>4
<1>10. CASE m \in DOMAIN sample /\ sample[m] # NoRole
  <2>1. members'[m] = answers'[n + 1].sample[m]
    BY <1>2, <1>5, <1>10 DEF StoredRole
  <2>2. IsLast(n + 1, Recognized(m)')
    BY <1>2, <1>7, <1>10 DEF IsLast
  <2> QED BY <1>2, <1>9, <2>1, <2>2
<1>11. CASE ~(m \in DOMAIN sample /\ sample[m] # NoRole)
  <2>1. Recognized(m)' = Recognized(m)
    BY <1>7, <1>8, <1>11
  <2>2. \/ members'[m] = members[m]
        \/ members[m] = Absent /\ members'[m] = NoRole
    BY <1>5, <1>11 DEF StoredRole
  <2>3. CASE members[m] \in {Absent, NoRole} /\ Recognized(m) = {}
    BY <1>9, <2>1, <2>2, <2>3
  <2>4. CASE \E i \in 1 .. n : IsLast(i, Recognized(m)) /\ members[m] = answers[i].sample[m]
    <3>1. PICK i \in 1 .. n : IsLast(i, Recognized(m)) /\ members[m] = answers[i].sample[m]
      BY <2>4
    <3>2. members[m] # Absent
      BY <1>4, <3>1 DEF IsLast, Recognized
    <3>3. i \in DOMAIN answers' /\ members'[m] = answers'[i].sample[m]
      BY <1>2, <2>2, <3>1, <3>2
    <3> QED BY <1>9, <2>1, <3>1, <3>3
  <2> QED BY <1>4, <2>3, <2>4
<1> QED BY <1>10, <1>11

LEMMA AnswerKeeps ==
  ASSUME Inv, NEW sample \in Samples, ApplyIrfObservation(sample)
  PROVE  Inv'
<1>1. AnswerAdded(sample) /\ RowsAdded(sample)
  BY ApplyAdds
<1>2. PICK n, r : n = Len(answers) /\ r = Len(rows)
  OBVIOUS
<1>3. /\ n \in Nat /\ DOMAIN answers = 1 .. n /\ DOMAIN answers' = 1 .. n + 1
      /\ \A i \in 1 .. n : answers'[i] = answers[i] /\ i \in DOMAIN answers'
      /\ n + 1 \in DOMAIN answers' /\ answers'[n + 1] = [at |-> asked, sample |-> sample]
      /\ answers' \in Seq(AnswerRecords)
  BY <1>1, <1>2 DEF AnswerAdded
<1>4. /\ r \in Nat /\ rows' \in Seq(RowRecords) /\ DOMAIN rows = 1 .. r
      /\ DOMAIN rows' = 1 .. Len(rows') /\ r <= Len(rows')
      /\ \A k \in 1 .. r : rows'[k] = rows[k]
      /\ \A k \in DOMAIN rows' : k > r =>
           \E m \in ObservedMembers(sample) : rows'[k] = Observation(m, sample)
      /\ \A m \in ObservedMembers(sample) :
           \E k \in DOMAIN rows' : k > r /\ rows'[k] = Observation(m, sample)
  BY <1>1, <1>2 DEF RowsAdded
<1>5. /\ TypeOK /\ Observed /\ asked' = Never /\ now' = now
      /\ members' = [m \in Members |-> StoredRole(m, sample)]
  BY DEF Inv, ApplyIrfObservation
<1>6. asked \in Int /\ \A i \in 1 .. n : answers[i].at \in Int /\ answers[i].at < asked
  <2>1. asked \in Int
    BY <1>5 DEF TypeOK, Observed, Times
  <2>2. answers \in Seq(AnswerRecords) /\ \A i \in DOMAIN answers : answers[i].at < asked
    BY <1>5 DEF Inv, AnswersOrdered
  <2>3. \A i \in 1 .. n : answers[i] \in AnswerRecords
    BY <1>3, <2>2
  <2>4. \A i \in 1 .. n : answers[i].at \in Int
    BY <2>3 DEF AnswerRecords, Times
  <2> QED BY <1>3, <2>1, <2>2, <2>4
<1>7. \A k \in DOMAIN rows' : k \in 1 .. r \/ k > r
  BY <1>4
<1>8. TypeOK'
  BY <1>4, <1>5, ObservationTyped DEF TypeOK
<1>9. AnswersOrdered'
  <2>1. ~Observed'
    BY <1>5 DEF Observed
  <2>2. ASSUME NEW i \in 1 .. n + 1, NEW j \in 1 .. n + 1, i < j
        PROVE  answers'[i].at < answers'[j].at
    <3>1. i \in 1 .. n /\ (j \in 1 .. n \/ j = n + 1)
      BY <1>3, <2>2
    <3>2. CASE j \in 1 .. n
      BY <1>3, <2>2, <3>1, <3>2 DEF Inv, AnswersOrdered
    <3>3. CASE j = n + 1
      BY <1>3, <1>6, <3>1, <3>3
    <3> QED BY <3>1, <3>2, <3>3
  <2> QED BY <1>3, <2>1, <2>2 DEF AnswersOrdered
<1>10. MembersFollow'
  BY <1>1, MembersFollowAnswer
<1>11. ASSUME NEW k \in DOMAIN rows'
       PROVE  /\ RowFollows(rows[k])' /\ ChangeIsReliable(rows[k])'
              /\ k \in 1 .. r => rows'[k].at < asked
              /\ k > r => rows'[k].at = asked
  <2>1. PICK row : row = rows'[k]
    OBVIOUS
  <2>4. /\ RowFollows(row)' => RowFollows(rows[k])'
        /\ ChangeIsReliable(row)' => ChangeIsReliable(rows[k])'
    BY <2>1 DEF RowFollows, ChangeIsReliable, Earlier, IsLast, Recognized, Lists, ListedBy
  <2>2. CASE k \in 1 .. r
    <3>1. row = rows[k] /\ k \in DOMAIN rows /\ rows \in Seq(RowRecords)
      BY <1>4, <1>5, <2>1, <2>2 DEF TypeOK
    <3>2. row \in RowRecords /\ RowFollows(row) /\ ChangeIsReliable(row)
      BY <3>1 DEF Inv
    <3>3. RowFollows(row)' /\ ChangeIsReliable(row)' /\ row.at < asked
      BY <1>1, <3>2, OldRowsStayTrue
    <3>4. ~(k > r)
      BY <1>4, <2>2
    <3> QED BY <2>1, <2>4, <3>3, <3>4
  <2>3. CASE k > r
    <3>1. PICK m \in ObservedMembers(sample) : row = Observation(m, sample)
      BY <1>4, <2>1, <2>3
    <3>2. RowFollows(row)' /\ ChangeIsReliable(row)'
      BY <1>1, <3>1, NewRowsAreTrue
    <3>3. row.at = asked
      BY <3>1 DEF Observation
    <3>4. k \notin 1 .. r
      BY <1>4, <2>3
    <3> QED BY <2>1, <2>4, <3>2, <3>3, <3>4
  <2> QED BY <1>7, <2>2, <2>3
<1>12. AnswersAreStored'
  <2>1. ASSUME NEW i \in 1 .. n + 1, NEW m \in Members, ListedBy(i, m)'
        PROVE  \E k \in DOMAIN rows' : rows'[k].member = m /\ rows'[k].at = answers'[i].at
    <3>1. CASE i \in 1 .. n
      <4>1. ListedBy(i, m)
        BY <1>1, <1>2, <2>1, <3>1, ListsAre
      <4>2. PICK k \in 1 .. r : rows[k].member = m /\ rows[k].at = answers[i].at
        <5>1. AnswersAreStored /\ i \in DOMAIN answers
          BY <1>3, <3>1 DEF Inv
        <5> QED BY <1>4, <4>1, <5>1 DEF AnswersAreStored
      <4>3. k \in DOMAIN rows'
        BY <1>4
      <4> QED BY <1>3, <1>4, <3>1, <4>2, <4>3
    <3>2. CASE i = n + 1
      <4>1. m \in ObservedMembers(sample)
        BY <1>1, <1>2, <2>1, <3>2, ListsAre
      <4>2. PICK k \in DOMAIN rows' : rows'[k] = Observation(m, sample)
        BY <1>4, <4>1
      <4> QED BY <1>3, <3>2, <4>2 DEF Observation
    <3> QED BY <1>3, <3>1, <3>2
  <2> QED BY <1>3, <2>1 DEF AnswersAreStored
<1>13. RowsOrdered'
  <2>1. ASSUME NEW k \in DOMAIN rows', NEW l \in DOMAIN rows', k < l
        PROVE  rows'[k].at <= rows'[l].at
    <3>1. rows'[k].at \in Int /\ rows'[l].at \in Int
      <4>1. rows'[k] \in RowRecords /\ rows'[l] \in RowRecords
        BY <1>4
      <4> QED BY <4>1 DEF RowRecords, Times
    <3>2. CASE l \in 1 .. r
      <4>1. k \in 1 .. r
        BY <1>4, <2>1, <3>2
      <4> QED BY <1>4, <2>1, <3>2, <4>1 DEF Inv, RowsOrdered
    <3>3. CASE l > r
      BY <1>6, <1>7, <1>11, <3>1, <3>3
    <3> QED BY <1>7, <3>2, <3>3
  <2> QED BY <2>1 DEF RowsOrdered
<1>14. (\A k \in DOMAIN rows : RowFollows(rows[k]) /\ ChangeIsReliable(rows[k]))'
  BY <1>11
<1> QED BY <1>8, <1>9, <1>10, <1>12, <1>13, <1>14 DEF Inv

------------------------------------------------------------------------------
(* The invariant. *)

LEMMA InvInitially == Init => Inv
<1> SUFFICES ASSUME Init PROVE Inv
  OBVIOUS
<1>1. /\ now = 0 /\ asked = Never /\ rows = <<>> /\ answers = <<>>
      /\ members = [m \in Members |-> Absent]
      /\ DOMAIN rows = {} /\ DOMAIN answers = {}
  BY DEF Init
<1>2. TypeOK
  BY <1>1, IrfAssumption DEF TypeOK, Times
<1>3. AnswersOrdered /\ RowsOrdered /\ AnswersAreStored
  BY <1>1 DEF AnswersOrdered, RowsOrdered, AnswersAreStored, Observed
<1>4. MembersFollow
  BY <1>1 DEF MembersFollow, Recognized
<1> QED BY <1>1, <1>2, <1>3, <1>4 DEF Inv

\* Steps that record nothing.
LEMMA NothingRecorded ==
  ASSUME Inv, UNCHANGED <<tables, answers>>, now' \in Times, asked' \in {Never} \union Times,
         asked' # Never => \A i \in DOMAIN answers : answers[i].at < asked'
  PROVE  Inv'
<1>1. rows' = rows /\ members' = members /\ answers' = answers
  BY DEF tables
<1>2. TypeOK' /\ AnswersOrdered'
  BY <1>1 DEF Inv, TypeOK, AnswersOrdered, Observed
<1>3. MembersFollow' /\ AnswersAreStored' /\ RowsOrdered'
  BY <1>1 DEF Inv, MembersFollow, AnswersAreStored, RowsOrdered, IsLast, Recognized, Lists,
              ListedBy
<1>4. (\A k \in DOMAIN rows : RowFollows(rows[k]))'
  BY <1>1 DEF Inv, RowFollows, Lists, ListedBy
<1>5. (\A k \in DOMAIN rows : ChangeIsReliable(rows[k]))'
  BY <1>1 DEF Inv, ChangeIsReliable, Earlier, IsLast, Recognized, Lists
<1> QED BY <1>2, <1>3, <1>4, <1>5 DEF Inv

LEMMA InvKept ==
  ASSUME Inv, [Next]_vars
  PROVE  Inv'
<1>0. /\ now \in Times /\ asked \in {Never} \union Times
      /\ asked # Never => \A i \in DOMAIN answers : answers[i].at < asked
      /\ answers \in Seq(AnswerRecords)
      /\ \A i, j \in DOMAIN answers : i < j => answers[i].at < answers[j].at
  BY DEF Inv, TypeOK, AnswersOrdered, Observed
<1>1. ASSUME BeginObservation PROVE Inv'
  <2>1. ASSUME NEW i \in DOMAIN answers PROVE answers[i].at < now
    <3> DEFINE n == Len(answers)
    <3>1. n \in Nat /\ DOMAIN answers = 1 .. n /\ i \in 1 .. n /\ n \in 1 .. n
      BY <1>0, <2>1
    <3>2. answers[i] \in AnswerRecords /\ answers[n] \in AnswerRecords
      BY <1>0, <3>1
    <3>3. answers[i].at \in Int /\ answers[n].at \in Int /\ now \in Int
      BY <1>0, <3>2 DEF AnswerRecords, Times
    <3>4. now > answers[n].at
      BY <1>1, <3>1 DEF BeginObservation, Last
    <3>5. i = n \/ answers[i].at < answers[n].at
      BY <1>0, <3>1
    <3> QED BY <3>3, <3>4, <3>5
  <2> QED BY <1>0, <1>1, <2>1, NothingRecorded DEF BeginObservation
<1>2. ASSUME ObservationFails PROVE Inv'
  BY <1>0, <1>2, NothingRecorded DEF ObservationFails
<1>3. ASSUME NEW sample \in Samples, ApplyIrfObservation(sample) PROVE Inv'
  BY <1>3, AnswerKeeps
<1>4. ASSUME Tick PROVE Inv'
  <2>1. now' \in Times
    BY <1>0, <1>4, IrfAssumption DEF Tick, Times
  <2> QED BY <1>0, <1>4, <2>1, NothingRecorded DEF Tick
<1>5. ASSUME UNCHANGED vars PROVE Inv'
  BY <1>0, <1>5, NothingRecorded DEF vars
<1> QED BY <1>1, <1>2, <1>3, <1>4, <1>5 DEF Next

LEMMA Invariant == Spec => []Inv
BY InvInitially, InvKept, PTL DEF Spec

------------------------------------------------------------------------------
(* What a report of the week says. *)

\* The last row of a member in a week that had an answer after it was listed is of the
\* last answer.
LEMMA LastRowIsOfLastAnswer ==
  ASSUME Inv, NEW w, NEW m \in Members, NEW k, IsLast(k, RowsOf(w, m)),
         NEW i, IsLast(i, AnswersOf(w)), ListedBy(i, m)
  PROVE  rows[k].observed <=> Lists(i, m)
<1>1. /\ rows \in Seq(RowRecords) /\ answers \in Seq(AnswerRecords)
      /\ \A a, b \in DOMAIN answers : a < b => answers[a].at < answers[b].at
      /\ RowsOrdered /\ AnswersAreStored
  BY DEF Inv, TypeOK, AnswersOrdered
<1>2. /\ k \in DOMAIN rows /\ rows[k].member = m /\ InWeek(w, rows[k].at)
      /\ i \in DOMAIN answers /\ InWeek(w, answers[i].at)
  BY DEF IsLast, RowsOf, IsOf, AnswersOf
<1>3. PICK j \in DOMAIN answers : /\ rows[k].at = answers[j].at
                                  /\ rows[k].observed <=> Lists(j, m)
  BY <1>2 DEF Inv, RowFollows
<1>4. j \in AnswersOf(w)
  BY <1>2, <1>3 DEF AnswersOf
<1>5. PICK l \in DOMAIN rows : rows[l].member = m /\ rows[l].at = answers[i].at
  BY <1>1, <1>2 DEF AnswersAreStored
<1>6. l \in RowsOf(w, m)
  BY <1>2, <1>5 DEF RowsOf, IsOf
<1>7. l <= k /\ j <= i
  BY <1>4, <1>6 DEF IsLast
<1>8. /\ rows[k].at \in Int /\ rows[l].at \in Int
      /\ k \in Int /\ l \in Int /\ i \in Int /\ j \in Int
  <2>1. rows[k] \in RowRecords /\ rows[l] \in RowRecords
    BY <1>1, <1>2, <1>5
  <2>2. k \in Int /\ l \in Int /\ i \in Int /\ j \in Int
    BY <1>1, <1>2, <1>3, <1>5
  <2> QED BY <2>1, <2>2 DEF RowRecords, Times
<1>9. rows[l].at <= rows[k].at
  BY <1>1, <1>2, <1>5, <1>7, <1>8 DEF RowsOrdered
<1>10. ~(answers[j].at < answers[i].at)
  BY <1>3, <1>5, <1>8, <1>9
<1>11. j = i
  BY <1>1, <1>2, <1>7, <1>8, <1>10
<1> QED BY <1>3, <1>11

LEMMA MissingIsLacking ==
  ASSUME Inv, NEW w, NEW m \in Members
  PROVE  MissingAtPeriodEnd(w, m) <=> AnswersOf(w) # {} /\ Lacks(Max(AnswersOf(w)), m)
<1> DEFINE A == AnswersOf(w)
           R == RowsOf(w, m)
           i == Max(A)
           k == Max(R)
<1>1. /\ Len(answers) \in Nat /\ Len(rows) \in Nat
      /\ DOMAIN answers = 1 .. Len(answers) /\ DOMAIN rows = 1 .. Len(rows)
  BY DEF Inv, TypeOK, AnswersOrdered
<1>2. A \in SUBSET (1 .. Len(answers)) /\ R \in SUBSET (1 .. Len(rows))
  BY <1>1 DEF AnswersOf, RowsOf
<1>3. A # {} => IsLast(i, A)
  BY <1>1, <1>2, MaxExists
<1>4. R # {} => IsLast(k, R)
  BY <1>1, <1>2, MaxExists
<1>5. ASSUME R # {} PROVE A # {} /\ ListedBy(i, m)
  <2>1. PICK l \in DOMAIN rows : rows[l].member = m /\ InWeek(w, rows[l].at)
    BY <1>5 DEF RowsOf, IsOf
  <2>2. PICK j \in DOMAIN answers : rows[l].at = answers[j].at /\ ListedBy(j, m)
    BY <2>1 DEF Inv, RowFollows
  <2>3. j \in A
    BY <2>1, <2>2 DEF AnswersOf
  <2>4. i \in 1 .. Len(answers) /\ j \in 1 .. Len(answers) /\ j <= i
    BY <1>2, <1>3, <2>3 DEF IsLast
  <2>5. \A a \in 1 .. j : a \in 1 .. i
    BY <1>1, <2>4
  <2>6. ListedBy(i, m)
    BY <2>2, <2>5 DEF ListedBy
  <2> QED BY <2>3, <2>6
<1>6. ASSUME A # {}, ListedBy(i, m) PROVE R # {}
  <2>1. i \in DOMAIN answers /\ InWeek(w, answers[i].at)
    BY <1>3, <1>6 DEF IsLast, AnswersOf
  <2>2. PICK l \in DOMAIN rows : rows[l].member = m /\ rows[l].at = answers[i].at
    BY <1>6, <2>1 DEF Inv, AnswersAreStored
  <2> QED BY <2>1, <2>2 DEF RowsOf, IsOf
<1>7. ASSUME R # {}, A # {}, ListedBy(i, m) PROVE rows[k].observed <=> Lists(i, m)
  BY <1>3, <1>4, <1>7, LastRowIsOfLastAnswer
<1>8. /\ MissingAtPeriodEnd(w, m) <=> R # {} /\ ~rows[k].observed
      /\ Lacks(i, m) <=> ListedBy(i, m) /\ ~Lists(i, m)
  BY DEF MissingAtPeriodEnd, Lacks
<1> HIDE DEF A, R, i, k
<1> QED BY <1>5, <1>6, <1>7, <1>8 DEF A, i

------------------------------------------------------------------------------
(* The windows, as the loop over the rows builds them. *)

\* What holds of 0, and of the next number with each, holds up to n.
LEMMA UpTo ==
  ASSUME NEW n \in Nat, NEW S, 0 \in S,
         \A i \in 0 .. n : i \in S /\ i < n => i + 1 \in S
  PROVE  n \in S
<1> DEFINE T == {i \in 0 .. n : i \notin S}
           R == OpToRel(<, Nat)
<1> SUFFICES ASSUME T # {} PROVE FALSE
  BY DEF T
<1>1. T \subseteq Nat
  OBVIOUS
<1>2. IsWellFoundedOn(R, Nat)
  BY NatLessThanWellFounded
<1>3. \A x, y \in Nat : <<y, x>> \in R <=> y < x
  BY DEF OpToRel
<1> HIDE DEF R
<1>4. PICK x \in T : \A y \in T : <<y, x>> \notin R
  BY <1>1, <1>2, WFMin
<1>5. x \in 0 .. n /\ x \notin S /\ x # 0
  BY <1>4
<1>6. x - 1 \in 0 .. n /\ x - 1 \in Nat /\ x - 1 < x /\ x - 1 < n
  BY <1>5
<1>7. x - 1 \in S
  <2>1. x - 1 \in T => FALSE
    BY <1>1, <1>3, <1>4, <1>6
  <2> QED BY <1>6, <2>1
<1>8. (x - 1) + 1 \in S
  BY <1>6, <1>7
<1> QED BY <1>5, <1>8

\* The states of the loop, as a function: each is made from the one before.
IsLoop(f, w, m, n) ==
  f = [k \in 0 .. n |->
         IF k = 0 THEN [open |-> Never, windows |-> <<>>]
         ELSE IF IsOf(w, m, rows[k]) THEN TakeRow(f[k - 1], rows[k]) ELSE f[k - 1]]

LEMMA LoopExists ==
  ASSUME NEW w, NEW m, NEW N \in Nat
  PROVE  \E f : IsLoop(f, w, m, N)
<1> DEFINE none == [open |-> Never, windows |-> <<>>]
           next(k, st) == IF IsOf(w, m, rows[k]) THEN TakeRow(st, rows[k]) ELSE st
           S == {n \in 0 .. N : \E f : IsLoop(f, w, m, n)}
<1>1. 0 \in S
  <2>1. IsLoop([k \in 0 .. 0 |-> none], w, m, 0)
    BY DEF IsLoop
  <2> QED BY <2>1
<1>2. ASSUME NEW n \in 0 .. N, n \in S, n < N PROVE n + 1 \in S
  <2>1. PICK f : IsLoop(f, w, m, n)
    BY <1>2
  <2>2. \A k \in 0 .. n : f[k] = IF k = 0 THEN none ELSE next(k, f[k - 1])
    BY <2>1 DEF IsLoop
  <2> HIDE DEF none, next
  <2> DEFINE g == [k \in 0 .. n + 1 |-> IF k \in 0 .. n THEN f[k] ELSE next(n + 1, f[n])]
  <2>3. ASSUME NEW k \in 0 .. n + 1
        PROVE  g[k] = IF k = 0 THEN none ELSE next(k, g[k - 1])
    <3>1. CASE k = n + 1
      <4>1. k - 1 = n /\ n \in 0 .. n /\ k # 0 /\ k \notin 0 .. n
        BY <3>1
      <4> QED BY <3>1, <4>1
    <3>2. CASE k \in 0 .. n
      <4>1. k # 0 => k - 1 \in 0 .. n
        BY <3>2
      <4> QED BY <2>2, <3>2, <4>1
    <3> QED BY <3>1, <3>2
  <2>4. g = [k \in 0 .. n + 1 |-> g[k]]
    OBVIOUS
  <2> HIDE DEF g
  <2>5. IsLoop(g, w, m, n + 1)
    BY <2>3, <2>4 DEF IsLoop, none, next
  <2> QED BY <1>2, <2>5
<1> HIDE DEF S
<1>3. N \in S
  BY <1>1, <1>2, UpTo
<1> QED BY <1>3 DEF S

Closed(st) ==
  IF st.open # Never THEN Append(st.windows, Window(st.open, Never)) ELSE st.windows

LEMMA WindowsAreLoop ==
  \A w, m : Len(rows) \in Nat =>
    \E f : IsLoop(f, w, m, Len(rows)) /\ MissingWindows(w, m) = Closed(f[Len(rows)])
<1> SUFFICES ASSUME NEW w, NEW m, Len(rows) \in Nat
             PROVE  \E f : /\ IsLoop(f, w, m, Len(rows))
                           /\ MissingWindows(w, m) = Closed(f[Len(rows)])
  OBVIOUS
<1> DEFINE state[k \in 0 .. Len(rows)] ==
             IF k = 0 THEN [open |-> Never, windows |-> <<>>]
             ELSE IF IsOf(w, m, rows[k]) THEN TakeRow(state[k - 1], rows[k]) ELSE state[k - 1]
<1>1. IsLoop(state, w, m, Len(rows))
  <2>1. \E f : IsLoop(f, w, m, Len(rows))
    BY LoopExists
  <2>2. \E f : f = [k \in 0 .. Len(rows) |->
                     IF k = 0 THEN [open |-> Never, windows |-> <<>>]
                     ELSE IF IsOf(w, m, rows[k]) THEN TakeRow(f[k - 1], rows[k])
                     ELSE f[k - 1]]
    BY <2>1 DEF IsLoop
  <2>3. state = [k \in 0 .. Len(rows) |->
                   IF k = 0 THEN [open |-> Never, windows |-> <<>>]
                   ELSE IF IsOf(w, m, rows[k]) THEN TakeRow(state[k - 1], rows[k])
                   ELSE state[k - 1]]
    BY <2>2, Zenon
  <2> HIDE DEF state
  <2> QED BY <2>3 DEF IsLoop
<1>2. MissingWindows(w, m) = Closed(state[Len(rows)])
  BY DEF MissingWindows, Closed
<1> QED BY <1>1, <1>2

\* What the loop stands for, over the set R of the rows it takes: a row opens a window if
\* the member was observed since it was last lacking, and the next one observed closes it.
Opens(R, k) ==
  /\ k \in R /\ ~rows[k].observed
  /\ \A i \in R : i < k /\ ~rows[i].observed =>
       \E j \in R : i < j /\ j < k /\ rows[j].observed

Closes(R, k, i) ==
  /\ i \in R /\ k < i /\ rows[i].observed
  /\ \A j \in R : k < j /\ j < i => ~rows[j].observed

WindowOf(R, k, i, win) ==
  Opens(R, k) /\ Closes(R, k, i) /\ win = Window(rows[k].at, rows[i].at)

WindowRecords == [started_at: Times, reappeared_at: {Never} \union Times]

\* A state after n rows: its windows are those closed by then, and it is open exactly if
\* the member has not been observed since it was last lacking.
WindowsUpTo(R, st, n) ==
  \A win : win \in ToSet(st.windows) <=>
             \E k \in R, i \in R : i <= n /\ WindowOf(R, k, i, win)

OpenSince(R, st, n) ==
  IF st.open = Never
  THEN \A k \in R : k <= n /\ ~rows[k].observed =>
         \E i \in R : k < i /\ i <= n /\ rows[i].observed
  ELSE \E o \in R : /\ o <= n /\ Opens(R, o) /\ rows[o].at = st.open
                    /\ \A i \in R : o <= i /\ i <= n => ~rows[i].observed

StateTyped(st) == st \in [open: {Never} \union Times, windows: Seq(WindowRecords)]

LEMMA ToSetAppended ==
  ASSUME NEW S, NEW q \in Seq(S), NEW e \in S
  PROVE  ToSet(Append(q, e)) = ToSet(q) \union {e}
<1> DEFINE n == Len(q)
<1>1. /\ n \in Nat /\ DOMAIN q = 1 .. n
      /\ DOMAIN Append(q, e) = 1 .. n + 1
      /\ \A i \in 1 .. n : Append(q, e)[i] = q[i]
      /\ Append(q, e)[n + 1] = e
  BY AppendProperties
<1>2. 1 .. n + 1 = (1 .. n) \union {n + 1}
  BY <1>1
<1> HIDE DEF n
<1> QED BY <1>1, <1>2 DEF ToSet

\* The row that an open window opened at is the only one that still waits for its return.
LEMMA OneOpen ==
  ASSUME NEW R \in SUBSET Nat, NEW n \in Nat, NEW o \in R, NEW k \in R,
         Opens(R, o), Opens(R, k), o <= n, k <= n,
         \A i \in R : o <= i /\ i <= n => ~rows[i].observed,
         \A i \in R : k <= i /\ i <= n => ~rows[i].observed
  PROVE  o = k
<1>1. o \in Nat /\ k \in Nat
  OBVIOUS
<1>2. ASSUME o < k PROVE FALSE
  <2>1. PICK j \in R : o < j /\ j < k /\ rows[j].observed
    BY <1>2 DEF Opens
  <2>2. j \in Nat
    OBVIOUS
  <2> QED BY <1>1, <2>1, <2>2
<1>3. ASSUME k < o PROVE FALSE
  <2>1. PICK j \in R : k < j /\ j < o /\ rows[j].observed
    BY <1>3 DEF Opens
  <2>2. j \in Nat
    OBVIOUS
  <2> QED BY <1>1, <2>1, <2>2
<1> QED BY <1>1, <1>2, <1>3

\* A row that is not taken changes nothing.
LEMMA RowSkipped ==
  ASSUME NEW R \in SUBSET Nat, NEW n \in Nat, NEW st, n + 1 \notin R,
         WindowsUpTo(R, st, n), OpenSince(R, st, n)
  PROVE  WindowsUpTo(R, st, n + 1) /\ OpenSince(R, st, n + 1)
<1>1. \A i \in R : i <= n + 1 <=> i <= n
  <2>1. \A i \in R : i \in Nat /\ i # n + 1
    OBVIOUS
  <2> QED BY <2>1
<1>2. WindowsUpTo(R, st, n + 1)
  BY <1>1 DEF WindowsUpTo
<1>3. OpenSince(R, st, n + 1)
  BY <1>1 DEF OpenSince
<1> QED BY <1>2, <1>3

\* A row that is taken keeps the meaning of the state.
LEMMA RowTaken ==
  ASSUME NEW R \in SUBSET Nat, NEW n \in Nat, NEW st, NEW row, row = rows[n + 1],
         n + 1 \in R, row.at \in Times, row.observed \in BOOLEAN,
         StateTyped(st), WindowsUpTo(R, st, n), OpenSince(R, st, n)
  PROVE  /\ StateTyped(TakeRow(st, row))
         /\ WindowsUpTo(R, TakeRow(st, row), n + 1)
         /\ OpenSince(R, TakeRow(st, row), n + 1)
<1> DEFINE next == TakeRow(st, row)
<1>1. Never \notin Times
  BY DEF Never, Times
<1>2. \A i \in R : i \in Nat /\ (i <= n + 1 <=> i <= n \/ i = n + 1)
  OBVIOUS
<1>3. CASE row.observed /\ st.open # Never
  <2> DEFINE win == Window(st.open, row.at)
  <2>1. next = [open |-> Never, windows |-> Append(st.windows, win)]
    BY <1>3 DEF TakeRow
  <2>2. win \in WindowRecords
    BY <1>3 DEF StateTyped, Window, WindowRecords
  <2>3. StateTyped(next)
    BY <2>1, <2>2, AppendProperties DEF StateTyped
  <2>4. PICK o \in R : /\ o <= n /\ Opens(R, o) /\ rows[o].at = st.open
                       /\ \A i \in R : o <= i /\ i <= n => ~rows[i].observed
    BY <1>3 DEF OpenSince
  <2>5. Closes(R, o, n + 1)
    BY <1>2, <1>3, <2>4 DEF Closes
  <2>6. \A k \in R : Opens(R, k) /\ Closes(R, k, n + 1) => k = o
    <3> SUFFICES ASSUME NEW k \in R, Opens(R, k), Closes(R, k, n + 1) PROVE k = o
      OBVIOUS
    <3>1. k <= n /\ \A i \in R : k <= i /\ i <= n => ~rows[i].observed
      BY <1>2 DEF Opens, Closes
    <3> QED BY <2>4, <3>1, OneOpen
  <2>7. ToSet(next.windows) = ToSet(st.windows) \union {win}
    BY <2>1, <2>2, ToSetAppended DEF StateTyped
  <2>8. WindowsUpTo(R, next, n + 1)
    <3> SUFFICES ASSUME NEW x
                 PROVE  x \in ToSet(next.windows) <=>
                          \E k \in R, i \in R : i <= n + 1 /\ WindowOf(R, k, i, x)
      BY DEF WindowsUpTo
    <3>1. WindowOf(R, o, n + 1, win)
      BY <1>3, <2>4, <2>5 DEF WindowOf
    <3>2. \A k \in R : WindowOf(R, k, n + 1, x) => x = win
      BY <2>4, <2>6 DEF WindowOf
    <3> HIDE DEF win, next
    <3> QED BY <1>2, <2>4, <2>7, <3>1, <3>2 DEF WindowsUpTo
  <2>9. OpenSince(R, next, n + 1)
    <3>1. next.open = Never
      BY <2>1
    <3>2. ASSUME NEW k \in R, k <= n + 1, ~rows[k].observed
          PROVE  \E i \in R : k < i /\ i <= n + 1 /\ rows[i].observed
      <4>1. k < n + 1
        BY <1>2, <1>3, <3>2
      <4> QED BY <1>2, <1>3, <4>1
    <3> QED BY <3>1, <3>2 DEF OpenSince
  <2> QED BY <2>3, <2>8, <2>9
<1>4. ASSUME NEW s, s.windows = st.windows, \A k \in R : Opens(R, k) => ~Closes(R, k, n + 1)
      PROVE  WindowsUpTo(R, s, n + 1)
  <2>1. \A k \in R : \A x : ~WindowOf(R, k, n + 1, x)
    BY <1>4 DEF WindowOf
  <2> QED BY <1>2, <1>4, <2>1 DEF WindowsUpTo
<1>5. CASE ~row.observed /\ st.open = Never
  <2>1. /\ next.open = row.at /\ next.windows = st.windows /\ StateTyped(next)
    <3>1. next = [st EXCEPT !.open = row.at]
      BY <1>5 DEF TakeRow
    <3> QED BY <3>1 DEF StateTyped
  <2>2. WindowsUpTo(R, next, n + 1)
    <3>1. \A k \in R : ~Closes(R, k, n + 1)
      BY <1>5 DEF Closes
    <3> HIDE DEF next
    <3> QED BY <1>4, <2>1, <3>1
  <2>3. OpenSince(R, next, n + 1)
    <3>1. Opens(R, n + 1)
      <4> SUFFICES ASSUME NEW k \in R, k < n + 1, ~rows[k].observed
                   PROVE  \E j \in R : k < j /\ j < n + 1 /\ rows[j].observed
        BY <1>5 DEF Opens
      <4>1. PICK j \in R : k < j /\ j <= n /\ rows[j].observed
        BY <1>2, <1>5 DEF OpenSince
      <4> QED BY <1>2, <4>1
    <3>2. \A i \in R : n + 1 <= i /\ i <= n + 1 => ~rows[i].observed
      <4>1. \A i \in R : n + 1 <= i /\ i <= n + 1 => i = n + 1
        <5>1. \A i \in Nat : n + 1 <= i /\ i <= n + 1 => i = n + 1
          OBVIOUS
        <5> QED BY <5>1
      <4> QED BY <1>5, <4>1
    <3>3. next.open # Never
      BY <1>1, <2>1
    <3> HIDE DEF next
    <3> QED BY <2>1, <3>1, <3>2, <3>3 DEF OpenSince
  <2> QED BY <2>1, <2>2, <2>3
<1>6. CASE row.observed /\ st.open = Never
  <2>1. next = st
    BY <1>6 DEF TakeRow
  <2>2. WindowsUpTo(R, st, n + 1)
    <3>1. ASSUME NEW k \in R, Opens(R, k), Closes(R, k, n + 1) PROVE FALSE
      <4>1. k <= n /\ ~rows[k].observed
        BY <1>2, <3>1 DEF Opens, Closes
      <4>2. PICK i \in R : k < i /\ i <= n /\ rows[i].observed
        BY <1>6, <4>1 DEF OpenSince
      <4> QED BY <1>2, <3>1, <4>2 DEF Closes
    <3> QED BY <1>4, <3>1
  <2>3. OpenSince(R, st, n + 1)
    <3>1. ASSUME NEW k \in R, k <= n + 1, ~rows[k].observed
          PROVE  \E i \in R : k < i /\ i <= n + 1 /\ rows[i].observed
      <4>1. k < n + 1
        BY <1>2, <1>6, <3>1
      <4> QED BY <1>2, <1>6, <4>1
    <3> QED BY <1>6, <3>1 DEF OpenSince
  <2> QED BY <2>1, <2>2, <2>3
<1>7. CASE ~row.observed /\ st.open # Never
  <2>1. next = st
    BY <1>7 DEF TakeRow
  <2>2. WindowsUpTo(R, st, n + 1)
    <3>1. \A k \in R : ~Closes(R, k, n + 1)
      BY <1>7 DEF Closes
    <3> QED BY <1>4, <3>1
  <2>3. OpenSince(R, st, n + 1)
    <3>1. PICK o \in R : /\ o <= n /\ Opens(R, o) /\ rows[o].at = st.open
                         /\ \A i \in R : o <= i /\ i <= n => ~rows[i].observed
      BY <1>7 DEF OpenSince
    <3>2. o <= n + 1 /\ \A i \in R : o <= i /\ i <= n + 1 => ~rows[i].observed
      BY <1>2, <1>7, <3>1
    <3> QED BY <1>7, <3>1, <3>2 DEF OpenSince
  <2> QED BY <2>1, <2>2, <2>3
<1> QED BY <1>3, <1>5, <1>6, <1>7

\* After the last row the windows are those that were closed, and the open one.
WindowsOfRows(R, windows) ==
  \A win : win \in ToSet(windows) <=>
    \/ \E k \in R, i \in R : WindowOf(R, k, i, win)
    \/ \E k \in R : /\ Opens(R, k) /\ win = Window(rows[k].at, Never)
                    /\ \A i \in R : k < i => ~rows[i].observed

LEMMA WindowsFollowRows ==
  ASSUME TypeOK, NEW w, NEW m
  PROVE  WindowsOfRows(RowsOf(w, m), MissingWindows(w, m))
<1> DEFINE R == RowsOf(w, m)
<1>1. PICK N : N = Len(rows)
  OBVIOUS
<1>2. N \in Nat /\ DOMAIN rows = 1 .. N /\ \A k \in 1 .. N : rows[k] \in RowRecords
  BY <1>1 DEF TypeOK
<1>3. PICK f : IsLoop(f, w, m, N) /\ MissingWindows(w, m) = Closed(f[N])
  BY <1>1, <1>2, WindowsAreLoop
<1>4. R \in SUBSET (1 .. N) /\ R \in SUBSET Nat
  BY <1>2 DEF RowsOf
<1>5. \A k \in 1 .. N : k \in R <=> IsOf(w, m, rows[k])
  BY <1>2 DEF RowsOf
<1>6. /\ f[0] = [open |-> Never, windows |-> <<>>]
      /\ \A k \in 1 .. N : f[k] = IF k \in R THEN TakeRow(f[k - 1], rows[k]) ELSE f[k - 1]
  BY <1>2, <1>3, <1>5 DEF IsLoop
<1> HIDE DEF R
<1> DEFINE S == {n \in 0 .. N : /\ StateTyped(f[n])
                                /\ WindowsUpTo(R, f[n], n) /\ OpenSince(R, f[n], n)}
<1>7. 0 \in S
  <2>1. \A k \in R : ~(k <= 0)
    BY <1>4
  <2>2. ToSet(f[0].windows) = {}
    BY <1>6 DEF ToSet
  <2>3. StateTyped(f[0])
    BY <1>6 DEF StateTyped
  <2> QED BY <1>2, <1>6, <2>1, <2>2, <2>3 DEF WindowsUpTo, OpenSince
<1>8. ASSUME NEW n \in 0 .. N, n \in S, n < N PROVE n + 1 \in S
  <2>1. n + 1 \in 1 .. N /\ n + 1 \in 0 .. N /\ (n + 1) - 1 = n /\ n \in Nat
    BY <1>2, <1>8
  <2>2. StateTyped(f[n]) /\ WindowsUpTo(R, f[n], n) /\ OpenSince(R, f[n], n)
    BY <1>8
  <2>3. CASE n + 1 \in R
    <3>1. f[n + 1] = TakeRow(f[n], rows[n + 1])
      BY <1>6, <2>1, <2>3
    <3>2. rows[n + 1].at \in Times /\ rows[n + 1].observed \in BOOLEAN
      BY <1>2, <2>1 DEF RowRecords
    <3>3. /\ StateTyped(TakeRow(f[n], rows[n + 1]))
          /\ WindowsUpTo(R, TakeRow(f[n], rows[n + 1]), n + 1)
          /\ OpenSince(R, TakeRow(f[n], rows[n + 1]), n + 1)
      BY <1>4, <2>1, <2>2, <2>3, <3>2, RowTaken
    <3> QED BY <2>1, <3>1, <3>3
  <2>4. CASE n + 1 \notin R
    <3>1. f[n + 1] = f[n]
      BY <1>6, <2>1, <2>4
    <3>2. WindowsUpTo(R, f[n], n + 1) /\ OpenSince(R, f[n], n + 1)
      BY <1>4, <2>1, <2>2, <2>4, RowSkipped
    <3> QED BY <2>1, <2>2, <3>1, <3>2
  <2> QED BY <2>3, <2>4
<1> HIDE DEF S
<1>9. N \in S
  BY <1>2, <1>7, <1>8, UpTo
<1>10. PICK st : st = f[N]
  OBVIOUS
<1>11. StateTyped(st) /\ WindowsUpTo(R, st, N) /\ OpenSince(R, st, N)
  BY <1>9, <1>10 DEF S
<1>12. \A i \in R : i \in Nat /\ i <= N
  BY <1>4
<1>13. \A win : win \in ToSet(st.windows) <=> \E k \in R, i \in R : WindowOf(R, k, i, win)
  BY <1>11, <1>12 DEF WindowsUpTo
<1>14. CASE st.open = Never
  <2>1. MissingWindows(w, m) = st.windows
    BY <1>3, <1>10, <1>14 DEF Closed
  <2>2. \A k \in R : ~rows[k].observed => \E i \in R : k < i /\ rows[i].observed
    BY <1>11, <1>12, <1>14 DEF OpenSince
  <2>3. \A k \in R : Opens(R, k) => \E i \in R : k < i /\ rows[i].observed
    BY <2>2 DEF Opens
  <2> QED BY <1>13, <2>1, <2>3 DEF WindowsOfRows, R
<1>15. CASE st.open # Never
  <2> DEFINE last == Window(st.open, Never)
  <2>1. MissingWindows(w, m) = Append(st.windows, last)
    BY <1>3, <1>10, <1>15 DEF Closed
  <2>2. last \in WindowRecords
    BY <1>11, <1>15 DEF StateTyped, Window, WindowRecords
  <2>3. ToSet(MissingWindows(w, m)) = ToSet(st.windows) \union {last}
    BY <1>11, <2>1, <2>2, ToSetAppended DEF StateTyped
  <2>4. PICK o \in R : /\ o <= N /\ Opens(R, o) /\ rows[o].at = st.open
                       /\ \A i \in R : o <= i /\ i <= N => ~rows[i].observed
    BY <1>11, <1>15 DEF OpenSince
  <2>5. \A i \in R : o < i => ~rows[i].observed
    BY <1>12, <2>4
  <2>6. ASSUME NEW k \in R, Opens(R, k), \A i \in R : k < i => ~rows[i].observed
        PROVE  k = o
    <3>1. \A i \in R : k <= i /\ i <= N => ~rows[i].observed
      <4>1. \A i \in R : k <= i => k = i \/ k < i
        BY <1>12
      <4> QED BY <2>6, <4>1 DEF Opens
    <3> QED BY <1>2, <1>4, <1>12, <2>4, <2>6, <3>1, OneOpen
  <2>7. \A win : win = last <=>
          \E k \in R : /\ Opens(R, k) /\ win = Window(rows[k].at, Never)
                       /\ \A i \in R : k < i => ~rows[i].observed
    BY <2>4, <2>5, <2>6
  <2> HIDE DEF last
  <2> QED BY <1>13, <2>3, <2>7 DEF WindowsOfRows, R
<1> QED BY <1>14, <1>15

------------------------------------------------------------------------------
(* The windows, as runs of the week's answers. *)

LEMMA LeastExists ==
  ASSUME NEW S \in SUBSET Nat, S # {}
  PROVE  \E i \in S : \A j \in S : i <= j
<1> DEFINE R == OpToRel(<, Nat)
<1>1. IsWellFoundedOn(R, Nat)
  BY NatLessThanWellFounded
<1>2. \A x, y \in Nat : <<y, x>> \in R <=> y < x
  BY DEF OpToRel
<1> HIDE DEF R
<1>3. PICK x \in S : \A y \in S : <<y, x>> \notin R
  BY <1>1, WFMin
<1>4. \A y \in S : ~(y < x)
  BY <1>2, <1>3
<1>5. \A y \in S : x <= y
  <2>1. \A y \in S : y \in Nat /\ x \in Nat
    OBVIOUS
  <2> QED BY <1>4, <2>1
<1> QED BY <1>5

LEMMA MinIs ==
  ASSUME NEW S \in SUBSET Nat, NEW i \in S, \A j \in S : i <= j
  PROVE  Min(S) = i
<1>1. \A x \in S : (\A y \in S : x <= y) => x = i
  OBVIOUS
<1> QED BY <1>1 DEF Min

\* The rows R of a member and the answers A of the week are in step.
Same(k, a) == rows[k].at = answers[a].at

InStep(R, A, m) ==
  /\ R \in SUBSET Nat /\ A \in SUBSET Nat
  /\ \A k \in R : \E a \in A : Same(k, a)
  /\ \A k \in R, a \in A :
       Same(k, a) => ListedBy(a, m) /\ (rows[k].observed <=> Lists(a, m))
  /\ \A a \in A : ListedBy(a, m) => \E k \in R : Same(k, a)
  /\ \A k, l \in R, a, b \in A :
       Same(k, a) /\ Same(l, b) => (a < b => k < l) /\ (k < l => a <= b)
  /\ \A a, b \in A : /\ Lists(a, m) => ListedBy(a, m)
                     /\ ListedBy(a, m) /\ a < b => ListedBy(b, m)
                     /\ a < b => b - 1 \in A

LEMMA RowsAndAnswers ==
  ASSUME Inv, NEW w \in Int, NEW m \in Members
  PROVE  InStep(RowsOf(w, m), AnswersOf(w), m)
<1> DEFINE R == RowsOf(w, m)
           A == AnswersOf(w)
<1>1. PICK N, r : N = Len(answers) /\ r = Len(rows)
  OBVIOUS
<1>2. /\ N \in Nat /\ DOMAIN answers = 1 .. N /\ \A a \in 1 .. N : answers[a] \in AnswerRecords
      /\ r \in Nat /\ DOMAIN rows = 1 .. r /\ \A k \in 1 .. r : rows[k] \in RowRecords
      /\ \A a, b \in 1 .. N : a < b => answers[a].at < answers[b].at
      /\ \A k, l \in 1 .. r : k < l => rows[k].at <= rows[l].at
  <2>1. answers \in Seq(AnswerRecords) /\ rows \in Seq(RowRecords)
    BY DEF Inv, TypeOK, AnswersOrdered
  <2>2. /\ \A a, b \in DOMAIN answers : a < b => answers[a].at < answers[b].at
        /\ \A k, l \in DOMAIN rows : k < l => rows[k].at <= rows[l].at
    BY DEF Inv, AnswersOrdered, RowsOrdered
  <2>3. N \in Nat /\ r \in Nat /\ DOMAIN answers = 1 .. N /\ DOMAIN rows = 1 .. r
    BY <1>1, <2>1
  <2> QED BY <2>1, <2>2, <2>3
<1>3. /\ \A a \in 1 .. N : answers[a].at \in Int
      /\ \A k \in 1 .. r : rows[k].at \in Int
  BY <1>2 DEF AnswerRecords, RowRecords, Times
<1>4. /\ \A k : k \in R <=> k \in 1 .. r /\ rows[k].member = m /\ InWeek(w, rows[k].at)
      /\ \A a : a \in A <=> a \in 1 .. N /\ InWeek(w, answers[a].at)
  BY <1>2 DEF RowsOf, IsOf, AnswersOf
<1>5. R \in SUBSET Nat /\ A \in SUBSET Nat
  BY <1>4
<1> HIDE DEF R, A
<1>6. \A a, b \in A : answers[a].at = answers[b].at => a = b
  <2> SUFFICES ASSUME NEW a \in A, NEW b \in A, answers[a].at = answers[b].at PROVE a = b
    OBVIOUS
  <2>1. a \in 1 .. N /\ b \in 1 .. N
    BY <1>4
  <2>2. ~(answers[a].at < answers[b].at) /\ ~(answers[b].at < answers[a].at)
    BY <1>3, <2>1
  <2>3. ~(a < b) /\ ~(b < a)
    BY <1>2, <2>1, <2>2
  <2> QED BY <2>1, <2>3
<1>7. ASSUME NEW k \in R
      PROVE  \E a \in A : /\ Same(k, a) /\ ListedBy(a, m)
                          /\ rows[k].observed <=> Lists(a, m)
  <2>1. k \in DOMAIN rows /\ rows[k].member = m /\ InWeek(w, rows[k].at)
    BY <1>2, <1>4
  <2>2. RowFollows(rows[k])
    BY <2>1 DEF Inv
  <2>3. PICK a \in 1 .. N : /\ rows[k].at = answers[a].at
                            /\ rows[k].observed <=> Lists(a, m)
                            /\ ListedBy(a, m)
    BY <1>2, <2>1, <2>2 DEF RowFollows
  <2>4. a \in A
    BY <1>4, <2>1, <2>3
  <2> QED BY <2>3, <2>4 DEF Same
<1>8. ASSUME NEW k \in R, NEW a \in A, Same(k, a)
      PROVE  ListedBy(a, m) /\ (rows[k].observed <=> Lists(a, m))
  <2>1. PICK b \in A : /\ Same(k, b) /\ ListedBy(b, m)
                       /\ rows[k].observed <=> Lists(b, m)
    BY <1>7
  <2>2. a = b
    BY <1>6, <1>8, <2>1 DEF Same
  <2> QED BY <2>1, <2>2
<1>9. ASSUME NEW a \in A, ListedBy(a, m) PROVE \E k \in R : Same(k, a)
  <2>1. a \in DOMAIN answers /\ InWeek(w, answers[a].at)
    BY <1>2, <1>4
  <2>2. PICK k \in DOMAIN rows : rows[k].member = m /\ rows[k].at = answers[a].at
    BY <1>9, <2>1 DEF Inv, AnswersAreStored
  <2>3. k \in R
    BY <1>2, <1>4, <2>1, <2>2
  <2> QED BY <2>2, <2>3 DEF Same
<1>10. ASSUME NEW k \in R, NEW l \in R, NEW a \in A, NEW b \in A, Same(k, a), Same(l, b)
       PROVE  (a < b => k < l) /\ (k < l => a <= b)
  <2>1. k \in 1 .. r /\ l \in 1 .. r /\ a \in 1 .. N /\ b \in 1 .. N
    BY <1>4
  <2>2. /\ rows[k].at \in Int /\ rows[l].at \in Int
        /\ rows[k].at = answers[a].at /\ rows[l].at = answers[b].at
    BY <1>3, <1>10, <2>1 DEF Same
  <2>3. a < b => rows[k].at < rows[l].at
    BY <1>2, <2>1, <2>2
  <2>4. l < k => rows[l].at <= rows[k].at
    BY <1>2, <2>1
  <2>5. l = k => rows[l].at = rows[k].at
    OBVIOUS
  <2>6. a < b => k < l
    BY <2>1, <2>2, <2>3, <2>4, <2>5
  <2>7. k < l => rows[k].at <= rows[l].at
    BY <1>2, <2>1
  <2>8. b < a => rows[l].at < rows[k].at
    BY <1>2, <2>1, <2>2
  <2>9. k < l => a <= b
    BY <2>1, <2>2, <2>7, <2>8
  <2> QED BY <2>6, <2>9
<1>11. ASSUME NEW a \in A, NEW b \in A
       PROVE  /\ Lists(a, m) => ListedBy(a, m)
              /\ ListedBy(a, m) /\ a < b => ListedBy(b, m)
              /\ a < b => b - 1 \in A
  <2>1. a \in 1 .. N /\ b \in 1 .. N
    BY <1>4
  <2>2. Lists(a, m) => ListedBy(a, m)
    <3>1. a \in 1 .. a
      BY <2>1
    <3> QED BY <3>1 DEF ListedBy
  <2>3. ListedBy(a, m) /\ a < b => ListedBy(b, m)
    <3>1. a < b => \A i \in 1 .. a : i \in 1 .. b
      BY <2>1
    <3> QED BY <3>1 DEF ListedBy
  <2>4. ASSUME a < b PROVE b - 1 \in A
    <3>1. b - 1 \in 1 .. N /\ b - 1 < b /\ (a = b - 1 \/ a < b - 1)
      <4>1. N \in Nat /\ a \in 1 .. N /\ b \in 1 .. N /\ a < b
        BY <1>2, <2>1, <2>4
      <4> QED BY ONLY <4>1
    <3>2. /\ answers[a].at \in Int /\ answers[b].at \in Int /\ answers[b - 1].at \in Int
          /\ answers[b - 1].at < answers[b].at
          /\ a = b - 1 \/ answers[a].at < answers[b - 1].at
      BY <1>2, <1>3, <2>1, <3>1
    <3>3. InWeek(w, answers[a].at) /\ InWeek(w, answers[b].at)
      BY <1>4
    <3>4. CASE a = b - 1
      BY <3>4
    <3>5. CASE answers[a].at < answers[b - 1].at
      <4> DEFINE s == Start(w)
                 e == End(w)
      <4>1. s <= answers[a].at /\ answers[b].at < e
        BY <3>3 DEF InWeek
      <4>2. InWeek(w, answers[b - 1].at) <=> s <= answers[b - 1].at /\ answers[b - 1].at < e
        BY DEF InWeek
      <4>3. s \in Int /\ e \in Int
        BY IrfAssumption DEF Start, End
      <4> HIDE DEF s, e
      <4>4. s <= answers[b - 1].at /\ answers[b - 1].at < e
        BY ONLY <3>2, <3>5, <4>1, <4>3
      <4> QED BY <1>4, <3>1, <4>2, <4>4
    <3> QED BY <3>2, <3>4, <3>5
  <2> QED BY <2>2, <2>3, <2>4
<1>12. InStep(R, A, m)
  BY <1>5, <1>7, <1>8, <1>9, <1>10, <1>11 DEF InStep
<1> QED BY <1>12 DEF R, A

\* A row that opens a window is of an answer that begins a run, and the other way round.
Lacking(A, m) == {a \in A : Lacks(a, m)}

LEMMA OpensARun ==
  ASSUME NEW R, NEW A, NEW m, InStep(R, A, m), NEW k \in R, Opens(R, k)
  PROVE  \E a \in Lacking(A, m) : Same(k, a) /\ a - 1 \notin Lacking(A, m)
<1>1. PICK a \in A : Same(k, a)
  BY DEF InStep
<1>2. Lacks(a, m)
  BY <1>1 DEF InStep, Opens, Lacks
<1>3. ASSUME a - 1 \in A, Lacks(a - 1, m) PROVE FALSE
  <2>1. PICK i \in R : Same(i, a - 1)
    BY <1>3 DEF InStep, Lacks
  <2>2. a \in Nat /\ a - 1 < a
    BY DEF InStep
  <2>3. i < k /\ ~rows[i].observed
    BY <1>1, <1>3, <2>1, <2>2 DEF InStep, Lacks
  <2>4. PICK j \in R : i < j /\ j < k /\ rows[j].observed
    BY <2>3 DEF Opens
  <2>5. PICK b \in A : Same(j, b)
    BY DEF InStep
  <2>6. a - 1 <= b /\ b <= a
    BY <1>1, <1>3, <2>1, <2>4, <2>5 DEF InStep
  <2>7. b \in Nat /\ (b = a \/ b = a - 1)
    BY <2>2, <2>6 DEF InStep
  <2>8. Lists(b, m)
    BY <2>4, <2>5 DEF InStep
  <2> QED BY <1>2, <1>3, <2>7, <2>8 DEF Lacks
<1> QED BY <1>1, <1>2, <1>3 DEF Lacking

LEMMA RunIsOpened ==
  ASSUME NEW R, NEW A, NEW m, InStep(R, A, m),
         NEW a \in Lacking(A, m), a - 1 \notin Lacking(A, m)
  PROVE  \E k \in R : Same(k, a) /\ Opens(R, k)
<1>1. a \in A /\ a \in Nat /\ Lacks(a, m)
  BY DEF Lacking, InStep
<1> DEFINE S == {k \in R : Same(k, a)}
<1>2. S \in SUBSET Nat /\ S # {}
  BY <1>1 DEF InStep, Lacks
<1>3. PICK k \in S : \A i \in S : k <= i
  BY <1>2, LeastExists
<1>4. k \in R /\ Same(k, a) /\ ~rows[k].observed
  BY <1>1, <1>3 DEF InStep, Lacks
<1>5. ASSUME NEW i \in R, i < k, ~rows[i].observed
      PROVE  \E j \in R : i < j /\ j < k /\ rows[j].observed
  <2>1. ~Same(i, a)
    <3>1. i \in Nat /\ k \in Nat
      BY <1>4 DEF InStep
    <3> QED BY <1>3, <1>5, <3>1
  <2>2. PICK b \in A : Same(i, b)
    BY DEF InStep
  <2>3. b <= a /\ b # a /\ b \in Nat
    BY <1>1, <1>4, <1>5, <2>1, <2>2 DEF InStep
  <2>4. b < a
    BY <1>1, <2>3
  <2>5. ListedBy(b, m) /\ ~Lists(b, m)
    BY <1>5, <2>2 DEF InStep
  <2>6. a - 1 \in A
    BY <1>1, <2>4 DEF InStep
  <2>7. b < a - 1 \/ b = a - 1
    BY <1>1, <2>3, <2>4
  <2>8. ListedBy(a - 1, m)
    BY <2>5, <2>6, <2>7 DEF InStep
  <2>9. Lists(a - 1, m)
    BY <2>6, <2>8 DEF Lacking, Lacks
  <2>10. b < a - 1
    BY <2>5, <2>7, <2>9
  <2>11. PICK j \in R : Same(j, a - 1)
    BY <2>6, <2>8 DEF InStep
  <2>12. rows[j].observed
    BY <2>6, <2>9, <2>11 DEF InStep
  <2>13. i < j
    BY <2>2, <2>6, <2>10, <2>11 DEF InStep
  <2>14. a - 1 < a
    BY <1>1
  <2>15. j < k
    BY <1>1, <1>4, <2>6, <2>11, <2>14 DEF InStep
  <2> QED BY <2>12, <2>13, <2>15
<1> QED BY <1>4, <1>5 DEF Opens

\* The answers after the a-th that list the member; the first of them ends the window.
Returns(A, m, a) == {b \in A : b > a /\ Lists(b, m)}

LEMMA ClosedByReturn ==
  ASSUME NEW R, NEW A, NEW m, InStep(R, A, m), NEW k \in R, NEW a \in A, Same(k, a),
         ~rows[k].observed, NEW i \in R, Closes(R, k, i)
  PROVE  Returns(A, m, a) # {} /\ answers[Min(Returns(A, m, a))].at = rows[i].at
<1> DEFINE S == Returns(A, m, a)
<1>1. PICK b \in A : Same(i, b)
  BY DEF InStep
<1>2. a \in Nat /\ b \in Nat /\ S \in SUBSET Nat
  BY DEF InStep, Returns
<1>3. a <= b /\ Lists(b, m) /\ ~Lists(a, m)
  BY <1>1 DEF InStep, Closes
<1>4. b \in S
  <2>1. a # b
    BY <1>3
  <2> QED BY <1>2, <1>3, <2>1 DEF Returns
<1>5. ASSUME NEW c \in S PROVE b <= c
  <2>1. c \in A /\ c > a /\ Lists(c, m) /\ c \in Nat
    BY <1>2 DEF Returns
  <2>2. PICK j \in R : Same(j, c)
    BY <2>1 DEF InStep
  <2>3. rows[j].observed
    BY <2>1, <2>2 DEF InStep
  <2>4. a < c
    BY <1>2, <2>1
  <2>5. k < j
    BY <2>1, <2>2, <2>4 DEF InStep
  <2>6. ~(j < i)
    BY <2>3, <2>5 DEF Closes
  <2>7. ~(c < b)
    BY <1>1, <2>1, <2>2, <2>6 DEF InStep
  <2> QED BY <1>2, <2>1, <2>7
<1> HIDE DEF S
<1>6. Min(S) = b
  BY <1>2, <1>4, <1>5, MinIs
<1> QED BY <1>1, <1>4, <1>6 DEF S, Same

LEMMA ReturnCloses ==
  ASSUME NEW R, NEW A, NEW m, InStep(R, A, m), NEW k \in R, NEW a \in A, Same(k, a),
         Returns(A, m, a) # {}
  PROVE  \E i \in R : Closes(R, k, i)
<1>1. PICK b \in A : b > a /\ Lists(b, m) /\ b \in Nat /\ a \in Nat
  BY DEF InStep, Returns
<1>2. PICK j \in R : Same(j, b)
  BY <1>1 DEF InStep
<1>3. a < b
  BY <1>1
<1>4. k < j /\ rows[j].observed
  BY <1>1, <1>2, <1>3 DEF InStep
<1> DEFINE S == {i \in R : k < i /\ rows[i].observed}
<1>5. S \in SUBSET Nat /\ S # {}
  BY <1>4 DEF InStep
<1>6. PICK i \in S : \A l \in S : i <= l
  BY <1>5, LeastExists
<1>7. \A l \in R : k < l /\ l < i => ~rows[l].observed
  <2>1. \A l \in R : l \in Nat /\ i \in Nat
    BY <1>5 DEF InStep
  <2> QED BY <1>6, <2>1
<1> QED BY <1>6, <1>7 DEF Closes

------------------------------------------------------------------------------
(* A report of a week that is over. *)

\* An answer is not later than MaxAnswer after it was asked for.
AnswerIsDue == Observed => asked <= now /\ now <= asked + MaxAnswer

LEMMA AnswersAreDue == Spec => []AnswerIsDue
<1>1. Init => AnswerIsDue
  BY DEF Init, AnswerIsDue, Observed
<1>2. ASSUME Inv, AnswerIsDue, [Next]_vars PROVE AnswerIsDue'
  <2>1. /\ now \in Nat /\ MaxAnswer \in Nat /\ asked \in {Never} \union Nat
    BY <1>2, IrfAssumption DEF Inv, TypeOK, Times
  <2>2. CASE BeginObservation
    BY <2>1, <2>2 DEF BeginObservation, AnswerIsDue
  <2>3. CASE ObservationFails
    BY <2>3 DEF ObservationFails, AnswerIsDue, Observed
  <2>4. ASSUME NEW sample \in Samples, ApplyIrfObservation(sample) PROVE AnswerIsDue'
    BY <2>4 DEF ApplyIrfObservation, AnswerIsDue, Observed
  <2>5. CASE Tick
    <3> SUFFICES ASSUME Observed PROVE asked <= now + 1 /\ now + 1 <= asked + MaxAnswer
      BY <2>5 DEF Tick, AnswerIsDue, Observed
    <3>1. asked \in Nat /\ asked <= now /\ now < asked + MaxAnswer
      BY <1>2, <2>1, <2>5 DEF Tick, AnswerIsDue, Observed
    <3> QED BY <2>1, <3>1
  <2>6. CASE UNCHANGED vars
    BY <1>2, <2>6 DEF vars, AnswerIsDue, Observed
  <2> QED BY <1>2, <2>2, <2>3, <2>4, <2>5, <2>6 DEF Next
<1> QED BY <1>1, <1>2, Invariant, PTL DEF Spec

\* What an answer after the week adds: rows that are not of the week.
GrewOutside(w, r) ==
  /\ r \in Nat /\ DOMAIN rows = 1 .. r
  /\ Len(rows') \in Nat /\ DOMAIN rows' = 1 .. Len(rows') /\ r <= Len(rows')
  /\ \A k \in 1 .. r : rows'[k] = rows[k]
  /\ \A k \in DOMAIN rows' : k > r => ~InWeek(w, rows'[k].at)

LEMMA LateAnswersAreOutside ==
  ASSUME Inv, AnswerIsDue, NEW w \in Int, now > End(w) + MaxAnswer,
         NEW sample \in Samples, ApplyIrfObservation(sample), NEW r, r = Len(rows)
  PROVE  GrewOutside(w, r)
<1>1. RowsAdded(sample)
  BY ApplyAdds
<1>2. /\ asked \in Int /\ now \in Int /\ MaxAnswer \in Int /\ End(w) \in Int
  BY IrfAssumption DEF Inv, TypeOK, Times, End, ApplyIrfObservation, Observed, Never
<1>3. ~(asked < End(w))
  <2>1. now <= asked + MaxAnswer
    BY DEF AnswerIsDue, ApplyIrfObservation
  <2> QED BY <1>2, <2>1
<1>4. ASSUME NEW k \in DOMAIN rows', k > r PROVE ~InWeek(w, rows'[k].at)
  <2>1. PICK m \in ObservedMembers(sample) : rows'[k] = Observation(m, sample)
    BY <1>1, <1>4 DEF RowsAdded
  <2>2. rows'[k].at = asked
    BY <2>1 DEF Observation
  <2> QED BY <1>3, <2>2 DEF InWeek
<1> QED BY <1>1, <1>4 DEF RowsAdded, GrewOutside

LEMMA RowsOfSettled ==
  ASSUME NEW w, NEW r, GrewOutside(w, r), NEW m
  PROVE  RowsOf(w, m)' = RowsOf(w, m)
<1>1. \A k \in 1 .. Len(rows') : k \in 1 .. r \/ k > r
  BY DEF GrewOutside
<1>2. \A k \in 1 .. r : k \in 1 .. Len(rows')
  BY DEF GrewOutside
<1> QED BY <1>1, <1>2 DEF GrewOutside, RowsOf, IsOf

LEMMA WindowsAreLoopNext ==
  (\A w, m : Len(rows) \in Nat =>
     \E f : IsLoop(f, w, m, Len(rows)) /\ MissingWindows(w, m) = Closed(f[Len(rows)]))'
BY WindowsAreLoop, PTL

LEMMA WindowsSettled ==
  ASSUME NEW w, NEW r, r = Len(rows), GrewOutside(w, r), NEW m
  PROVE  MissingWindows(w, m)' = MissingWindows(w, m)
<1>1. PICK N : N = Len(rows')
  OBVIOUS
<1>2. /\ r \in Nat /\ N \in Nat /\ r <= N
      /\ \A k \in 1 .. r : rows'[k] = rows[k]
      /\ \A k \in 1 .. N : k > r => ~InWeek(w, rows'[k].at)
  BY <1>1 DEF GrewOutside
<1>3. PICK f : IsLoop(f, w, m, r) /\ MissingWindows(w, m) = Closed(f[r])
  BY <1>2, WindowsAreLoop
<1>4. PICK g : IsLoop(g, w, m, N)' /\ MissingWindows(w, m)' = Closed(g[N])
  BY <1>1, <1>2, WindowsAreLoopNext
<1> DEFINE none == [open |-> Never, windows |-> <<>>]
           upto(n) == IF n <= r THEN n ELSE r
<1>5. \A k \in 0 .. r :
        f[k] = IF k = 0 THEN none
               ELSE IF IsOf(w, m, rows[k]) THEN TakeRow(f[k - 1], rows[k]) ELSE f[k - 1]
  BY <1>3 DEF IsLoop
<1>6. \A k \in 0 .. N :
        g[k] = IF k = 0 THEN none
               ELSE IF IsOf(w, m, rows'[k]) THEN TakeRow(g[k - 1], rows'[k]) ELSE g[k - 1]
  BY <1>4 DEF IsLoop
<1> HIDE DEF none
<1> DEFINE S == {n \in 0 .. N : g[n] = f[upto(n)]}
<1>7. 0 \in S
  BY <1>2, <1>5, <1>6
<1>8. ASSUME NEW n \in 0 .. N, n \in S, n < N PROVE n + 1 \in S
  <2>1. n + 1 \in 0 .. N /\ n + 1 # 0 /\ (n + 1) - 1 = n
    BY <1>2, <1>8
  <2>2. CASE n + 1 <= r
    <3>1. /\ n + 1 \in 0 .. r /\ rows'[n + 1] = rows[n + 1]
          /\ upto(n + 1) = n + 1 /\ upto(n) = n
      BY <1>2, <2>1, <2>2
    <3>2. g[n] = f[n]
      BY <1>8, <3>1
    <3>3. g[n + 1] = f[n + 1]
      BY <1>5, <1>6, <2>1, <3>1, <3>2
    <3> QED BY <2>1, <3>1, <3>3
  <2>3. CASE n + 1 > r
    <3>1. upto(n + 1) = r /\ upto(n) = r
      BY <1>2, <2>1, <2>3
    <3>2. ~IsOf(w, m, rows'[n + 1])
      BY <1>2, <2>1, <2>3 DEF IsOf
    <3>3. g[n + 1] = g[n]
      BY <1>6, <2>1, <3>2
    <3> QED BY <1>8, <2>1, <3>1, <3>3
  <2> QED BY <1>2, <2>1, <2>2, <2>3
<1> HIDE DEF S
<1>9. N \in S
  BY <1>2, <1>7, <1>8, UpTo
<1>10. g[N] = f[r]
  <2>1. upto(N) = r
    BY <1>2
  <2> QED BY <1>9, <2>1 DEF S
<1> QED BY <1>3, <1>4, <1>10

LEMMA MissingSettled ==
  ASSUME Inv, NEW w, NEW r, r = Len(rows), GrewOutside(w, r), NEW m
  PROVE  MissingAtPeriodEnd(w, m)' <=> MissingAtPeriodEnd(w, m)
<1> DEFINE R == RowsOf(w, m)
<1>1. R' = R
  BY RowsOfSettled
<1>2. R \in SUBSET (1 .. r) /\ r \in Nat
  BY DEF RowsOf, GrewOutside
<1>3. R # {} => Max(R) \in 1 .. r
  BY <1>2, MaxExists DEF IsLast
<1>4. R # {} => rows'[Max(R)] = rows[Max(R)]
  BY <1>3 DEF GrewOutside
<1>5. MissingAtPeriodEnd(w, m)' <=> R' # {} /\ ~rows'[Max(R')].observed
  BY DEF MissingAtPeriodEnd
<1>6. MissingAtPeriodEnd(w, m) <=> R # {} /\ ~rows[Max(R)].observed
  BY DEF MissingAtPeriodEnd
<1> HIDE DEF R
<1> QED BY <1>1, <1>4, <1>5, <1>6

LEMMA ChangesSettled ==
  ASSUME NEW w, NEW r, GrewOutside(w, r)
  PROVE  RoleChanges(w)' = RoleChanges(w)
<1> DEFINE I == {i \in DOMAIN rows : rows[i].role_changed /\ InWeek(w, rows[i].at)}
<1>1. I' = I
  <2>1. \A k \in 1 .. Len(rows') : k \in 1 .. r \/ k > r
    BY DEF GrewOutside
  <2>2. \A k \in 1 .. r : k \in 1 .. Len(rows')
    BY DEF GrewOutside
  <2> QED BY <2>1, <2>2 DEF GrewOutside
<1>2. \A k \in I : rows'[k] = rows[k]
  BY DEF GrewOutside
<1>3. RoleChanges(w)' =
        {[member |-> rows'[k].member, at |-> rows'[k].at,
          previous_role |-> rows'[k].previous_role, new_role |-> rows'[k].role] : k \in I'}
  BY DEF RoleChanges
<1>4. RoleChanges(w) =
        {[member |-> rows[k].member, at |-> rows[k].at,
          previous_role |-> rows[k].previous_role, new_role |-> rows[k].role] : k \in I}
  BY DEF RoleChanges
<1> HIDE DEF I
<1> QED BY <1>1, <1>2, <1>3, <1>4

LEMMA CountSettled ==
  ASSUME Inv, NEW w \in Int, NEW r, r = Len(rows), GrewOutside(w, r)
  PROVE  ObservedCount(w)' = ObservedCount(w)
<1> DEFINE times == {rows[k].at : k \in DOMAIN rows} \intersect Start(w) .. End(w) - 1
           Seen(t) == {k \in DOMAIN rows : rows[k].at = t /\ rows[k].observed}
<1>1. Start(w) \in Int /\ End(w) \in Int
  BY IrfAssumption DEF Start, End
<1>2. /\ DOMAIN rows = 1 .. r /\ DOMAIN rows' = 1 .. Len(rows')
      /\ \A k \in 1 .. r : rows'[k] = rows[k] /\ k \in 1 .. Len(rows')
      /\ \A k \in 1 .. Len(rows') : k \in 1 .. r \/ ~InWeek(w, rows'[k].at)
  <2>1. \A k \in 1 .. Len(rows') : k \in 1 .. r \/ k > r
    BY DEF GrewOutside
  <2>2. \A k \in 1 .. r : k \in 1 .. Len(rows')
    BY DEF GrewOutside
  <2> QED BY <2>1, <2>2 DEF GrewOutside
<1>3. \A t \in Start(w) .. End(w) - 1 : InWeek(w, t)
  BY <1>1 DEF InWeek
<1>4. times' = times
  <2>1. times' = {rows'[k].at : k \in DOMAIN rows'} \intersect Start(w) .. End(w) - 1
    BY DEF Start, End
  <2> QED BY <1>2, <1>3, <2>1
<1>5. \A t \in Start(w) .. End(w) - 1 : Seen(t)' = Seen(t)
  <2> SUFFICES ASSUME NEW t \in Start(w) .. End(w) - 1
               PROVE  {k \in DOMAIN rows' : rows'[k].at = t /\ rows'[k].observed}
                        = {k \in DOMAIN rows : rows[k].at = t /\ rows[k].observed}
    OBVIOUS
  <2> QED BY <1>2, <1>3
<1>6. times \in SUBSET (0 .. MaxTime) /\ MaxTime \in Nat
  <2>1. \A k \in DOMAIN rows : rows[k].at \in Times
    <3>1. rows \in Seq(RowRecords)
      BY DEF Inv, TypeOK
    <3>2. \A k \in DOMAIN rows : rows[k] \in RowRecords
      BY <3>1
    <3> QED BY <3>2 DEF RowRecords
  <2> QED BY <2>1, IrfAssumption DEF Times
<1>7. times # {} => Max(times) \in Start(w) .. End(w) - 1
  BY <1>6, LatestExists DEF IsLast
<1>8. ObservedCount(w) = IF times = {} THEN Never ELSE Cardinality(Seen(Max(times)))
  BY DEF ObservedCount
<1>9. PICK t : t = Max(times)
  OBVIOUS
<1>10. ObservedCount(w)' = IF times' = {} THEN Never
                           ELSE Cardinality({k \in DOMAIN rows' : rows'[k].at = Max(times')
                                                                  /\ rows'[k].observed})
  BY DEF ObservedCount, Start, End
<1>11. ObservedCount(w)' = IF times = {} THEN Never ELSE Cardinality(Seen(t)')
  BY <1>4, <1>9, <1>10
<1>12. ASSUME times # {}
       PROVE  {k \in DOMAIN rows' : rows'[k].at = t /\ rows'[k].observed}
                = {k \in DOMAIN rows : rows[k].at = t /\ rows[k].observed}
  <2> HIDE DEF times
  <2> QED BY <1>5, <1>7, <1>9, <1>12
<1>13. ObservedCount(w) = IF times = {} THEN Never ELSE Cardinality(Seen(t))
  BY <1>8, <1>9
<1> HIDE DEF times
<1> QED BY <1>11, <1>12, <1>13

------------------------------------------------------------------------------
(* The theorems. *)

\* Every variable keeps its type, whatever is answered and whenever.
THEOREM TypeCorrect == Spec => []TypeOK
<1>1. Inv => TypeOK
  BY DEF Inv
<1> QED BY <1>1, Invariant, PTL

\* A week is abnormal exactly if its last answer lacked a member that was listed before
\* (irf.py:16-18, irf_summary.py:15-22).
THEOREM MissingIsReported == Spec => []MissingMeansReportedAbsent
<1>1. ASSUME Inv PROVE MissingMeansReportedAbsent
  <2>1. ASSUME NEW w \in Weeks
        PROVE  IrfStatus(w) = "abnormal" <=>
                 AnswersOf(w) # {} /\ \E m \in Members : Lacks(Max(AnswersOf(w)), m)
    <3>1. IrfStatus(w) = "abnormal" <=> \E m \in Members : MissingAtPeriodEnd(w, m)
      BY DEF IrfStatus
    <3> QED BY <1>1, <3>1, MissingIsLacking
  <2> QED BY <2>1 DEF MissingMeansReportedAbsent
<1> QED BY <1>1, Invariant, PTL

\* A role change is recorded exactly where a listed role differs from the last one that
\* was recognized, whatever lies between the two answers (irf.py:13-15).
THEOREM ChangesAreReliable == Spec => []RoleChangesAreReliable
<1>1. ASSUME Inv PROVE RoleChangesAreReliable
  <2>1. SUFFICES ASSUME NEW k \in DOMAIN rows
                 PROVE  LET row == rows[k]
                            before == answers[Max(Earlier(row))].sample[row.member]
                        IN /\ row.role_changed <=>
                                row.role # NoRole /\ Earlier(row) # {} /\ before # row.role
                           /\ row.role_changed => row.previous_role = before
    <3>1. \A row : Earlier(row) =
            {i \in DOMAIN answers : /\ answers[i].at < row.at /\ Lists(i, row.member)
                                    /\ answers[i].sample[row.member] # NoRole}
      BY DEF Earlier, Recognized
    <3> HIDE DEF Earlier
    <3> QED BY <2>1, <3>1 DEF RoleChangesAreReliable
  <2>2. PICK row : row = rows[k]
    OBVIOUS
  <2>3. ChangeIsReliable(row)
    BY <1>1, <2>2 DEF Inv
  <2>4. \A i : IsLast(i, Earlier(row)) => Max(Earlier(row)) = i /\ Earlier(row) # {}
    <3>1. Earlier(row) \in SUBSET Int
      BY <1>1 DEF Inv, AnswersOrdered, Earlier, Recognized
    <3> QED BY <3>1, MaxIs DEF IsLast
  <2>5. row.role_changed \in BOOLEAN
    <3>1. rows \in Seq(RowRecords)
      BY <1>1 DEF Inv, TypeOK
    <3>2. row \in RowRecords
      BY <2>1, <2>2, <3>1
    <3> QED BY <3>2 DEF RowRecords
  <2> QED BY <2>2, <2>3, <2>4, <2>5 DEF ChangeIsReliable
<1> QED BY <1>1, Invariant, PTL

\* A missing window is a maximal run of the week's answers that lack the member, and ends
\* with the answer that listed it again (irf_summary.py, _member_summary).
THEOREM WindowsAreAnswerRuns == Spec => []WindowsAreRuns
<1>1. ASSUME Inv PROVE WindowsAreRuns
  <2> SUFFICES ASSUME NEW w \in Weeks, NEW m \in Members
               PROVE  LET lacking == {k \in AnswersOf(w) : Lacks(k, m)}
                          opening == {k \in lacking : k - 1 \notin lacking}
                          returns(k) == {i \in AnswersOf(w) : i > k /\ Lists(i, m)}
                      IN ToSet(MissingWindows(w, m)) =
                           {Window(answers[k].at, IF returns(k) = {} THEN Never
                                                  ELSE answers[Min(returns(k))].at) :
                              k \in opening}
    BY DEF WindowsAreRuns
  <2> DEFINE R == RowsOf(w, m)
             A == AnswersOf(w)
             run(a) == Window(answers[a].at, IF Returns(A, m, a) = {} THEN Never
                                             ELSE answers[Min(Returns(A, m, a))].at)
             Runs == {a \in Lacking(A, m) : a - 1 \notin Lacking(A, m)}
             windows == ToSet(MissingWindows(w, m))
  <2>1. w \in Int
    BY DEF Weeks
  <2>2. InStep(R, A, m)
    BY <1>1, <2>1, RowsAndAnswers
  <2>3. WindowsOfRows(R, MissingWindows(w, m))
    BY <1>1, WindowsFollowRows DEF Inv
  <2>4. \A win : win \in windows <=>
          \/ \E k \in R, i \in R : WindowOf(R, k, i, win)
          \/ \E k \in R : /\ Opens(R, k) /\ win = Window(rows[k].at, Never)
                          /\ \A i \in R : k < i => ~rows[i].observed
    BY <2>3 DEF WindowsOfRows
  <2>5. \A a \in Runs : a \in A
    BY DEF Lacking
  <2> HIDE DEF R, A, windows
  <2>6. ASSUME NEW win \in windows PROVE \E a \in Runs : win = run(a)
    <3>1. CASE \E k \in R, i \in R : WindowOf(R, k, i, win)
      <4>1. PICK k \in R, i \in R : /\ Opens(R, k) /\ Closes(R, k, i)
                                    /\ win = Window(rows[k].at, rows[i].at)
        BY <3>1 DEF WindowOf
      <4>2. PICK a \in Runs : Same(k, a)
        BY <2>2, <4>1, OpensARun
      <4>3. Returns(A, m, a) # {} /\ answers[Min(Returns(A, m, a))].at = rows[i].at
        BY <2>2, <2>5, <4>1, <4>2, ClosedByReturn DEF Opens
      <4>4. win = run(a)
        BY <4>1, <4>2, <4>3 DEF Same
      <4> QED BY <4>4
    <3>2. CASE \E k \in R : /\ Opens(R, k) /\ win = Window(rows[k].at, Never)
                            /\ \A i \in R : k < i => ~rows[i].observed
      <4>1. PICK k \in R : /\ Opens(R, k) /\ win = Window(rows[k].at, Never)
                           /\ \A i \in R : k < i => ~rows[i].observed
        BY <3>2
      <4>2. PICK a \in Runs : Same(k, a)
        BY <2>2, <4>1, OpensARun
      <4>3. Returns(A, m, a) = {}
        BY <2>2, <2>5, <4>1, <4>2, ReturnCloses DEF Closes
      <4>4. win = run(a)
        BY <4>1, <4>2, <4>3 DEF Same
      <4> QED BY <4>4
    <3> QED BY <2>4, <3>1, <3>2
  <2>7. ASSUME NEW a \in Runs PROVE run(a) \in windows
    <3>1. PICK k \in R : Same(k, a) /\ Opens(R, k)
      BY <2>2, RunIsOpened
    <3>2. a \in A /\ ~rows[k].observed
      BY <2>5, <3>1 DEF Opens
    <3>3. CASE Returns(A, m, a) = {}
      <4>1. \A i \in R : k < i => ~rows[i].observed
        <5> SUFFICES ASSUME NEW i \in R, k < i, rows[i].observed PROVE FALSE
          OBVIOUS
        <5>1. PICK b \in A : Same(i, b)
          BY <2>2 DEF InStep
        <5>2. a <= b /\ Lists(b, m) /\ ~Lists(a, m) /\ a \in Nat /\ b \in Nat
          BY <2>2, <3>1, <3>2, <5>1 DEF InStep
        <5>3. b > a
          BY <5>2
        <5> QED BY <3>3, <5>2, <5>3 DEF Returns
      <4>2. run(a) = Window(rows[k].at, Never)
        BY <3>1, <3>3 DEF Same
      <4> QED BY <2>4, <3>1, <4>1, <4>2
    <3>4. CASE Returns(A, m, a) # {}
      <4>1. PICK i \in R : Closes(R, k, i)
        BY <2>2, <3>1, <3>2, <3>4, ReturnCloses
      <4>2. answers[Min(Returns(A, m, a))].at = rows[i].at
        BY <2>2, <3>1, <3>2, <4>1, ClosedByReturn
      <4>3. run(a) = Window(rows[k].at, rows[i].at)
        BY <3>1, <3>4, <4>2 DEF Same
      <4>4. WindowOf(R, k, i, run(a))
        BY <3>1, <4>1, <4>3 DEF WindowOf
      <4> QED BY <2>4, <4>4
    <3> QED BY <3>3, <3>4
  <2>8. windows = {run(a) : a \in Runs}
    <3> HIDE DEF run, Runs
    <3> QED BY <2>6, <2>7
  <2> QED BY <2>8 DEF windows, A, Lacking, Returns
<1> QED BY <1>1, Invariant, PTL

\* Once the last answer of a week is in, no step changes what a report of it says: its
\* windows, its role changes, its count and its status (irf_summary.py).
THEOREM SummarySettled == Spec => SummaryIsSettled
<1>1. ASSUME Inv, AnswerIsDue, [Next]_vars, NEW w \in Weeks, now > End(w) + MaxAnswer
      PROVE  Summary(w)' = Summary(w)
  <2>1. w \in Int
    BY DEF Weeks
  <2>2. CASE UNCHANGED rows
    <3>1. /\ RoleChanges(w)' = RoleChanges(w) /\ ObservedCount(w)' = ObservedCount(w)
          /\ \A m \in Members : MissingWindows(w, m)' = MissingWindows(w, m)
          /\ IrfStatus(w)' = IrfStatus(w)
      BY <2>2 DEF RoleChanges, ObservedCount, MissingWindows, IrfStatus, MissingAtPeriodEnd,
                  RowsOf
    <3> QED BY <3>1 DEF Summary
  <2>3. ASSUME NEW sample \in Samples, ApplyIrfObservation(sample)
        PROVE  Summary(w)' = Summary(w)
    <3>1. PICK r : r = Len(rows)
      OBVIOUS
    <3>2. GrewOutside(w, r)
      BY <1>1, <2>1, <2>3, <3>1, LateAnswersAreOutside
    <3>3. \A m \in Members : MissingWindows(w, m)' = MissingWindows(w, m)
      BY <3>1, <3>2, WindowsSettled
    <3>4. \A m \in Members : MissingAtPeriodEnd(w, m)' <=> MissingAtPeriodEnd(w, m)
      BY <1>1, <3>1, <3>2, MissingSettled
    <3>5. IrfStatus(w)' = IrfStatus(w)
      BY <3>3, <3>4 DEF IrfStatus
    <3>6. RoleChanges(w)' = RoleChanges(w) /\ ObservedCount(w)' = ObservedCount(w)
      BY <1>1, <2>1, <3>1, <3>2, ChangesSettled, CountSettled
    <3> QED BY <3>3, <3>5, <3>6 DEF Summary
  <2> QED BY <1>1, <2>2, <2>3
          DEF Next, BeginObservation, ObservationFails, Tick, vars, tables
<1>2. ASSUME Inv, AnswerIsDue, [Next]_vars
      PROVE  \A w \in Weeks : now > End(w) + MaxAnswer => Summary(w)' = Summary(w)
  BY <1>1, <1>2
<1> QED BY <1>2, Invariant, AnswersAreDue, PTL DEF Spec, SummaryIsSettled

================================================================================
