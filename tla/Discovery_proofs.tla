----------------------------- MODULE Discovery_proofs -----------------------------
(***************************************************************************)
(* That no poll, however it is interleaved with the administrator, loses a *)
(* selection, that nothing goes but what the columns that answered no      *)
(* longer show, and that a run recorded as SUCCESS leaves the device's     *)
(* picture: for any interfaces, any numbering and any number of polls.     *)
(***************************************************************************)
EXTENDS Discovery, TLAPS

Fields == {"step", "listed", "answered", "attached", "selected", "seen", "quiet"}

\* The part of TypeOK that the proofs need.
RowsTyped ==
  /\ DOMAIN poll = Fields
  /\ index \in [Names -> Indexes \union {Gone}]
  /\ rows \in [Names -> RowRecords \union {NoRow}]
  /\ choice \in [Names -> BOOLEAN]
  /\ poll.listed \in [Names -> Indexes \union {Gone}]
  /\ poll.seen \in [Names -> RowRecords \union {NoRow}]

\* NoRow is not monitored, so this is SelectionSurvives.
Selected == \A n \in Names : rows[n].monitored = choice[n]

\* What the transaction has read is still so, but for the selection.
SnapshotHolds ==
  poll.step = "commit" =>
    \A n \in Names :
      /\ poll.seen[n] = NoRow <=> rows[n] = NoRow
      /\ poll.seen[n].if_index = rows[n].if_index
      /\ poll.seen[n].is_aggregation = rows[n].is_aggregation

Inv == RowsTyped /\ Selected /\ SnapshotHolds

------------------------------------------------------------------------------
(* Rows. *)

\* A row with an ifIndex is one.
LEMMA RowIsNotNoRow ==
  ASSUME NEW r \in RowRecords
  PROVE  r # NoRow
BY DiscoveryAssumption DEF RowRecords, NoRow, Gone

\* A row that takes an ifIndex is one, and nothing else of it changes.
LEMMA NumberedRow ==
  ASSUME NEW r \in RowRecords \union {NoRow}, NEW i \in Indexes
  PROVE  LET q == [r EXCEPT !.if_index = i]
         IN /\ q \in RowRecords
            /\ q.monitored = r.monitored
            /\ q.is_aggregation = r.is_aggregation
<1>1. r \in [if_index: Indexes \union {Gone}, is_aggregation: BOOLEAN, monitored: BOOLEAN]
  <2>1. CASE r \in RowRecords
    BY <2>1 DEF RowRecords
  <2>2. CASE r = NoRow
    BY <2>2 DEF NoRow
  <2> QED BY <2>1, <2>2
<1> QED BY <1>1 DEF RowRecords

\* sync_interfaces gives rows, and takes none away.
LEMMA SyncedRows ==
  ASSUME RowsTyped, NEW n \in Names
  PROVE  /\ SyncInterfaces[n] \in RowRecords \union {NoRow}
         /\ SyncInterfaces[n].monitored = poll.seen[n].monitored
         /\ SyncInterfaces[n].is_aggregation = poll.seen[n].is_aggregation
         /\ SyncInterfaces[n] = NoRow => poll.seen[n] = NoRow
         /\ poll.listed[n] = Gone => SyncInterfaces[n] = poll.seen[n]
<1>1. CASE poll.listed[n] = Gone
  BY <1>1 DEF RowsTyped, SyncInterfaces
<1>2. CASE poll.listed[n] # Gone
  <2>1. /\ poll.listed[n] \in Indexes
        /\ SyncInterfaces[n] = [poll.seen[n] EXCEPT !.if_index = poll.listed[n]]
        /\ poll.seen[n] \in RowRecords \union {NoRow}
    BY <1>2 DEF RowsTyped, SyncInterfaces
  <2>2. /\ SyncInterfaces[n] \in RowRecords
        /\ SyncInterfaces[n].monitored = poll.seen[n].monitored
        /\ SyncInterfaces[n].is_aggregation = poll.seen[n].is_aggregation
    BY <2>1, NumberedRow
  <2> QED BY <1>2, <2>2, RowIsNotNoRow
<1> QED BY <1>1, <1>2

\* sync_aggregations touches the flag only.
LEMMA FlaggedRows ==
  ASSUME NEW table, NEW lookup, NEW mappings, NEW n \in Names,
         table[n] \in RowRecords \union {NoRow}
  PROVE  LET flagged == SyncFlags(table, lookup, mappings)
         IN /\ flagged[n] \in RowRecords \union {NoRow}
            /\ flagged[n] = NoRow <=> table[n] = NoRow
            /\ flagged[n].monitored = table[n].monitored
            /\ flagged[n].if_index = table[n].if_index
<1> DEFINE flagged == SyncFlags(table, lookup, mappings)
<1>1. CASE table[n] = NoRow
  BY <1>1 DEF SyncFlags
<1>2. CASE table[n] # NoRow
  <2>1. table[n] \in RowRecords
    BY <1>2
  <2>2. \/ flagged[n] = [table[n] EXCEPT !.is_aggregation = FALSE]
        \/ flagged[n] = [table[n] EXCEPT !.is_aggregation = TRUE]
        \/ flagged[n] = table[n]
    BY <1>2 DEF SyncFlags
  <2>3. /\ flagged[n] \in RowRecords
        /\ flagged[n].monitored = table[n].monitored
        /\ flagged[n].if_index = table[n].if_index
    BY <2>1, <2>2 DEF RowRecords
  <2> QED BY <1>2, <2>3, RowIsNotNoRow
<1> QED BY <1>1, <1>2

\* Written keeps rows that are there, and their selection.
LEMMA WrittenRows ==
  ASSUME Inv, poll.step = "commit", NEW n \in Names,
         NEW table,
         table[n] \in RowRecords \union {NoRow},
         table[n].monitored = poll.seen[n].monitored,
         table[n] = NoRow => poll.seen[n] = NoRow
  PROVE  /\ Written(table)[n] \in RowRecords \union {NoRow}
         /\ Written(table)[n].monitored = rows[n].monitored
         /\ rows[n] # NoRow => Written(table)[n] # NoRow
         /\ Written(table)[n].if_index = table[n].if_index
         /\ Written(table)[n].is_aggregation = table[n].is_aggregation
<1>0. /\ rows[n] \in RowRecords \union {NoRow}
      /\ poll.seen[n] \in RowRecords \union {NoRow}
      /\ poll.seen[n] = NoRow <=> rows[n] = NoRow
  BY DEF Inv, RowsTyped, SnapshotHolds
<1>1. CASE table[n] = NoRow
  BY <1>0, <1>1 DEF Written, NoRow
<1>2. CASE table[n] # NoRow /\ poll.seen[n] = NoRow
  <2>1. Written(table)[n] = table[n] /\ rows[n] = NoRow
    BY <1>0, <1>2 DEF Written
  <2> QED BY <1>2, <2>1 DEF NoRow
<1>3. CASE table[n] # NoRow /\ poll.seen[n] # NoRow
  <2>1. /\ Written(table)[n] = [table[n] EXCEPT !.monitored = rows[n].monitored]
        /\ table[n] \in RowRecords /\ rows[n] \in RowRecords
    BY <1>0, <1>3 DEF Written
  <2>2. /\ Written(table)[n] \in RowRecords
        /\ Written(table)[n].monitored = rows[n].monitored
        /\ Written(table)[n].if_index = table[n].if_index
        /\ Written(table)[n].is_aggregation = table[n].is_aggregation
    BY <2>1 DEF RowRecords
  <2> QED BY <2>2, RowIsNotNoRow
<1> QED BY <1>1, <1>2, <1>3

\* What a commit makes of the rows: the selection stays, no row goes, and what a failed
\* section would have written is as it was.
CommitKeepsRow(n) ==
  /\ rows'[n] \in RowRecords \union {NoRow}
  /\ rows'[n].monitored = rows[n].monitored
  /\ rows[n] # NoRow => rows'[n] # NoRow
  /\ poll.listed[n] = Gone => rows'[n].if_index = rows[n].if_index
  /\ "attached" \notin poll.answered => rows'[n].is_aggregation = rows[n].is_aggregation

LEMMA CommittedRows ==
  ASSUME Inv, CommitPoll
  PROVE  /\ DOMAIN rows' = Names
         /\ rows' = [n \in Names |-> rows'[n]]
         /\ \A n \in Names : CommitKeepsRow(n)
         /\ "attached" \notin poll.answered => memberships' = memberships
<1>0. poll.step = "commit" /\ RowsTyped
  BY DEF CommitPoll, Inv
<1>1. CASE "attached" \notin poll.answered
  <2>1. rows' = Written(SyncInterfaces) /\ memberships' = memberships
    BY <1>1 DEF CommitPoll, SyncAggregations
  <2>2. ASSUME NEW n \in Names PROVE CommitKeepsRow(n)
    <3>1. /\ SyncInterfaces[n] \in RowRecords \union {NoRow}
          /\ SyncInterfaces[n].monitored = poll.seen[n].monitored
          /\ SyncInterfaces[n].is_aggregation = poll.seen[n].is_aggregation
          /\ SyncInterfaces[n] = NoRow => poll.seen[n] = NoRow
          /\ poll.listed[n] = Gone => SyncInterfaces[n] = poll.seen[n]
      BY <1>0, SyncedRows
    <3>2. /\ rows'[n] \in RowRecords \union {NoRow}
          /\ rows'[n].monitored = rows[n].monitored
          /\ rows[n] # NoRow => rows'[n] # NoRow
          /\ rows'[n].if_index = SyncInterfaces[n].if_index
          /\ rows'[n].is_aggregation = SyncInterfaces[n].is_aggregation
      BY <1>0, <2>1, <3>1, WrittenRows
    <3>3. /\ poll.seen[n].if_index = rows[n].if_index
          /\ poll.seen[n].is_aggregation = rows[n].is_aggregation
      BY <1>0 DEF Inv, SnapshotHolds
    <3> QED BY <3>1, <3>2, <3>3 DEF CommitKeepsRow
  <2> QED BY <2>1, <2>2 DEF Written
<1>2. CASE "attached" \in poll.answered
  <2> DEFINE flagged(lookup) ==
        SyncFlags(SyncInterfaces, lookup, Mappings(poll.attached, poll.selected))
  <2>1. PICK lookup : rows' = Written(flagged(lookup))
    BY <1>2 DEF CommitPoll, SyncAggregations
  <2>2. ASSUME NEW n \in Names PROVE CommitKeepsRow(n)
    <3>1. /\ SyncInterfaces[n] \in RowRecords \union {NoRow}
          /\ SyncInterfaces[n].monitored = poll.seen[n].monitored
          /\ SyncInterfaces[n] = NoRow => poll.seen[n] = NoRow
          /\ poll.listed[n] = Gone => SyncInterfaces[n] = poll.seen[n]
      BY <1>0, SyncedRows
    <3>2. /\ flagged(lookup)[n] \in RowRecords \union {NoRow}
          /\ flagged(lookup)[n] = NoRow <=> SyncInterfaces[n] = NoRow
          /\ flagged(lookup)[n].monitored = SyncInterfaces[n].monitored
          /\ flagged(lookup)[n].if_index = SyncInterfaces[n].if_index
      BY <3>1, FlaggedRows
    <3> HIDE DEF flagged
    <3>3. /\ rows'[n] \in RowRecords \union {NoRow}
          /\ rows'[n].monitored = rows[n].monitored
          /\ rows[n] # NoRow => rows'[n] # NoRow
          /\ rows'[n].if_index = SyncInterfaces[n].if_index
      BY <1>0, <2>1, <3>1, <3>2, WrittenRows
    <3>4. poll.seen[n].if_index = rows[n].if_index
      BY <1>0 DEF Inv, SnapshotHolds
    <3> QED BY <1>2, <3>1, <3>3, <3>4 DEF CommitKeepsRow
  <2> QED BY <1>2, <2>1, <2>2 DEF Written
<1> QED BY <1>1, <1>2

------------------------------------------------------------------------------
(* The invariant. *)

LEMMA InvInitially == Init => Inv
<1> SUFFICES ASSUME Init PROVE Inv
  OBVIOUS
<1>1. /\ rows = [n \in Names |-> NoRow]
      /\ choice = [n \in Names |-> FALSE]
      /\ poll.listed = NoListing
      /\ poll.seen = [n \in Names |-> NoRow]
      /\ poll.step = "idle"
      /\ DOMAIN poll = Fields
      /\ index \in [Names -> Indexes \union {Gone}]
  BY DEF Init, Idle, Fields, Numberings
<1>2. RowsTyped
  BY <1>1 DEF RowsTyped, NoListing
<1>3. Selected
  BY <1>1 DEF Selected, NoRow
<1> QED BY <1>1, <1>2, <1>3 DEF Inv, SnapshotHolds

\* Steps that leave rows and choice alone and set no snapshot.
LEMMA PollStepKeeps ==
  ASSUME Inv, rows' = rows, choice' = choice,
         poll'.listed \in [Names -> Indexes \union {Gone}],
         poll'.seen \in [Names -> RowRecords \union {NoRow}],
         DOMAIN poll' = Fields,
         index' \in [Names -> Indexes \union {Gone}],
         \/ poll'.step # "commit"
         \/ poll'.seen = rows
         \/ poll'.step = poll.step /\ poll'.seen = poll.seen
  PROVE  Inv'
BY DEF Inv, RowsTyped, Selected, SnapshotHolds

LEMMA InvKept ==
  ASSUME Inv, [Next]_vars
  PROVE  Inv'
<1> USE DEF device, selection
<1>0. /\ poll.listed \in [Names -> Indexes \union {Gone}]
      /\ poll.seen \in [Names -> RowRecords \union {NoRow}]
      /\ Idle.listed \in [Names -> Indexes \union {Gone}]
      /\ Idle.seen \in [Names -> RowRecords \union {NoRow}]
      /\ Idle.step = "idle"
      /\ DOMAIN Idle = Fields /\ DOMAIN poll = Fields
      /\ index \in [Names -> Indexes \union {Gone}]
  BY DEF Inv, RowsTyped, Idle, NoListing, Fields
<1>1. ASSUME DeviceChanges PROVE Inv'
  <2>1. DeviceChange
    BY <1>1 DEF DeviceChanges, AddInterface, RemoveInterface, Renumber, Rebundle
  <2>2. index' \in [Names -> Indexes \union {Gone}]
    BY <1>0, <1>1 DEF DeviceChanges, AddInterface, RemoveInterface, Renumber, Rebundle,
                      Numberings
  <2> QED BY <1>0, <2>1, <2>2, PollStepKeeps DEF DeviceChange, Fields
<1>2. ASSUME WalkInterfaces PROVE Inv'
  BY <1>0, <1>2, PollStepKeeps DEF WalkInterfaces, Idle, NoListing, Fields
<1>3. ASSUME WalkAttached PROVE Inv'
  BY <1>0, <1>3, PollStepKeeps DEF WalkAttached, Fields
<1>4. ASSUME WalkSelected PROVE Inv'
  BY <1>0, <1>4, PollStepKeeps DEF WalkSelected, Fields
<1>5. ASSUME ReadRows PROVE Inv'
  BY <1>0, <1>5, PollStepKeeps DEF ReadRows, Inv, RowsTyped, Fields
<1>6. ASSUME CommitPoll PROVE Inv'
  <2>1. /\ rows' = [n \in Names |-> rows'[n]]
        /\ \A n \in Names : CommitKeepsRow(n)
    BY <1>6, CommittedRows
  <2>2. poll' = Idle /\ choice' = choice /\ index' = index
    BY <1>6 DEF CommitPoll
  <2>3. RowsTyped'
    BY <1>0, <2>1, <2>2 DEF Inv, RowsTyped, CommitKeepsRow
  <2>4. Selected'
    BY <2>1, <2>2 DEF Inv, Selected, CommitKeepsRow
  <2>5. SnapshotHolds'
    BY <1>0, <2>2 DEF SnapshotHolds
  <2> QED BY <2>3, <2>4, <2>5 DEF Inv
<1>7. ASSUME PollFails PROVE Inv'
  BY <1>0, <1>7, PollStepKeeps DEF PollFails
<1>8. ASSUME NEW n \in Names, NEW monitored \in BOOLEAN, SetMonitored(n, monitored)
      PROVE  Inv'
  <2>1. /\ rows' = [rows EXCEPT ![n].monitored = monitored]
        /\ choice' = [choice EXCEPT ![n] = monitored]
        /\ poll' = poll /\ index' = index
        /\ rows[n] \in RowRecords
        /\ rows \in [Names -> RowRecords \union {NoRow}]
        /\ choice \in [Names -> BOOLEAN]
    BY <1>8 DEF SetMonitored, Inv, RowsTyped
  <2>2. /\ rows'[n] \in RowRecords
        /\ rows'[n].monitored = monitored
        /\ rows'[n].if_index = rows[n].if_index
        /\ rows'[n].is_aggregation = rows[n].is_aggregation
    BY <2>1 DEF RowRecords
  <2>3. \A m \in Names \ {n} : rows'[m] = rows[m] /\ choice'[m] = choice[m]
    BY <2>1
  <2>4. RowsTyped'
    BY <1>0, <2>1, <2>2, <2>3 DEF RowsTyped
  <2>5. Selected'
    BY <2>1, <2>2, <2>3 DEF Inv, Selected
  <2>6. SnapshotHolds'
    BY <2>1, <2>2, <2>3, RowIsNotNoRow DEF Inv, SnapshotHolds
  <2> QED BY <2>4, <2>5, <2>6 DEF Inv
<1>9. CASE UNCHANGED vars
  BY <1>0, <1>9, PollStepKeeps DEF vars
<1> QED
  BY <1>1, <1>2, <1>3, <1>4, <1>5, <1>6, <1>7, <1>8, <1>9 DEF Next

LEMMA Invariant == Spec => []Inv
BY InvInitially, InvKept, PTL DEF Spec

------------------------------------------------------------------------------
(* The theorems. *)

\* No poll, whatever it has read before, loses or makes up a selection
\* (interface_config.py:14-16).
THEOREM SelectionKept == Spec => []SelectionSurvives
<1>1. Inv => SelectionSurvives
  BY DEF Inv, Selected, SelectionSurvives, RowsTyped, NoRow
<1> QED BY <1>1, Invariant, PTL

------------------------------------------------------------------------------
(* What a successful run leaves: the walks of a poll that no change disturbs  *)
(* read one device, and the commit writes what they read.                     *)

\* A member and its aggregation are there.
DeviceHolds ==
  /\ index \in Numberings
  /\ attached \in [Ports -> Lags \union {NoLag}]
  /\ selected \in [Ports -> Lags \union {NoLag}]
  /\ \A p \in Ports : attached[p] # NoLag => Present(p) /\ Present(attached[p])
  /\ \A p \in Ports : selected[p] # NoLag => Present(p) /\ Present(selected[p])

\* A poll that has seen no change holds what the device is.
PollIsTrue ==
  /\ poll.step = "attached" => poll.answered = {}
  /\ poll.step # "idle" /\ poll.quiet =>
       /\ poll.listed \in {index, NoListing}
       /\ "attached" \in poll.answered => poll.attached = Column(attached)
       /\ poll.selected = IF "selected" \in poll.answered THEN Column(selected) ELSE <<>>

Truth == Inv /\ TypeOK /\ DeviceHolds /\ PollIsTrue /\ SuccessIsReconciled

LEMMA RowIsThere ==
  ASSUME NEW r \in RowRecords \union {NoRow}
  PROVE  /\ r = NoRow <=> r.if_index = Gone
         /\ r \in RowRecords => r.if_index \in Indexes
<1>1. r \in RowRecords => r.if_index \in Indexes
  BY DEF RowRecords
<1>2. NoRow.if_index = Gone
  BY DEF NoRow
<1>3. Gone \notin Indexes
  BY DiscoveryAssumption
<1> QED BY <1>1, <1>2, <1>3

LEMMA NumbersAreUnique ==
  ASSUME DeviceHolds
  PROVE  /\ index \in [Names -> Indexes \union {Gone}]
         /\ \A n \in Names : Present(n) => index[n] \in Indexes
         /\ \A n, m \in Names : Present(n) /\ index[n] = index[m] => n = m
BY DEF DeviceHolds, Numberings, Present

LEMMA ColumnIs ==
  ASSUME DeviceHolds, NEW lagOf \in [Ports -> Lags \union {NoLag}],
         \A p \in Ports : lagOf[p] # NoLag => Present(lagOf[p])
  PROVE  /\ DOMAIN Column(lagOf) = {index[n] : n \in {n \in Names : Present(n)}}
         /\ \A n \in Names : Present(n) =>
              Column(lagOf)[index[n]] =
                IF n \in Lags THEN index[n]
                ELSE IF lagOf[n] = NoLag THEN NoLag ELSE index[lagOf[n]]
         /\ Column(lagOf) \in Columns
<1> DEFINE used == {index[n] : n \in {n \in Names : Present(n)}}
           named(i) == CHOOSE n \in Names : index[n] = i
           value(n) == IF n \in Lags THEN index[n]
                       ELSE IF lagOf[n] = NoLag THEN NoLag ELSE index[lagOf[n]]
<1>1. Column(lagOf) = [i \in used |-> LET n == named(i)
                                     IN IF n \in Lags THEN i
                                        ELSE IF lagOf[n] = NoLag THEN NoLag ELSE index[lagOf[n]]]
  BY DEF Column
<1>2. \A n \in Names : Present(n) => named(index[n]) = n
  BY NumbersAreUnique
<1>3. \A n \in Names : Present(n) => index[n] \in used
  OBVIOUS
<1>4. \A n \in Names : Present(n) => value(n) \in Indexes \union {NoLag}
  <2>1. \A n \in Names : n \notin Lags => n \in Ports
    BY DEF Names
  <2>2. \A n \in Names : n \notin Lags /\ lagOf[n] # NoLag =>
          lagOf[n] \in Names /\ Present(lagOf[n])
    BY <2>1 DEF Names
  <2> QED BY <2>2, NumbersAreUnique
<1> HIDE DEF named
<1>5. \A n \in Names : Present(n) => Column(lagOf)[index[n]] = value(n)
  BY <1>1, <1>2, <1>3
<1>6. DOMAIN Column(lagOf) = used /\ Column(lagOf) = [i \in used |-> Column(lagOf)[i]]
  BY <1>1
<1>7. \A i \in used : Column(lagOf)[i] \in Indexes \union {NoLag}
  BY <1>4, <1>5
<1>8. used \in SUBSET Indexes
  BY NumbersAreUnique
<1> HIDE DEF used
<1>9. Column(lagOf) \in [used -> Indexes \union {NoLag}]
  BY <1>6, <1>7
<1>10. Column(lagOf) \in Columns
  BY <1>8, <1>9 DEF Columns
<1> QED BY <1>5, <1>6, <1>10 DEF used

\* The aggregation of a port by the columns that were read.
LagBy(fallback, p) == IF fallback THEN BelongsTo(p) ELSE attached[p]

LEMMA LagByIs ==
  ASSUME DeviceHolds, NEW fallback \in BOOLEAN, NEW p \in Ports
  PROVE  /\ LagBy(fallback, p) \in Lags \union {NoLag}
         /\ LagBy(fallback, p) # NoLag =>
              /\ Present(p) /\ Present(LagBy(fallback, p))
              /\ LagBy(fallback, p) \in Lags /\ LagBy(fallback, p) # p
              /\ p \in Names /\ LagBy(fallback, p) \in Names
BY DiscoveryAssumption DEF DeviceHolds, LagBy, BelongsTo, Names

\* The mappings are the memberships of the device, by number.
LEMMA MappingsAre ==
  ASSUME DeviceHolds, NEW fallback \in BOOLEAN
  PROVE  LET mappings == Mappings(Column(attached), IF fallback THEN Column(selected) ELSE <<>>)
         IN \A pair : pair \in mappings <=>
              \E p \in Ports : /\ LagBy(fallback, p) # NoLag
                               /\ pair = <<index[LagBy(fallback, p)], index[p]>>
<1> DEFINE column == Column(attached)
           other == IF fallback THEN Column(selected) ELSE <<>>
           used == {index[n] : n \in {n \in Names : Present(n)}}
           lag(p) == LagBy(fallback, p)
<1>1. /\ DOMAIN column = used /\ DOMAIN other \subseteq used
      /\ fallback => DOMAIN other = used
      /\ ~fallback => DOMAIN other = {}
  <2>1. DOMAIN column = used /\ DOMAIN Column(selected) = used
    BY ColumnIs DEF DeviceHolds
  <2> QED BY <2>1
<1>2. NoLag \notin Indexes /\ NoLag \notin Lags /\ Lags \intersect Ports = {}
  BY DiscoveryAssumption
<1>3. \A n \in Lags : Present(n) => LagOf(column, other, index[n]) = index[n]
  <2>1. ASSUME NEW n \in Lags, Present(n) PROVE LagOf(column, other, index[n]) = index[n]
    <3>1. n \in Names /\ index[n] \in Indexes /\ index[n] \in used
      BY <2>1, NumbersAreUnique DEF Names
    <3>2. column[index[n]] = index[n]
      BY <2>1, <3>1, ColumnIs DEF DeviceHolds
    <3> HIDE DEF column, other, used
    <3> QED BY <1>1, <1>2, <3>1, <3>2 DEF LagOf
  <2> QED BY <2>1
<1>4. \A p \in Ports : Present(p) =>
        LagOf(column, other, index[p]) = IF lag(p) = NoLag THEN NoLag ELSE index[lag(p)]
  <2>1. ASSUME NEW p \in Ports, Present(p)
        PROVE  LagOf(column, other, index[p]) = IF lag(p) = NoLag THEN NoLag ELSE index[lag(p)]
    <3>1. p \in Names /\ p \notin Lags /\ index[p] \in used
      BY <1>2, <2>1 DEF Names
    <3>2. /\ column[index[p]] = IF attached[p] = NoLag THEN NoLag ELSE index[attached[p]]
          /\ Column(selected)[index[p]] =
               IF selected[p] = NoLag THEN NoLag ELSE index[selected[p]]
      BY <2>1, <3>1, ColumnIs DEF DeviceHolds
    <3>3. attached[p] # NoLag => index[attached[p]] # NoLag
      <4>1. attached[p] # NoLag => attached[p] \in Names /\ Present(attached[p])
        BY DEF DeviceHolds, Names
      <4> QED BY <1>2, <4>1, NumbersAreUnique
    <3>4. fallback => other[index[p]] = Column(selected)[index[p]]
      OBVIOUS
    <3>5. lag(p) = IF fallback /\ attached[p] = NoLag THEN selected[p] ELSE attached[p]
      BY DEF LagBy, BelongsTo
    <3> HIDE DEF column, other, used, lag
    <3> QED BY <1>1, <3>1, <3>2, <3>3, <3>4, <3>5 DEF LagOf
  <2> QED BY <2>1
<1>5. \A i : i \notin used => LagOf(column, other, i) = NoLag
  <2> HIDE DEF column, other, used
  <2> QED BY <1>1 DEF LagOf
<1>6. \A pair : pair \in Mappings(column, other) <=>
        /\ pair \in Indexes \X Indexes
        /\ pair[1] # pair[2] /\ pair[1] = LagOf(column, other, pair[2])
  BY DEF Mappings
<1> HIDE DEF column, other
<1>7. ASSUME NEW pair, pair \in Mappings(column, other)
      PROVE  \E p \in Ports : lag(p) # NoLag /\ pair = <<index[lag(p)], index[p]>>
  <2>1. /\ pair = <<pair[1], pair[2]>> /\ pair[1] \in Indexes /\ pair[2] \in Indexes
        /\ pair[1] # pair[2] /\ pair[1] = LagOf(column, other, pair[2])
    BY <1>6, <1>7
  <2>2. pair[2] \in used
    BY <1>2, <1>5, <2>1
  <2>3. PICK n \in Names : Present(n) /\ pair[2] = index[n]
    BY <2>2
  <2>4. n \notin Lags
    BY <1>3, <2>1, <2>3
  <2>5. n \in Ports
    BY <2>4 DEF Names
  <2>6. lag(n) # NoLag /\ pair[1] = index[lag(n)]
    BY <1>2, <1>4, <2>1, <2>3, <2>5
  <2> HIDE DEF lag
  <2> QED BY <2>1, <2>3, <2>5, <2>6
<1>8. ASSUME NEW p \in Ports, lag(p) # NoLag
      PROVE  <<index[lag(p)], index[p]>> \in Mappings(column, other)
  <2>1. Present(p) /\ Present(lag(p)) /\ lag(p) # p /\ p \in Names /\ lag(p) \in Names
    BY <1>8, LagByIs
  <2> HIDE DEF lag
  <2>2. index[lag(p)] \in Indexes /\ index[p] \in Indexes /\ index[lag(p)] # index[p]
    BY <2>1, NumbersAreUnique
  <2>3. index[lag(p)] = LagOf(column, other, index[p])
    BY <1>4, <1>8, <2>1
  <2> QED BY <1>6, <2>2, <2>3
<1> QED BY <1>7, <1>8 DEF column, other

\* What the commit of an answered attached column writes, row by row.
Flag(table, lookup, mappings, n) ==
  IF table[n].if_index \in Mapped(mappings)
  THEN IF lookup[table[n].if_index] = n THEN TRUE ELSE table[n].is_aggregation
  ELSE FALSE

LEMMA AnsweredRows ==
  ASSUME Inv, poll.step = "commit", NEW lookup, NEW mappings, NEW n \in Names
  PROVE  LET table == SyncInterfaces
             written == Written(SyncFlags(table, lookup, mappings))
         IN /\ table[n] \in RowRecords \union {NoRow}
            /\ written[n] = NoRow <=> table[n] = NoRow
            /\ written[n].if_index = table[n].if_index
            /\ table[n] # NoRow =>
                 written[n].is_aggregation = Flag(table, lookup, mappings, n)
<1> DEFINE table == SyncInterfaces
           flagged == SyncFlags(table, lookup, mappings)
<1>1. /\ table[n] \in RowRecords \union {NoRow}
      /\ table[n].monitored = poll.seen[n].monitored
      /\ table[n] = NoRow => poll.seen[n] = NoRow
  BY SyncedRows DEF Inv
<1> HIDE DEF table
<1>2. /\ flagged[n] \in RowRecords \union {NoRow}
      /\ flagged[n] = NoRow <=> table[n] = NoRow
      /\ flagged[n].monitored = table[n].monitored
      /\ flagged[n].if_index = table[n].if_index
  BY <1>1, FlaggedRows
<1>3. table[n] # NoRow => flagged[n].is_aggregation = Flag(table, lookup, mappings, n)
  <2>1. SUFFICES ASSUME table[n] # NoRow
                 PROVE  flagged[n].is_aggregation = Flag(table, lookup, mappings, n)
    OBVIOUS
  <2>2. table[n] \in RowRecords
    BY <1>1, <2>1
  <2>3. /\ [table[n] EXCEPT !.is_aggregation = FALSE].is_aggregation = FALSE
        /\ [table[n] EXCEPT !.is_aggregation = TRUE].is_aggregation = TRUE
    BY <2>2 DEF RowRecords
  <2>4. CASE table[n].if_index \notin Mapped(mappings)
    <3>1. flagged[n] = [table[n] EXCEPT !.is_aggregation = FALSE]
      BY <2>1, <2>4 DEF SyncFlags
    <3> QED BY <2>3, <2>4, <3>1 DEF Flag
  <2>5. CASE table[n].if_index \in Mapped(mappings) /\ lookup[table[n].if_index] = n
    <3>1. flagged[n] = [table[n] EXCEPT !.is_aggregation = TRUE]
      BY <2>1, <2>5 DEF SyncFlags
    <3> QED BY <2>3, <2>5, <3>1 DEF Flag
  <2>6. CASE table[n].if_index \in Mapped(mappings) /\ lookup[table[n].if_index] # n
    <3>1. flagged[n] = table[n]
      BY <2>1, <2>6 DEF SyncFlags
    <3> QED BY <2>6, <3>1 DEF Flag
  <2> QED BY <2>4, <2>5, <2>6
<1> HIDE DEF flagged
<1>4. /\ Written(flagged)[n] \in RowRecords \union {NoRow}
      /\ Written(flagged)[n].if_index = flagged[n].if_index
      /\ Written(flagged)[n].is_aggregation = flagged[n].is_aggregation
  BY <1>1, <1>2, WrittenRows
<1>5. Written(flagged)[n] = NoRow <=> flagged[n] = NoRow
  BY <1>2, <1>4, RowIsThere
<1> QED BY <1>1, <1>2, <1>3, <1>4, <1>5 DEF table, flagged

LEMMA LookupIs ==
  ASSUME NEW table, NEW lookup \in Lookups(table), NEW n \in Names, table[n] # NoRow
  PROVE  /\ table[n].if_index \in DOMAIN lookup
         /\ lookup[table[n].if_index] \in Names
         /\ table[lookup[table[n].if_index]] # NoRow
         /\ table[lookup[table[n].if_index]].if_index = table[n].if_index
BY DEF Lookups

LEMMA SuccessSaw ==
  ASSUME Truth, CommitPoll, run'.status = "SUCCESS"
  PROVE  /\ poll.step = "commit" /\ poll.listed = index
         /\ "attached" \in poll.answered /\ poll.attached = Column(attached)
         /\ run'.fallback = ("selected" \in poll.answered)
         /\ poll.selected = IF "selected" \in poll.answered THEN Column(selected) ELSE <<>>
<1>1. poll.step = "commit" /\ poll.quiet
  BY DEF CommitPoll, Outdated
<1>2. PICK sections \in Sections : run' = [status |-> OverallStatus(sections),
                                         fallback |-> "selected" \in poll.answered]
  BY <1>1 DEF CommitPoll
<1>3. OverallStatus(sections) = "SUCCESS"
  BY <1>2
<1>4. \A part \in DOMAIN sections : sections[part] = "SUCCESS"
  BY <1>3 DEF OverallStatus
<1>5. /\ sections["interfaces"] # "FAILED" /\ sections["aggregations"] # "FAILED"
  BY <1>4 DEF Sections
<1>6. poll.listed # NoListing /\ "attached" \in poll.answered
  BY <1>5 DEF Sections
<1>7. run'.fallback = ("selected" \in poll.answered)
  BY <1>2
<1> QED BY <1>1, <1>6, <1>7 DEF Truth, PollIsTrue

LEMMA CommitReconciles ==
  ASSUME Truth, CommitPoll, run'.status = "SUCCESS"
  PROVE  SuccessIsReconciled'
<1> DEFINE fallback == "selected" \in poll.answered
           table == SyncInterfaces
           mappings == Mappings(Column(attached), IF fallback THEN Column(selected) ELSE <<>>)
           lag(p) == LagBy(fallback, p)
           alone(n) == \A m \in Names : table[m] # NoRow /\ table[m].if_index = table[n].if_index
                                         => m = n
<1>1. /\ poll.step = "commit" /\ poll.listed = index /\ "attached" \in poll.answered
      /\ run'.fallback = fallback /\ Inv /\ DeviceHolds /\ fallback \in BOOLEAN
      /\ Mappings(poll.attached, poll.selected) = mappings
  BY SuccessSaw DEF Truth
<1>2. PICK lookup \in Lookups(table) :
        /\ rows' = Written(SyncFlags(table, lookup, mappings))
        /\ memberships' = SyncMemberships(table, lookup, mappings)
  BY <1>1 DEF CommitPoll, SyncAggregations
<1>3. UNCHANGED <<index, attached, selected>>
  BY DEF CommitPoll, device
<1>4. \A n \in Names :
        /\ table[n] \in RowRecords \union {NoRow}
        /\ rows'[n] = NoRow <=> table[n] = NoRow
        /\ rows'[n].if_index = table[n].if_index
        /\ table[n] # NoRow => rows'[n].is_aggregation = Flag(table, lookup, mappings, n)
  <2> HIDE DEF mappings
  <2>1. ASSUME NEW n \in Names
        PROVE  LET written == Written(SyncFlags(table, lookup, mappings))
               IN /\ table[n] \in RowRecords \union {NoRow}
                  /\ written[n] = NoRow <=> table[n] = NoRow
                  /\ written[n].if_index = table[n].if_index
                  /\ table[n] # NoRow =>
                       written[n].is_aggregation = Flag(table, lookup, mappings, n)
    BY <1>1, AnsweredRows
  <2> HIDE DEF table
  <2> QED BY <1>2, <2>1
<1>5. \A n \in Names : Present(n) => table[n] # NoRow /\ table[n].if_index = index[n]
  <2>1. ASSUME NEW n \in Names, Present(n)
        PROVE  table[n] # NoRow /\ table[n].if_index = index[n]
    <3>1. /\ table[n] = [poll.seen[n] EXCEPT !.if_index = index[n]]
          /\ poll.seen[n] \in RowRecords \union {NoRow} /\ index[n] \in Indexes
      BY <1>1, <2>1, NumbersAreUnique DEF SyncInterfaces, Present, Inv, RowsTyped
    <3>2. table[n].if_index = index[n]
      BY <3>1 DEF RowRecords, NoRow
    <3>3. table[n] \in RowRecords
      BY <3>1, NumberedRow
    <3> QED BY <3>2, <3>3, RowIsNotNoRow
  <2> QED BY <2>1
<1>6. \A pair : pair \in mappings <=>
        \E p \in Ports : lag(p) # NoLag /\ pair = <<index[lag(p)], index[p]>>
  BY <1>1, MappingsAre
<1>16. /\ \A pair \in mappings : \E p \in Ports :
            lag(p) # NoLag /\ pair[1] = index[lag(p)] /\ pair[2] = index[p]
       /\ \A p \in Ports : lag(p) # NoLag => <<index[lag(p)], index[p]>> \in mappings
  <2> HIDE DEF mappings, lag
  <2> QED BY <1>6
<1>7. \A p \in Ports : lag(p) # NoLag =>
        /\ Present(p) /\ Present(lag(p)) /\ lag(p) \in Lags
        /\ p \in Names /\ lag(p) \in Names
  BY <1>1, LagByIs
<1>8. \A n \in Names : table[n] # NoRow =>
        /\ table[n].if_index \in DOMAIN lookup
        /\ lookup[table[n].if_index] \in Names
        /\ table[lookup[table[n].if_index]] # NoRow
        /\ table[lookup[table[n].if_index]].if_index = table[n].if_index
        /\ alone(n) => lookup[table[n].if_index] = n
  BY LookupIs
<1>9. \A n \in Names : rows'[n] # NoRow /\ ~Shares(n)' => table[n] # NoRow /\ alone(n)
  BY <1>4 DEF Shares
<1>10. \A p \in Ports : (IF run'.fallback THEN BelongsTo(p)' ELSE attached'[p]) = lag(p)
  BY <1>1, <1>3 DEF LagBy, BelongsTo
<1>11. \A i : i \in Mapped(mappings) <=>
         \E p \in Ports : lag(p) # NoLag /\ i = index[lag(p)]
  <2>1. \A i : i \in Mapped(mappings) <=> \E pair \in mappings : i = pair[1]
    BY DEF Mapped
  <2>2. \A p : <<index[lag(p)], index[p]>>[1] = index[lag(p)]
    OBVIOUS
  <2> HIDE DEF mappings, lag
  <2>3. ASSUME NEW i, NEW p \in Ports, lag(p) # NoLag, i = index[lag(p)]
        PROVE  \E pair \in mappings : i = pair[1]
    <3>1. <<index[lag(p)], index[p]>> \in mappings
      BY <1>16, <2>3
    <3> QED BY <2>2, <2>3, <3>1
  <2> QED BY <1>16, <2>1, <2>3
<1>12. \A pair : pair \in memberships' <=>
         \/ \E p \in Ports : /\ lag(p) # NoLag
                            /\ {index[lag(p)], index[p]} \subseteq DOMAIN lookup
                            /\ pair = <<lookup[index[lag(p)]], lookup[index[p]]>>
         \/ /\ pair \in memberships
            /\ table[pair[1]].if_index \in Mapped(mappings)
            /\ lookup[table[pair[1]].if_index] # pair[1]
  <2> DEFINE resolves(pr) == {pr[1], pr[2]} \subseteq DOMAIN lookup
             shown(pr) == <<lookup[pr[1]], lookup[pr[2]]>>
             number(p) == <<index[lag(p)], index[p]>>
             stays(pair) == /\ pair \in memberships
                            /\ table[pair[1]].if_index \in Mapped(mappings)
                            /\ lookup[table[pair[1]].if_index] # pair[1]
  <2>1. \A pair : pair \in memberships' <=>
          (\E pr \in mappings : resolves(pr) /\ pair = shown(pr)) \/ stays(pair)
    <3> HIDE DEF mappings, table
    <3> QED BY <1>2 DEF SyncMemberships
  <2>2. \A p : /\ resolves(number(p)) <=> {index[lag(p)], index[p]} \subseteq DOMAIN lookup
               /\ shown(number(p)) = <<lookup[index[lag(p)]], lookup[index[p]]>>
    OBVIOUS
  <2>3. /\ \A pair \in mappings : \E p \in Ports : lag(p) # NoLag /\ pair = number(p)
        /\ \A p \in Ports : lag(p) # NoLag => number(p) \in mappings
    BY <1>6, <1>16
  <2> HIDE DEF mappings, lag, table, resolves, shown, number, stays
  <2>4. ASSUME NEW pair
        PROVE  pair \in memberships' <=>
                 \/ \E p \in Ports : /\ lag(p) # NoLag /\ resolves(number(p))
                                    /\ pair = shown(number(p))
                 \/ stays(pair)
    BY <2>1, <2>3
  <2> QED BY <2>2, <2>4 DEF stays
<1> HIDE DEF fallback, table, mappings, lag
<1>13. ASSUME NEW n \in Names, Present(n)'
       PROVE  rows'[n] # NoRow /\ rows'[n].if_index = index'[n]
  BY <1>3, <1>4, <1>5, <1>13 DEF Present
<1>14. ASSUME NEW l \in Lags, NEW p \in Ports, rows'[l] # NoRow, rows'[p] # NoRow,
              ~Shares(l)', ~Shares(p)'
       PROVE  <<l, p>> \in memberships' <=> l = lag(p)
  <2>1. /\ l \in Names /\ p \in Names
        /\ table[l] # NoRow /\ table[p] # NoRow /\ alone(l) /\ alone(p)
    BY <1>9, <1>14 DEF Names
  <2>2. /\ lookup[table[l].if_index] = l /\ lookup[table[p].if_index] = p
        /\ table[l].if_index \in DOMAIN lookup /\ table[p].if_index \in DOMAIN lookup
    BY <1>8, <2>1
  <2>3. ASSUME l = lag(p) PROVE <<l, p>> \in memberships'
    <3>1. lag(p) # NoLag
      BY <2>3, DiscoveryAssumption
    <3>2. index[lag(p)] = table[l].if_index /\ index[p] = table[p].if_index
      BY <1>5, <1>7, <2>3, <3>1
    <3> QED BY <1>12, <2>2, <3>1, <3>2
  <2>4. ASSUME <<l, p>> \in memberships' PROVE l = lag(p)
    <3>1. ~ /\ table[<<l, p>>[1]].if_index \in Mapped(mappings)
            /\ lookup[table[<<l, p>>[1]].if_index] # <<l, p>>[1]
      BY <2>2
    <3>2. PICK q \in Ports : /\ lag(q) # NoLag
                             /\ <<l, p>> = <<lookup[index[lag(q)]], lookup[index[q]]>>
      BY <1>12, <2>4, <3>1
    <3>3. /\ q \in Names /\ lag(q) \in Names
          /\ table[q] # NoRow /\ table[q].if_index = index[q]
          /\ table[lag(q)] # NoRow /\ table[lag(q)].if_index = index[lag(q)]
      BY <1>5, <1>7, <3>2
    <3>4. table[l].if_index = index[lag(q)] /\ table[p].if_index = index[q]
      BY <1>8, <3>2, <3>3
    <3>5. lag(q) = l /\ q = p
      BY <2>1, <3>3, <3>4
    <3> QED BY <3>5
  <2> QED BY <2>3, <2>4
<1>15. ASSUME NEW l \in Lags, rows'[l] # NoRow, ~Shares(l)'
       PROVE  rows'[l].is_aggregation <=> \E p \in Ports : l = lag(p)
  <2>1. l \in Names /\ table[l] # NoRow /\ alone(l)
    BY <1>9, <1>15 DEF Names
  <2>2. lookup[table[l].if_index] = l
    BY <1>8, <2>1
  <2>3. rows'[l].is_aggregation <=> table[l].if_index \in Mapped(mappings)
    BY <1>4, <2>1, <2>2 DEF Flag
  <2>4. ASSUME NEW p \in Ports, lag(p) # NoLag
        PROVE  table[l].if_index = index[lag(p)] <=> l = lag(p)
    <3>1. lag(p) \in Names /\ table[lag(p)] # NoRow /\ table[lag(p)].if_index = index[lag(p)]
      BY <1>5, <1>7, <2>4
    <3> QED BY <2>1, <3>1
  <2>5. l # NoLag
    BY DiscoveryAssumption
  <2> QED BY <1>11, <2>3, <2>4, <2>5
<1> QED BY <1>10, <1>13, <1>14, <1>15 DEF SuccessIsReconciled

LEMMA DeviceHoldsKept ==
  ASSUME DeviceHolds, TypeOK, DeviceChanges
  PROVE  DeviceHolds' /\ changes' \in 0 .. MaxChanges
<1> USE DEF Present
<1>1. /\ index \in [Names -> Indexes \union {Gone}]
      /\ \A n, m \in Names : n # m /\ index[n] # Gone => index[n] # index[m]
      /\ attached \in [Ports -> Lags \union {NoLag}]
      /\ selected \in [Ports -> Lags \union {NoLag}]
      /\ \A p \in Ports : attached[p] # NoLag => index[p] # Gone /\ index[attached[p]] # Gone
      /\ \A p \in Ports : selected[p] # NoLag => index[p] # Gone /\ index[selected[p]] # Gone
  BY DEF DeviceHolds, Numberings
<1>2. /\ Gone \notin Indexes /\ NoLag \notin Lags
      /\ Lags \subseteq Names /\ Ports \subseteq Names
  BY DiscoveryAssumption DEF Names
<1>3. changes' \in 0 .. MaxChanges
  BY DiscoveryAssumption
  DEF TypeOK, DeviceChanges, AddInterface, RemoveInterface, Renumber, Rebundle, DeviceChange
<1>4. ASSUME NEW n \in Names, NEW i \in Indexes, AddInterface(n, i) PROVE DeviceHolds'
  <2>1. /\ index' = [index EXCEPT ![n] = i] /\ attached' = attached /\ selected' = selected
        /\ index[n] = Gone /\ \A m \in Names : index[m] # i
    BY <1>4 DEF AddInterface
  <2>2. index' \in Numberings
    BY <1>1, <1>2, <2>1 DEF Numberings
  <2>3. \A m \in Names : index[m] # Gone => index'[m] # Gone
    BY <1>1, <1>2, <2>1
  <2>4. /\ \A p \in Ports : attached[p] # NoLag => attached[p] \in Names
        /\ \A p \in Ports : selected[p] # NoLag => selected[p] \in Names
    BY <1>1, <1>2
  <2> QED BY <1>1, <1>2, <2>1, <2>2, <2>3, <2>4 DEF DeviceHolds
<1>5. ASSUME NEW n \in Names, RemoveInterface(n) PROVE DeviceHolds'
  <2>1. /\ index' = [index EXCEPT ![n] = Gone]
        /\ attached' = [p \in Ports |-> IF n \in {p, attached[p]} THEN NoLag ELSE attached[p]]
        /\ selected' = [p \in Ports |-> IF n \in {p, selected[p]} THEN NoLag ELSE selected[p]]
    BY <1>5 DEF RemoveInterface
  <2>2. index' \in Numberings
    BY <1>1, <1>2, <2>1 DEF Numberings
  <2>3. \A m \in Names : m # n => index'[m] = index[m]
    BY <1>1, <2>1
  <2>4. /\ attached' \in [Ports -> Lags \union {NoLag}]
        /\ selected' \in [Ports -> Lags \union {NoLag}]
    BY <1>1, <2>1
  <2>5. ASSUME NEW p \in Ports, attached'[p] # NoLag
        PROVE  index'[p] # Gone /\ index'[attached'[p]] # Gone
    <3>1. n # p /\ n # attached[p] /\ attached'[p] = attached[p]
      BY <2>1, <2>5
    <3>2. p \in Names /\ attached[p] \in Names
      BY <1>1, <1>2, <2>5, <3>1
    <3> QED BY <1>1, <2>3, <2>5, <3>1, <3>2
  <2>6. ASSUME NEW p \in Ports, selected'[p] # NoLag
        PROVE  index'[p] # Gone /\ index'[selected'[p]] # Gone
    <3>1. n # p /\ n # selected[p] /\ selected'[p] = selected[p]
      BY <2>1, <2>6
    <3>2. p \in Names /\ selected[p] \in Names
      BY <1>1, <1>2, <2>6, <3>1
    <3> QED BY <1>1, <2>3, <2>6, <3>1, <3>2
  <2> QED BY <2>2, <2>4, <2>5, <2>6 DEF DeviceHolds
<1>6. ASSUME Renumber PROVE DeviceHolds'
  <2>1. /\ index' \in Numberings /\ \A n \in Names : index'[n] = Gone <=> index[n] = Gone
        /\ attached' = attached /\ selected' = selected
    BY <1>6 DEF Renumber
  <2>2. /\ \A p \in Ports : attached[p] # NoLag => attached[p] \in Names
        /\ \A p \in Ports : selected[p] # NoLag => selected[p] \in Names
    BY <1>1, <1>2
  <2> QED BY <1>1, <1>2, <2>1, <2>2 DEF DeviceHolds
<1>7. ASSUME NEW p \in Ports, NEW lag \in Lags \union {NoLag}, Rebundle(p, lag)
      PROVE  DeviceHolds'
  <2>1. PICK joined \in {lag, NoLag, attached[p]} : attached' = [attached EXCEPT ![p] = joined]
    BY <1>7 DEF Rebundle
  <2>2. /\ selected' = [selected EXCEPT ![p] = lag] /\ index' = index /\ index[p] # Gone
        /\ lag # NoLag => index[lag] # Gone
    BY <1>2, <1>7 DEF Rebundle, PresentLags
  <2>3. /\ joined \in Lags \union {NoLag}
        /\ joined # NoLag => index[joined] # Gone
    BY <1>1, <2>1, <2>2
  <2>4. /\ attached' \in [Ports -> Lags \union {NoLag}]
        /\ selected' \in [Ports -> Lags \union {NoLag}]
    BY <1>1, <2>1, <2>2, <2>3
  <2>5. \A q \in Ports : /\ attached'[q] = IF q = p THEN joined ELSE attached[q]
                         /\ selected'[q] = IF q = p THEN lag ELSE selected[q]
    BY <1>1, <2>1, <2>2
  <2> QED BY <1>1, <2>2, <2>3, <2>4, <2>5 DEF DeviceHolds
<1> QED BY <1>3, <1>4, <1>5, <1>6, <1>7 DEF DeviceChanges

\* Nothing that the property reads has changed.
LEMMA ReconciledStays ==
  ASSUME SuccessIsReconciled, UNCHANGED <<index, attached, selected, memberships, run>>,
         \A n \in Names : /\ rows'[n] = NoRow <=> rows[n] = NoRow
                          /\ rows'[n].if_index = rows[n].if_index
                          /\ rows'[n].is_aggregation = rows[n].is_aggregation
  PROVE  SuccessIsReconciled'
<1>1. \A n \in Names : (Present(n)' <=> Present(n)) /\ (Shares(n)' <=> Shares(n))
  BY DEF Present, Shares
<1>2. \A p \in Ports : BelongsTo(p)' = BelongsTo(p)
  BY DEF BelongsTo
<1>3. Lags \subseteq Names /\ Ports \subseteq Names
  BY DEF Names
<1> QED BY <1>1, <1>2, <1>3 DEF SuccessIsReconciled

LEMMA EmptyColumn == <<>> \in Columns
<1>1. <<>> = [i \in {} |-> NoLag]
  OBVIOUS
<1>2. [i \in {} |-> NoLag] \in [{} -> Indexes \union {NoLag}]
  OBVIOUS
<1>3. {} \in SUBSET Indexes
  OBVIOUS
<1> QED BY <1>1, <1>2, <1>3 DEF Columns

\* What the columns of a poll are, and how it goes on.
PollTyped ==
  /\ poll.step \in {"idle", "attached", "selected", "read", "commit"}
  /\ poll.answered \subseteq {"attached", "selected"}
  /\ poll.attached \in Columns
  /\ poll.selected \in Columns
  /\ poll.quiet \in BOOLEAN

LEMMA IdleHolds ==
  ASSUME poll' = Idle
  PROVE  PollTyped' /\ PollIsTrue'
<1>1. /\ poll'.step = "idle" /\ poll'.answered = {} /\ poll'.attached = <<>>
      /\ poll'.selected = <<>> /\ poll'.quiet = TRUE
  BY DEF Idle
<1> QED BY <1>1, EmptyColumn DEF PollTyped, PollIsTrue

LEMMA WalksHold ==
  ASSUME Truth, UNCHANGED <<index, attached, selected>>,
         WalkInterfaces \/ WalkAttached \/ WalkSelected \/ ReadRows
  PROVE  PollTyped' /\ PollIsTrue'
<1>1. /\ DOMAIN poll = Fields /\ DOMAIN Idle = Fields /\ PollTyped /\ PollIsTrue
  BY DEF Truth, Inv, RowsTyped, TypeOK, PollTyped, Idle, Fields
<1>2. /\ Column(attached)' = Column(attached) /\ Column(selected)' = Column(selected)
      /\ Column(attached) \in Columns /\ Column(selected) \in Columns
  <2>1. Column(attached)' = Column(attached) /\ Column(selected)' = Column(selected)
    BY DEF Column, Present
  <2>2. Column(attached) \in Columns /\ Column(selected) \in Columns
    BY ColumnIs DEF Truth, DeviceHolds
  <2> QED BY <2>1, <2>2
<1>3. CASE WalkInterfaces
  <2>1. PICK listed \in {index, NoListing} :
          poll' = [Idle EXCEPT !.step = "attached", !.listed = listed]
    BY <1>3 DEF WalkInterfaces
  <2>2. /\ poll'.step = "attached" /\ poll'.listed = listed /\ poll'.answered = {}
        /\ poll'.attached = <<>> /\ poll'.selected = <<>> /\ poll'.quiet = TRUE
    BY <2>1 DEF Idle
  <2> QED BY <2>2, EmptyColumn DEF PollTyped, PollIsTrue, NoListing
<1>4. CASE WalkAttached
  <2>1. poll.step = "attached" /\ poll.answered = {}
    BY <1>1, <1>4 DEF WalkAttached, PollIsTrue
  <2>2. \/ poll' = [poll EXCEPT !.step = "selected", !.attached = Column(attached),
                                !.answered = {"attached"}]
        \/ poll' = [poll EXCEPT !.step = "read"]
    BY <1>4 DEF WalkAttached
  <2>3. /\ poll'.listed = poll.listed /\ poll'.selected = poll.selected
        /\ poll'.quiet = poll.quiet
        /\ \/ /\ poll'.step = "selected" /\ poll'.answered = {"attached"}
              /\ poll'.attached = Column(attached)
           \/ /\ poll'.step = "read" /\ poll'.answered = poll.answered
              /\ poll'.attached = poll.attached
    BY <1>1, <2>2 DEF Fields
  <2>4. PollTyped'
    BY <1>1, <1>2, <2>1, <2>3 DEF PollTyped
  <2>5. PollIsTrue'
    BY <1>1, <1>2, <2>1, <2>3 DEF PollIsTrue, NoListing
  <2> QED BY <2>4, <2>5
<1>5. CASE WalkSelected
  <2>1. poll.step = "selected"
    BY <1>5 DEF WalkSelected
  <2>2. \/ poll' = [poll EXCEPT !.step = "read", !.selected = Column(selected),
                                !.answered = @ \union {"selected"}]
        \/ poll' = [poll EXCEPT !.step = "read"]
    BY <1>5 DEF WalkSelected
  <2>3. /\ poll'.listed = poll.listed /\ poll'.attached = poll.attached
        /\ poll'.quiet = poll.quiet /\ poll'.step = "read"
        /\ \/ /\ poll'.answered = poll.answered \union {"selected"}
              /\ poll'.selected = Column(selected)
           \/ poll'.answered = poll.answered /\ poll'.selected = poll.selected
    BY <1>1, <2>2 DEF Fields
  <2>4. PollTyped'
    BY <1>1, <1>2, <2>1, <2>3 DEF PollTyped
  <2>5. PollIsTrue'
    BY <1>1, <1>2, <2>1, <2>3 DEF PollIsTrue, NoListing
  <2> QED BY <2>4, <2>5
<1>6. CASE ReadRows
  <2>1. poll.step = "read" /\ poll' = [poll EXCEPT !.step = "commit", !.seen = rows]
    BY <1>6 DEF ReadRows
  <2>2. /\ poll'.listed = poll.listed /\ poll'.attached = poll.attached
        /\ poll'.quiet = poll.quiet /\ poll'.step = "commit"
        /\ poll'.answered = poll.answered /\ poll'.selected = poll.selected
    BY <1>1, <2>1 DEF Fields
  <2>3. PollTyped'
    BY <1>1, <2>2 DEF PollTyped
  <2>4. PollIsTrue'
    BY <1>1, <1>2, <2>1, <2>2 DEF PollIsTrue, NoListing
  <2> QED BY <2>3, <2>4
<1> QED BY <1>3, <1>4, <1>5, <1>6

\* An aggregation and its member are two.
Pairs == {pair \in Names \X Names : pair[1] # pair[2]}

LEMMA MembershipsTyped ==
  ASSUME memberships \subseteq Pairs, CommitPoll
  PROVE  memberships' \subseteq Pairs
<1> DEFINE table == SyncInterfaces
           mappings == Mappings(poll.attached, poll.selected)
           resolves(pr, lookup) == {pr[1], pr[2]} \subseteq DOMAIN lookup
           shown(pr, lookup) == <<lookup[pr[1]], lookup[pr[2]]>>
<1>1. CASE "attached" \notin poll.answered
  BY <1>1 DEF CommitPoll, SyncAggregations
<1>2. CASE "attached" \in poll.answered
  <2>1. PICK lookup \in Lookups(table) :
          memberships' = SyncMemberships(table, lookup, mappings)
    BY <1>2 DEF CommitPoll, SyncAggregations
  <2>2. \A i \in DOMAIN lookup : lookup[i] \in Names /\ table[lookup[i]].if_index = i
    BY DEF Lookups
  <2>3. \A pr \in mappings : pr[1] # pr[2]
    BY DEF Mappings
  <2>4. \A pr \in mappings : resolves(pr, lookup) => shown(pr, lookup) \in Pairs
    <3> HIDE DEF mappings, table
    <3> QED BY <2>2, <2>3 DEF Pairs
  <2>5. \A pair \in memberships' :
          \/ \E pr \in mappings : resolves(pr, lookup) /\ pair = shown(pr, lookup)
          \/ pair \in memberships
    <3> HIDE DEF mappings, table
    <3> QED BY <2>1 DEF SyncMemberships
  <2> HIDE DEF mappings, resolves, shown
  <2> QED BY <2>4, <2>5
<1> QED BY <1>1, <1>2

\* TypeOK is what the device holds, Inv and the rest.
TypedRest ==
  /\ changes \in 0 .. MaxChanges
  /\ memberships \subseteq Pairs
  /\ run \in [status: Statuses \union {"outdated"}, fallback: BOOLEAN]
  /\ selections \in 0 .. MaxSelections

LEMMA TypedBy ==
  /\ TypeOK => PollTyped /\ TypedRest
  /\ DeviceHolds /\ Inv /\ PollTyped /\ TypedRest => TypeOK
BY DEF TypeOK, PollTyped, TypedRest, Pairs, DeviceHolds, Numberings, Inv, RowsTyped

LEMMA RunTyped ==
  ASSUME NEW sections
  PROVE  OverallStatus(sections) \in Statuses
BY DEF OverallStatus, Statuses

LEMMA TruthInitially == Init => Truth
<1> SUFFICES ASSUME Init PROVE Truth
  OBVIOUS
<1>1. Inv
  BY InvInitially
<1>2. DeviceHolds
  BY DEF Init, DeviceHolds, Present
<1>3. PollTyped /\ PollIsTrue
  BY EmptyColumn DEF Init, Idle, PollTyped, PollIsTrue
<1>4. TypedRest
  BY DiscoveryAssumption DEF Init, TypedRest, Outdated, Pairs
<1>5. SuccessIsReconciled
  BY DEF Init, Outdated, SuccessIsReconciled
<1> QED BY <1>1, <1>2, <1>3, <1>4, <1>5, TypedBy DEF Truth

LEMMA TruthKept ==
  ASSUME Truth, [Next]_vars
  PROVE  Truth'
<1>0. /\ Inv /\ TypeOK /\ DeviceHolds /\ PollIsTrue /\ SuccessIsReconciled
      /\ PollTyped /\ TypedRest /\ Inv'
  BY InvKept, TypedBy DEF Truth
<1>1. SUFFICES DeviceHolds' /\ PollTyped' /\ TypedRest' /\ PollIsTrue' /\ SuccessIsReconciled'
  <2>1. DeviceHolds' /\ Inv' /\ PollTyped' /\ TypedRest' => TypeOK'
    BY TypedBy, PTL
  <2> QED BY <1>0, <1>1, <2>1 DEF Truth
<1>2. ASSUME UNCHANGED <<index, attached, selected>> PROVE DeviceHolds'
  BY <1>0, <1>2 DEF DeviceHolds, Numberings, Present
<1>3. ASSUME UNCHANGED rows, UNCHANGED <<index, attached, selected, memberships, run>>
      PROVE  SuccessIsReconciled'
  BY <1>0, <1>3, ReconciledStays
<1>4. ASSUME DeviceChanges
      PROVE  DeviceHolds' /\ PollTyped' /\ TypedRest' /\ PollIsTrue' /\ SuccessIsReconciled'
  <2>1. DeviceChange
    BY <1>4 DEF DeviceChanges, AddInterface, RemoveInterface, Renumber, Rebundle
  <2>2. DeviceHolds' /\ changes' \in 0 .. MaxChanges
    BY <1>0, <1>4, DeviceHoldsKept
  <2>3. /\ poll' = [poll EXCEPT !.quiet = poll.step = "idle"]
        /\ run' = Outdated /\ memberships' = memberships /\ selections' = selections
    BY <2>1 DEF DeviceChange, selection
  <2>4. /\ poll'.step = poll.step /\ poll'.answered = poll.answered
        /\ poll'.attached = poll.attached /\ poll'.selected = poll.selected
        /\ poll'.quiet = (poll.step = "idle")
    <3>1. DOMAIN poll = Fields
      BY <1>0 DEF Inv, RowsTyped
    <3> QED BY <2>3, <3>1 DEF Fields
  <2>5. PollTyped'
    BY <1>0, <2>4 DEF PollTyped
  <2>6. PollIsTrue'
    BY <1>0, <2>4 DEF PollIsTrue
  <2>7. TypedRest'
    BY <1>0, <2>2, <2>3 DEF TypedRest, Outdated
  <2>8. SuccessIsReconciled'
    BY <2>3 DEF SuccessIsReconciled, Outdated
  <2> QED BY <2>2, <2>5, <2>6, <2>7, <2>8
<1>5. ASSUME WalkInterfaces \/ WalkAttached \/ WalkSelected \/ ReadRows
      PROVE  DeviceHolds' /\ PollTyped' /\ TypedRest' /\ PollIsTrue' /\ SuccessIsReconciled'
  <2>1. UNCHANGED <<index, attached, selected, changes, rows, memberships, run, selections>>
    BY <1>5 DEF WalkInterfaces, WalkAttached, WalkSelected, ReadRows, device, selection
  <2>2. PollTyped' /\ PollIsTrue'
    BY <1>5, <2>1, WalksHold
  <2>3. TypedRest'
    BY <1>0, <2>1 DEF TypedRest
  <2> QED BY <1>2, <1>3, <2>1, <2>2, <2>3
<1>6. ASSUME CommitPoll
      PROVE  DeviceHolds' /\ PollTyped' /\ TypedRest' /\ PollIsTrue' /\ SuccessIsReconciled'
  <2>1. UNCHANGED <<index, attached, selected, changes, selections>> /\ poll' = Idle
    BY <1>6 DEF CommitPoll, device, selection
  <2>2. PollTyped' /\ PollIsTrue'
    BY <2>1, IdleHolds
  <2>3. run' \in [status: Statuses \union {"outdated"}, fallback: BOOLEAN]
    BY <1>6, RunTyped DEF CommitPoll, Outdated
  <2>4. memberships' \subseteq Pairs
    BY <1>0, <1>6, MembershipsTyped DEF TypedRest
  <2>5. TypedRest'
    BY <1>0, <2>1, <2>3, <2>4 DEF TypedRest
  <2>6. SuccessIsReconciled'
    <3>1. CASE run'.status = "SUCCESS"
      BY <1>6, <3>1, CommitReconciles
    <3>2. CASE run'.status # "SUCCESS"
      BY <3>2 DEF SuccessIsReconciled
    <3> QED BY <3>1, <3>2
  <2> QED BY <1>2, <2>1, <2>2, <2>5, <2>6
<1>7. ASSUME PollFails
      PROVE  DeviceHolds' /\ PollTyped' /\ TypedRest' /\ PollIsTrue' /\ SuccessIsReconciled'
  <2>1. /\ UNCHANGED <<index, attached, selected, changes, rows, memberships, run, selections>>
        /\ poll' = Idle
    BY <1>7 DEF PollFails, device, selection
  <2>2. PollTyped' /\ PollIsTrue'
    BY <2>1, IdleHolds
  <2>3. TypedRest'
    BY <1>0, <2>1 DEF TypedRest
  <2> QED BY <1>2, <1>3, <2>1, <2>2, <2>3
<1>8. ASSUME UNCHANGED poll, UNCHANGED <<index, attached, selected>>
      PROVE  PollTyped' /\ PollIsTrue'
  <2>1. Column(attached)' = Column(attached) /\ Column(selected)' = Column(selected)
    BY <1>8 DEF Column, Present
  <2> QED BY <1>0, <1>8, <2>1 DEF PollTyped, PollIsTrue, NoListing
<1>9. ASSUME NEW n \in Names, NEW monitored \in BOOLEAN, SetMonitored(n, monitored)
      PROVE  DeviceHolds' /\ PollTyped' /\ TypedRest' /\ PollIsTrue' /\ SuccessIsReconciled'
  <2>1. /\ UNCHANGED <<index, attached, selected, changes, memberships, run>>
        /\ poll' = poll /\ selections' = selections + 1 /\ selections < MaxSelections
        /\ rows[n] # NoRow /\ rows' = [rows EXCEPT ![n].monitored = monitored]
    BY <1>9 DEF SetMonitored, device
  <2>2. TypedRest'
    BY <1>0, <2>1, DiscoveryAssumption DEF TypedRest
  <2>3. /\ rows[n] \in RowRecords /\ rows \in [Names -> RowRecords \union {NoRow}]
    BY <1>0, <2>1 DEF Inv, RowsTyped
  <2>4. /\ rows'[n] \in RowRecords /\ rows'[n].if_index = rows[n].if_index
        /\ rows'[n].is_aggregation = rows[n].is_aggregation
        /\ \A m \in Names \ {n} : rows'[m] = rows[m]
    BY <2>1, <2>3 DEF RowRecords
  <2>5. SuccessIsReconciled'
    BY <1>0, <2>1, <2>3, <2>4, RowIsNotNoRow, ReconciledStays
  <2> QED BY <1>2, <1>8, <2>1, <2>2, <2>5
<1>10. ASSUME UNCHANGED vars
      PROVE  DeviceHolds' /\ PollTyped' /\ TypedRest' /\ PollIsTrue' /\ SuccessIsReconciled'
  <2>1. UNCHANGED <<index, attached, selected, changes, rows, memberships, poll, run,
                   selections>>
    BY <1>10 DEF vars, device, selection
  <2>2. TypedRest'
    BY <1>0, <2>1 DEF TypedRest
  <2> QED BY <1>2, <1>3, <1>8, <2>1, <2>2
<1> QED
  BY <1>4, <1>5, <1>6, <1>7, <1>9, <1>10 DEF Next

LEMMA TruthInvariant == Spec => []Truth
BY TruthInitially, TruthKept, PTL DEF Spec

\* Every variable keeps its type, whatever a device lists and however its columns read.
THEOREM TypeCorrect == Spec => []TypeOK
<1>1. Truth => TypeOK
  BY DEF Truth
<1> QED BY <1>1, TruthInvariant, PTL

\* A run recorded as SUCCESS leaves the device's ifIndexes, and its memberships and flags
\* but for rows that share an ifIndex, whatever earlier polls, renumberings and failures
\* have left in the tables (discovery.py:121-130, collectors.py:307-315).
THEOREM SuccessReconciles == Spec => []SuccessIsReconciled
<1>1. Truth => SuccessIsReconciled
  BY DEF Truth
<1> QED BY <1>1, TruthInvariant, PTL

------------------------------------------------------------------------------
(* What a commit takes away: what the columns show is in the mappings, and what *)
(* is in the mappings is kept where an ifIndex is one row's.                    *)

LEMMA ShownIsMapped ==
  ASSUME PollTyped, NEW i, NEW j, j \in Indexes \union {Gone}, i # j, IsShown(i, j)
  PROVE  i \in Indexes /\ j \in Indexes /\ <<j, i>> \in Mappings(poll.attached, poll.selected)
<1>1. \A column \in Columns :
        DOMAIN column \subseteq Indexes /\ \A k \in DOMAIN column : column[k] \in Indexes \union {NoLag}
  BY DEF Columns
<1>2. poll.attached \in Columns /\ poll.selected \in Columns
  BY DEF PollTyped
<1>3. j # NoLag
  BY DiscoveryAssumption DEF Gone, NoLag
<1>4. PICK column \in {poll.attached, poll.selected} : j = Reads(column, i)
  BY DEF IsShown
<1>5. i \in DOMAIN column /\ j = column[i]
  BY <1>3, <1>4 DEF Reads
<1>6. i \in Indexes /\ j \in Indexes
  BY <1>1, <1>2, <1>3, <1>4, <1>5
<1>7. j = LagOf(poll.attached, poll.selected, i)
  BY <1>3 DEF IsShown, Reads, LagOf
<1> QED BY <1>6, <1>7 DEF Mappings

\* What a step may take away.
TakesLittle ==
  /\ \A pair \in memberships \ memberships' :
       /\ "attached" \in poll.answered
       /\ \/ ~IsShown(rows'[pair[2]].if_index, rows'[pair[1]].if_index)
          \/ Shares(pair[2])'
  /\ \A n \in Names : rows[n] # NoRow =>
       /\ rows'[n] # NoRow
       /\ rows[n].is_aggregation /\ ~rows'[n].is_aggregation =>
            /\ "attached" \in poll.answered
            /\ \A i \in Indexes : i # rows'[n].if_index => ~IsShown(i, rows'[n].if_index)
       /\ poll.listed[n] = Gone => rows'[n].if_index = rows[n].if_index

LEMMA CommitKeepsShownMembers ==
  ASSUME Truth, CommitPoll, "attached" \in poll.answered,
         NEW lag \in Names, NEW p \in Names, lag # p, <<lag, p>> \in memberships,
         IsShown(rows'[p].if_index, rows'[lag].if_index), ~Shares(p)'
  PROVE  <<lag, p>> \in memberships'
<1> DEFINE table == SyncInterfaces
           mappings == Mappings(poll.attached, poll.selected)
<1>0. Inv /\ PollTyped /\ poll.step = "commit"
  BY TypedBy DEF Truth, CommitPoll
<1>1. PICK lookup \in Lookups(table) :
        /\ rows' = Written(SyncFlags(table, lookup, mappings))
        /\ memberships' = SyncMemberships(table, lookup, mappings)
  BY DEF CommitPoll, SyncAggregations
<1>2. \A n \in Names : /\ table[n] \in RowRecords \union {NoRow}
                       /\ rows'[n] = NoRow <=> table[n] = NoRow
                       /\ rows'[n].if_index = table[n].if_index
  BY <1>0, <1>1, AnsweredRows
<1> HIDE DEF table, mappings
<1>3. PICK i : i = table[p].if_index
  OBVIOUS
<1>4. PICK j : j = table[lag].if_index
  OBVIOUS
<1>5. /\ j \in Indexes \union {Gone}
      /\ table[p] = NoRow <=> i = Gone
      /\ table[lag] = NoRow <=> j = Gone
  BY <1>2, <1>3, <1>4, RowIsThere
<1>6. IsShown(i, j)
  BY <1>2, <1>3, <1>4
<1>7. i # j
  <2>1. SUFFICES ASSUME i = j PROVE FALSE
    OBVIOUS
  <2>2. i # Gone
    <3>1. Gone \notin DOMAIN poll.attached /\ Gone \notin DOMAIN poll.selected
      BY <1>0, DiscoveryAssumption DEF PollTyped, Columns
    <3>2. Gone # NoLag
      BY DEF Gone, NoLag
    <3> QED BY <1>6, <2>1, <3>1, <3>2 DEF IsShown, Reads
  <2>3. rows'[lag] # NoRow /\ rows'[lag].if_index = rows'[p].if_index
    BY <1>2, <1>3, <1>4, <1>5, <2>1, <2>2
  <2> QED BY <2>3 DEF Shares
<1>8. i \in Indexes /\ j \in Indexes /\ <<j, i>> \in mappings
  BY <1>0, <1>5, <1>6, <1>7, ShownIsMapped DEF mappings
<1>9. table[p] # NoRow /\ table[lag] # NoRow
  BY <1>5, <1>8, DiscoveryAssumption
<1>10. i \in DOMAIN lookup /\ j \in DOMAIN lookup
  BY <1>3, <1>4, <1>9, LookupIs
<1>11. lookup[i] = p
  <2>1. PICK m : m = lookup[i]
    OBVIOUS
  <2>2. m \in Names /\ table[m] # NoRow /\ table[m].if_index = i
    BY <1>3, <1>9, <2>1, LookupIs
  <2>3. rows'[m] # NoRow /\ rows'[m].if_index = rows'[p].if_index
    BY <1>2, <1>3, <2>2
  <2> QED BY <2>1, <2>2, <2>3 DEF Shares
<1>12. CASE lookup[j] = lag
  <2>1. PICK pair : pair = <<j, i>>
    OBVIOUS
  <2>2. /\ pair \in mappings /\ {pair[1], pair[2]} \subseteq DOMAIN lookup
        /\ <<lookup[pair[1]], lookup[pair[2]]>> = <<lag, p>>
    BY <1>8, <1>10, <1>11, <1>12, <2>1
  <2> QED BY <1>1, <2>2 DEF SyncMemberships
<1>13. CASE lookup[j] # lag
  <2>1. j \in Mapped(mappings)
    BY <1>8 DEF Mapped
  <2>2. PICK pair : pair = <<lag, p>>
    OBVIOUS
  <2>3. pair \in memberships /\ table[pair[1]].if_index = j /\ pair[1] = lag
    BY <1>4, <2>2
  <2> QED BY <1>1, <1>13, <2>1, <2>2, <2>3 DEF SyncMemberships
<1> QED BY <1>12, <1>13

LEMMA CommitKeepsShownFlags ==
  ASSUME Truth, CommitPoll, "attached" \in poll.answered,
         NEW n \in Names, rows[n] # NoRow, rows[n].is_aggregation, ~rows'[n].is_aggregation,
         NEW i \in Indexes, i # rows'[n].if_index
  PROVE  ~IsShown(i, rows'[n].if_index)
<1> DEFINE table == SyncInterfaces
           mappings == Mappings(poll.attached, poll.selected)
<1>0. Inv /\ PollTyped /\ poll.step = "commit"
  BY TypedBy DEF Truth, CommitPoll
<1>1. PICK lookup \in Lookups(table) : rows' = Written(SyncFlags(table, lookup, mappings))
  BY DEF CommitPoll, SyncAggregations
<1>2. /\ table[n] \in RowRecords \union {NoRow}
      /\ rows'[n].if_index = table[n].if_index
      /\ table[n] # NoRow => rows'[n].is_aggregation = Flag(table, lookup, mappings, n)
  BY <1>0, <1>1, AnsweredRows
<1>3. table[n] # NoRow /\ table[n].is_aggregation = rows[n].is_aggregation
  <2>1. /\ poll.seen[n] # NoRow
        /\ poll.seen[n].is_aggregation = rows[n].is_aggregation
    BY <1>0 DEF Inv, SnapshotHolds
  <2> QED BY <1>0, <2>1, SyncedRows DEF Inv
<1> HIDE DEF table, mappings
<1>4. table[n].if_index \notin Mapped(mappings)
  BY <1>2, <1>3 DEF Flag
<1>5. table[n].if_index \in Indexes
  BY <1>2, <1>3, RowIsThere
<1>6. SUFFICES ASSUME IsShown(i, table[n].if_index) PROVE FALSE
  BY <1>2
<1>7. <<table[n].if_index, i>> \in mappings
  BY <1>0, <1>2, <1>5, <1>6, ShownIsMapped DEF mappings
<1> QED BY <1>4, <1>7 DEF Mapped

\* Whatever fails, and however often, no interface goes, and a membership or a flag goes
\* only if the attached column answered and the columns that did no longer show it
\* (discovery.py:10-13, :123-129, collectors.py:343-359).
THEOREM LossIsAccountedFor == Spec => LossNeedsEvidence
<1>1. ASSUME Truth, CommitPoll PROVE TakesLittle
  <2>0. Inv /\ TypedRest
    BY <1>1, TypedBy DEF Truth
  <2>1. /\ \A n \in Names : CommitKeepsRow(n)
        /\ "attached" \notin poll.answered => memberships' = memberships
    BY <1>1, <2>0, CommittedRows
  <2>2. ASSUME NEW pair \in memberships \ memberships'
        PROVE  /\ "attached" \in poll.answered
               /\ \/ ~IsShown(rows'[pair[2]].if_index, rows'[pair[1]].if_index)
                  \/ Shares(pair[2])'
    <3>1. "attached" \in poll.answered
      BY <2>1
    <3>2. PICK lag \in Names, p \in Names : pair = <<lag, p>> /\ lag # p
      BY <2>0 DEF TypedRest, Pairs
    <3>3. \/ ~IsShown(rows'[p].if_index, rows'[lag].if_index)
          \/ Shares(p)'
      BY <1>1, <2>2, <3>1, <3>2, CommitKeepsShownMembers
    <3>4. pair[1] = lag /\ pair[2] = p
      BY <3>2
    <3> QED BY <3>1, <3>3, <3>4
  <2>3. ASSUME NEW n \in Names, rows[n] # NoRow, rows[n].is_aggregation,
               ~rows'[n].is_aggregation
        PROVE  /\ "attached" \in poll.answered
               /\ \A i \in Indexes : i # rows'[n].if_index => ~IsShown(i, rows'[n].if_index)
    <3>1. "attached" \in poll.answered
      BY <2>1, <2>3 DEF CommitKeepsRow
    <3> QED BY <1>1, <2>3, <3>1, CommitKeepsShownFlags
  <2> QED BY <2>1, <2>2, <2>3 DEF TakesLittle, CommitKeepsRow
<1>2. ASSUME Truth, NEW n \in Names, NEW monitored \in BOOLEAN, SetMonitored(n, monitored)
      PROVE  TakesLittle
  <2>1. /\ rows' = [rows EXCEPT ![n].monitored = monitored]
        /\ memberships' = memberships
        /\ rows[n] \in RowRecords
        /\ rows \in [Names -> RowRecords \union {NoRow}]
    BY <1>2 DEF SetMonitored, Truth, Inv, RowsTyped
  <2>2. /\ rows'[n] \in RowRecords
        /\ rows'[n].if_index = rows[n].if_index
        /\ rows'[n].is_aggregation = rows[n].is_aggregation
        /\ \A m \in Names \ {n} : rows'[m] = rows[m]
    BY <2>1 DEF RowRecords
  <2> QED BY <2>1, <2>2, RowIsNotNoRow DEF TakesLittle
<1>3. ASSUME rows' = rows, memberships' = memberships PROVE TakesLittle
  BY <1>3 DEF TakesLittle
<1>4. ASSUME Truth, [Next]_vars PROVE [TakesLittle]_vars
  <2>1. CASE UNCHANGED vars
    BY <2>1
  <2>2. CASE Next
    <3>1. \/ CommitPoll
          \/ \E n \in Names, monitored \in BOOLEAN : SetMonitored(n, monitored)
          \/ rows' = rows /\ memberships' = memberships
      BY <2>2 DEF Next, DeviceChanges, AddInterface, RemoveInterface, Renumber, Rebundle,
                  DeviceChange, WalkInterfaces, WalkAttached, WalkSelected, ReadRows, PollFails
    <3> QED BY <1>1, <1>2, <1>3, <1>4, <3>1
  <2> QED BY <1>4, <2>1, <2>2
<1>5. [][TakesLittle]_vars => LossNeedsEvidence
  BY DEF LossNeedsEvidence, TakesLittle
<1> QED BY <1>4, <1>5, TruthInvariant, PTL DEF Spec

================================================================================
