-------------------------------- MODULE Discovery --------------------------------
(***************************************************************************)
(* One device's interfaces and the database's picture of them: the walks   *)
(* of a poll (collect/h3c/collectors.py, collect/session.py), their        *)
(* persistence (collect/persist.py, collect/discovery.py) and the          *)
(* administrator's selection, which shares the interface row.              *)
(*                                                                         *)
(* The device names interfaces; an ifIndex is only a number that a reboot  *)
(* or a changed board may give to another interface. Names here are the    *)
(* normalized ones and a device lists each at most once. Columns other     *)
(* than the ifIndex, the aggregation flag and the selection are left out:  *)
(* they are copied from the latest sample.                                 *)
(***************************************************************************)
EXTENDS Integers, Functions

CONSTANTS
  Lags,           \* aggregation interfaces, by normalized name
  Ports,          \* physical interfaces, by normalized name
  Indexes,        \* ifIndexes
  MaxChanges,     \* changes of the device
  MaxSelections   \* changes of the selection by the administrator

Names == Lags \union Ports

Gone == "gone"            \* the device does not have the interface
NoLag == "no lag"         \* 0 in a LAG column: not attached, not selected
NoRow == [if_index |-> Gone, is_aggregation |-> FALSE, monitored |-> FALSE]
NoListing == [n \in Names |-> Gone]   \* collect_interfaces fails if nothing is listed

ASSUME DiscoveryAssumption ==
  /\ Lags \intersect Ports = {}
  /\ Gone \notin Indexes
  /\ NoLag \notin Indexes \union Lags
  /\ MaxChanges \in Nat
  /\ MaxSelections \in Nat

VARIABLES
  index,        \* device: the ifIndex of each interface
  attached,     \* device: the aggregation a port is attached to
  selected,     \* device: the aggregation a port is selected into
  changes,      \* changes of the device so far
  rows,         \* table interfaces
  memberships,  \* table aggregation_members: <<aggregation, member>>
  poll,         \* the poll in progress
  run,          \* history: the last recorded run, if it saw the device as it is now
  choice,       \* history: what the administrator last asked for
  selections    \* how often

device == <<index, attached, selected, changes>>
selection == <<choice, selections>>
vars == <<device, rows, memberships, poll, run, selection>>

RowRecords == [if_index: Indexes, is_aggregation: BOOLEAN, monitored: BOOLEAN]

\* A LAG column lists each interface under its ifIndex, an aggregation under its own.
Columns == UNION {[I -> Indexes \union {NoLag}] : I \in SUBSET Indexes}

Statuses == {"SUCCESS", "PARTIAL", "FAILED"}
Outdated == [status |-> "outdated", fallback |-> FALSE]

Idle == [step |-> "idle", listed |-> NoListing, answered |-> {}, attached |-> <<>>,
         selected |-> <<>>, seen |-> [n \in Names |-> NoRow], quiet |-> TRUE]

TypeOK ==
  /\ index \in [Names -> Indexes \union {Gone}]
  /\ attached \in [Ports -> Lags \union {NoLag}]
  /\ selected \in [Ports -> Lags \union {NoLag}]
  /\ changes \in 0 .. MaxChanges
  /\ rows \in [Names -> RowRecords \union {NoRow}]
  /\ memberships \subseteq {pair \in Names \X Names : pair[1] # pair[2]}
  /\ poll.step \in {"idle", "attached", "selected", "read", "commit"}
  /\ poll.listed \in [Names -> Indexes \union {Gone}]
  /\ poll.answered \subseteq {"attached", "selected"}
  /\ poll.attached \in Columns
  /\ poll.selected \in Columns
  /\ poll.seen \in [Names -> RowRecords \union {NoRow}]
  /\ poll.quiet \in BOOLEAN
  /\ run \in [status: Statuses \union {"outdated"}, fallback: BOOLEAN]
  /\ choice \in [Names -> BOOLEAN]
  /\ selections \in 0 .. MaxSelections

\* No two interfaces have one ifIndex.
Numberings ==
  {f \in [Names -> Indexes \union {Gone}] :
     \A n, m \in Names : n # m /\ f[n] # Gone => f[n] # f[m]}

\* A device of any configuration is met with an empty database.
Init ==
  /\ index \in Numberings
  /\ attached \in {f \in [Ports -> Lags \union {NoLag}] :
                    \A p \in Ports : f[p] # NoLag => Gone \notin {index[p], index[f[p]]}}
  /\ selected = attached
  /\ changes = 0
  /\ rows = [n \in Names |-> NoRow]
  /\ memberships = {}
  /\ poll = Idle
  /\ run = Outdated
  /\ choice = [n \in Names |-> FALSE]
  /\ selections = 0

------------------------------------------------------------------------------
(* The device. *)

Present(n) == index[n] # Gone
PresentLags == {n \in Lags : Present(n)}

\* After a change neither the last run nor a poll that has begun saw the device as it is.
DeviceChange ==
  /\ changes < MaxChanges
  /\ changes' = changes + 1
  /\ poll' = [poll EXCEPT !.quiet = poll.step = "idle"]
  /\ run' = Outdated
  /\ UNCHANGED <<rows, memberships, selection>>

\* A new interface, or one that comes back, takes an ifIndex that is free.
AddInterface(n, i) ==
  /\ ~Present(n) /\ \A m \in Names : index[m] # i
  /\ index' = [index EXCEPT ![n] = i]
  /\ UNCHANGED <<attached, selected>>
  /\ DeviceChange

RemoveInterface(n) ==
  /\ Present(n)
  /\ index' = [index EXCEPT ![n] = Gone]
  /\ attached' = [p \in Ports |-> IF n \in {p, attached[p]} THEN NoLag ELSE attached[p]]
  /\ selected' = [p \in Ports |-> IF n \in {p, selected[p]} THEN NoLag ELSE selected[p]]
  /\ DeviceChange

\* A reboot may number the interfaces anew.
Renumber ==
  /\ index' \in {f \in Numberings : \A n \in Names : f[n] = Gone <=> ~Present(n)}
  /\ index' # index
  /\ UNCHANGED <<attached, selected>>
  /\ DeviceChange

\* Configuration and LACP put a port into an aggregation, or out of it: it is selected
\* first, and attached to none or to the one before until it has joined.
Rebundle(p, lag) ==
  /\ Present(p)
  /\ lag \in PresentLags \union {NoLag}
  /\ selected' = [selected EXCEPT ![p] = lag]
  /\ \E joined \in {lag, NoLag, attached[p]} :
       attached' = [attached EXCEPT ![p] = joined]
  /\ <<attached, selected>>' # <<attached, selected>>
  /\ UNCHANGED index
  /\ DeviceChange

\* What a walk of a LAG column reads now.
Column(lagOf) ==
  [i \in {index[n] : n \in {n \in Names : Present(n)}} |->
     LET n == CHOOSE n \in Names : index[n] = i
     IN IF n \in Lags THEN i ELSE IF lagOf[n] = NoLag THEN NoLag ELSE index[lagOf[n]]]

------------------------------------------------------------------------------
(* run_collection: the walks come one after the other, and each may fail. *)

\* collect_interfaces fails when the ifDescr walk does, or lists nothing.
WalkInterfaces ==
  /\ poll.step = "idle"
  /\ \E listed \in {index, NoListing} :
       poll' = [Idle EXCEPT !.step = "attached", !.listed = listed]
  /\ UNCHANGED <<device, rows, memberships, run, selection>>

WalkAttached ==
  /\ poll.step = "attached"
  /\ \/ poll' = [poll EXCEPT !.step = "selected", !.attached = Column(attached),
                            !.answered = {"attached"}]
     \/ poll' = [poll EXCEPT !.step = "read"]
  /\ UNCHANGED <<device, rows, memberships, run, selection>>

\* The section succeeds with or without this column.
WalkSelected ==
  /\ poll.step = "selected"
  /\ \/ poll' = [poll EXCEPT !.step = "read", !.selected = Column(selected),
                            !.answered = @ \union {"selected"}]
     \/ poll' = [poll EXCEPT !.step = "read"]
  /\ UNCHANGED <<device, rows, memberships, run, selection>>

\* (The definitions named *_Faulty are deliberate mistakes that no specification uses.)
\* The selected aggregation is preferred.
LagOf_Faulty(column, fallback, i) ==
  IF i \in DOMAIN fallback /\ fallback[i] # NoLag
  THEN fallback[i]
  ELSE IF i \in DOMAIN column THEN column[i] ELSE NoLag

\* The attached aggregation decides; the selected one fills the gap.
LagOf(column, fallback, i) ==
  IF i \in DOMAIN column /\ column[i] # NoLag
  THEN column[i]
  ELSE IF i \in DOMAIN fallback THEN fallback[i] ELSE NoLag

\* An aggregation is taken for a member of itself.
Mappings_Faulty(column, fallback) ==
  {pair \in Indexes \X Indexes : pair[1] = LagOf(column, fallback, pair[2])}

\* The aggregation's own row is not a membership.
Mappings(column, fallback) ==
  {pair \in Indexes \X Indexes :
     pair[1] # pair[2] /\ pair[1] = LagOf(column, fallback, pair[2])}

OverallStatus(sections) ==
  IF \A s \in DOMAIN sections : sections[s] = "SUCCESS" THEN "SUCCESS"
  ELSE IF \A s \in DOMAIN sections : sections[s] = "FAILED" THEN "FAILED" ELSE "PARTIAL"

\* Identity, CPU and memory are collected or not; interfaces that lack a key field are
\* DEGRADED and stored all the same.
Sections ==
  {s \in [{"identity", "cpu", "memory", "interfaces", "aggregations"} ->
            {"SUCCESS", "DEGRADED", "FAILED"}] :
     /\ \A part \in DOMAIN s \ {"interfaces"} : s[part] # "DEGRADED"
     /\ s["interfaces"] = "FAILED" <=> poll.listed = NoListing
     /\ s["aggregations"] = "FAILED" <=> "attached" \notin poll.answered}

------------------------------------------------------------------------------
(* persist_collection: one transaction, which reads the rows and writes what changed. *)

ReadRows ==
  /\ poll.step = "read"
  /\ poll' = [poll EXCEPT !.step = "commit", !.seen = rows]
  /\ UNCHANGED <<device, rows, memberships, run, selection>>

\* sync_interfaces: keyed by name; a new row is neither an aggregation nor monitored, and
\* rows of interfaces that are not listed stay.
SyncInterfaces ==
  [n \in Names |->
     IF poll.listed[n] = Gone THEN poll.seen[n]
     ELSE [poll.seen[n] EXCEPT !.if_index = poll.listed[n]]]

\* by_if_index: of rows that share an ifIndex the last one read stays, in no given order.
Lookups(table) ==
  LET used == {table[n].if_index : n \in {n \in Names : table[n] # NoRow}}
  IN {f \in [used -> Names] :
        \A i \in used : table[f[i]] # NoRow /\ table[f[i]].if_index = i}

\* sync_aggregations: memberships and flags of an aggregation that is mapped follow the
\* mapping, those of one whose ifIndex is not mapped are cleared.
Mapped(mappings) == {pair[1] : pair \in mappings}

SyncMemberships(table, lookup, mappings) ==
  LET known == DOMAIN lookup
      desired == {<<lookup[pair[1]], lookup[pair[2]]>> :
                    pair \in {pr \in mappings : {pr[1], pr[2]} \subseteq known}}
      unresolved == {pair \in memberships :
                       LET i == table[pair[1]].if_index
                       IN i \in Mapped(mappings) /\ lookup[i] # pair[1]}
  IN desired \union unresolved

SyncFlags(table, lookup, mappings) ==
  [n \in Names |->
     IF table[n] = NoRow THEN NoRow
     ELSE LET i == table[n].if_index
          IN CASE i \notin Mapped(mappings) -> [table[n] EXCEPT !.is_aggregation = FALSE]
               [] i \in Mapped(mappings) /\ lookup[i] = n ->
                    [table[n] EXCEPT !.is_aggregation = TRUE]
               [] OTHER -> table[n]]

\* The whole row is written, with the selection that was read.
Written_Faulty(table) == table

\* Only columns that changed are written: the selection is never one of them.
Written(table) ==
  [n \in Names |->
     IF table[n] = NoRow THEN NoRow
     ELSE IF poll.seen[n] = NoRow THEN table[n]
     ELSE [table[n] EXCEPT !.monitored = rows[n].monitored]]

\* A failed section is taken for one that found nothing.
SyncAggregations_Faulty(table) ==
  LET mappings == Mappings(poll.attached, poll.selected)
  IN \E lookup \in Lookups(table) :
       /\ rows' = Written(SyncFlags(table, lookup, mappings))
       /\ memberships' = SyncMemberships(table, lookup, mappings)

SyncAggregations(table) ==
  IF "attached" \notin poll.answered
  THEN rows' = Written(table) /\ UNCHANGED memberships
  ELSE LET mappings == Mappings(poll.attached, poll.selected)
       IN \E lookup \in Lookups(table) :
            /\ rows' = Written(SyncFlags(table, lookup, mappings))
            /\ memberships' = SyncMemberships(table, lookup, mappings)

CommitPoll ==
  /\ poll.step = "commit"
  /\ SyncAggregations(SyncInterfaces)
  /\ \E sections \in Sections :
       run' = IF poll.quiet
              THEN [status |-> OverallStatus(sections),
                    fallback |-> "selected" \in poll.answered]
              ELSE Outdated
  /\ poll' = Idle
  /\ UNCHANGED <<device, selection>>

\* The transaction fails or the worker dies: nothing of the poll is kept.
PollFails ==
  /\ poll.step # "idle"
  /\ poll' = Idle
  /\ UNCHANGED <<device, rows, memberships, run, selection>>

------------------------------------------------------------------------------
\* set_monitored, from the configuration page, at any time.
SetMonitored(n, monitored) ==
  /\ selections < MaxSelections
  /\ rows[n] # NoRow
  /\ rows' = [rows EXCEPT ![n].monitored = monitored]
  /\ choice' = [choice EXCEPT ![n] = monitored]
  /\ selections' = selections + 1
  /\ UNCHANGED <<device, memberships, poll, run>>

DeviceChanges ==
  \/ \E n \in Names, i \in Indexes : AddInterface(n, i)
  \/ \E n \in Names : RemoveInterface(n)
  \/ Renumber
  \/ \E p \in Ports, lag \in Lags \union {NoLag} : Rebundle(p, lag)

Next ==
  \/ DeviceChanges
  \/ WalkInterfaces
  \/ WalkAttached
  \/ WalkSelected
  \/ ReadRows
  \/ CommitPoll
  \/ PollFails
  \/ \E n \in Names, monitored \in BOOLEAN : SetMonitored(n, monitored)

Spec == Init /\ [][Next]_vars

------------------------------------------------------------------------------
(* Properties. *)

\* The aggregation a port belongs to by the device, and the rows that may be mistaken for
\* another.
BelongsTo(p) == IF attached[p] # NoLag THEN attached[p] ELSE selected[p]
Shares(n) == \E m \in Names \ {n} : rows[m] # NoRow /\ rows[m].if_index = rows[n].if_index

\* Whatever polls read and write meanwhile, through disappearance, return and a new
\* ifIndex, an interface is monitored exactly if the administrator last asked for it
\* (discovery.py:6-8, interface_config.py:14-16).
SelectionSurvives ==
  \A n \in Names :
    IF rows[n] = NoRow THEN ~choice[n] ELSE rows[n].monitored = choice[n]

\* A run recorded as SUCCESS, of a device that has not changed since its first walk, left
\* the device's ifIndexes, and the memberships and flags of every interface whose ifIndex
\* no other row holds; a port that is only selected counts if that column was read
\* (discovery.py:121-130, collectors.py:307-315).
SuccessIsReconciled ==
  run.status = "SUCCESS" =>
    /\ \A n \in Names : Present(n) => rows[n] # NoRow /\ rows[n].if_index = index[n]
    /\ \A lag \in Lags, p \in Ports :
         rows[lag] # NoRow /\ rows[p] # NoRow /\ ~Shares(lag) /\ ~Shares(p) =>
           (<<lag, p>> \in memberships <=>
              lag = IF run.fallback THEN BelongsTo(p) ELSE attached[p])
    /\ \A lag \in Lags :
         rows[lag] # NoRow /\ ~Shares(lag) =>
           (rows[lag].is_aggregation <=>
              \E p \in Ports : lag = IF run.fallback THEN BelongsTo(p) ELSE attached[p])

\* By the columns that answered, the port with ifIndex i belongs to the aggregation with
\* ifIndex j: it is attached to it, or attached to none and selected into it. A column
\* that did not answer shows nothing.
Reads(column, i) == IF i \in DOMAIN column THEN column[i] ELSE NoLag
IsShown(i, j) ==
  \/ j = Reads(poll.attached, i)
  \/ j = Reads(poll.selected, i) /\ NoLag = Reads(poll.attached, i)

\* Nothing is taken away but by a commit to which the attached column answered, and then
\* only a membership that the columns that answered do not show (or of a port whose
\* ifIndex another row holds), and the flag of an aggregation for which they show no port:
\* an interface that is not listed, or a listing that failed, is no evidence, and no poll
\* takes an interface away (discovery.py:10-13, :123-129). The selected column that fails
\* is the exception to "no stale data is ever cleared on failure" (collectors.py:348-349):
\* the section succeeds without it, and what it alone would have shown is cleared.
LossNeedsEvidence ==
  [][/\ \A pair \in memberships \ memberships' :
          /\ "attached" \in poll.answered
          /\ \/ ~IsShown(rows'[pair[2]].if_index, rows'[pair[1]].if_index)
             \/ Shares(pair[2])'
     /\ \A n \in Names : rows[n] # NoRow =>
          /\ rows'[n] # NoRow
          /\ rows[n].is_aggregation /\ ~rows'[n].is_aggregation =>
               /\ "attached" \in poll.answered
               /\ \A i \in Indexes : i # rows'[n].if_index => ~IsShown(i, rows'[n].if_index)
          /\ poll.listed[n] = Gone => rows'[n].if_index = rows[n].if_index]_vars

\* After such a run every member the device reports is shown as one, even where an
\* interface that is gone has left its ifIndex behind: "The database is reconciled to the
\* device, both directions" (discovery.py:121).
ReportedMembersAreShown ==
  run.status = "SUCCESS" =>
    \A p \in Ports : attached[p] # NoLag => <<attached[p], p>> \in memberships

================================================================================
