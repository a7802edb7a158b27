----------------------------- MODULE IrfObservation -----------------------------
(***************************************************************************)
(* The members of one IRF fabric: its observations and the rows they leave *)
(* (monitoring/irf.py), and the weekly summary read from these             *)
(* (reporting/irf_summary.py, with the IRF half of the overall status in   *)
(* reporting/service.py).                                                  *)
(*                                                                         *)
(* The loop observes one fabric after the other, about every 15 minutes,   *)
(* in one thread; how regularly is not promised, so an observation begins  *)
(* at any time at which no other is in progress. It is dated before the    *)
(* device is asked, and answered some ticks later: SSH timeouts bound how  *)
(* many. What the device answers is a sample: a role, or no recognizable   *)
(* one, for each member it lists.                                          *)
(***************************************************************************)
EXTENDS Integers, Sequences, FiniteSets, FiniteSetsExt, SequencesExt

CONSTANTS
  Members,    \* member ids a fabric may list
  Roles,      \* roles the parser recognizes
  MaxAnswer,  \* how long the SSH commands may take
  Week,       \* ticks in a week
  MaxTime,    \* ticks of a behaviour
  MaxAnswers  \* observations that succeed

Never == -1
NoRole == "no role"    \* NULL: a role that is not known
Absent == "absent"     \* no device_members row

ASSUME IrfAssumption ==
  /\ Members \subseteq Int
  /\ IsFiniteSet(Members)
  /\ {NoRole, Absent} \intersect Roles = {}
  /\ MaxAnswer \in Nat
  /\ Week \in Nat \ {0}
  /\ MaxTime \in Nat
  /\ MaxAnswers \in Nat

VARIABLES
  now,          \* the wall clock
  asked,        \* observed_at of the observation in progress
  members,      \* device_members: each member's stored role
  rows,         \* irf_member_observations, in the order of their ids
  answers       \* history: the successful observations

tables == <<members, rows>>
vars == <<now, asked, tables, answers>>

Times == 0 .. MaxTime
RowRecords == [member: Members, at: Times, observed: BOOLEAN, role: Roles \union {NoRole},
               previous_role: Roles \union {NoRole}, role_changed: BOOLEAN]

\* At least one member is recognized, otherwise the observation fails.
Samples == UNION {[listed -> Roles \union {NoRole}] : listed \in SUBSET Members \ {{}}}

TypeOK ==
  /\ now \in Times
  /\ asked \in {Never} \union Times
  /\ members \in [Members -> Roles \union {NoRole, Absent}]
  /\ rows \in Seq(RowRecords)

Init ==
  /\ now = 0
  /\ asked = Never
  /\ members = [m \in Members |-> Absent]
  /\ rows = <<>>
  /\ answers = <<>>

Observed == asked # Never

\* No two observations read the same instant.
BeginObservation ==
  /\ ~Observed
  /\ Len(answers) < MaxAnswers
  /\ answers # <<>> => now > Last(answers).at
  /\ asked' = now
  /\ UNCHANGED <<now, tables, answers>>

\* The device does not answer, lists no member that is recognized, the transaction fails,
\* or the worker dies: nothing is recorded.
ObservationFails ==
  /\ Observed
  /\ asked' = Never
  /\ UNCHANGED <<now, tables, answers>>

------------------------------------------------------------------------------
(* apply_irf_observation *)

Known == {m \in Members : members[m] # Absent}

RoleChanged(m, sample) ==
  /\ m \in DOMAIN sample
  /\ sample[m] # NoRole
  /\ members[m] \notin {Absent, NoRole}
  /\ sample[m] # members[m]

\* (The definitions named *_Faulty are deliberate mistakes that no specification uses.)
\* The stored role is copied whether or not it changed.
Observation_Faulty(m, sample) ==
  [member |-> m, at |-> asked,
   observed |-> m \in DOMAIN sample,
   role |-> IF m \in DOMAIN sample THEN sample[m] ELSE NoRole,
   previous_role |-> members[m],
   role_changed |-> RoleChanged(m, sample)]

Observation(m, sample) ==
  [member |-> m, at |-> asked,
   observed |-> m \in DOMAIN sample,
   role |-> IF m \in DOMAIN sample THEN sample[m] ELSE NoRole,
   previous_role |-> IF RoleChanged(m, sample) THEN members[m] ELSE NoRole,
   role_changed |-> RoleChanged(m, sample)]

\* The stored role is forgotten when the new one is not recognized.
StoredRole_Faulty(m, sample) ==
  IF m \in DOMAIN sample THEN sample[m] ELSE members[m]

StoredRole(m, sample) ==
  CASE m \notin DOMAIN sample                         -> members[m]
    [] m \in DOMAIN sample /\ sample[m] # NoRole      -> sample[m]
    [] OTHER -> IF members[m] = Absent THEN NoRole ELSE members[m]

\* Only the members listed get a row.
ObservedMembers_Faulty(sample) == DOMAIN sample
ObservedMembers(sample) == Known \union DOMAIN sample

\* The members of a set one by one, the smallest id first.
Ascending(S) ==
  {batch \in [1 .. Cardinality(S) -> S] :
     \A i, j \in DOMAIN batch : i < j => batch[i] < batch[j]}

\* The answer comes and its transaction commits; whether its reply is lost makes no
\* difference, since the loop goes on either way.
ApplyIrfObservation(sample) ==
  /\ Observed
  /\ \E batch \in Ascending(ObservedMembers(sample)) :
       rows' = rows \o [k \in DOMAIN batch |-> Observation(batch[k], sample)]
  /\ members' = [m \in Members |-> StoredRole(m, sample)]
  /\ answers' = Append(answers, [at |-> asked, sample |-> sample])
  /\ asked' = Never
  /\ UNCHANGED now

Tick ==
  /\ now < MaxTime
  /\ Observed => now < asked + MaxAnswer
  /\ now' = now + 1
  /\ UNCHANGED <<asked, tables, answers>>

Next ==
  \/ BeginObservation
  \/ ObservationFails
  \/ \E sample \in Samples : ApplyIrfObservation(sample)
  \/ Tick

Spec == Init /\ [][Next]_vars

------------------------------------------------------------------------------
(* irf_summary.py *)

Start(w) == (w - 1) * Week
End(w) == w * Week
Weeks == 1 .. MaxTime \div Week + 1

\* Only the beginning of the week is looked at.
InWeek_Faulty(w, t) == Start(w) <= t
InWeek(w, t) == Start(w) <= t /\ t < End(w)

\* A member's rows of the week, by their ids.
IsOf(w, m, row) == row.member = m /\ InWeek(w, row.at)
RowsOf(w, m) == {k \in DOMAIN rows : IsOf(w, m, rows[k])}

Window(started_at, reappeared_at) ==
  [started_at |-> started_at, reappeared_at |-> reappeared_at]

\* A window that ended inside the week is not kept.
TakeRow_Faulty(state, row) ==
  CASE row.observed /\ state.open # Never ->
         [open |-> Never, windows |-> state.windows]
    [] ~row.observed /\ state.open = Never -> [state EXCEPT !.open = row.at]
    [] OTHER -> state

TakeRow(state, row) ==
  CASE row.observed /\ state.open # Never ->
         [open |-> Never, windows |-> Append(state.windows, Window(state.open, row.at))]
    [] ~row.observed /\ state.open = Never -> [state EXCEPT !.open = row.at]
    [] OTHER -> state

\* The loop over the member's rows; the last window may still be open.
MissingWindows(w, m) ==
  LET state[k \in 0 .. Len(rows)] ==
        IF k = 0 THEN [open |-> Never, windows |-> <<>>]
        ELSE IF IsOf(w, m, rows[k]) THEN TakeRow(state[k - 1], rows[k]) ELSE state[k - 1]
      last == state[Len(rows)]
  IN IF last.open # Never
     THEN Append(last.windows, Window(last.open, Never))
     ELSE last.windows

MissingAtPeriodEnd(w, m) ==
  RowsOf(w, m) # {} /\ ~rows[Max(RowsOf(w, m))].observed

RoleChanges(w) ==
  {[member |-> rows[k].member, at |-> rows[k].at,
    previous_role |-> rows[k].previous_role, new_role |-> rows[k].role] :
      k \in {i \in DOMAIN rows : rows[i].role_changed /\ InWeek(w, rows[i].at)}}

\* Members seen by the latest observation of the week; Never if there was none.
ObservedCount(w) ==
  LET times == {rows[k].at : k \in DOMAIN rows} \intersect Start(w) .. End(w) - 1
  IN IF times = {} THEN Never
     ELSE Cardinality({k \in DOMAIN rows : rows[k].at = Max(times) /\ rows[k].observed})

\* _overall_status, as far as this fabric decides it.
IrfStatus(w) ==
  IF \E m \in Members : MissingAtPeriodEnd(w, m)
  THEN "abnormal"
  ELSE IF \E m \in Members : MissingWindows(w, m) # <<>> THEN "attention" ELSE "normal"

------------------------------------------------------------------------------
(* Properties. *)

\* The answers of a week, and whether the fabric had ever listed a member by then.
AnswersOf(w) == {k \in DOMAIN answers : InWeek(w, answers[k].at)}
Lists(k, m) == m \in DOMAIN answers[k].sample
ListedBy(k, m) == \E i \in 1 .. k : Lists(i, m)
Lacks(k, m) == ListedBy(k, m) /\ ~Lists(k, m)

\* A week is abnormal exactly if its last answer lacked a member the fabric had listed
\* before: a failed observation, a week without any, or a member never seen makes nothing
\* missing (irf.py:16-18, irf_summary.py:15-22).
MissingMeansReportedAbsent ==
  \A w \in Weeks :
    IrfStatus(w) = "abnormal" <=>
      AnswersOf(w) # {} /\ \E m \in Members : Lacks(Max(AnswersOf(w)), m)

\* A missing window is a maximal run of the week's answers that lack the member, and
\* ends with the answer that listed it again (irf_summary.py:11-14).
WindowsAreRuns ==
  \A w \in Weeks, m \in Members :
    LET lacking == {k \in AnswersOf(w) : Lacks(k, m)}
        opening == {k \in lacking : k - 1 \notin lacking}
        returns(k) == {i \in AnswersOf(w) : i > k /\ Lists(i, m)}
    IN ToSet(MissingWindows(w, m)) =
         {Window(answers[k].at, IF returns(k) = {} THEN Never
                                ELSE answers[Min(returns(k))].at) : k \in opening}

\* A role change is recorded exactly where a listed role differs from the last one
\* recognized before, over absences, unrecognized roles and failed observations
\* (irf.py:13-15).
RoleChangesAreReliable ==
  \A k \in DOMAIN rows :
    LET row == rows[k]
        earlier == {i \in DOMAIN answers : /\ answers[i].at < row.at /\ Lists(i, row.member)
                                           /\ answers[i].sample[row.member] # NoRole}
        before == answers[Max(earlier)].sample[row.member]
    IN /\ row.role_changed <=> row.role # NoRole /\ earlier # {} /\ before # row.role
       /\ row.role_changed => row.previous_role = before

\* Once the last answer of a week is in, nothing changes what a report of it says: its
\* windows, who is missing at its end, its role changes, its count and its status. Reports
\* are scheduled ten minutes after the week, an observation takes less than one
\* (ssh.py:51-52, schedule.py).
Summary(w) ==
  [windows |-> [m \in Members |-> MissingWindows(w, m)], changes |-> RoleChanges(w),
   count |-> ObservedCount(w), status |-> IrfStatus(w)]

SummaryIsSettled ==
  [][\A w \in Weeks : now > End(w) + MaxAnswer => Summary(w)' = Summary(w)]_vars

================================================================================
