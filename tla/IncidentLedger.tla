---------------------------- MODULE IncidentLedger ----------------------------
(***************************************************************************)
(* What the weekly report relies on when it reads Down incidents           *)
(* (reporting/incidents.py): the episodes of a device or an interface are  *)
(* disjoint and in order, at most the latest is open, and a recorded       *)
(* instant is never changed. A recovered_at of 0 is NULL.                  *)
(***************************************************************************)
EXTENDS Naturals

CONSTANT Subjects    \* the devices, or the interfaces

VARIABLE incidents

OpenIncident(s) ==
  \E new \in incidents'[s] :
    /\ new.recovered_at = 0
    /\ \A i \in incidents[s] : 0 < i.recovered_at /\ i.recovered_at < new.started_at
    /\ incidents'[s] = incidents[s] \union {new}

CloseIncident(s) ==
  \E open \in incidents[s], closed \in incidents'[s] :
    /\ open.recovered_at = 0
    /\ closed.started_at = open.started_at
    /\ closed.recovered_at > open.started_at
    /\ incidents'[s] = (incidents[s] \ {open}) \union {closed}

LedgerInit == \A s \in Subjects : incidents[s] = {}

\* One transaction may record something for several interfaces of a device.
LedgerNext ==
  \A s \in Subjects :
    OpenIncident(s) \/ CloseIncident(s) \/ incidents'[s] = incidents[s]

Ledger == LedgerInit /\ [][LedgerNext]_incidents
==============================================================================
