----------------------------- MODULE SessionPromise -----------------------------
(***************************************************************************)
(* What a login promises (SYSTEM_SPEC 21): a session begins once, serves   *)
(* only within seven days of its login and within twelve hours of an       *)
(* earlier use, and when it is over it stays over.                         *)
(***************************************************************************)
EXTENDS Naturals

CONSTANTS
  Tokens,      \* session ids
  Absolute,    \* lifetime of a session
  Idle         \* longest time between two uses

VARIABLES
  began,   \* when the login of a session was, or 0
  used,    \* the latest instant at which it served
  over     \* sessions that have ended

promised == <<began, used, over>>

Begin(t) ==
  /\ began[t] = 0 /\ began'[t] > 0
  /\ used'[t] = began'[t]
  /\ t \notin over'

Use(t) ==
  /\ began[t] > 0 /\ t \notin over /\ t \notin over'
  /\ began'[t] = began[t]
  /\ used'[t] >= used[t]
  /\ used'[t] < began[t] + Absolute
  /\ used'[t] < used[t] + Idle

End(t) ==
  /\ began[t] > 0 /\ t \notin over /\ t \in over'
  /\ began'[t] = began[t] /\ used'[t] = used[t]

Rest(t) ==
  /\ began'[t] = began[t] /\ used'[t] = used[t]
  /\ t \in over' <=> t \in over

PromiseInit == \A t \in Tokens : began[t] = 0 /\ t \notin over

\* One housekeeping transaction may end several sessions.
PromiseNext == \A t \in Tokens : Begin(t) \/ Use(t) \/ End(t) \/ Rest(t)

Sessions == PromiseInit /\ [][PromiseNext]_promised
==============================================================================
