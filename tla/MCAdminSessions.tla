----------------------------- MODULE MCAdminSessions -----------------------------
(***************************************************************************)
(* AdminSessions for TLC. No definition prefers one token or one request   *)
(* to another, and only safety is checked.                                 *)
(***************************************************************************)
EXTENDS AdminSessions, TLC

Interchangeable == Permutations(Tokens) \union Permutations(Requests)

================================================================================
