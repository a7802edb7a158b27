------------------------------- MODULE MCDiscovery -------------------------------
(***************************************************************************)
(* Discovery for TLC. No definition of it prefers one ifIndex, or one      *)
(* aggregation, to another, and only safety is checked.                    *)
(***************************************************************************)
EXTENDS Discovery, TLC

Interchangeable == Permutations(Indexes) \union Permutations(Lags)

================================================================================
