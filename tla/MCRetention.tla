------------------------------ MODULE MCRetention ------------------------------
(***************************************************************************)
(* Retention for TLC. Whether a poll had data, and a high value, matters   *)
(* to the machine nowhere and to a report only in its week: outside it is  *)
(* enough to look at the lower value.                                      *)
(***************************************************************************)
EXTENDS Retention

DetailInTheWeeksOnly ==
  \A c \in Cycles :
    found[c] \in {"ssh", "high"} => \E w \in 1 .. Weeks : c \in CycleSlots(w)

================================================================================
