---------------------------- MODULE ReportPromise ----------------------------
(***************************************************************************)
(* What the weekly report service promises about one document per week     *)
(* (SYSTEM_SPEC 4.4): the database records a newer generation of a week,   *)
(* and the downloadable document then becomes exactly that generation.     *)
(* Documents are named by the generation that produced their bytes; 0 is   *)
(* "none yet".                                                             *)
(***************************************************************************)
EXTENDS Naturals

CONSTANT Weeks

VARIABLES
  recorded,    \* the generation the database names as the week's success
  published    \* the generation whose bytes a download returns

promiseVars == <<recorded, published>>

PromiseInit ==
  /\ recorded = [w \in Weeks |-> 0]
  /\ published = [w \in Weeks |-> 0]

Record(w) ==
  /\ recorded'[w] > recorded[w]
  /\ recorded' = [recorded EXCEPT ![w] = recorded'[w]]
  /\ UNCHANGED published

Publish(w) ==
  /\ published[w] # recorded[w]
  /\ published' = [published EXCEPT ![w] = recorded[w]]
  /\ UNCHANGED recorded

PromiseNext == \E w \in Weeks : Record(w) \/ Publish(w)

Safety == PromiseInit /\ [][PromiseNext]_promiseVars

Delivery == \A w \in Weeks : recorded[w] # published[w] ~> recorded[w] = published[w]

Promise == Safety /\ Delivery
==============================================================================
