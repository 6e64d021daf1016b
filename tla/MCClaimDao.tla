----------------------------- MODULE MCClaimDao -----------------------------
(* Two events of one aggregate, of different types, and one without an     *)
(* aggregate. Replica p subscribes to both types, q only to the second:    *)
(* for q the first event of the aggregate is never in the way.             *)
EXTENDS ClaimDao

CONSTANTS p, q, a, t1, t2

MCRow == 1..3
MCAggOf == [r \in MCRow |-> IF r = 3 THEN NoAgg ELSE a]
MCTopicOf == [r \in MCRow |-> IF r = 1 THEN t1 ELSE t2]
MCSubscribed == [x \in {p, q} |-> IF x = p THEN {t1, t2} ELSE {t2}]

(* The outbox is claimed without a topic filter.                           *)
MCEverything == [x \in {p, q} |-> {t1, t2}]
=============================================================================
