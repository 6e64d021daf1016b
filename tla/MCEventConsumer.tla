-------------------------- MODULE MCEventConsumer --------------------------
(* Two or three events of one aggregate; two replicas of one service.      *)
EXTENDS EventConsumer, TLC

CONSTANTS p, q, a, t

TwoRows == 1..2
ThreeRows == 1..3
MCAggOf == [r \in Row |-> a]
MCTopicOf == [r \in Row |-> t]
MCSubscribed == [x \in Replica |-> {t}]

(* Where neither replica may stop, they are interchangeable.               *)
Interchangeable == Permutations(Replica)
=============================================================================
