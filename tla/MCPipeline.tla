----------------------------- MODULE MCPipeline -----------------------------
(* Two events of one aggregate, two forwarders.                            *)
EXTENDS Pipeline

CONSTANTS p, q, a, t

MCRow == 1..2
MCAggOf == [r \in Row |-> a]
MCTopicOf == [r \in Row |-> t]
MCSubscribed == [x \in Replica |-> {t}]
=============================================================================
