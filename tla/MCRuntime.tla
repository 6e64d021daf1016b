------------------------------ MODULE MCRuntime ------------------------------
(* Two workers that drain together, then the database they use.            *)
EXTENDS Runtime

CONSTANTS consumer, forwarder, database

MCPhases == <<{consumer, forwarder}, {database}>>
=============================================================================
