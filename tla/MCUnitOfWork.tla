---------------------------- MODULE MCUnitOfWork ----------------------------
(* Two callers of transaction(), p careful and q not.                      *)
EXTENDS UnitOfWork

CONSTANTS p, q

MCCallsOf == [w \in Worker |-> IF w = p THEN 1 ELSE 2]
MCOnce == [w \in Worker |-> 1]
=============================================================================
