----------------------------- MODULE MCJobLease -----------------------------
(* Two instances of a job; the instances are interchangeable.              *)
EXTENDS JobLease, TLC

CONSTANTS p, q

Interchangeable == Permutations(Instance)
=============================================================================
