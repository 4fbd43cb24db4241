------------------------------ MODULE MCDatabase -------------------------------
(* Instances of Database for TLC. *)
EXTENDS Database, TLC

CONSTANTS small, large, huge

\* A value below MaxValueBytes, one of just that length, and one that is over it.
MCLength == (small :> 1) @@ (large :> 2) @@ (huge :> 3)
================================================================================
