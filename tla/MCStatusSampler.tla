---------------------------- MODULE MCStatusSampler ----------------------------
(* Instances of StatusSampler for TLC. *)
EXTENDS StatusSampler

\* A tracked write, a tracked read, and a request that is not tracked.
MCRequests ==
  {[method |-> "DELETE", path |-> "key"], [method |-> "GET", path |-> "range"],
   [method |-> "other", path |-> "key"]}
================================================================================
