----------------------------- MODULE MCRateLimiter -----------------------------
(* Instances of RateLimiter for TLC. *)
EXTENDS RateLimiter, TLC

\* A small bucket that can go into debt, overrides of some of the fields, and a
\* request that costs nothing to send.
MCDefault == [capacity |-> 3, refill |-> 1, flat |-> 1, write |-> 1, read |-> 2]
MCOverrides == {[refill |-> 0, capacity |-> 1], [flat |-> 0, read |-> 1]}

\* The server's settings (server/main.go:17-27), in eighths of a KiB.
MainDefault == [capacity |-> 8 * 10240, refill |-> 8 * 5120, flat |-> 8, write |-> 8, read |-> 1]
MainMaxValue == 51200

Symmetry == Permutations(Handlers)
================================================================================
