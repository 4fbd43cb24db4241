--------------------------- MODULE MCDatabaseManager ---------------------------
(* Instances of DatabaseManager for TLC. *)
EXTENDS DatabaseManager, TLC

\* Keys are compared and nothing else, and handlers are interchangeable.
Symmetry == Permutations(ApiKeys \ Fragments) \cup Permutations(Handlers)
================================================================================
