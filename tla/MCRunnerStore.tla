----------------------------- MODULE MCRunnerStore -----------------------------
(* RunnerStore on small pools, for TLC. *)
EXTENDS RunnerStore

CONSTANTS s1, s2   \* session ids
=============================================================================
