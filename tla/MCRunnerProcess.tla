---------------------------- MODULE MCRunnerProcess ----------------------------
(* RunnerProcess with a few requests and shells, for TLC. *)
EXTENDS RunnerProcess

CONSTANTS p, q, x, y   \* requests, shells
=============================================================================
