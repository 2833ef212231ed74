----------------------------- MODULE MCBashShell -----------------------------
(* BashShell with a few calls, for TLC. *)
EXTENDS BashShell, TLC

CONSTANTS p, q, r   \* calls

Calls == Permutations(Call)
=============================================================================
