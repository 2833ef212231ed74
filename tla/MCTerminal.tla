------------------------------- MODULE MCTerminal -------------------------------
(* Terminal with a few runners and shells, for TLC. *)
EXTENDS Terminal

CONSTANTS r1, r2, r3, i1, i2, i3   \* runners, shells
=============================================================================
