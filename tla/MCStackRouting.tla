----------------------------- MODULE MCStackRouting -----------------------------
(* StackRouting on a few stacks, for TLC. *)
EXTENDS StackRouting

CONSTANTS a, b, c, d, u, v   \* stacks, clients

Two == <<a, b>>
Three == <<a, b, c>>
Four == <<a, b, c, d>>
=============================================================================
