-------------------------------- MODULE MCDemoApp --------------------------------
(* DemoApp with a few PUTs and a connection, for TLC. *)
EXTENDS DemoApp

CONSTANTS p, q, r, c   \* PUTs, the connection
=============================================================================
