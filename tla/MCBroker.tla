------------------------------ MODULE MCBroker ------------------------------
(* Broker on small pools, for TLC. *)
EXTENDS Broker, TLC

CONSTANTS r1, r2, r3, q1, q2, q3   \* runner processes, requests

\* Runners are interchangeable, and so are requests; sound where no liveness
\* property is checked.
Symmetry == Permutations(Runner) \cup Permutations(Session)
=============================================================================
