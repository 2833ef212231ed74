------------------------------- MODULE Supervisor -------------------------------
(***************************************************************************)
(* The supervisor of the demo app (runner/supervisor.go).  It starts the   *)
(* app in a process group of its own, starts it again when it exits, and   *)
(* ends the group when its context is cancelled: SIGTERM, and SIGKILL if   *)
(* the leader is still there after a grace period.                         *)
(*                                                                         *)
(* The app is the leader of the group and one of its children, a process   *)
(* that serves a connection; the code they run is edited by the user, so   *)
(* either may have stopped heeding SIGTERM ("deaf").                       *)
(***************************************************************************)
VARIABLES
    stop,    \* the context is cancelled
    sup,     \* where supervise is
    leader,  \* "none", "up" or "deaf"
    child,   \* the same, of a child of this leader
    left     \* a child that outlived its leader's end by SIGTERM: does it heed that?

supVars == <<stop, sup, leader, child, left>>

Process == {"none", "up", "deaf"}

SupTypeOK ==
    /\ stop \in BOOLEAN
    /\ sup \in {"off", "start", "watch", "grace", "sleep", "done"}
    /\ leader \in Process /\ child \in Process
    /\ left \in SUBSET BOOLEAN

SupInit == stop = FALSE /\ sup = "off" /\ leader = "none" /\ child = "none" /\ left = {}

\* The head of the loop, and the start of the app.
StartApp ==
    /\ sup = "start" /\ ~stop /\ leader' \in {"up", "deaf"}
    /\ sup' = "watch" /\ UNCHANGED <<stop, child, left>>

StartFails ==
    /\ sup = "start" /\ UNCHANGED <<stop, leader, child, left>>
    /\ sup' = IF stop THEN "done" ELSE "sleep"

\* A slip: the loop ends with the app.
ExitedForGood ==
    /\ sup = "watch" /\ leader = "none" /\ sup' = "done"
    /\ child' = "none" /\ UNCHANGED <<stop, leader, left>>

\* The leader has exited.  If the context is done as well, this may be seen
\* first.  A child goes on and nobody knows of it any more.
Exited ==
    /\ sup = "watch" /\ leader = "none"
    /\ sup' = IF stop THEN "done" ELSE "sleep"
    /\ child' = "none" /\ UNCHANGED <<stop, leader, left>>

\* A slip: the signal goes to the leader only.
TerminateLeader ==
    /\ sup = "watch" /\ stop /\ sup' = "grace"
    /\ leader' = IF leader = "up" THEN "none" ELSE leader
    /\ UNCHANGED <<stop, child, left>>

Terminate ==
    /\ sup = "watch" /\ stop /\ sup' = "grace"
    /\ leader' = IF leader = "up" THEN "none" ELSE leader
    /\ child' = IF child = "up" THEN "none" ELSE child
    /\ UNCHANGED <<stop, left>>

\* In the grace period the leader is seen to exit, or the group is killed.
Reap ==
    /\ sup = "grace" /\ sup' = "done" /\ leader' = "none" /\ child' = "none"
    /\ \/ leader = "none" /\ left' = IF child = "none" THEN {} ELSE {child = "up"}
       \/ UNCHANGED left
    /\ UNCHANGED stop

\* The restart delay passes, or the context is done.
Wake ==
    /\ sup = "sleep" /\ sup' = IF stop THEN "done" ELSE "start"
    /\ UNCHANGED <<stop, leader, child, left>>

\* The app on its own: processes end, and the leader forks.
AppStep ==
    /\ \/ leader # "none" /\ leader' = "none" /\ UNCHANGED child
       \/ leader = "up" /\ child = "none" /\ child' \in {"up", "deaf"} /\ UNCHANGED leader
       \/ child # "none" /\ child' = "none" /\ UNCHANGED leader
    /\ UNCHANGED <<stop, sup, left>>

SupStep == StartApp \/ StartFails \/ Exited \/ Terminate \/ Reap \/ Wake
=============================================================================
