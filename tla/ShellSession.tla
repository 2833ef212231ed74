------------------------------ MODULE ShellSession ------------------------------
(***************************************************************************)
(* What a Shell promises to those who call it (runner/shell.go, interface  *)
(* Shell): calls take turns; a call that began runs alone until it ends,   *)
(* with an answer or an error; a session that is left broken refuses every *)
(* call from then on, and so does one that Close is done with.  How bash   *)
(* is driven is not seen here; BashShell implements it.                    *)
(***************************************************************************)
CONSTANTS
    Call,    \* calls of ExecuteStream
    None,    \* nobody
    Closer   \* the call of Close

VARIABLES
    holder,  \* whose turn it is: a call, Closer, or None
    state,   \* state[c]: "wait", "run", "ok" or "error"
    broken,  \* the session lost its place, and must not be used if left so
    closed   \* where Close is: "wait", "exit" or "done"

vars == <<holder, state, broken, closed>>

Init ==
    /\ holder = None /\ state = [c \in Call |-> "wait"]
    /\ broken = FALSE /\ closed = "wait"

Begin(c) ==
    /\ holder = None /\ state[c] = "wait" /\ ~broken /\ closed # "done"
    /\ holder' = c /\ state' = [state EXCEPT ![c] = "run"]
    /\ UNCHANGED <<broken, closed>>

\* The call does not begin; it may find that the session is of no use any more.
Refuse(c) ==
    /\ holder = None /\ state[c] = "wait"
    /\ state' = [state EXCEPT ![c] = "error"]
    /\ broken' \in {broken, TRUE}
    /\ UNCHANGED <<holder, closed>>

\* A call that cannot hand on its answer goes on, and drops what it reads.
Drain(c) ==
    /\ holder = c /\ state[c] = "run"
    /\ broken' = TRUE
    /\ UNCHANGED <<holder, state, closed>>

\* An answer is complete, and the session in step.  A call that ends with an
\* error may leave it broken, or have drained it.
End(c) ==
    /\ holder = c /\ state[c] = "run" /\ holder' = None
    /\ \/ ~broken /\ ~broken' /\ state' = [state EXCEPT ![c] = "ok"]
       \/ broken' \in BOOLEAN /\ state' = [state EXCEPT ![c] = "error"]
    /\ UNCHANGED closed

Close ==
    /\ \/ closed = "wait" /\ holder = None /\ closed' = "exit" /\ holder' = Closer
       \/ closed = "exit" /\ holder = Closer /\ closed' = "done" /\ holder' = None
    /\ UNCHANGED <<state, broken>>

Next == Close \/ \E c \in Call : Begin(c) \/ Refuse(c) \/ Drain(c) \/ End(c)

Spec == Init /\ [][Next]_vars
=============================================================================
