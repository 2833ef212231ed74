------------------------------ MODULE RunnerProcess ------------------------------
(***************************************************************************)
(* A runner process (runner/main.go) from its start to its end: it finds   *)
(* out who it is, registers with the broker, serves shells, supervises the *)
(* demo app, and on SIGTERM deregisters, waits for requests, closes the    *)
(* shells, waits for the supervisor and exits.  ShellManager and           *)
(* Supervisor are its parts; here are the main goroutine, the goroutine    *)
(* that listens for the signal during registration, and the deadline that  *)
(* deregistration and srv.Shutdown share.                                  *)
(***************************************************************************)
EXTENDS ShellManager, Supervisor, Naturals

CONSTANT MaxSignals   \* bound on the signals sent

ASSUME SignalsAssumption == MaxSignals \in Nat

VARIABLES
    main,       \* where the main goroutine is
    sig,        \* the signal channel, of capacity one, holds a signal
    signals,    \* signals sent so far
    listener,   \* the goroutine that listens while registering
    cancelled,  \* regCtx is cancelled
    expired,    \* the shutdown deadline has passed
    drained,    \* srv.Shutdown returned because no request was left
    sweep       \* shells that CloseAll is still to close

mainVars == <<main, sig, signals, listener, cancelled, expired, drained, sweep>>
vars == <<shellVars, supVars, mainVars>>

Phases == {"start", "register", "serve", "deregister", "shutdown", "closeAll", "sweep", "wait",
           "exited", "serveFailed", "failed"}

\* The process is gone.
Gone == main \in {"exited", "failed"}

MainTypeOK ==
    /\ main \in Phases
    /\ sig \in BOOLEAN /\ signals \in 0..MaxSignals
    /\ listener \in {"off", "listens", "holds", "done"}
    /\ cancelled \in BOOLEAN /\ expired \in BOOLEAN /\ drained \in BOOLEAN
    /\ sweep \in SUBSET Shell

TypeOK == ShellTypeOK /\ SupTypeOK /\ MainTypeOK

Init ==
    /\ ShellInit /\ SupInit
    /\ main = "start" /\ sig = FALSE /\ signals = 0 /\ listener = "off"
    /\ cancelled = FALSE /\ expired = FALSE /\ drained = FALSE /\ sweep = {}

-----------------------------------------------------------------------------
(* Signals.                                                                *)

\* SIGTERM or SIGINT arrives; a second one finds the channel full.
Signal ==
    /\ ~Gone /\ signals < MaxSignals
    /\ signals' = signals + 1 /\ sig' = TRUE
    /\ UNCHANGED <<shellVars, supVars, main, listener, cancelled, expired, drained, sweep>>

\* A slip: the signal is not put back.
ListenerKeeps ==
    /\ ~Gone
    /\ \/ /\ listener = "listens" /\ sig
          /\ sig' = FALSE /\ cancelled' = TRUE /\ listener' = "done"
       \/ /\ listener = "listens" /\ cancelled
          /\ listener' = "done" /\ UNCHANGED <<sig, cancelled>>
    /\ UNCHANGED <<shellVars, supVars, main, signals, expired, drained, sweep>>

\* The goroutine takes the signal, cancels the registration and puts it back,
\* unless the registration is over first.
ListenerStep ==
    /\ ~Gone
    /\ \/ /\ listener = "listens" /\ sig
          /\ sig' = FALSE /\ cancelled' = TRUE /\ listener' = "holds"
       \/ /\ listener = "holds" /\ ~sig
          /\ sig' = TRUE /\ listener' = "done" /\ UNCHANGED cancelled
       \/ /\ listener = "listens" /\ cancelled
          /\ listener' = "done" /\ UNCHANGED <<sig, cancelled>>
    /\ UNCHANGED <<shellVars, supVars, main, signals, expired, drained, sweep>>

-----------------------------------------------------------------------------
(* The main goroutine.                                                     *)

\* The identity cannot be resolved, or the environment lacks something.
Resolve ==
    \/ main' = "register" /\ listener' = "listens"
    \/ main' = "failed" /\ UNCHANGED listener

Start ==
    /\ main = "start" /\ Resolve
    /\ UNCHANGED <<shellVars, supVars, sig, signals, cancelled, expired, drained, sweep>>

\* The broker answers 201; the supervisor and the server are started.
Registered ==
    /\ main = "register" /\ main' = "serve"
    /\ cancelled' = TRUE /\ sup' = "start"
    /\ UNCHANGED <<shellVars, stop, leader, child, left, sig, signals, listener, expired, drained, sweep>>

\* The registration is given up.
GiveUp ==
    /\ main = "register" /\ cancelled /\ main' = "failed"
    /\ UNCHANGED <<shellVars, supVars, sig, signals, listener, cancelled, expired, drained, sweep>>

\* The signal, or the end of srv.Serve: the supervisor is told to stop.
Stop ==
    /\ main = "serve" /\ stop' = TRUE
    /\ \/ sig /\ sig' = FALSE /\ main' = "deregister"
       \/ main' = "serveFailed" /\ UNCHANGED sig
    /\ UNCHANGED <<shellVars, sup, leader, child, left, signals, listener, cancelled, expired, drained,
                   sweep>>

\* The deadline of what follows.
Expire ==
    /\ main \in {"deregister", "shutdown"} /\ ~expired /\ expired' = TRUE
    /\ UNCHANGED <<shellVars, supVars, main, sig, signals, listener, cancelled, drained, sweep>>

\* A slip: requests are not waited for.
DrainedAnyway == TRUE
Drained == \A r \in Request : ~Active(r)

\* The broker was told or not, which makes no difference here; srv.Shutdown
\* returns when no request is left, or at the deadline.
Shutdown ==
    /\ \/ main = "deregister" /\ main' = "shutdown" /\ UNCHANGED drained
       \/ main = "shutdown" /\ main' = "closeAll" /\ Drained /\ drained' = TRUE
       \/ main = "shutdown" /\ main' = "closeAll" /\ expired /\ UNCHANGED drained
    /\ UNCHANGED <<shellVars, supVars, sig, signals, listener, cancelled, expired, sweep>>

\* CloseAll takes the map and leaves an empty one, then closes shell by shell.
CloseAll ==
    /\ \/ /\ main = "closeAll" /\ main' = "sweep"
          /\ sweep' = shells /\ shells' = {}
          /\ UNCHANGED <<requestVars, sessionVars>>
       \/ /\ main = "sweep" /\ \E i \in sweep : BeginClose(Main, i)
          /\ \A i \in Shell : holder[i] # Main
          /\ UNCHANGED <<main, sweep>>
       \/ /\ main = "sweep" /\ \E i \in sweep : EndClose(Main, i) /\ sweep' = sweep \ {i}
          /\ UNCHANGED <<main, shells, requestVars>>
       \/ /\ main = "sweep" /\ sweep = {} /\ main' = "wait"
          /\ UNCHANGED <<shellVars, sweep>>
    /\ UNCHANGED <<supVars, sig, signals, listener, cancelled, expired, drained>>

\* The supervisor is done.
Exit ==
    /\ sup = "done"
    /\ \/ main = "wait" /\ main' = "exited"
       \/ main = "serveFailed" /\ main' = "failed"
    /\ UNCHANGED <<shellVars, supVars, sig, signals, listener, cancelled, expired, drained, sweep>>

-----------------------------------------------------------------------------
\* The server hands requests to handlers.  Shutdown takes no new connection,
\* but a request may still come on one that is open, and if Shutdown is given
\* up, as long as the process lives.
AcceptRequest(r) ==
    /\ main \notin {"start", "register"} /\ ~Gone /\ ~drained
    /\ Accept(r) /\ UNCHANGED <<supVars, mainVars>>

HandleRequest(r) == ~Gone /\ Handle(r) /\ UNCHANGED <<supVars, mainVars>>

Supervise == ~Gone /\ SupStep /\ UNCHANGED <<shellVars, mainVars>>

App == ~Gone /\ AppStep /\ UNCHANGED <<shellVars, mainVars>>

MainStep == Start \/ Registered \/ GiveUp \/ Stop \/ Shutdown \/ CloseAll \/ Exit

Next ==
    \/ Signal \/ ListenerStep \/ MainStep \/ Expire
    \/ \E r \in Request : AcceptRequest(r) \/ HandleRequest(r)
    \/ Supervise \/ App

\* Goroutines are scheduled, commands end, and the deadline passes.  The broker
\* need not answer, and the server need not fail.  An app that can be started
\* is, at some time.
Fairness ==
    /\ WF_vars(ListenerStep) /\ WF_vars(Expire)
    /\ WF_vars(Start \/ GiveUp \/ (sig /\ Stop) \/ Shutdown \/ CloseAll \/ Exit)
    /\ WF_vars(Supervise) /\ \A r \in Request : WF_vars(HandleRequest(r))
    /\ SF_vars(~Gone /\ StartApp /\ UNCHANGED <<shellVars, mainVars>>)

Spec == Init /\ [][Next]_vars

FairSpec == Spec /\ Fairness

-----------------------------------------------------------------------------
(* Properties.                                                             *)

\* Who is to close shell i: the map, CloseAll, or the handler that has not put
\* it into the map yet or has taken it out.
Owners(i) ==
    {None : j \in shells \cap {i}} \cup {Main : j \in sweep \cap {i}}
    \cup {r \in Request : target[r] = i /\ at[r] \in {"insert", "close"}}

\* A shell whose bash runs is never lost, and never closed by two: there is one
\* who will close it.  Create, Delete and CloseAll lock the map for the
\* handover only.
OneOwner ==
    \A i \in Shell :
        IF life[i] \in {"open", "exit"} THEN \E o \in Request \cup {Main, None} : Owners(i) = {o}
                                       ELSE Owners(i) = {}

\* A runner that shuts down in order leaves nothing behind: no app, unless its
\* leader ended by itself or the process ignores SIGTERM; and no shell,
\* unless the deadline passed while requests were still creating or closing it.
ExitLeavesNothing ==
    main = "exited" =>
        /\ leader = "none" /\ child = "none"
        /\ TRUE \notin left
        /\ \A i \in Shell : life[i] \in {"open", "exit"} =>
            ~drained /\ (i \in shells \/ \E r \in Request : target[r] = i /\ at[r] \in {"insert", "close"})

\* SIGTERM ends the process whenever it arrives: while the identity is being
\* resolved, in any step of the registration, between the registration and
\* run, or while requests are served.
SignalHeeded == signals > 0 ~> Gone

\* The demo app comes back whenever it ends, until the runner stops.
AppComesBack == sup # "off" /\ leader = "none" ~> leader # "none" \/ stop
=============================================================================
