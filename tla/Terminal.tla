-------------------------------- MODULE Terminal --------------------------------
(***************************************************************************)
(* The browser terminal (front/src/terminal.ts, client.ts) and what it     *)
(* talks to: the session cookie, which nginx and the broker resolve to a   *)
(* runner, and the shell cookie, which names a shell of that runner.       *)
(*                                                                         *)
(* Two async functions of the page, connect and run, wait for answers; a   *)
(* page that goes away aborts them and sends a DELETE that outlives it.    *)
(* The server is seen from outside (Broker, StackRouting and ShellManager  *)
(* look inside): an answer is one of those they give.  A session is named  *)
(* by its runner; runners and shells that no cookie, request or answer     *)
(* names are used again, as others.                                        *)
(***************************************************************************)
EXTENDS Naturals

CONSTANTS
    Runner, Shell,
    None,       \* no cookie, no request, no answer
    Expire,     \* Set-Cookie with an expired shell_id
    MaxLoads    \* bound on the loads of the page

ASSUME TerminalAssumption ==
    /\ None \notin Runner \cup Shell /\ Expire \notin Shell \cup {None}
    /\ MaxLoads \in Nat \ {0}

VARIABLES
    loads,      \* loads of the page
    busy,       \* the input is disabled
    at,         \* where connect and run of this page are
    session,    \* the cookie session_id
    shell,      \* the cookie shell_id
    sent,       \* sent[a]: the cookies of the request that a has made
    answer,     \* answer[a]: the answer on its way
    deletes,    \* DELETEs of earlier pages under way
    rec,        \* rec[r]: the record of r: "busy", "stale" if r is lost, or "gone"
    home,       \* home[i]: the runner of shell i
    broken,     \* shells that refuse every command
    silent      \* the page lost its shell in a way nothing told it of

pageVars == <<loads, busy, at, session, shell, sent, answer, deletes>>
serverVars == <<rec, home, broken>>
vars == <<pageVars, serverVars, silent>>

Function == {"connect", "run"}
Cookies == [session : Runner \cup {None}, shell : Shell \cup {None}]
Answer == [ok : BOOLEAN, marked : BOOLEAN, session : Runner \cup {None}, shell : Shell \cup {None, Expire}]

\* None is no message.
ASSUME NoneAssumption == None \notin Cookies \cup Answer

\* Without Set-Cookie: the request was refused, or nothing came back.
Failed == [ok |-> FALSE, marked |-> FALSE, session |-> None, shell |-> None]

TypeOK ==
    /\ loads \in 1..MaxLoads /\ busy \in BOOLEAN /\ silent \in BOOLEAN
    /\ at \in [Function -> {"idle", "create", "delay", "exec", "stream"}]
    /\ session \in Runner \cup {None} /\ shell \in Shell \cup {None}
    /\ sent \in [Function -> Cookies \cup {None}]
    /\ answer \in [Function -> Answer \cup {None}]
    /\ deletes \in SUBSET [load : 1..MaxLoads, sent : Cookies \cup {None}, answer : Answer \cup {None}]
    /\ rec \in [Runner -> {"busy", "stale", "gone"}]
    /\ home \in [Shell -> Runner \cup {None}]
    /\ broken \in SUBSET Shell

Send(a) == [sent EXCEPT ![a] = [session |-> session, shell |-> shell]]

\* The page calls beginReconnect at once.
Init ==
    /\ loads = 1 /\ busy = TRUE /\ session = None /\ shell = None
    /\ at = [connect |-> "create", run |-> "idle"]
    /\ sent = [connect |-> [session |-> None, shell |-> None], run |-> None]
    /\ answer = [a \in Function |-> None] /\ deletes = {}
    /\ rec = [r \in Runner |-> "gone"] /\ home = [i \in Shell |-> None] /\ broken = {}
    /\ silent = FALSE

-----------------------------------------------------------------------------
(* The server.                                                             *)

InTransit ==
    ({sent[a] : a \in Function} \cup {answer[a] : a \in Function}
     \cup {d.sent : d \in deletes} \cup {d.answer : d \in deletes}) \ {None}

UsedRunners == {session} \cup {m.session : m \in InTransit}
UsedShells == {shell} \cup {m.shell : m \in InTransit}

\* One that nothing names; which one it is makes no difference.
Fresh(S) == IF S = {} THEN {} ELSE {CHOOSE x \in S : TRUE}

\* The runner of session s is lost and its record still there.
Stale(s) == s # None /\ rec[s] = "stale"

\* Where a request with session s may end up: at its runner, or at a new one.
\* A broker that finds the record of a lost one deletes it, and marks its
\* replacement if it has an idle runner.  If not, the request goes on to another
\* stack, whose broker does not know the session: that replacement is not marked.
Resolved(s) ==
    IF s # None /\ rec[s] = "busy"
    THEN {[runner |-> s, marked |-> FALSE, session |-> None, rec |-> rec, home |-> home]}
    ELSE {[runner |-> r, marked |-> m, session |-> r,
           rec |-> [x \in Runner |-> IF x = r THEN "busy" ELSE IF x = s THEN "gone" ELSE rec[x]],
           home |-> [i \in Shell |-> IF home[i] = r THEN None ELSE home[i]]]
            : r \in Fresh(Runner \ UsedRunners), m \in {FALSE, Stale(s)}}

Replies(a, m) == sent' = [sent EXCEPT ![a] = None] /\ answer' = [answer EXCEPT ![a] = m]

\* No runner is idle or something fails on the way, before the record of a lost
\* runner is deleted or after.
Refuse(a) ==
    /\ sent[a] # None /\ Replies(a, Failed)
    /\ LET s == sent[a].session IN
       \/ UNCHANGED <<rec, silent>>
       \/ /\ Stale(s) /\ rec' = [rec EXCEPT ![s] = "gone"]
          /\ silent' = (silent \/ at[a] = "exec")
    /\ UNCHANGED <<loads, busy, at, session, shell, deletes, home, broken>>

\* A shell is created at the runner, or that fails.
ServeCreate(a, ok) ==
    /\ sent[a] # None /\ at[a] = "create"
    /\ \E o \in Resolved(sent[a].session), i \in Fresh(Shell \ UsedShells) :
        /\ rec' = o.rec
        /\ home' = IF ok THEN [o.home EXCEPT ![i] = o.runner] ELSE o.home
        /\ broken' = IF ok THEN broken \ {i} ELSE broken
        /\ Replies(a, [ok |-> ok, marked |-> o.marked, session |-> o.session,
                       shell |-> IF ok THEN i ELSE None])
    /\ UNCHANGED <<loads, busy, at, session, shell, deletes, silent>>

\* The command starts if the runner has the shell.  A replacement may come with
\* a Set-Cookie that expires the shell; one of another stack is not told.
ServeExec(a) ==
    /\ sent[a] # None /\ at[a] = "exec"
    /\ \E o \in Resolved(sent[a].session), ok \in BOOLEAN, i \in {None, Expire} :
        /\ ok => sent[a].shell # None /\ o.home[sent[a].shell] = o.runner
        /\ i = Expire => o.marked
        /\ rec' = o.rec /\ home' = o.home
        /\ silent' = (silent \/ (Stale(sent[a].session) /\ ~o.marked))
        /\ Replies(a, [ok |-> ok, marked |-> o.marked, session |-> o.session, shell |-> i])
    /\ UNCHANGED <<loads, busy, at, session, shell, deletes, broken>>

\* The answer is lost on its way.
LoseAnswer(a) ==
    /\ answer[a] # None /\ answer' = [answer EXCEPT ![a] = Failed]
    /\ silent' = (silent \/ answer[a].marked)
    /\ UNCHANGED <<loads, busy, at, session, shell, sent, deletes, serverVars>>

\* The page does not look at the answer of a DELETE, marked or not.
ServeDelete(d) ==
    /\ d.sent # None
    /\ LET s == d.sent.session
           i == d.sent.shell IN
       /\ \/ /\ deletes' = deletes \ {d}
             /\ rec' = rec \/ (Stale(s) /\ rec' = [rec EXCEPT ![s] = "gone"])
             /\ UNCHANGED home
          \/ \E o \in Resolved(s) :
               LET there == i # None /\ o.home[i] = o.runner IN
               /\ rec' = o.rec
               /\ home' = IF there THEN [o.home EXCEPT ![i] = None] ELSE o.home
               /\ deletes' = (deletes \ {d}) \cup
                    {[d EXCEPT !.sent = None,
                               !.answer = [ok |-> there, marked |-> o.marked, session |-> o.session,
                                           shell |-> IF there THEN Expire ELSE None]]}
       /\ silent' = (silent \/ (Stale(s) /\ rec'[s] = "gone"))
    /\ UNCHANGED <<loads, busy, at, session, shell, sent, answer, broken>>

\* A runner that the browser has to do with is lost, or leaves and takes its
\* record with it.
Crash(r) ==
    /\ r \in UsedRunners /\ rec[r] = "busy" /\ rec' = [rec EXCEPT ![r] = "stale"]
    /\ UNCHANGED <<pageVars, home, broken, silent>>

Leave(r) ==
    /\ r \in UsedRunners /\ rec[r] = "busy" /\ rec' = [rec EXCEPT ![r] = "gone"]
    /\ silent' = TRUE
    /\ UNCHANGED <<pageVars, home, broken>>

\* A command of the page, or what it left behind, ends bash.
Break(i) ==
    /\ i = shell /\ home[i] # None /\ i \notin broken /\ broken' = broken \cup {i}
    /\ silent' = TRUE
    /\ UNCHANGED <<pageVars, rec, home>>

-----------------------------------------------------------------------------
(* The page.                                                               *)

\* A slip: an expired cookie is kept.
SetAnyway(m) ==
    /\ session' = IF m.session = None THEN session ELSE m.session
    /\ shell' = IF m.shell = None THEN shell ELSE m.shell

SetCookies(m) ==
    /\ session' = IF m.session = None THEN session ELSE m.session
    /\ shell' = CASE m.shell = None -> shell [] m.shell = Expire -> None [] OTHER -> m.shell

Hears(a) ==
    /\ answer[a] # None /\ SetCookies(answer[a])
    /\ UNCHANGED <<loads, deletes, serverVars, silent>>

Goto(a, stage) == at' = [at EXCEPT ![a] = stage]

Drop(a) == answer' = [answer EXCEPT ![a] = None]

\* A request with the cookies as they are once the answer is in.
Resend(a) == sent' = [sent EXCEPT ![a] = [session |-> session', shell |-> shell']]

\* createShell has failed in connect.  A slip: it is not retried.
GivesUp == at["connect"] = "create" /\ ~answer["connect"].ok /\ Goto("connect", "idle")
NotConnected == at["connect"] = "create" /\ ~answer["connect"].ok /\ Goto("connect", "delay")

Connected ==
    /\ Hears("connect") /\ Drop("connect") /\ UNCHANGED sent
    /\ at["connect"] = "create" /\ answer["connect"].ok
    /\ Goto("connect", "idle") /\ busy' = FALSE

ConnectFails ==
    /\ Hears("connect") /\ Drop("connect") /\ NotConnected /\ UNCHANGED <<sent, busy>>

\* The delay passes; it doubles with each failure, which makes no difference.
Retry ==
    /\ at["connect"] = "delay" /\ Goto("connect", "create") /\ sent' = Send("connect")
    /\ UNCHANGED <<loads, busy, session, shell, answer, deletes, serverVars, silent>>

\* A slip: run looks only at whether another run is under way.
NoRun == at["run"] = "idle"
MayRun == ~busy

Submit ==
    /\ MayRun /\ busy' = TRUE /\ Goto("run", "exec") /\ sent' = Send("run")
    /\ UNCHANGED <<loads, session, shell, answer, deletes, serverVars, silent>>

\* The mark counts before the status does.
Reassigned ==
    /\ Hears("run") /\ Drop("run") /\ at["run"] = "exec" /\ answer["run"].marked
    /\ Goto("run", "create") /\ Resend("run") /\ UNCHANGED busy

Executed ==
    /\ Hears("run") /\ Drop("run") /\ at["run"] = "exec" /\ ~answer["run"].marked
    /\ IF answer["run"].ok THEN Goto("run", "stream") /\ UNCHANGED busy
                           ELSE Goto("run", "idle") /\ busy' = FALSE
    /\ UNCHANGED sent

\* The events end, or break off.
StreamEnds ==
    /\ at["run"] = "stream" /\ Goto("run", "idle") /\ busy' = FALSE
    /\ UNCHANGED <<loads, session, shell, sent, answer, deletes, serverVars, silent>>

Recreated ==
    /\ Hears("run") /\ Drop("run") /\ at["run"] = "create" /\ answer["run"].ok
    /\ Goto("run", "idle") /\ busy' = FALSE /\ UNCHANGED sent

\* A slip: the input is given back without a shell.
GiveBack == at' = [at EXCEPT !["run"] = "idle"] /\ busy' = FALSE /\ UNCHANGED sent

\* run leaves the shell to connect, and the input disabled.
BeginReconnect ==
    /\ at' = [connect |-> "create", run |-> "idle"] /\ Resend("connect") /\ UNCHANGED busy

RecreateFails ==
    /\ Hears("run") /\ Drop("run") /\ at["run"] = "create" /\ ~answer["run"].ok
    /\ BeginReconnect

-----------------------------------------------------------------------------
(* The page is loaded again.                                               *)

\* What the old page was waiting for is aborted, and its DELETE goes out.
Reload ==
    /\ loads < MaxLoads /\ loads' = loads + 1
    /\ deletes' = deletes \cup
         {[load |-> loads, sent |-> [session |-> session, shell |-> shell], answer |-> None]}
    /\ busy' = TRUE /\ at' = [connect |-> "create", run |-> "idle"]
    /\ sent' = [connect |-> [session |-> session, shell |-> shell], run |-> None]
    /\ answer' = [a \in Function |-> None]
    /\ silent' = FALSE
    /\ UNCHANGED <<session, shell, serverVars>>

\* The DELETE is answered when the shell is closed, which may take as long as
\* a command in it.  The cookies are those of the page that is there by now.
DeleteAnswered(d) ==
    /\ d.answer # None /\ deletes' = deletes \ {d}
    /\ SetCookies(d.answer)
    /\ silent' = (silent \/ d.answer.session # None \/ (d.answer.shell = Expire /\ at["connect"] = "idle"))
    /\ UNCHANGED <<loads, busy, at, sent, answer, serverVars>>

-----------------------------------------------------------------------------
ConnectStep == Connected \/ ConnectFails \/ Retry

RunStep == Reassigned \/ Executed \/ StreamEnds \/ Recreated \/ RecreateFails

Serve(a) == Refuse(a) \/ (\E ok \in BOOLEAN : ServeCreate(a, ok)) \/ ServeExec(a)

Next ==
    \/ ConnectStep \/ RunStep \/ Submit \/ Reload
    \/ \E a \in Function : Serve(a) \/ LoseAnswer(a)
    \/ \E d \in deletes : ServeDelete(d) \/ DeleteAnswered(d)
    \/ \E r \in Runner : Crash(r) \/ Leave(r)
    \/ \E i \in Shell : Break(i)

\* Requests are answered, timers fire, commands end; a shell that is asked for
\* again and again is created at some time, and the page gets to know of it.
Fairness ==
    /\ WF_vars(ConnectStep) /\ WF_vars(RunStep) /\ \A a \in Function : WF_vars(Serve(a))
    /\ SF_vars(ServeCreate("connect", TRUE)) /\ SF_vars(Connected)

Spec == Init /\ [][Next]_vars

FairSpec == Spec /\ Fairness

-----------------------------------------------------------------------------
(* Properties.                                                             *)

\* The shell that the cookies name is there, as far as the server knows.
HasShell ==
    /\ session # None /\ shell # None /\ shell \notin broken
    /\ rec[session] # "gone" /\ home[shell] = session

\* Whoever can type has a shell, or will be told with the next command that it
\* is lost (terminal.ts, 183), unless it went away in a way that is not told: a
\* runner that left in order, a bash that the user ended, a replacement whose
\* mark was lost or that came from another stack, as the session's own had no
\* idle runner, or a late answer to the DELETE of the page before.
InputHasShell == ~busy /\ ~silent => HasShell

\* The input is disabled as long as connect or run is under way, and they are
\* not under way at once: neither takes the cookies of a shell from the other.
OneAtATime ==
    /\ (\E a \in Function : at[a] # "idle") => busy
    /\ \A a, b \in Function : at[a] # "idle" /\ at[b] # "idle" => a = b

\* The input comes back, whatever is lost on the way.
InputComesBack == busy ~> ~busy
=============================================================================
