--------------------------------- MODULE DemoApp ---------------------------------
(***************************************************************************)
(* The demo app (runner/app) and the file it is edited through: the        *)
(* handler of PUT /api/app/handler (runner/handler.go) replaces the        *)
(* module; the server (Bunshin/Server.pm) forks a process per connection;  *)
(* that one loads the module again if it has changed (Bunshin/App.pm) and  *)
(* has a child run it, with a deadline (Bunshin/ContentRunner.pm).         *)
(*                                                                         *)
(* A version of the file is named by the request that wrote it.  A version *)
(* may fail to compile; one that does may return, die, exit, never return, *)
(* leave a process behind that keeps the pipe open, or close it and go on. *)
(***************************************************************************)
CONSTANTS
    Put,      \* requests to replace the file
    Conn,     \* connections to the app
    Shipped,  \* the file of the image
    Bad,      \* versions that do not compile
    Part,     \* a file that is not written to its end
    None      \* no file, no answer

Version == Put \cup {Shipped}

ASSUME DemoAppAssumption ==
    Bad \subseteq Put /\ Shipped \notin Put /\ Part \notin Version /\ None \notin Version \cup {Part}

VARIABLES
    put,     \* where each PUT is
    tmp,     \* temporary files, by the request whose name they have
    file,    \* the file
    past,    \* versions that were replaced
    app,     \* the server process: "down", "init" or "serve"
    loaded,  \* the version it has loaded ...
    stamp,   \* ... and the one whose stat Module::Refresh keeps
    conn,    \* where the process of each connection is
    code,    \* the version it has loaded ...
    known,   \* ... and the one whose stat it keeps
    old,     \* versions that were replaced before it was forked
    child,   \* its child: "none", "runs", "closed", "wrote", "zombie" or "reaped"
    exit,    \* the child's end: "ok", "die" or "other"
    piped,   \* the tag in the pipe: "C", "E" or "none"
    held,    \* another process holds the pipe
    answer   \* "none", "page", "error" or "timeout"

fileVars == <<put, tmp, file, past>>
appVars == <<app, loaded, stamp>>
childVars == <<child, exit, piped, held>>
connVars == <<conn, code, known, old, childVars, answer>>
vars == <<fileVars, appVars, connVars>>

TypeOK ==
    /\ put \in [Put -> {"idle", "open", "written", "done", "failed"}]
    /\ tmp \in [Put -> Put \cup {Part, None}]
    /\ file \in Version \cup {Part} /\ past \subseteq Version \cup {Part}
    /\ app \in {"down", "init", "serve"}
    /\ loaded \in Version \cup {Part} /\ stamp \in Version \cup {Part}
    /\ conn \in [Conn -> {"idle", "refresh", "run", "read", "wait", "done"}]
    /\ code \in [Conn -> Version \cup {Part}] /\ known \in [Conn -> Version \cup {Part}]
    /\ old \in [Conn -> SUBSET (Version \cup {Part})]
    /\ child \in [Conn -> {"none", "runs", "closed", "wrote", "zombie", "reaped"}]
    /\ exit \in [Conn -> {"ok", "die", "other"}]
    /\ piped \in [Conn -> {"C", "E", "none"}] /\ held \in [Conn -> BOOLEAN]
    /\ answer \in [Conn -> {"none", "page", "error", "timeout"}]

Init ==
    /\ put = [p \in Put |-> "idle"] /\ tmp = [p \in Put |-> None]
    /\ file = Shipped /\ past = {}
    /\ app = "down" /\ loaded = Shipped /\ stamp = Shipped
    /\ conn = [c \in Conn |-> "idle"]
    /\ code = [c \in Conn |-> Shipped] /\ known = [c \in Conn |-> Shipped]
    /\ old = [c \in Conn |-> {}]
    /\ child = [c \in Conn |-> "none"] /\ exit = [c \in Conn |-> "other"]
    /\ piped = [c \in Conn |-> "none"] /\ held = [c \in Conn |-> FALSE]
    /\ answer = [c \in Conn |-> "none"]

-----------------------------------------------------------------------------
(* PUT /api/app/handler: writeHandlerAtomically.                           *)

\* A slip: one name for all of them.
OneTmp(p) == CHOOSE q \in Put : TRUE

\* The name has the process id and a counter in it.
Tmp(p) == p

PutStep(p, from, to) ==
    /\ put[p] = from /\ put' = [put EXCEPT ![p] = to]
    /\ UNCHANGED <<appVars, connVars>>

\* A request without an address, or with a body that is too large or breaks
\* off, is refused before it opens anything.
Open(p) ==
    /\ PutStep(p, "idle", "open")
    /\ tmp' = [tmp EXCEPT ![Tmp(p)] = Part] /\ UNCHANGED <<file, past>>

Write(p) ==
    /\ PutStep(p, "open", "written")
    /\ tmp' = [tmp EXCEPT ![Tmp(p)] = p] /\ UNCHANGED <<file, past>>

\* The disk is full: what was written so far stays.
WriteFails(p) == PutStep(p, "open", "failed") /\ UNCHANGED <<tmp, file, past>>

Rename(p) ==
    /\ PutStep(p, "written", "done") /\ tmp[Tmp(p)] # None
    /\ file' = tmp[Tmp(p)] /\ tmp' = [tmp EXCEPT ![Tmp(p)] = None]
    /\ past' = past \cup {file}

RenameFails(p) ==
    /\ PutStep(p, "written", "failed")
    /\ tmp' = [tmp EXCEPT ![Tmp(p)] = None] /\ UNCHANGED <<file, past>>

PutHandler(p) == Open(p) \/ Write(p) \/ WriteFails(p) \/ Rename(p) \/ RenameFails(p)

-----------------------------------------------------------------------------
(* The server process, which the supervisor starts.                        *)

\* use DaiKichijoji; a version that does not compile ends the process.
StartServer ==
    /\ app = "down" /\ file \notin Bad
    /\ app' = "init" /\ loaded' = file
    /\ UNCHANGED <<stamp, fileVars, connVars>>

\* The first refresh loads nothing: it takes stock of the files as they are.
InitRefresh ==
    /\ app = "init" /\ app' = "serve" /\ stamp' = file
    /\ UNCHANGED <<loaded, fileVars, connVars>>

EndServer ==
    /\ app # "down" /\ app' = "down"
    /\ UNCHANGED <<loaded, stamp, fileVars, connVars>>

\* The connection is accepted and its process forked.
AcceptConn(c) ==
    /\ app = "serve" /\ conn[c] = "idle"
    /\ conn' = [conn EXCEPT ![c] = "refresh"]
    /\ code' = [code EXCEPT ![c] = loaded] /\ known' = [known EXCEPT ![c] = stamp]
    /\ old' = [old EXCEPT ![c] = past]
    /\ UNCHANGED <<childVars, answer, fileVars, appVars>>

-----------------------------------------------------------------------------
(* The process of a connection.                                            *)

Goto(c, stage) == conn' = [conn EXCEPT ![c] = stage]

Respond(c, what) == Goto(c, "done") /\ answer' = [answer EXCEPT ![c] = what]

\* The request cannot be read.
BadRequest(c) ==
    /\ conn[c] = "refresh" /\ Respond(c, "error")
    /\ UNCHANGED <<code, known, old, childVars, fileVars, appVars>>

\* A slip: only the server's own refresh loads the file again.
Unchanged(c) == TRUE
UpToDate(c) == known[c] = file

\* Module::Refresh compares the stat of the file with the one it keeps.
Refresh(c) ==
    /\ conn[c] = "refresh"
    /\ IF UpToDate(c) THEN Goto(c, "run") /\ UNCHANGED <<code, known, answer>>
       ELSE /\ code' = [code EXCEPT ![c] = file] /\ known' = [known EXCEPT ![c] = file]
            /\ IF file \in Bad THEN Respond(c, "error") ELSE Goto(c, "run") /\ UNCHANGED answer
    /\ UNCHANGED <<old, childVars, fileVars, appVars>>

\* ContentRunner::run makes a pipe and forks; if that fails nothing is left.
Run(c) ==
    /\ conn[c] = "run"
    /\ \/ Goto(c, "read") /\ child' = [child EXCEPT ![c] = "runs"] /\ UNCHANGED answer
       \/ Respond(c, "error") /\ UNCHANGED child
    /\ UNCHANGED <<code, known, old, exit, piped, held, fileVars, appVars>>

\* _run_child: the content function returns or dies.
ChildWrites(c) ==
    /\ child[c] = "runs" /\ child' = [child EXCEPT ![c] = "wrote"]
    /\ \E e \in {"ok", "die"} :
        /\ exit' = [exit EXCEPT ![c] = e]
        /\ piped' = [piped EXCEPT ![c] = IF e = "ok" THEN "C" ELSE "E"]
    /\ UNCHANGED <<conn, code, known, old, held, answer, fileVars, appVars>>

\* It closes its end of the pipe and goes on: a plain exec does, and what it
\* execs ends as it likes, or not at all.
ChildCloses(c) ==
    /\ child[c] = "runs" /\ child' = [child EXCEPT ![c] = "closed"]
    /\ UNCHANGED <<conn, code, known, old, exit, piped, held, answer, fileVars, appVars>>

\* It leaves a process behind.
ChildForks(c) ==
    /\ child[c] = "runs" /\ held' = [held EXCEPT ![c] = TRUE]
    /\ UNCHANGED <<conn, code, known, old, child, exit, piped, answer, fileVars, appVars>>

ChildExits(c) ==
    /\ \/ child[c] = "wrote" /\ UNCHANGED exit
       \/ child[c] = "runs" /\ exit' = [exit EXCEPT ![c] = "other"]
       \/ child[c] = "closed" /\ \E e \in {"ok", "die", "other"} : exit' = [exit EXCEPT ![c] = e]
    /\ child' = [child EXCEPT ![c] = "zombie"]
    /\ UNCHANGED <<conn, code, known, old, piped, held, answer, fileVars, appVars>>

\* So does the one it left behind.
OtherExits(c) ==
    /\ held[c] /\ held' = [held EXCEPT ![c] = FALSE]
    /\ UNCHANGED <<conn, code, known, old, child, exit, piped, answer, fileVars, appVars>>

\* The pipe has no writer any more: the payload is complete.  The child is
\* left to end by itself, also if it has not written anything.
ReadToEnd(c) ==
    /\ conn[c] = "read" /\ child[c] \in {"closed", "wrote", "zombie"} /\ ~held[c]
    /\ Goto(c, "wait")
    /\ UNCHANGED <<code, known, old, childVars, answer, fileVars, appVars>>

\* A slip: the child is not killed.
LeftAlone(c) == UNCHANGED <<child, exit>>

Killed(c) ==
    IF child[c] = "zombie" THEN UNCHANGED <<child, exit>>
    ELSE child' = [child EXCEPT ![c] = "zombie"] /\ exit' = [exit EXCEPT ![c] = "other"]

\* The payload is given up, and with it what the child may have written.  A
\* read that fails takes the same way, and is reported as an error.
Deadline(c) ==
    /\ conn[c] = "read" /\ Goto(c, "wait") /\ Killed(c)
    /\ answer' = [answer EXCEPT ![c] = "timeout"]
    /\ UNCHANGED <<code, known, old, piped, held, fileVars, appVars>>

\* A slip: the result does not wait for the child.
NotAwaited(c) == child[c] # "none"
Awaited(c) == child[c] = "zombie"

\* waitpid, which has no deadline, and the result.
Wait(c) ==
    /\ conn[c] = "wait" /\ Awaited(c)
    /\ child' = IF child[c] = "zombie" THEN [child EXCEPT ![c] = "reaped"] ELSE child
    /\ IF answer[c] = "timeout" THEN Goto(c, "done") /\ UNCHANGED answer
       ELSE Respond(c, IF exit[c] = "ok" /\ piped[c] = "C" THEN "page" ELSE "error")
    /\ UNCHANGED <<code, known, old, exit, piped, held, fileVars, appVars>>

Child(c) == ChildWrites(c) \/ ChildCloses(c) \/ ChildForks(c) \/ ChildExits(c) \/ OtherExits(c)

Connection(c) == BadRequest(c) \/ Refresh(c) \/ Run(c) \/ ReadToEnd(c) \/ Deadline(c) \/ Wait(c)

Next ==
    \/ \E p \in Put : PutHandler(p)
    \/ StartServer \/ InitRefresh \/ EndServer
    \/ \E c \in Conn : AcceptConn(c) \/ Connection(c) \/ Child(c)

Spec == Init /\ [][Next]_vars

\* Processes are scheduled and deadlines pass; a child that has written its
\* answer exits, and one that still runs may do so for good, whether it has
\* closed the pipe or not.  The client sends its request or goes away.
Fairness ==
    \A c \in Conn : WF_vars(Connection(c)) /\ WF_vars(child[c] = "wrote" /\ ChildExits(c))

FairSpec == Spec /\ Fairness

-----------------------------------------------------------------------------
(* Properties.                                                             *)

\* PUTs that overlap never leave a file that is not the whole of one of them,
\* and so the app never loads one (handler.go, writeHandlerAtomically).
FileWhole == file # Part /\ Part \notin {code[c] : c \in Conn} \cup {loaded}

\* A page is of no version that had been replaced before its connection was
\* accepted, however old the server process is; unless that one missed a
\* change between loading the file and taking stock of it.
PageIsCurrent ==
    \A c \in Conn : answer[c] = "page" /\ code[c] = known[c] => code[c] \notin old[c]

\* When the page is answered the child is gone, killed or not, and a page of
\* its own is all that counts: not one that came too late.
NothingRuns ==
    \A c \in Conn : conn[c] = "done" =>
        /\ child[c] \in {"none", "reaped"}
        /\ answer[c] = "page" => exit[c] = "ok"

\* Every connection is answered although the code of the user never returns,
\* or leaves a process behind that keeps the pipe open, unless that code closes
\* the pipe and then never ends: to the reader this is an answer that is
\* complete, so nothing is killed and waitpid waits for good.
PageAnswered ==
    \A c \in Conn : <>[](child[c] = "closed") \/ (conn[c] = "refresh" ~> conn[c] = "done")
=============================================================================
