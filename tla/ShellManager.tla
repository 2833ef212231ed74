------------------------------ MODULE ShellManager ------------------------------
(***************************************************************************)
(* The shells of a runner: ShellManager (runner/shell_manager.go) and the  *)
(* handlers that use it (runner/handler.go).  The map of shells has a      *)
(* mutex, under which nothing is waited for; each shell has its own, which *)
(* a command holds while it runs and Close waits for.  So a shell is taken *)
(* out of the map first and closed later, while whoever got it from the    *)
(* map before may still use it.                                            *)
(*                                                                         *)
(* A request is handled in the steps that lie between two lockings.  One   *)
(* that left no command to be answered makes room for another, which comes *)
(* from anywhere.  What a shell does is what ShellSession promises.        *)
(***************************************************************************)
CONSTANTS
    Request,  \* requests to /api/shell and /api/execute
    Shell,    \* shell ids; Create draws a fresh one
    Main,     \* CloseAll, called by the main goroutine
    None      \* no request, no shell

ASSUME NamesAssumption ==
    Main \notin Request /\ None \notin Request \cup {Main} /\ None \notin Shell

VARIABLES
    shells,  \* m.shells: the ids in the map
    at,      \* at[r]: where the handler of r is
    target,  \* target[r]: its shell
    answer,  \* answer[r]: how its command ended: "none", "ran" or "error"
    life,    \* life[i]: "unused", "open", "exit" while Close waits, or "closed"
    holder,  \* holder[i]: who has the mutex of the shell
    broken   \* shells that refuse every further command

requestVars == <<at, target, answer>>
sessionVars == <<life, holder, broken>>
shellVars == <<shells, requestVars, sessionVars>>

Stages == {"idle", "insert", "get", "run", "remove", "close", "done"}

ShellTypeOK ==
    /\ shells \in SUBSET Shell
    /\ at \in [Request -> Stages]
    /\ target \in [Request -> Shell \cup {None}]
    /\ answer \in [Request -> {"none", "ran", "error"}]
    /\ life \in [Shell -> {"unused", "open", "exit", "closed"}]
    /\ holder \in [Shell -> Request \cup {Main, None}]
    /\ broken \in SUBSET Shell

ShellInit ==
    /\ shells = {}
    /\ at = [r \in Request |-> "idle"]
    /\ target = [r \in Request |-> None]
    /\ answer = [r \in Request |-> "none"]
    /\ life = [i \in Shell |-> "unused"]
    /\ holder = [i \in Shell |-> None]
    /\ broken = {}

Goto(r, stage) == at' = [at EXCEPT ![r] = stage] /\ UNCHANGED <<target, answer>>

Enter(r, stage, i) ==
    /\ at' = [at EXCEPT ![r] = stage] /\ target' = [target EXCEPT ![r] = i]
    /\ UNCHANGED answer

\* The handler of r answers, and is over.
Respond(r) == Enter(r, "idle", None)

\* So is one that ran a command.
Complete(r, what) ==
    /\ at' = [at EXCEPT ![r] = "done"] /\ answer' = [answer EXCEPT ![r] = what]
    /\ UNCHANGED target

Active(r) == at[r] \notin {"idle", "done"}

-----------------------------------------------------------------------------
(* POST /api/shell.                                                        *)

\* bash is started before the map is locked; if that fails nothing is left.
Create(r) ==
    /\ at[r] = "idle"
    /\ \E i \in Shell :
        /\ life[i] = "unused"
        /\ life' = [life EXCEPT ![i] = "open"]
        /\ Enter(r, "insert", i)
    /\ UNCHANGED <<shells, holder, broken>>

\* The id is fresh, so it is not in the map.
Insert(r) ==
    /\ at[r] = "insert"
    /\ shells' = shells \cup {target[r]}
    /\ Respond(r)
    /\ UNCHANGED sessionVars

-----------------------------------------------------------------------------
(* POST /api/execute and DELETE /api/shell, with the cookie of a shell;    *)
(* without one they are refused.                                           *)

Arrive(r, stage) ==
    /\ at[r] = "idle"
    /\ \E i \in Shell : Enter(r, stage, i)
    /\ UNCHANGED <<shells, sessionVars>>

\* Get.  The body and the client's address are looked at once the shell is
\* found.
Get(r) ==
    /\ at[r] = "get"
    /\ Respond(r) \/ (target[r] \in shells /\ Goto(r, "run"))
    /\ UNCHANGED <<shells, sessionVars>>

\* Who looks at the shell before the command takes its turn.
Usable(i) == life[i] = "open" /\ i \notin broken

\* ExecuteStream takes its turn, and ends at once if the shell is broken,
\* closed or the client gone; a write to a closed shell leaves it broken.
Begin(r) ==
    /\ at[r] = "run" /\ holder[target[r]] = None
    /\ \/ /\ Usable(target[r])
          /\ holder' = [holder EXCEPT ![target[r]] = r]
          /\ UNCHANGED <<requestVars, broken>>
       \/ /\ Complete(r, "error") /\ broken' \in {broken, broken \cup {target[r]}}
          /\ UNCHANGED holder
    /\ UNCHANGED <<shells, life>>

\* The command has ended.  The client is told of an exit code in any case.
End(r) ==
    /\ at[r] = "run" /\ holder[target[r]] = r
    /\ holder' = [holder EXCEPT ![target[r]] = None]
    /\ \/ Complete(r, "ran") /\ UNCHANGED broken
       \/ Complete(r, "error") /\ broken' \in {broken, broken \cup {target[r]}}
    /\ UNCHANGED <<shells, life>>

\* A slip: a shell is forgotten only when it is closed.
Kept(i) == UNCHANGED shells
Taken(i) == shells' = shells \ {i}

\* Delete, up to the point where it unlocks the map.
Remove(r) ==
    /\ at[r] = "remove"
    /\ \/ target[r] \notin shells /\ Respond(r) /\ UNCHANGED shells
       \/ target[r] \in shells /\ Goto(r, "close") /\ Taken(target[r])
    /\ UNCHANGED sessionVars

\* A slip: a shell is closed while a command runs.
FreeAnyway(i) == TRUE

\* Nobody has the shell.
Free(i) == holder[i] = None

\* Close takes its turn and writes "exit" ...
BeginClose(who, i) ==
    /\ Free(i)
    /\ holder' = [holder EXCEPT ![i] = who]
    /\ life' = [life EXCEPT ![i] = "exit"]
    /\ UNCHANGED <<shells, requestVars, broken>>

\* ... and waits for bash.
EndClose(who, i) ==
    /\ holder[i] = who /\ life[i] = "exit"
    /\ holder' = [holder EXCEPT ![i] = None]
    /\ life' = [life EXCEPT ![i] = "closed"]
    /\ UNCHANGED broken

Close(r) ==
    /\ at[r] = "close"
    /\ \/ BeginClose(r, target[r])
       \/ EndClose(r, target[r]) /\ Respond(r) /\ UNCHANGED shells

-----------------------------------------------------------------------------
Accept(r) == Create(r) \/ Arrive(r, "get") \/ Arrive(r, "remove")

Handle(r) == Insert(r) \/ Get(r) \/ Begin(r) \/ End(r) \/ Remove(r) \/ Close(r)

-----------------------------------------------------------------------------
(* Properties.                                                             *)

Runs(r) == at[r] = "run" /\ holder[target[r]] = r

\* Shell i for those who call it.
Turn(i) == IF life[i] = "exit" THEN Main ELSE holder[i]

Sees(r, i) ==
    IF target[r] # i THEN "wait"
    ELSE IF Runs(r) THEN "run"
    ELSE IF answer[r] = "ran" THEN "ok"
    ELSE IF answer[r] = "error" THEN "error" ELSE "wait"

Closing(i) == IF life[i] = "exit" THEN "exit" ELSE IF life[i] = "closed" THEN "done" ELSE "wait"

Session(i) == INSTANCE ShellSession WITH
    Call <- Request, Closer <- Main, holder <- Turn(i), state <- [r \in Request |-> Sees(r, i)],
    broken <- i \in broken, closed <- Closing(i)

\* The map and the handlers use every shell as it allows.  It is closed once,
\* by a DELETE, by one of two, or at shutdown; and once it is, no command runs
\* in it, not even for a request that got it from the map before.
ShellsKeepPromise ==
    /\ \A i \in Shell : Session(i)!Init
    /\ [][\A i \in Shell : Session(i)!Next \/ UNCHANGED Session(i)!vars]_shellVars

=============================================================================
