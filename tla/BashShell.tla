------------------------------ MODULE BashShell ------------------------------
(***************************************************************************)
(* One persistent bash session (runner/shell.go) and the bash it drives.   *)
(*                                                                         *)
(* A call of ExecuteStream writes a script to the stdin of bash: the       *)
(* command, a line that saves its exit code, and lines that print a marker *)
(* to stderr and, after an empty line, to stdout.  The call reads stdout   *)
(* until the marker, another goroutine reads stderr, and both meet when    *)
(* the stderr marker was seen.  Calls and Close take turns by a mutex; a   *)
(* session that lost track of where an answer ends is marked broken.       *)
(*                                                                         *)
(* Bash is modelled by what a command can do to the protocol; the content  *)
(* of lines by who wrote them and whether they are empty, too long for the *)
(* scanner, or a marker (of a call: markers hold a time of creation).      *)
(* The lines that reload the environment print nothing and change nothing  *)
(* here.  A script is assumed to fit in the pipe.                          *)
(***************************************************************************)
EXTENDS Integers, Sequences

CONSTANTS
    Call,     \* calls of ExecuteStream, one command each
    Code,     \* exit codes
    MaxOut,   \* bound on the lines a command writes to stdout
    MaxErr,   \* bound on the lines a command writes to stderr
    PipeCap,  \* lines that fit in the stdout pipe
    None,     \* no call
    Closer,   \* the call of Close
    Habits    \* what commands do in this instance, apart from writing lines

HabitKinds == {
    "reads",    \* takes lines from stdin, which it shares with bash
    "exits",    \* ends bash
    "mutes",    \* sends the stderr of bash elsewhere
    "strays",   \* leaves a process behind that goes on writing
    "overlong"} \* writes a line longer than the scanner takes

ASSUME ConstantsAssumption ==
    /\ MaxOut \in Nat /\ MaxErr \in Nat /\ PipeCap \in Nat \ {0}
    /\ None \notin Call \cup {Closer} /\ Closer \notin Call
    /\ None \notin Code /\ 0 \in Code
    /\ Habits \subseteq HabitKinds

VARIABLES
    lock,         \* mu: the call that holds it, Closer, or None
    pc,           \* pc[c]: where call c is
    cancelled,    \* cancelled[c]: its context is done
    broken,       \* the session is marked as desynchronized
    pending,      \* pendingEmpty: the empty line held back, if any
    sendErr,      \* a line could not be sent: the rest is drained
    exitCode,     \* what the stdout marker said
    sent,         \* sent[c]: the lines sent to stdoutCh
    answer,       \* answer[c]: what the call returned
    stderrBuf, stderrMarker,
    stderrDone,   \* the channel of the current call is closed
    closer,       \* where Close is
    stdin, stdout, stderr,  \* the pipes
    bash          \* the process

locals == <<pending, sendErr, exitCode>>
results == <<sent, answer>>
stderrVars == <<stderrBuf, stderrMarker, stderrDone>>
runner == <<lock, pc, cancelled, broken, locals, results, stderrVars, closer>>
vars == <<runner, stdin, stdout, stderr, bash>>

\* What goes through the pipes.  `by` is the command that wrote it.
Written == [by : Call \cup {None}, text : {"line", "empty", "overlong"}]
ASSUME NoneIsNoLine == None \notin Written
Marker == [by : Call, text : {"marker"}, code : Code \cup {None}]
Script == [by : Call, text : {"command", "save", "errMarker", "blank", "outMarker"}]
          \cup [by : {Closer}, text : {"exit"}]

\* The process: running a command or reading its stdin, $?, __ec, an
\* unfinished line on stdout (by its writer), processes left behind, and what
\* the commands did: the lines they wrote, the codes they ended with, and who
\* took lines of the script.
Bash == [alive : BOOLEAN, running : Call \cup {None}, status : Code, ec : Code \cup {None},
         open : Call \cup {None}, muted : BOOLEAN,
         strays : [Call -> {"none", "running", "ended"}],
         out : [Call -> Seq({"line", "empty", "overlong"})], err : [Call -> 0..MaxErr],
         code : [Call -> Code \cup {None}], took : SUBSET Call]

NoAnswer == [kind |-> "none", code |-> None, stderr |-> <<>>]
ErrorAnswer == [NoAnswer EXCEPT !.kind = "error"]
Answer == {NoAnswer, ErrorAnswer}
          \cup [kind : {"ok"}, code : Code, stderr : Seq(Written \cup Marker)]

TypeOK ==
    /\ lock \in Call \cup {Closer, None}
    /\ pc \in [Call -> {"wait", "scan", "stderr", "done"}]
    /\ cancelled \in [Call -> BOOLEAN]
    /\ broken \in BOOLEAN /\ sendErr \in BOOLEAN /\ stderrDone \in BOOLEAN
    /\ pending \in Written \cup {None}
    /\ exitCode \in Code \cup {None}
    /\ sent \in [Call -> Seq(Written \cup Marker)]
    /\ answer \in [Call -> Answer]
    /\ stderrBuf \in Seq(Written \cup Marker) /\ stderrMarker \in Call \cup {None}
    /\ closer \in {"wait", "exit", "done"}
    /\ stdin \in Seq(Script)
    /\ stdout \in Seq(Written \cup Marker) /\ stderr \in Seq(Written \cup Marker)
    /\ bash \in Bash

Init ==
    /\ lock = None /\ pc = [c \in Call |-> "wait"] /\ cancelled = [c \in Call |-> FALSE]
    /\ broken = FALSE /\ pending = None /\ sendErr = FALSE /\ exitCode = None
    /\ sent = [c \in Call |-> <<>>] /\ answer = [c \in Call |-> NoAnswer]
    /\ stderrBuf = <<>> /\ stderrMarker = None /\ stderrDone = FALSE
    /\ closer = "wait"
    /\ stdin = <<>> /\ stdout = <<>> /\ stderr = <<>>
    /\ bash = [alive |-> TRUE, running |-> None, status |-> 0, ec |-> None, open |-> None,
               muted |-> FALSE, strays |-> [c \in Call |-> "none"],
               out |-> [c \in Call |-> <<>>], err |-> [c \in Call |-> 0],
               code |-> [c \in Call |-> None], took |-> {}]

-----------------------------------------------------------------------------
(* ExecuteStream.                                                          *)

\* A slip: an error path forgets to unlock.
ReturnLocked(c, res) ==
    /\ answer' = [answer EXCEPT ![c] = res]
    /\ pc' = [pc EXCEPT ![c] = "done"]
    /\ lock' = IF res = ErrorAnswer THEN c ELSE None
    /\ pending' = None /\ sendErr' = FALSE /\ exitCode' = None

\* Call c returns and unlocks; its local variables are gone.
Return(c, res) ==
    /\ answer' = [answer EXCEPT ![c] = res]
    /\ pc' = [pc EXCEPT ![c] = "done"]
    /\ lock' = None
    /\ pending' = None /\ sendErr' = FALSE /\ exitCode' = None

\* A slip: the exit code is saved after another command of the script.
ScriptSavesLate(c) == <<[by |-> c, text |-> "command"], [by |-> c, text |-> "errMarker"],
    [by |-> c, text |-> "save"], [by |-> c, text |-> "blank"], [by |-> c, text |-> "outMarker"]>>

ScriptOf(c) == <<[by |-> c, text |-> "command"], [by |-> c, text |-> "save"],
    [by |-> c, text |-> "errMarker"], [by |-> c, text |-> "blank"], [by |-> c, text |-> "outMarker"]>>

\* A slip: a marker that is still expected is not replaced.
ExpectMarkerOnce(c) ==
    /\ stderrBuf' = <<>> /\ stderrDone' = FALSE
    /\ stderrMarker' = IF stderrMarker = None THEN c ELSE stderrMarker

\* The stderr of earlier commands is thrown away, and a new marker expected.
ExpectMarker(c) ==
    /\ stderrBuf' = <<>> /\ stderrDone' = FALSE
    /\ stderrMarker' = c

\* A slip: what an earlier call left does not matter.
Forgiving == TRUE
Usable == ~broken

\* Call c locks the session.  It returns if the session is broken, if its
\* client is gone, or if the script cannot be written, as bash is gone or
\* Close closed the pipe.  Otherwise the script is written.
Start(c) ==
    /\ pc[c] = "wait" /\ lock = None
    /\ \/ ~Usable /\ Return(c, ErrorAnswer) /\ UNCHANGED <<broken, stderrVars, stdin>>
       \/ /\ Usable /\ ExpectMarker(c)
          /\ \/ cancelled[c] /\ Return(c, ErrorAnswer) /\ UNCHANGED <<broken, stdin>>
             \/ /\ ~cancelled[c] /\ ~bash.alive
                /\ broken' = TRUE /\ Return(c, ErrorAnswer) /\ UNCHANGED stdin
             \/ /\ ~cancelled[c] /\ bash.alive
                /\ lock' = c /\ pc' = [pc EXCEPT ![c] = "scan"]
                /\ stdin' = stdin \o ScriptOf(c)
                /\ UNCHANGED <<broken, answer, locals>>
    /\ UNCHANGED <<cancelled, sent, closer, stdout, stderr, bash>>

\* The next line of stdout.
Line == Head(stdout)
\* A slip: empty lines are passed on like others.
HoldNothing == FALSE
\* Only an empty line may be the one that the script puts before its marker.
Held == Line.text = "empty"
Before == IF pending = None THEN <<>> ELSE <<pending>>

\* A line that does not begin with the marker of c, and not too long: it is
\* sent after the empty line held back before it, or held back itself.  If the
\* client is gone, either may fail.  From then on lines are dropped.
PassLine(c) ==
    /\ pc[c] = "scan" /\ stdout # <<>>
    /\ ~(Line.text = "marker" /\ Line.by = c) /\ Line.text # "overlong"
    /\ \/ sendErr /\ UNCHANGED <<broken, pending, sendErr, sent>>
       \/ /\ ~sendErr /\ Held
          /\ pending' = Line /\ sent' = [sent EXCEPT ![c] = @ \o Before]
          /\ UNCHANGED <<broken, sendErr>>
       \/ /\ ~sendErr /\ ~Held
          /\ pending' = None /\ sent' = [sent EXCEPT ![c] = @ \o Before \o <<Line>>]
          /\ UNCHANGED <<broken, sendErr>>
       \/ /\ ~sendErr /\ cancelled[c]
          /\ \/ pending # None /\ UNCHANGED sent
             \/ ~Held /\ sent' = [sent EXCEPT ![c] = @ \o Before]
          /\ sendErr' = TRUE /\ broken' = TRUE
          /\ UNCHANGED pending
    /\ stdout' = Tail(stdout)
    /\ UNCHANGED <<lock, pc, cancelled, exitCode, answer, stderrVars, closer, stdin, stderr, bash>>

\* A slip: what follows the marker is not looked at.
Unparsed == TRUE
\* Nothing follows the marker if __ec was never set.
HasCode == Line.code # None

\* The marker, with an exit code or without.
SeeMarker(c) ==
    /\ pc[c] = "scan" /\ stdout # <<>>
    /\ Line.text = "marker" /\ Line.by = c
    /\ \/ /\ HasCode
          /\ exitCode' = Line.code /\ pc' = [pc EXCEPT ![c] = "stderr"]
          /\ UNCHANGED <<lock, pending, sendErr, answer>>
       \/ ~HasCode /\ Return(c, ErrorAnswer)
    /\ stdout' = Tail(stdout)
    /\ UNCHANGED <<cancelled, broken, sent, stderrVars, closer, stdin, stderr, bash>>

\* A process that the command of c left behind is there.
Stray(c) == bash.strays[c] = "running"

\* A slip: the error is returned and forgotten.
ScanFailsUnnoticed(c) ==
    /\ pc[c] = "scan"
    /\ \/ stdout # <<>> /\ Head(stdout).text = "overlong"
       \/ stdout = <<>> /\ ~bash.alive /\ \A d \in Call : ~Stray(d)
    /\ Return(c, ErrorAnswer)
    /\ UNCHANGED <<cancelled, broken, sent, stderrVars, closer, stdin, stdout, stderr, bash>>

\* The scanner gives up at a line that is too long, the rest of which stays
\* in the pipe, or at the end: when bash and all it left behind have ended.
ScanFails(c) ==
    /\ pc[c] = "scan"
    /\ \/ stdout # <<>> /\ Head(stdout).text = "overlong"
       \/ stdout = <<>> /\ ~bash.alive /\ \A d \in Call : ~Stray(d)
    /\ broken' = TRUE
    /\ Return(c, ErrorAnswer)
    /\ UNCHANGED <<cancelled, sent, stderrVars, closer, stdin, stdout, stderr, bash>>

\* A slip: the answer does not wait for stderr.
AtOnce == TRUE
Complete == stderrDone

\* The stderr marker was seen as well: the call returns, and a session that
\* could not send its answer is in step again.
Finish(c) ==
    /\ pc[c] = "stderr"
    /\ Complete
    /\ broken' = (broken /\ ~sendErr)
    /\ Return(c, IF sendErr THEN ErrorAnswer
                 ELSE [kind |-> "ok", code |-> exitCode, stderr |-> stderrBuf])
    /\ UNCHANGED <<cancelled, sent, stderrVars, closer, stdin, stdout, stderr, bash>>

\* The client of call c disconnects (later it makes no difference).
Cancel(c) ==
    /\ ~cancelled[c] /\ pc[c] \in {"wait", "scan"}
    /\ cancelled' = [cancelled EXCEPT ![c] = TRUE]
    /\ UNCHANGED <<lock, pc, broken, locals, results, stderrVars, closer, stdin, stdout, stderr, bash>>

\* readStderr and checkStderrMarker: the expected marker is taken out.
ReadStderr ==
    /\ stderr # <<>>
    /\ stderr' = Tail(stderr)
    /\ IF Head(stderr).text = "marker" /\ Head(stderr).by = stderrMarker
       THEN stderrMarker' = None /\ stderrDone' = TRUE /\ UNCHANGED stderrBuf
       ELSE stderrBuf' = Append(stderrBuf, Head(stderr)) /\ UNCHANGED <<stderrMarker, stderrDone>>
    /\ UNCHANGED <<lock, pc, cancelled, broken, locals, results, closer, stdin, stdout, bash>>

\* Close writes "exit", if anybody is there to read it, and waits for bash,
\* upon which the pipes are closed.
Close ==
    /\ \/ /\ closer = "wait" /\ lock = None
          /\ closer' = "exit" /\ lock' = Closer
          /\ stdin' = IF bash.alive THEN Append(stdin, [by |-> Closer, text |-> "exit"]) ELSE stdin
          /\ UNCHANGED <<stdout, stderr, bash>>
       \/ /\ closer = "exit" /\ ~bash.alive
          /\ closer' = "done" /\ lock' = None
          /\ stdin' = <<>> /\ stdout' = <<>> /\ stderr' = <<>>
          /\ bash' = [bash EXCEPT !.strays = [c \in Call |-> IF Stray(c) THEN "ended" ELSE @[c]]]
    /\ UNCHANGED <<pc, cancelled, broken, locals, results, stderrVars>>

-----------------------------------------------------------------------------
(* Bash, its commands and what they leave behind.                          *)

\* A line goes to stdout; a line that was not finished swallows it.
Put(line) ==
    /\ Len(stdout) < PipeCap
    /\ stdout' = Append(stdout, IF bash.open = None THEN line
                                ELSE [by |-> bash.open, text |-> "line"])

\* Bash ends, and with it the line that was not finished.
Exit ==
    /\ bash' = [bash EXCEPT !.alive = FALSE, !.running = None, !.open = None]
    /\ stdout' = IF bash.open = None THEN stdout
                 ELSE Append(stdout, [by |-> bash.open, text |-> "line"])

\* Bash takes the next line of its stdin.  What the script does after the
\* command leaves 0 in $?.
BashLine ==
    /\ bash.alive /\ bash.running = None
    /\ stdin # <<>>
    /\ stdin' = Tail(stdin)
    /\ LET by == Head(stdin).by
           text == Head(stdin).text
       IN  \/ /\ text = "command"
              /\ bash' = [bash EXCEPT !.running = by]
              /\ UNCHANGED <<stdout, stderr>>
           \/ /\ text = "save"
              /\ bash' = [bash EXCEPT !.ec = bash.status, !.status = 0]
              /\ UNCHANGED <<stdout, stderr>>
           \/ /\ text = "errMarker"
              /\ bash' = [bash EXCEPT !.status = 0]
              /\ stderr' = IF bash.muted THEN stderr
                           ELSE Append(stderr, [by |-> by, text |-> "marker", code |-> None])
              /\ UNCHANGED stdout
           \/ /\ text \in {"blank", "outMarker"}
              /\ bash' = [bash EXCEPT !.status = 0, !.open = None]
              /\ Put(IF text = "blank" THEN [by |-> None, text |-> "empty"]
                     ELSE [by |-> by, text |-> "marker", code |-> bash.ec])
              /\ UNCHANGED stderr
           \/ text = "exit" /\ Exit /\ UNCHANGED stderr
    /\ UNCHANGED runner

\* The command of call c is running.
Runs(c) == bash.alive /\ bash.running = c

\* It writes a line to stdout, or the last one without a newline, or to
\* stderr; takes a line of the script; redirects stderr; leaves a process.
CommandActs(c) ==
    /\ Runs(c)
    /\ \/ /\ bash.open = None /\ Len(bash.out[c]) < MaxOut
          /\ \/ \E text \in {"line", "empty"} \cup (Habits \cap {"overlong"}) :
                  /\ Put([by |-> c, text |-> text])
                  /\ bash' = [bash EXCEPT !.out[c] = Append(@, text)]
             \/ /\ bash' = [bash EXCEPT !.out[c] = Append(@, "line"), !.open = c]
                /\ UNCHANGED stdout
          /\ UNCHANGED <<stdin, stderr>>
       \/ /\ bash.err[c] < MaxErr /\ ~bash.muted
          /\ stderr' = Append(stderr, [by |-> c, text |-> "line"])
          /\ bash' = [bash EXCEPT !.err[c] = @ + 1]
          /\ UNCHANGED <<stdin, stdout>>
       \/ /\ "reads" \in Habits /\ stdin # <<>>
          /\ stdin' = Tail(stdin) /\ bash' = [bash EXCEPT !.took = @ \cup {c}]
          /\ UNCHANGED <<stdout, stderr>>
       \/ /\ \/ /\ "mutes" \in Habits /\ ~bash.muted
                /\ bash' = [bash EXCEPT !.muted = TRUE]
             \/ /\ "strays" \in Habits /\ bash.strays[c] = "none"
                /\ bash' = [bash EXCEPT !.strays[c] = "running"]
          /\ UNCHANGED <<stdin, stdout, stderr>>
    /\ UNCHANGED runner

CommandEnds(c) ==
    /\ Runs(c)
    /\ \/ /\ \E code \in Code :
                bash' = [bash EXCEPT !.running = None, !.status = code, !.code[c] = code]
          /\ UNCHANGED stdout
       \/ "exits" \in Habits /\ Exit
    /\ UNCHANGED <<runner, stdin, stderr>>

\* The process that a command left behind ends, after a line or without.
StrayEnds(c) ==
    /\ Stray(c)
    /\ \/ /\ \E text \in {"line", "empty"} : Put([by |-> None, text |-> text])
          /\ bash' = [bash EXCEPT !.open = None, !.strays[c] = "ended"]
          /\ UNCHANGED stderr
       \/ /\ stderr' \in {stderr, Append(stderr, [by |-> None, text |-> "line"])}
          /\ bash' = [bash EXCEPT !.strays[c] = "ended"]
          /\ UNCHANGED stdout
    /\ UNCHANGED <<runner, stdin>>

-----------------------------------------------------------------------------
CallStep(c) ==
    \/ Start(c) \/ PassLine(c) \/ SeeMarker(c) \/ ScanFails(c) \/ Finish(c)

BashStep == BashLine \/ \E c \in Call : CommandActs(c) \/ CommandEnds(c)

Next ==
    \/ \E c \in Call : CallStep(c) \/ Cancel(c) \/ StrayEnds(c)
    \/ ReadStderr \/ Close \/ BashStep

Spec == Init /\ [][Next]_vars

\* The goroutines are scheduled and get the mutex in turn; commands, and what
\* they leave behind, end.
FairSpec ==
    /\ Spec
    /\ \A c \in Call : WF_vars(CallStep(c)) /\ WF_vars(StrayEnds(c))
    /\ WF_vars(ReadStderr) /\ WF_vars(Close) /\ WF_vars(BashStep)

-----------------------------------------------------------------------------
(* Properties.                                                             *)

\* An answer to a command that left its script alone.
Answered(c) == answer[c].kind = "ok" /\ c \notin bash.took

\* What c wrote to seq, apart from its marker, are lines with these texts in
\* this order: the k-th of them is at at[k].
Wrote(seq, c, texts) ==
    \E at \in [DOMAIN texts -> DOMAIN seq] :
        /\ \A k \in DOMAIN texts : seq[at[k]].text = texts[k]
        /\ \A j, k \in DOMAIN texts : j < k => at[j] < at[k]
        /\ {at[k] : k \in DOMAIN texts} = {i \in DOMAIN seq : seq[i].by = c /\ seq[i].text # "marker"}
Lines(n) == [k \in 1..n |-> "line"]

\* What ExecuteStream returns is all that the command wrote to stdout, line by
\* line, and to stderr, and nothing that another command wrote: although
\* two goroutines read it, empty lines are held back, earlier calls were
\* cancelled, and processes that they left behind write in between.  Only a
\* command that took the line that saves its exit code may leave something on
\* stderr for the next, as its call fails without waiting for the marker there.
AnswerComplete ==
    \A c \in Call : Answered(c) =>
        /\ Wrote(sent[c], c, bash.out[c])
        /\ Wrote(answer[c].stderr, c, Lines(bash.err[c]))
        /\ \A i \in DOMAIN (sent[c] \o answer[c].stderr) :
            LET item == (sent[c] \o answer[c].stderr)[i]
            IN  \/ item.by = c /\ item.text # "marker"
                \/ item.by = None /\ \E d \in Call : bash.strays[d] # "none"
                \/ item.by \in bash.took /\ i > Len(sent[c])

\* The exit code that ExecuteStream returns is that of its command, if the
\* command does not read its own script: shell.go saves the code in __ec on the
\* next line, before anything else sets $?, and takes it from the marker.
AnswerCode == \A c \in Call : Answered(c) => answer[c].code = bash.code[c]

\* Something of call c is still to be run or to be read.
InFlight(c) ==
    \/ \E i \in DOMAIN stdin : stdin[i].by = c
    \/ Runs(c)
    \/ \E i \in DOMAIN stdout : stdout[i].by = c

\* The session is in step, or marked as broken: whenever a call has returned
\* and left something behind, be it by a cancellation, a line too long or
\* the end of bash, the next call is refused.
InStepOrBroken == \A c \in Call : InFlight(c) /\ lock # c => broken

\* The inductive form of InStepOrBroken.
By(seq, authors) == \A i \in DOMAIN seq : seq[i].by \in authors

\* Nothing of any call is to be run or read.
Quiet == By(stdin, {Closer}) /\ bash.running = None /\ bash.open = None /\ By(stdout, {None})

\* What is to be run or read is of call c, and its marker is the last of it.
OnlyOf(c) ==
    /\ By(stdin, {c, Closer}) /\ {bash.running, bash.open} \subseteq {c, None}
    /\ By(stdout, {c, None})
    /\ \A i \in DOMAIN stdin : stdin[i].text = "outMarker" => i = Len(stdin)
    /\ \A i \in DOMAIN stdout : stdout[i].text = "marker" /\ stdout[i].by = c =>
        /\ stdin = <<>> /\ bash.running = None /\ bash.open = None
        /\ \A j \in DOMAIN stdout : j > i => stdout[j].by = None

\* Who is inside has the lock, and knows the exit code once it saw the marker.
LockInv ==
    /\ \A c \in Call : pc[c] \in {"scan", "stderr"} <=> lock = c
    /\ closer = "exit" => lock = Closer
    /\ \A c \in Call : pc[c] = "stderr" => exitCode # None

\* The session is quiet when no call has it, unless it is broken, and once the
\* marker was read.  While a call has it, broken means that it drains.
SyncInv ==
    /\ LockInv
    /\ IF lock \in Call THEN broken = sendErr ELSE ~sendErr /\ (~broken => Quiet)
    /\ \A c \in Call : /\ pc[c] = "stderr" => Quiet
                       /\ pc[c] = "scan" => OnlyOf(c)

\* A session that was left broken runs nothing more, and is never mended.
BrokenForGood == [][broken /\ lock = None => broken' /\ lock' \in {None, Closer}]_vars

\* Where a call is for its caller.
State(c) ==
    CASE pc[c] = "wait" -> "wait"
      [] pc[c] = "done" -> answer[c].kind
      [] OTHER -> "run"

Session == INSTANCE ShellSession WITH
    holder <- lock, state <- [c \in Call |-> State(c)], broken <- broken, closed <- closer

\* BashShell is a ShellSession: although the call, the goroutine that reads
\* stderr and bash go their own ways, and stdin is shared with the commands,
\* no call begins in a session that was left broken or closed, and none is
\* answered while the session is out of step.
RefinesSession == Session!Spec

\* Every call returns, if its command ends.
EveryCallReturns == \A c \in Call : pc[c] # "done" ~> pc[c] = "done"

\* Close returns: it gets its turn, and bash ends.
CloseReturns == closer = "wait" ~> closer = "done"
=============================================================================
