--------------------------- MODULE BashShellProofs ---------------------------
(* Proofs about BashShell, for any commands, calls and sizes of pipes. *)
EXTENDS BashShell, SequenceTheorems, TLAPS

USE ConstantsAssumption

Item == Written \cup Marker

-----------------------------------------------------------------------------
(* Types.                                                                  *)

\* What the pipes hold, and what is left of it after the first item.
LEMMA TailType ==
    ASSUME NEW S, NEW seq \in Seq(S), seq # <<>>
    PROVE  /\ Tail(seq) \in Seq(S) /\ Head(seq) \in S
           /\ Len(seq) \in Nat \ {0} /\ Head(seq) = seq[1]
  OBVIOUS

\* A line that bash or a command writes is an item, whoever it is said to be of.
LEMMA PutType ==
    ASSUME TypeOK, NEW line \in Item, Put(line)
    PROVE  stdout' \in Seq(Item)
<1>1. bash.open # None => [by |-> bash.open, text |-> "line"] \in Item
    BY DEF TypeOK, Bash, Item, Written
<1>2. QED
    BY <1>1 DEF Put, TypeOK, Item

\* What commands change about bash and what they leave behind.
LEMMA StraysType ==
    ASSUME NEW b \in Bash, NEW c \in Call, NEW s \in {"none", "running", "ended"}
    PROVE  /\ [b EXCEPT !.strays[c] = s] \in Bash
           /\ [b EXCEPT !.open = None, !.strays[c] = s] \in Bash
<1>1. [b.strays EXCEPT ![c] = s] \in [Call -> {"none", "running", "ended"}]
    BY DEF Bash
<1>2. [b EXCEPT !.strays = [b.strays EXCEPT ![c] = s]] \in Bash
    BY <1>1 DEF Bash
<1>3. [b EXCEPT !.open = None, !.strays = [b.strays EXCEPT ![c] = s]] \in Bash
    BY <1>1 DEF Bash
<1> QED BY <1>2, <1>3

LEMMA CodeType ==
    ASSUME NEW b \in Bash, NEW c \in Call, NEW code \in Code
    PROVE  [b EXCEPT !.running = None, !.status = code, !.code[c] = code] \in Bash
<1>1. [b.code EXCEPT ![c] = code] \in [Call -> Code \cup {None}]
    BY DEF Bash
<1>2. [b EXCEPT !.running = None, !.status = code, !.code = [b.code EXCEPT ![c] = code]] \in Bash
    BY <1>1 DEF Bash
<1> QED BY <1>2

LEMMA ExitType ==
    ASSUME TypeOK, Exit
    PROVE  stdout' \in Seq(Item) /\ bash' \in Bash
<1>1. bash.open # None => [by |-> bash.open, text |-> "line"] \in Item
    BY DEF TypeOK, Bash, Item, Written
<1>2. stdout \in Seq(Item) /\ bash \in Bash
    BY DEF TypeOK, Item
<1>3. stdout' \in Seq(Item)
    BY <1>1, <1>2, AppendProperties DEF Exit
<1>4. bash' \in Bash
    BY <1>2 DEF Exit, Bash
<1> QED BY <1>3, <1>4

LEMMA ScriptType ==
    ASSUME NEW c \in Call
    PROVE  ScriptOf(c) \in Seq(Script) /\ Len(ScriptOf(c)) = 5
  BY DEF ScriptOf, Script

LEMMA ScriptAppended ==
    ASSUME NEW c \in Call, NEW seq \in Seq(Script)
    PROVE  /\ Len(seq \o ScriptOf(c)) = Len(seq) + 5
           /\ DOMAIN (seq \o ScriptOf(c)) = 1..(Len(seq) + 5)
           /\ \A i \in 1..Len(seq) : (seq \o ScriptOf(c))[i] = seq[i]
           /\ \A k \in 1..5 : (seq \o ScriptOf(c))[Len(seq) + k] = ScriptOf(c)[k]
<1>1. PICK script \in Seq(Script) : script = ScriptOf(c) /\ Len(script) = 5
    BY ScriptType
<1>2. /\ Len(seq \o script) = Len(seq) + Len(script)
      /\ DOMAIN (seq \o script) = 1..(Len(seq) + Len(script))
      /\ \A i \in 1..Len(seq) : (seq \o script)[i] = seq[i]
      /\ \A k \in 1..Len(script) : (seq \o script)[Len(seq) + k] = script[k]
    OBVIOUS
<1> QED BY <1>1, <1>2, Zenon

LEMMA ReturnType ==
    ASSUME TypeOK, NEW c \in Call, NEW res \in Answer, Return(c, res)
    PROVE  /\ answer' \in [Call -> Answer] /\ pc' \in [Call -> {"wait", "scan", "stderr", "done"}]
           /\ lock' \in Call \cup {Closer, None}
           /\ pending' \in Written \cup {None} /\ sendErr' \in BOOLEAN
           /\ exitCode' \in Code \cup {None}
  BY DEF TypeOK, Return

LEMMA InitType == Init => TypeOK
<1> SUFFICES ASSUME Init PROVE TypeOK
    OBVIOUS
<1>1. <<>> \in Seq(Written \cup Marker) /\ <<>> \in Seq(Script)
      /\ <<>> \in Seq({"line", "empty", "overlong"})
    OBVIOUS
<1>2. bash \in Bash
    <2>1. 0 \in 0..MaxErr
        OBVIOUS
    <2> QED BY <1>1, <2>1 DEF Init, Bash
<1>3. answer \in [Call -> Answer] /\ sent \in [Call -> Seq(Written \cup Marker)]
    BY <1>1 DEF Init, Answer
<1> QED BY <1>1, <1>2, <1>3 DEF Init, TypeOK

LEMMA StartType ==
    ASSUME TypeOK, NEW c \in Call, Start(c)
    PROVE  TypeOK'
<1> USE DEF TypeOK
<1>1. ErrorAnswer \in Answer
    BY DEF Answer
<1>2. UNCHANGED <<cancelled, sent, closer, stdout, stderr, bash>>
    BY DEF Start
<1>6. ExpectMarker(c) => /\ stderrBuf' \in Seq(Written \cup Marker)
                         /\ stderrMarker' \in Call \cup {None} /\ stderrDone' \in BOOLEAN
    <2>1. <<>> \in Seq(Written \cup Marker)
        OBVIOUS
    <2> QED BY <2>1 DEF ExpectMarker
<1>3. CASE ~Usable /\ Return(c, ErrorAnswer) /\ UNCHANGED <<broken, stderrVars, stdin>>
    BY <1>1, <1>2, <1>3, ReturnType DEF stderrVars
<1>4. CASE /\ ExpectMarker(c) /\ broken' \in BOOLEAN
           /\ Return(c, ErrorAnswer) /\ UNCHANGED stdin
    BY <1>1, <1>2, <1>4, <1>6, ReturnType
<1>5. CASE /\ ExpectMarker(c) /\ lock' = c /\ pc' = [pc EXCEPT ![c] = "scan"]
           /\ stdin' = stdin \o ScriptOf(c) /\ UNCHANGED <<broken, answer, locals>>
    <2>1. stdin' \in Seq(Script)
        BY <1>5, ScriptType, ConcatProperties
    <2> QED BY <1>2, <1>5, <1>6, <2>1 DEF locals
<1> QED BY <1>3, <1>4, <1>5 DEF Start

LEMMA PassLineType ==
    ASSUME TypeOK, NEW c \in Call, PassLine(c)
    PROVE  TypeOK'
<1> USE DEF TypeOK
<1>0. stdout \in Seq(Item) /\ stdout # <<>> /\ stdout' = Tail(stdout)
    BY DEF PassLine, Item
<1>1. Line \in Item /\ stdout' \in Seq(Item)
    BY <1>0, TailType DEF Line
<1>7. pending # None => pending \in Item
    BY DEF Item
<1>8. <<>> \in Seq(Item) /\ (\A item \in Item : <<item>> \in Seq(Item))
    OBVIOUS
<1>2. Before \in Seq(Item) /\ <<Line>> \in Seq(Item)
    BY <1>1, <1>7, <1>8, Zenon DEF Before
<1>3. sent[c] \in Seq(Item)
    BY DEF Item
<1>4. sent[c] \o Before \in Seq(Item) /\ sent[c] \o Before \o <<Line>> \in Seq(Item)
    BY <1>2, <1>3, ConcatProperties
<1>5. sent' \in [Call -> Seq(Item)]
    BY <1>4, <1>3 DEF PassLine, Item
<1>6. pending' \in Written \cup {None} /\ broken' \in BOOLEAN /\ sendErr' \in BOOLEAN
    BY <1>1 DEF PassLine, Held, Item, Marker
<1> QED BY <1>1, <1>5, <1>6 DEF PassLine, Item, stderrVars

LEMMA SeeMarkerType ==
    ASSUME TypeOK, NEW c \in Call, SeeMarker(c)
    PROVE  TypeOK'
<1>0. stdout \in Seq(Item) /\ stdout # <<>> /\ stdout' = Tail(stdout) /\ Line.text = "marker"
    BY DEF SeeMarker, Item, TypeOK
<1>1. stdout' \in Seq(Item) /\ Line \in Item
    BY <1>0, TailType DEF Line
<1>5. Line \in Marker
    BY <1>0, <1>1 DEF Item, Written
<1>2. UNCHANGED <<cancelled, broken, sent, stderrVars, closer, stdin, stderr, bash>>
    BY DEF SeeMarker
<1>3. CASE /\ HasCode /\ exitCode' = Line.code /\ pc' = [pc EXCEPT ![c] = "stderr"]
           /\ UNCHANGED <<lock, pending, sendErr, answer>>
    BY <1>1, <1>2, <1>3, <1>5 DEF TypeOK, HasCode, Marker, stderrVars, Item
<1>4. CASE Return(c, ErrorAnswer)
    BY <1>1, <1>2, <1>4, ReturnType DEF TypeOK, Answer, stderrVars, Item
<1> QED BY <1>3, <1>4 DEF SeeMarker

LEMMA ScanFailsType ==
    ASSUME TypeOK, NEW c \in Call, ScanFails(c)
    PROVE  TypeOK'
<1>1. Return(c, ErrorAnswer) /\ broken' = TRUE
      /\ UNCHANGED <<cancelled, sent, stderrVars, closer, stdin, stdout, stderr, bash>>
    BY DEF ScanFails
<1> QED BY <1>1, ReturnType DEF TypeOK, Answer, stderrVars

LEMMA FinishType ==
    ASSUME TypeOK, LockInv, NEW c \in Call, Finish(c)
    PROVE  TypeOK'
<1>1. UNCHANGED <<cancelled, sent, stderrVars, closer, stdin, stdout, stderr, bash>>
      /\ broken' \in BOOLEAN
    BY DEF Finish, TypeOK
<1>2. PICK res \in Answer : Return(c, res)
    <2>1. exitCode \in Code
        BY DEF Finish, LockInv, TypeOK
    <2>2. [kind |-> "ok", code |-> exitCode, stderr |-> stderrBuf] \in Answer /\ ErrorAnswer \in Answer
        BY <2>1 DEF TypeOK, Answer
    <2> QED BY <2>2 DEF Finish
<1> QED BY <1>1, <1>2, ReturnType DEF TypeOK, stderrVars

LEMMA ReadStderrType ==
    ASSUME TypeOK, ReadStderr
    PROVE  TypeOK'
<1>1. stderr \in Seq(Item) /\ stderr # <<>> /\ stderrBuf \in Seq(Item)
    BY DEF ReadStderr, TypeOK, Item
<1>2. Tail(stderr) \in Seq(Item) /\ Append(stderrBuf, Head(stderr)) \in Seq(Item)
    BY <1>1, TailType
<1> QED BY <1>2 DEF ReadStderr, TypeOK, Item, locals, results

LEMMA CloseType ==
    ASSUME TypeOK, Close
    PROVE  TypeOK'
<1>1. UNCHANGED <<pc, cancelled, broken, locals, results, stderrVars>>
    BY DEF Close
<1>2. CASE /\ closer' = "exit" /\ lock' = Closer
           /\ stdin' = IF bash.alive THEN Append(stdin, [by |-> Closer, text |-> "exit"]) ELSE stdin
           /\ UNCHANGED <<stdout, stderr, bash>>
    <2>1. [by |-> Closer, text |-> "exit"] \in Script
        BY DEF Script
    <2>2. stdin' \in Seq(Script)
        BY <1>2, <2>1 DEF TypeOK
    <2> QED BY <1>1, <1>2, <2>2 DEF TypeOK, locals, results, stderrVars
<1>3. CASE /\ closer' = "done" /\ lock' = None
           /\ stdin' = <<>> /\ stdout' = <<>> /\ stderr' = <<>>
           /\ bash' = [bash EXCEPT !.strays = [c \in Call |-> IF Stray(c) THEN "ended" ELSE @[c]]]
    <2>1. <<>> \in Seq(Script) /\ <<>> \in Seq(Written \cup Marker)
        OBVIOUS
    <2>2. bash' \in Bash
        BY <1>3 DEF TypeOK, Bash
    <2> QED BY <1>1, <1>3, <2>1, <2>2 DEF TypeOK, locals, results, stderrVars
<1> QED BY <1>2, <1>3 DEF Close

LEMMA BashLineType ==
    ASSUME TypeOK, BashLine
    PROVE  TypeOK'
<1> DEFINE line == Head(stdin)
<1>1. stdin' \in Seq(Script) /\ line \in Script /\ UNCHANGED runner
    BY TailType DEF BashLine, TypeOK
<1>2. stdout \in Seq(Item) /\ stderr \in Seq(Item) /\ bash \in Bash
    BY DEF TypeOK, Item
<1>3. CASE line.text \in {"command", "save"}
    <2>1. /\ UNCHANGED <<stdout, stderr>>
          /\ \/ bash' = [bash EXCEPT !.running = line.by]
             \/ bash' = [bash EXCEPT !.ec = bash.status, !.status = 0]
        BY <1>3 DEF BashLine
    <2>2. line.by \in Call
        BY <1>1, <1>3 DEF Script
    <2>3. [bash EXCEPT !.running = line.by] \in Bash
        BY <1>2, <2>2 DEF Bash
    <2>4. [bash EXCEPT !.ec = bash.status, !.status = 0] \in Bash
        BY <1>2 DEF Bash
    <2> QED BY <1>1, <1>2, <2>1, <2>3, <2>4 DEF TypeOK, Item, runner, locals, results, stderrVars
<1>4. CASE line.text = "errMarker"
    <2>1. [by |-> line.by, text |-> "marker", code |-> None] \in Item
        BY <1>1, <1>4 DEF Script, Item, Marker
    <2>2. stderr' \in Seq(Item) /\ bash' \in Bash /\ UNCHANGED stdout
        <3>1. UNCHANGED stdout /\ bash' = [bash EXCEPT !.status = 0]
              /\ stderr' = IF bash.muted THEN stderr
                           ELSE Append(stderr, [by |-> line.by, text |-> "marker", code |-> None])
            BY <1>4 DEF BashLine
        <3>2. bash' \in Bash
            BY <1>2, <3>1 DEF Bash
        <3> QED BY <1>2, <2>1, <3>1, <3>2
    <2> QED BY <1>1, <1>2, <2>2 DEF TypeOK, Item, runner, locals, results, stderrVars
<1>5. CASE line.text \in {"blank", "outMarker"}
    <2>1. [by |-> None, text |-> "empty"] \in Item
        BY DEF Item, Written
    <2>2. line.by \in Call
        BY <1>1, <1>5 DEF Script
    <2>3. [by |-> line.by, text |-> "marker", code |-> bash.ec] \in Item
        BY <1>2, <2>2 DEF Item, Marker, Bash
    <2>4. PICK item \in Item : Put(item)
        BY <1>5, <2>1, <2>3 DEF BashLine
    <2>5. stdout' \in Seq(Item)
        BY <2>4, PutType
    <2>6. bash' \in Bash /\ UNCHANGED stderr
        <3>1. bash' = [bash EXCEPT !.status = 0, !.open = None] /\ UNCHANGED stderr
            BY <1>5 DEF BashLine
        <3> QED BY <1>2, <3>1 DEF Bash
    <2> QED BY <1>1, <1>2, <2>5, <2>6 DEF TypeOK, Item, runner, locals, results, stderrVars
<1>6. CASE line.text = "exit"
    <2>1. Exit /\ UNCHANGED stderr
        BY <1>6 DEF BashLine
    <2>2. stdout' \in Seq(Item) /\ bash' \in Bash
        BY <2>1, ExitType
    <2> QED BY <1>1, <1>2, <2>1, <2>2 DEF TypeOK, Item, runner, locals, results, stderrVars
<1> QED BY <1>1, <1>3, <1>4, <1>5, <1>6 DEF Script

LEMMA CommandType ==
    ASSUME TypeOK, NEW c \in Call, CommandActs(c) \/ CommandEnds(c)
    PROVE  TypeOK'
<1>1. stdout \in Seq(Item) /\ stderr \in Seq(Item) /\ stdin \in Seq(Script) /\ bash \in Bash
    BY DEF TypeOK, Item
<1>2. UNCHANGED runner
    BY DEF CommandActs, CommandEnds
<1> SUFFICES stdout' \in Seq(Item) /\ stderr' \in Seq(Item) /\ stdin' \in Seq(Script) /\ bash' \in Bash
    BY <1>2 DEF TypeOK, Item, runner, locals, results, stderrVars
<1>3. ASSUME NEW text \in {"line", "empty", "overlong"},
             bash' = [bash EXCEPT !.out[c] = Append(@, text)]
      PROVE  bash' \in Bash
    <2>1. Append(bash.out[c], text) \in Seq({"line", "empty", "overlong"})
        BY <1>1, <1>3 DEF Bash
    <2> QED BY <1>1, <1>3, <2>1 DEF Bash
<1>4. ASSUME NEW text \in {"line", "empty", "overlong"}, Put([by |-> c, text |-> text]),
             bash' = [bash EXCEPT !.out[c] = Append(@, text)], UNCHANGED <<stdin, stderr>>
      PROVE  stdout' \in Seq(Item) /\ stderr' \in Seq(Item) /\ stdin' \in Seq(Script) /\ bash' \in Bash
    <2>1. [by |-> c, text |-> text] \in Item
        BY DEF Item, Written
    <2> QED BY <1>1, <1>3, <1>4, <2>1, PutType
<1>5. CASE /\ bash' = [bash EXCEPT !.out[c] = Append(@, "line"), !.open = c]
           /\ UNCHANGED <<stdin, stdout, stderr>>
    <2>1. Append(bash.out[c], "line") \in Seq({"line", "empty", "overlong"})
        BY <1>1 DEF Bash
    <2>2. bash' \in Bash
        BY <1>1, <1>5, <2>1 DEF Bash
    <2> QED BY <1>1, <1>5, <2>2
<1>6. CASE /\ bash.err[c] < MaxErr /\ stderr' = Append(stderr, [by |-> c, text |-> "line"])
           /\ bash' = [bash EXCEPT !.err[c] = @ + 1] /\ UNCHANGED <<stdin, stdout>>
    <2>1. [by |-> c, text |-> "line"] \in Item
        BY DEF Item, Written
    <2>2. bash.err[c] + 1 \in 0..MaxErr
        BY <1>1, <1>6 DEF Bash
    <2>3. bash' \in Bash
        BY <1>1, <1>6, <2>2 DEF Bash
    <2> QED BY <1>1, <1>6, <2>1, <2>3
<1>7. CASE /\ stdin # <<>> /\ stdin' = Tail(stdin)
           /\ bash' = [bash EXCEPT !.took = @ \cup {c}] /\ UNCHANGED <<stdout, stderr>>
    <2>1. bash' \in Bash
        BY <1>1, <1>7 DEF Bash
    <2> QED BY <1>1, <1>7, <2>1, TailType
<1>8. CASE /\ \/ bash' = [bash EXCEPT !.muted = TRUE]
              \/ bash' = [bash EXCEPT !.strays[c] = "running"]
           /\ UNCHANGED <<stdin, stdout, stderr>>
    <2>3. [bash EXCEPT !.muted = TRUE] \in Bash
        BY <1>1 DEF Bash
    <2>4. [bash EXCEPT !.strays[c] = "running"] \in Bash
        BY <1>1, StraysType
    <2>1. bash' \in Bash
        BY <1>8, <2>3, <2>4
    <2> QED BY <1>1, <1>8, <2>1
<1>9. CASE CommandActs(c)
    BY <1>4, <1>5, <1>6, <1>7, <1>8, <1>9 DEF CommandActs
<1>10. CASE CommandEnds(c)
    <2>1. CASE Exit /\ UNCHANGED <<stdin, stderr>>
        BY <1>1, <2>1, ExitType
    <2>2. CASE /\ \E code \in Code :
                    bash' = [bash EXCEPT !.running = None, !.status = code, !.code[c] = code]
               /\ UNCHANGED <<stdin, stdout, stderr>>
        <3>1. bash' \in Bash
            <4>1. PICK code \in Code :
                    bash' = [bash EXCEPT !.running = None, !.status = code, !.code[c] = code]
                BY <2>2
            <4> QED BY <1>1, <4>1, CodeType
        <3> QED BY <1>1, <2>2, <3>1
    <2> QED BY <1>10, <2>1, <2>2 DEF CommandEnds
<1> QED BY <1>9, <1>10

LEMMA StrayEndsType ==
    ASSUME TypeOK, NEW c \in Call, StrayEnds(c)
    PROVE  TypeOK'
<1>1. stdout \in Seq(Item) /\ stderr \in Seq(Item) /\ bash \in Bash
    BY DEF TypeOK, Item
<1>2. UNCHANGED <<runner, stdin>>
    BY DEF StrayEnds
<1>3. \A text \in {"line", "empty"} : [by |-> None, text |-> text] \in Item
    BY DEF Item, Written
<1>4. bash' \in Bash
    <2>1. \/ bash' = [bash EXCEPT !.open = None, !.strays[c] = "ended"]
          \/ bash' = [bash EXCEPT !.strays[c] = "ended"]
        BY DEF StrayEnds
    <2> QED BY <1>1, <2>1, StraysType
<1>5. stderr' \in Seq(Item)
    <2>1. Append(stderr, [by |-> None, text |-> "line"]) \in Seq(Item)
        BY <1>1, <1>3
    <2> QED BY <1>1, <2>1 DEF StrayEnds
<1>6. stdout' \in Seq(Item)
    BY <1>1, <1>3, PutType DEF StrayEnds
<1> QED BY <1>2, <1>4, <1>5, <1>6 DEF TypeOK, Item, runner, locals, results, stderrVars

\* The lock is where the calls say it is.
LEMMA LockStep ==
    ASSUME TypeOK, LockInv, Next
    PROVE  LockInv'
<1>0. /\ lock \in Call \cup {Closer, None}
      /\ pc \in [Call -> {"wait", "scan", "stderr", "done"}]
    BY DEF TypeOK
<1> USE <1>0 DEF LockInv
<1>1. ASSUME NEW c \in Call, Start(c) PROVE LockInv'
    <2>1. lock = None /\ pc[c] = "wait" /\ UNCHANGED closer
        BY <1>1 DEF Start
    <2>2. \/ lock' = None /\ pc' = [pc EXCEPT ![c] = "done"]
          \/ lock' = c /\ pc' = [pc EXCEPT ![c] = "scan"]
        BY <1>1 DEF Start, Return
    <2>3. ASSUME NEW d \in Call, d # c
          PROVE  pc'[d] \notin {"scan", "stderr"} /\ lock' # d
        <3>1. lock # d /\ lock' # d /\ pc'[d] = pc[d]
            BY <2>1, <2>2, <2>3
        <3> QED BY <3>1
    <2>4. pc'[c] \in {"scan", "stderr"} <=> lock' = c
        BY <2>2
    <2>5. closer # "exit" /\ pc'[c] # "stderr"
        BY <2>1, <2>2
    <2>6. \A d \in Call : pc'[d] \in {"scan", "stderr"} <=> lock' = d
        BY <2>3, <2>4, Zenon
    <2>7. \A d \in Call : pc'[d] = "stderr" => exitCode' # None
        BY <2>3, <2>5
    <2>8. closer' = "exit" => lock' = Closer
        BY <2>1, <2>5
    <2> QED BY <2>6, <2>7, <2>8
<1>2. ASSUME NEW c \in Call, PassLine(c) PROVE LockInv'
    BY <1>2 DEF PassLine
<1>3. ASSUME NEW c \in Call, SeeMarker(c) PROVE LockInv'
    <2>1. lock = c /\ UNCHANGED closer
        BY <1>3 DEF SeeMarker
    <2>2. \/ lock' = None /\ pc' = [pc EXCEPT ![c] = "done"]
          \/ lock' = lock /\ pc' = [pc EXCEPT ![c] = "stderr"] /\ exitCode' # None
        BY <1>3 DEF SeeMarker, HasCode, Return
    <2>3. ASSUME NEW d \in Call, d # c
          PROVE  pc'[d] \notin {"scan", "stderr"} /\ lock' # d
        <3>1. lock # d /\ lock' # d /\ pc'[d] = pc[d]
            BY <2>1, <2>2, <2>3
        <3> QED BY <3>1
    <2>4. pc'[c] \in {"scan", "stderr"} <=> lock' = c
        BY <2>1, <2>2
    <2>5. closer # "exit" /\ (pc'[c] = "stderr" => exitCode' # None)
        BY <2>1, <2>2
    <2>6. \A d \in Call : pc'[d] \in {"scan", "stderr"} <=> lock' = d
        BY <2>3, <2>4, Zenon
    <2>7. \A d \in Call : pc'[d] = "stderr" => exitCode' # None
        BY <2>3, <2>5
    <2>8. closer' = "exit" => lock' = Closer
        BY <2>1, <2>5
    <2> QED BY <2>6, <2>7, <2>8
<1>4. ASSUME NEW c \in Call, ScanFails(c) PROVE LockInv'
    BY <1>4 DEF ScanFails, Return
<1>5. ASSUME NEW c \in Call, Finish(c) PROVE LockInv'
    BY <1>5 DEF Finish, Return
<1>6. CASE Close
    BY <1>6 DEF Close, locals
<1>7. CASE UNCHANGED <<lock, pc, exitCode, closer>>
    BY <1>7
<1>8. UNCHANGED runner => UNCHANGED <<lock, pc, exitCode, closer>>
    BY DEF runner, locals
<1>9. ASSUME NEW c \in Call, Cancel(c) \/ StrayEnds(c) \/ CommandActs(c) \/ CommandEnds(c)
      PROVE  LockInv'
    BY <1>7, <1>8, <1>9 DEF Cancel, StrayEnds, CommandActs, CommandEnds, locals
<1>10. CASE ReadStderr \/ BashLine
    BY <1>7, <1>8, <1>10 DEF ReadStderr, BashLine, locals
<1> QED BY <1>1, <1>2, <1>3, <1>4, <1>5, <1>6, <1>9, <1>10 DEF Next, CallStep, BashStep

LEMMA TypeStep ==
    ASSUME TypeOK, LockInv, [Next]_vars
    PROVE  TypeOK'
<1>1. ASSUME NEW c \in Call, Cancel(c) PROVE TypeOK'
    BY <1>1 DEF Cancel, TypeOK, locals, results, stderrVars
<1>2. CASE UNCHANGED vars
    BY <1>2 DEF TypeOK, vars, runner, locals, results, stderrVars
<1> QED BY <1>1, <1>2, StartType, PassLineType, SeeMarkerType, ScanFailsType, FinishType,
           ReadStderrType, CloseType, BashLineType, CommandType, StrayEndsType
        DEF Next, CallStep, BashStep

LEMMA TypeAndLock == Spec => [](TypeOK /\ LockInv)
<1> DEFINE Inv == TypeOK /\ LockInv
<1>1. Inv /\ [Next]_vars => Inv'
    <2> SUFFICES ASSUME TypeOK, LockInv, [Next]_vars PROVE TypeOK' /\ LockInv'
        OBVIOUS
    <2>1. CASE UNCHANGED vars
        BY <2>1, TypeStep DEF LockInv, vars, runner, locals
    <2>2. CASE Next
        BY <2>2, TypeStep, LockStep
    <2> QED BY <2>1, <2>2
<1>2. Init => Inv
    BY InitType DEF Init, LockInv
<1> QED BY <1>1, <1>2, PTL DEF Spec

\* The variables have their types, whatever commands do.  That an answer has an
\* exit code needs that the one who waits for stderr is the one who parsed it.
THEOREM TypeCorrect == Spec => []TypeOK
BY TypeAndLock, PTL

-----------------------------------------------------------------------------
(* In step, or marked as broken.                                           *)

\* Who wrote what is left of a sequence, and what is added to it.
LEMMA ByTail ==
    ASSUME NEW S, NEW seq \in Seq(S), NEW A, By(seq, A), seq # <<>>
    PROVE  By(Tail(seq), A) /\ Head(seq).by \in A
<1>1. /\ Tail(seq) \in Seq(S) /\ Len(Tail(seq)) = Len(seq) - 1 /\ Len(seq) \in Nat \ {0}
      /\ \A i \in 1..(Len(seq) - 1) : Tail(seq)[i] = seq[i + 1]
    OBVIOUS
<1>2. DOMAIN Tail(seq) = 1..(Len(seq) - 1) /\ DOMAIN seq = 1..Len(seq) /\ Head(seq) = seq[1]
    BY <1>1
<1> QED BY <1>1, <1>2 DEF By

LEMMA ByAppend ==
    ASSUME NEW S, NEW seq \in Seq(S), NEW A, By(seq, A), NEW item \in S, item.by \in A
    PROVE  By(Append(seq, item), A)
<1>1. /\ Len(Append(seq, item)) = Len(seq) + 1 /\ Len(seq) \in Nat
      /\ DOMAIN seq = 1..Len(seq) /\ DOMAIN Append(seq, item) = 1..(Len(seq) + 1)
      /\ \A i \in 1..Len(seq) : Append(seq, item)[i] = seq[i]
      /\ Append(seq, item)[Len(seq) + 1] = item
    OBVIOUS
<1> QED BY <1>1 DEF By

\* What becomes of stdin in a step of bash.
Taken == stdin' = stdin \/ (stdin # <<>> /\ stdin' = Tail(stdin))

LEMMA TakenBy ==
    ASSUME TypeOK, Taken, NEW A, By(stdin, A)
    PROVE  By(stdin', A) /\ (stdin = <<>> => stdin' = <<>>)
<1>1. stdin \in Seq(Script)
    BY DEF TypeOK
<1>2. stdin # <<>> => By(Tail(stdin), A)
    BY <1>1, ByTail
<1> QED BY <1>2 DEF Taken

LEMMA TakenLast ==
    ASSUME TypeOK, Taken, \A i \in DOMAIN stdin : stdin[i].text = "outMarker" => i = Len(stdin)
    PROVE  /\ \A i \in DOMAIN stdin' : stdin'[i].text = "outMarker" => i = Len(stdin')
           /\ stdin # <<>> /\ Head(stdin).text = "outMarker" => Tail(stdin) = <<>>
<1>1. stdin \in Seq(Script) /\ Len(stdin) \in Nat /\ DOMAIN stdin = 1..Len(stdin)
    BY DEF TypeOK
<1>2. stdin # <<>> =>
        /\ Len(Tail(stdin)) = Len(stdin) - 1 /\ DOMAIN Tail(stdin) = 1..(Len(stdin) - 1)
        /\ \A i \in 1..(Len(stdin) - 1) : Tail(stdin)[i] = stdin[i + 1]
        /\ Head(stdin) = stdin[1] /\ Len(stdin) > 0 /\ Tail(stdin) \in Seq(Script)
    BY <1>1
<1>3. stdin # <<>> /\ Head(stdin).text = "outMarker" => Tail(stdin) = <<>>
    BY <1>1, <1>2, EmptySeq
<1>4. CASE stdin' = stdin
    BY <1>3, <1>4
<1>5. CASE stdin # <<>> /\ stdin' = Tail(stdin)
    <2>1. ASSUME NEW i \in 1..(Len(stdin) - 1), Tail(stdin)[i].text = "outMarker"
          PROVE  i = Len(stdin) - 1
        <3>1. i + 1 \in DOMAIN stdin /\ stdin[i + 1].text = "outMarker"
            BY <1>1, <1>2, <1>5, <2>1
        <3>2. i + 1 = Len(stdin)
            BY <3>1
        <3>3. i \in Int /\ Len(stdin) \in Int
            BY <1>1
        <3> QED BY <3>2, <3>3
    <2> QED BY <1>2, <1>3, <1>5, <2>1
<1> QED BY <1>4, <1>5 DEF Taken

\* The marker of c is in stdout.
Marked(c) == \E i \in DOMAIN stdout : stdout[i].text = "marker" /\ stdout[i].by = c

\* A step of bash keeps OnlyOf: if it writes nothing,
LEMMA KeepOnly ==
    ASSUME TypeOK, NEW c \in Call, OnlyOf(c), Taken, stdout' = stdout,
           {bash'.running, bash'.open} \subseteq {c, None},
           Marked(c) => bash'.running = None /\ bash'.open = None
    PROVE  OnlyOf(c)'
  BY TakenBy, TakenLast DEF OnlyOf, Marked, By

\* or one item, which is the marker only as the last thing it does for c.
LEMMA WriteOnly ==
    ASSUME TypeOK, NEW c \in Call, OnlyOf(c), Taken,
           NEW item \in Item, stdout' = Append(stdout, item), item.by \in {c, None},
           {bash'.running, bash'.open} \subseteq {c, None},
           Marked(c) => bash'.running = None /\ bash'.open = None /\ item.by = None,
           item.text = "marker" => stdin' = <<>> /\ bash'.running = None /\ bash'.open = None
    PROVE  OnlyOf(c)'
<1>1. stdout \in Seq(Item) /\ Len(stdout) \in Nat /\ DOMAIN stdout = 1..Len(stdout)
    BY DEF TypeOK, Item
<1>2. /\ DOMAIN stdout' = 1..(Len(stdout) + 1)
      /\ \A i \in 1..Len(stdout) : stdout'[i] = stdout[i]
      /\ stdout'[Len(stdout) + 1] = item
    BY <1>1
<1>3. By(stdout', {c, None})
    BY <1>1, ByAppend DEF OnlyOf
<1>4. ASSUME NEW i \in DOMAIN stdout', stdout'[i].text = "marker", stdout'[i].by = c
      PROVE  /\ stdin' = <<>> /\ bash'.running = None /\ bash'.open = None
             /\ \A j \in DOMAIN stdout' : j > i => stdout'[j].by = None
    <2>1. CASE i = Len(stdout) + 1
        BY <1>1, <1>2, <1>4, <2>1
    <2>2. CASE i \in 1..Len(stdout)
        <3>1. stdout[i].text = "marker" /\ stdout[i].by = c
            BY <1>2, <1>4, <2>2
        <3>2. Marked(c) /\ stdin = <<>>
            BY <1>1, <2>2, <3>1 DEF Marked, OnlyOf
        <3>3. stdin' = <<>>
            BY <3>2 DEF Taken
        <3>4. \A j \in 1..Len(stdout) : j > i => stdout[j].by = None
            BY <1>1, <2>2, <3>1 DEF OnlyOf
        <3>5. item.by = None
            BY <3>2
        <3> QED BY <1>1, <1>2, <3>2, <3>3, <3>4, <3>5
    <2> QED BY <1>1, <1>2, <2>1, <2>2
<1> QED BY <1>3, <1>4, TakenBy, TakenLast DEF OnlyOf

\* Steps of bash and of what runs in it keep Quiet, and OnlyOf.
StepOfBash ==
    BashLine \/ \E c \in Call : CommandActs(c) \/ CommandEnds(c) \/ StrayEnds(c)

LEMMA ItemTypes ==
    /\ \A c \in Call, text \in {"line", "empty", "overlong"} : [by |-> c, text |-> text] \in Item
    /\ \A text \in {"line", "empty"} : [by |-> None, text |-> text] \in Item
  BY DEF Item, Written

\* What Put appends: the line, or the end of the unfinished one.
LEMMA PutWhat ==
    ASSUME TypeOK, NEW line \in Item, Put(line)
    PROVE  \E item \in Item :
            /\ stdout' = Append(stdout, item)
            /\ bash.open = None => item = line
            /\ bash.open # None => item.by = bash.open /\ item.text = "line"
<1>1. bash.open # None => [by |-> bash.open, text |-> "line"] \in Item
    BY DEF TypeOK, Bash, Item, Written
<1> QED BY <1>1 DEF Put

LEMMA CommandOnly ==
    ASSUME TypeOK, NEW c \in Call, OnlyOf(c), NEW d \in Call,
           CommandActs(d) \/ CommandEnds(d)
    PROVE  OnlyOf(c)'
<1>1. bash.running = d /\ d = c /\ ~Marked(c) /\ bash \in Bash
    BY DEF CommandActs, CommandEnds, Runs, OnlyOf, Marked, TypeOK
<1>2. {bash'.running, bash'.open} \subseteq {c, None}
    <2>1. {bash.running, bash.open} \subseteq {c, None}
        BY DEF OnlyOf
    <2>2. CASE CommandActs(d)
        BY <1>1, <2>1, <2>2 DEF CommandActs, Bash
    <2>3. CASE CommandEnds(d)
        BY <1>1, <2>1, <2>3 DEF CommandEnds, Exit, Bash
    <2> QED BY <2>2, <2>3
<1>3. Taken
    <2>1. CommandActs(d) => Taken
        BY DEF CommandActs, Taken
    <2>2. CommandEnds(d) => stdin' = stdin
        BY DEF CommandEnds
    <2> QED BY <2>1, <2>2 DEF Taken
<1>4. \/ stdout' = stdout
      \/ \E item \in Item : stdout' = Append(stdout, item) /\ item.by = c /\ item.text # "marker"
    <2>1. CASE \E text \in {"line", "empty", "overlong"} : Put([by |-> c, text |-> text])
        <3>1. PICK text \in {"line", "empty", "overlong"} : Put([by |-> c, text |-> text])
            BY <2>1
        <3>2. [by |-> c, text |-> text] \in Item
            BY ItemTypes
        <3> QED BY <1>1, <3>1, <3>2, PutWhat DEF OnlyOf
    <2>2. CASE Exit
        <3>1. [by |-> c, text |-> "line"] \in Item
            BY ItemTypes
        <3> QED BY <2>2, <3>1 DEF Exit, OnlyOf
    <2>3. CASE stdout' = stdout
        BY <2>3
    <2> QED BY <1>1, <2>1, <2>2, <2>3 DEF CommandActs, CommandEnds
<1> QED BY <1>1, <1>2, <1>3, <1>4, KeepOnly, WriteOnly

LEMMA StrayOnly ==
    ASSUME TypeOK, NEW c \in Call, OnlyOf(c), NEW d \in Call, StrayEnds(d)
    PROVE  OnlyOf(c)'
<1>1. bash'.running = bash.running /\ bash'.open \in {bash.open, None} /\ Taken
    <2>1. stdin' = stdin /\ bash \in Bash
        BY DEF StrayEnds, TypeOK
    <2>2. \/ bash' = [bash EXCEPT !.open = None, !.strays[d] = "ended"]
          \/ bash' = [bash EXCEPT !.strays[d] = "ended"]
        BY DEF StrayEnds
    <2> QED BY <2>1, <2>2 DEF Bash, Taken
<1>2. Marked(c) => bash.running = None /\ bash.open = None
    BY DEF Marked, OnlyOf
<1>3. CASE stdout' = stdout
    <2>1. {bash'.running, bash'.open} \subseteq {c, None}
        BY <1>1 DEF OnlyOf
    <2>2. Marked(c) => bash'.running = None /\ bash'.open = None
        BY <1>1, <1>2
    <2> QED BY <1>1, <1>3, <2>1, <2>2, KeepOnly
<1>4. CASE \E text \in {"line", "empty"} : Put([by |-> None, text |-> text])
    <2>1. PICK text \in {"line", "empty"} : Put([by |-> None, text |-> text])
        BY <1>4
    <2>2. PICK item \in Item :
            /\ stdout' = Append(stdout, item)
            /\ bash.open = None => item.by = None /\ item.text = text
            /\ bash.open # None => item.by = bash.open /\ item.text = "line"
        BY <2>1, ItemTypes, PutWhat
    <2>3. item.text # "marker" /\ item.by \in {c, None}
        BY <2>2 DEF OnlyOf
    <2>4. {bash'.running, bash'.open} \subseteq {c, None}
        BY <1>1 DEF OnlyOf
    <2>5. Marked(c) => bash'.running = None /\ bash'.open = None /\ item.by = None
        BY <1>1, <1>2, <2>2
    <2> QED BY <1>1, <2>2, <2>3, <2>4, <2>5, WriteOnly
<1> QED BY <1>3, <1>4 DEF StrayEnds

LEMMA BashLineOnly ==
    ASSUME TypeOK, NEW c \in Call, OnlyOf(c), BashLine
    PROVE  OnlyOf(c)'
<1> DEFINE line == Head(stdin)
<1>1. line \in Script /\ line.by \in {c, Closer} /\ stdin # <<>> /\ stdin' = Tail(stdin)
      /\ Taken /\ bash \in Bash
    BY TailType, ByTail DEF BashLine, TypeOK, OnlyOf, Taken
<1>2. ~Marked(c) /\ bash.running = None
    BY <1>1 DEF Marked, OnlyOf, BashLine
<1>3. CASE line.text \in {"command", "save", "errMarker"}
    <2>1. {bash'.running, bash'.open} \subseteq {c, None} /\ stdout' = stdout
        BY <1>1, <1>2, <1>3 DEF BashLine, OnlyOf, Bash, Script
    <2> QED BY <1>1, <1>2, <2>1, KeepOnly
<1>4. CASE line.text = "blank"
    <2>1. Put([by |-> None, text |-> "empty"]) /\ bash' = [bash EXCEPT !.status = 0, !.open = None]
        BY <1>4 DEF BashLine
    <2>2. PICK item \in Item :
            /\ stdout' = Append(stdout, item)
            /\ bash.open = None => item.by = None /\ item.text = "empty"
            /\ bash.open # None => item.by = bash.open /\ item.text = "line"
        BY <2>1, ItemTypes, PutWhat
    <2>3. item.text # "marker" /\ item.by \in {c, None} /\ {bash'.running, bash'.open} \subseteq {c, None}
        BY <1>1, <1>2, <2>1, <2>2 DEF OnlyOf, Bash
    <2> QED BY <1>1, <1>2, <2>2, <2>3, WriteOnly
<1>5. CASE line.text = "outMarker"
    <2>1. line.by = c
        BY <1>1, <1>5 DEF Script
    <2>2. [by |-> c, text |-> "marker", code |-> bash.ec] \in Item
        BY <1>1 DEF Item, Marker, Bash
    <2>3. Put([by |-> c, text |-> "marker", code |-> bash.ec])
          /\ bash' = [bash EXCEPT !.status = 0, !.open = None]
        BY <1>5, <2>1 DEF BashLine
    <2>4. PICK item \in Item :
            /\ stdout' = Append(stdout, item)
            /\ bash.open = None => item.by = c
            /\ bash.open # None => item.by = bash.open /\ item.text = "line"
        BY <2>2, <2>3, PutWhat
    <2>5. item.by \in {c, None} /\ bash'.running = None /\ bash'.open = None
        BY <1>1, <1>2, <2>3, <2>4 DEF OnlyOf, Bash
    <2>6. stdin' = <<>>
        BY <1>1, <1>5, TakenLast DEF OnlyOf
    <2> QED BY <1>1, <1>2, <2>4, <2>5, <2>6, WriteOnly
<1>6. CASE line.text = "exit"
    <2>1. Exit
        BY <1>6 DEF BashLine
    <2>2. {bash'.running, bash'.open} \subseteq {c, None}
        BY <1>1, <2>1 DEF Exit, Bash
    <2>3. CASE bash.open = None
        BY <1>1, <1>2, <2>1, <2>2, <2>3, KeepOnly DEF Exit
    <2>4. CASE bash.open # None
        <3>1. bash.open = c /\ stdout' = Append(stdout, [by |-> c, text |-> "line"])
            BY <2>1, <2>4 DEF Exit, OnlyOf
        <3>2. [by |-> c, text |-> "line"] \in Item
            BY ItemTypes
        <3> QED BY <1>1, <1>2, <2>2, <3>1, <3>2, WriteOnly
    <2> QED BY <2>3, <2>4
<1> QED BY <1>1, <1>3, <1>4, <1>5, <1>6 DEF Script

LEMMA BashQuiet ==
    ASSUME TypeOK, Quiet, StepOfBash
    PROVE  Quiet'
<1>1. bash \in Bash /\ \A d \in Call : ~CommandActs(d) /\ ~CommandEnds(d)
    BY DEF Quiet, CommandActs, CommandEnds, Runs, TypeOK
<1>2. CASE BashLine
    <2> DEFINE line == Head(stdin)
    <2>1. line \in Script /\ line.by = Closer /\ stdin # <<>> /\ stdin' = Tail(stdin) /\ Taken
        BY <1>2, TailType, ByTail DEF BashLine, TypeOK, Quiet, Taken
    <2>2. line.text = "exit" /\ Exit
        BY <1>2, <2>1 DEF BashLine, Script
    <2>3. bash'.running = None /\ bash'.open = None /\ stdout' = stdout
        BY <1>1, <2>2 DEF Exit, Quiet, Bash
    <2> QED BY <2>1, <2>3, TakenBy DEF Quiet
<1>3. ASSUME NEW d \in Call, StrayEnds(d) PROVE Quiet'
    <2>1. bash'.running = None /\ bash'.open = None /\ stdin' = stdin
        BY <1>1, <1>3 DEF StrayEnds, Quiet, Bash
    <2>2. CASE stdout' = stdout
        BY <2>1, <2>2 DEF Quiet
    <2>3. CASE \E text \in {"line", "empty"} : Put([by |-> None, text |-> text])
        <3>1. PICK text \in {"line", "empty"} : Put([by |-> None, text |-> text])
            BY <2>3
        <3>2. PICK item \in Item : stdout' = Append(stdout, item) /\ item.by = None
            BY <3>1, ItemTypes, PutWhat DEF Quiet
        <3>3. stdout \in Seq(Item) /\ By(stdout, {None})
            BY DEF TypeOK, Item, Quiet
        <3>4. By(stdout', {None})
            BY <3>2, <3>3, ByAppend
        <3> QED BY <2>1, <3>4 DEF Quiet
    <2> QED BY <1>3, <2>2, <2>3 DEF StrayEnds
<1> QED BY <1>1, <1>2, <1>3 DEF StepOfBash

LEMMA BashStepSync ==
    ASSUME TypeOK, SyncInv, StepOfBash
    PROVE  SyncInv'
<1>1. UNCHANGED runner
    BY DEF StepOfBash, BashLine, CommandActs, CommandEnds, StrayEnds
<1>2. UNCHANGED <<lock, pc, broken, sendErr, exitCode, closer>>
    BY <1>1 DEF runner, locals
<1>3. \A c \in Call : OnlyOf(c) => OnlyOf(c)'
    BY CommandOnly, StrayOnly, BashLineOnly DEF StepOfBash
<1>4. Quiet => Quiet'
    BY BashQuiet
<1> QED BY <1>2, <1>3, <1>4 DEF SyncInv, LockInv

\* A script is written to a quiet session.
LEMMA StartSync ==
    ASSUME TypeOK, SyncInv, NEW c \in Call, Start(c), LockInv'
    PROVE  SyncInv'
<1>1. lock = None /\ ~sendErr /\ UNCHANGED <<stdout, bash>>
    BY DEF Start, SyncInv
<1>2. CASE /\ Return(c, ErrorAnswer) /\ UNCHANGED stdin
           /\ UNCHANGED broken \/ broken' = TRUE
    <2>1. Quiet' <=> Quiet
        BY <1>1, <1>2 DEF Quiet
    <2> QED BY <1>1, <1>2, <2>1 DEF SyncInv, LockInv, Return, TypeOK
<1>3. CASE /\ Usable /\ lock' = c /\ pc' = [pc EXCEPT ![c] = "scan"]
           /\ stdin' = stdin \o ScriptOf(c) /\ UNCHANGED <<broken, answer, locals>>
    <2>1. Quiet
        BY <1>1, <1>3 DEF Usable, SyncInv
    <2> DEFINE script == ScriptOf(c)
               n == Len(stdin)
    <2>2. /\ stdin \in Seq(Script) /\ script \in Seq(Script) /\ n \in Nat
          /\ Len(script) = 5 /\ DOMAIN stdin = 1..n
        BY ScriptType DEF TypeOK
    <2>3. /\ Len(stdin') = n + 5 /\ DOMAIN stdin' = 1..(n + 5)
          /\ \A i \in 1..n : stdin'[i] = stdin[i]
          /\ \A i \in (n + 1)..(n + 5) : stdin'[i] = script[i - n]
        <3>1. stdin' = stdin \o script
            BY <1>3
        <3>2. ASSUME NEW i \in (n + 1)..(n + 5)
              PROVE  i - n \in 1..5 /\ n + (i - n) = i
            BY <2>2
        <3>3. /\ Len(stdin') = n + 5 /\ DOMAIN stdin' = 1..(n + 5)
              /\ \A i \in 1..n : stdin'[i] = stdin[i]
              /\ \A k \in 1..5 : stdin'[n + k] = script[k]
            BY <2>2, <3>1, ScriptAppended, Zenon
        <3>4. ASSUME NEW i \in (n + 1)..(n + 5) PROVE stdin'[i] = script[i - n]
            BY <3>2, <3>3
        <3> QED BY <3>3, <3>4
    <2>4. \A i \in 1..5 : script[i].by = c /\ (script[i].text = "outMarker" => i = 5)
        BY DEF ScriptOf
    <2>5. \A i \in 1..n : stdin[i].by = Closer /\ stdin[i].text # "outMarker"
        BY <2>1, <2>2 DEF Quiet, By, Script
    <2>10. \A i \in (n + 1)..(n + 5) : stdin'[i] = script[i - n]
        BY <2>3
    <2>6. ASSUME NEW i \in 1..(n + 5)
          PROVE  stdin'[i].by \in {c, Closer} /\ (stdin'[i].text = "outMarker" => i = n + 5)
        <3>1. CASE i \in 1..n
            BY <2>3, <2>5, <3>1
        <3>2. CASE i \in (n + 1)..(n + 5)
            <4>1. i - n \in 1..5
                BY <2>2, <3>2
            <4>3. stdin'[i] = script[i - n]
                BY <2>10, <3>2
            <4>2. stdin'[i].by = c /\ (stdin'[i].text = "outMarker" => i - n = 5)
                BY <2>4, <4>1, <4>3
            <4> QED BY <2>2, <4>2
        <3> QED BY <2>2, <3>1, <3>2
    <2>7. OnlyOf(c)'
        BY <1>1, <2>1, <2>3, <2>6 DEF Quiet, OnlyOf, By
    <2>8. \A d \in Call : pc'[d] \in {"scan", "stderr"} => d = c /\ pc'[d] = "scan"
        BY <1>3 DEF LockInv, TypeOK
    <2>9. lock' \in Call /\ broken' = FALSE /\ sendErr' = FALSE
        BY <1>1, <1>3 DEF Usable, TypeOK, locals
    <2> QED BY <2>7, <2>8, <2>9 DEF SyncInv
<1> QED BY <1>2, <1>3 DEF Start

\* Behind the marker there is nothing of the call.
LEMMA SeeMarkerSync ==
    ASSUME TypeOK, SyncInv, NEW c \in Call, SeeMarker(c), LockInv'
    PROVE  SyncInv'
<1>1. lock = c /\ OnlyOf(c) /\ broken = sendErr /\ UNCHANGED <<broken, stdin, bash>>
    BY DEF SeeMarker, SyncInv, LockInv
<1>2. /\ stdout \in Seq(Item) /\ stdout # <<>> /\ stdout' = Tail(stdout)
      /\ stdout[1].text = "marker" /\ stdout[1].by = c /\ 1 \in DOMAIN stdout
    <2>1. stdout \in Seq(Item) /\ stdout # <<>>
        BY DEF SeeMarker, TypeOK, Item
    <2>2. Line = stdout[1] /\ 1 \in DOMAIN stdout
        BY <2>1 DEF Line
    <2> QED BY <2>1, <2>2 DEF SeeMarker
<1>3. stdin = <<>> /\ bash.running = None /\ bash.open = None
      /\ \A j \in DOMAIN stdout : j > 1 => stdout[j].by = None
    BY <1>1, <1>2 DEF OnlyOf
<1>4. By(stdout', {None})
    <2>1. /\ DOMAIN stdout = 1..Len(stdout) /\ Len(stdout) \in Nat
          /\ DOMAIN stdout' = 1..(Len(stdout) - 1)
          /\ \A i \in 1..(Len(stdout) - 1) : stdout'[i] = stdout[i + 1]
        BY <1>2
    <2>2. ASSUME NEW i \in 1..(Len(stdout) - 1) PROVE stdout'[i].by = None
        <3>1. i + 1 \in DOMAIN stdout /\ i + 1 > 1
            BY <2>1
        <3> QED BY <1>3, <2>1, <3>1
    <2> QED BY <2>1, <2>2 DEF By
<1>5. Quiet'
    BY <1>1, <1>3, <1>4 DEF Quiet, By
<1>6. \A d \in Call : pc'[d] # "scan"
    BY <1>1 DEF SeeMarker, SyncInv, LockInv, Return, TypeOK
<1>7. IF lock' \in Call THEN broken' = sendErr' ELSE ~sendErr'
    BY <1>1 DEF SeeMarker, Return
<1> QED BY <1>5, <1>6, <1>7 DEF SyncInv

\* What SyncInv is about.
LEMMA UnchangedSync ==
    ASSUME SyncInv, UNCHANGED <<lock, pc, broken, sendErr, exitCode, closer, stdin, stdout, bash>>
    PROVE  SyncInv'
<1>1. (Quiet <=> Quiet') /\ \A c \in Call : OnlyOf(c) <=> OnlyOf(c)'
    BY DEF Quiet, OnlyOf, By
<1> QED BY <1>1 DEF SyncInv, LockInv

LEMMA CloseSync ==
    ASSUME TypeOK, SyncInv, Close, LockInv'
    PROVE  SyncInv'
<1>1. lock \notin Call /\ lock' \notin Call /\ ~sendErr /\ UNCHANGED <<pc, broken, sendErr>>
    BY DEF Close, SyncInv, LockInv, locals
<1>2. Quiet => Quiet'
    <2>1. CASE stdout' = stdout /\ bash' = bash
        <3>1. [by |-> Closer, text |-> "exit"] \in Script
            BY DEF Script
        <3>2. By(stdin, {Closer}) => By(Append(stdin, [by |-> Closer, text |-> "exit"]), {Closer})
            BY <3>1, ByAppend DEF TypeOK
        <3>3. stdin' = stdin \/ stdin' = Append(stdin, [by |-> Closer, text |-> "exit"]) \/ stdin' = <<>>
            BY DEF Close
        <3> QED BY <2>1, <3>2, <3>3 DEF Quiet, By
    <2>2. CASE /\ stdin' = <<>> /\ stdout' = <<>>
               /\ bash' = [bash EXCEPT !.strays = [c \in Call |-> IF Stray(c) THEN "ended" ELSE @[c]]]
        BY <2>2 DEF Quiet, By, TypeOK, Bash
    <2> QED BY <2>1, <2>2 DEF Close
<1>3. \A c \in Call : pc'[c] \notin {"scan", "stderr"}
    BY <1>1 DEF LockInv
<1> QED BY <1>1, <1>2, <1>3 DEF SyncInv

\* Lines are read, sent and dropped.
LEMMA PassLineSync ==
    ASSUME TypeOK, SyncInv, NEW c \in Call, PassLine(c), LockInv'
    PROVE  SyncInv'
<1>1. lock = c /\ OnlyOf(c) /\ broken = sendErr /\ UNCHANGED <<lock, pc, stdin, bash>>
    BY DEF PassLine, SyncInv, LockInv
<1>2. broken' = sendErr'
    <2>1. UNCHANGED <<broken, sendErr>> \/ (broken' = TRUE /\ sendErr' = TRUE)
        BY DEF PassLine
    <2> QED BY <1>1, <2>1
<1>3. /\ DOMAIN stdout = 1..Len(stdout) /\ Len(stdout) \in Nat
      /\ DOMAIN stdout' = 1..(Len(stdout) - 1)
      /\ \A i \in 1..(Len(stdout) - 1) : stdout'[i] = stdout[i + 1]
    <2>1. stdout \in Seq(Item) /\ stdout # <<>> /\ stdout' = Tail(stdout)
        BY DEF PassLine, TypeOK, Item
    <2> QED BY <2>1
<1>4. \A i \in 1..(Len(stdout) - 1) : i + 1 \in DOMAIN stdout
    BY <1>3
<1>5. By(stdout', {c, None})
    BY <1>1, <1>3, <1>4 DEF By, OnlyOf
<1>6. ASSUME NEW i \in DOMAIN stdout', stdout'[i].text = "marker", stdout'[i].by = c
      PROVE  /\ stdin = <<>> /\ bash.running = None /\ bash.open = None
             /\ \A j \in DOMAIN stdout' : j > i => stdout'[j].by = None
    <2>1. i + 1 \in DOMAIN stdout /\ stdout[i + 1].text = "marker" /\ stdout[i + 1].by = c
        BY <1>3, <1>4, <1>6
    <2>2. /\ stdin = <<>> /\ bash.running = None /\ bash.open = None
          /\ \A j \in DOMAIN stdout : j > i + 1 => stdout[j].by = None
        BY <1>1, <2>1 DEF OnlyOf
    <2>3. ASSUME NEW j \in DOMAIN stdout', j > i PROVE stdout'[j].by = None
        <3>1. j + 1 \in DOMAIN stdout /\ j + 1 > i + 1 /\ stdout'[j] = stdout[j + 1]
            BY <1>3, <1>4, <1>6, <2>3
        <3> QED BY <2>2, <3>1
    <2> QED BY <2>2, <2>3
<1>7. OnlyOf(c)'
    BY <1>1, <1>5, <1>6 DEF OnlyOf, By
<1>8. \A d \in Call : pc'[d] \in {"scan", "stderr"} => d = c /\ pc'[d] = "scan"
    BY <1>1 DEF LockInv, PassLine
<1> QED BY <1>1, <1>2, <1>7, <1>8 DEF SyncInv

\* The invariant that the results below rest on.
LEMMA SyncAlways == Spec => [](TypeOK /\ SyncInv)
<1> DEFINE Inv == TypeOK /\ SyncInv
<1>1. Init => Inv
    BY InitType DEF Init, SyncInv, LockInv, Quiet, By
<1>2. Inv /\ [Next]_vars => Inv'
    <2> SUFFICES ASSUME TypeOK, SyncInv, [Next]_vars PROVE TypeOK' /\ SyncInv'
        OBVIOUS
    <2>1. CASE UNCHANGED vars
        BY <2>1, TypeStep, UnchangedSync DEF SyncInv, vars, runner, locals
    <2>2. CASE Next
        <3>1. TypeOK' /\ LockInv'
            BY <2>2, TypeStep, LockStep DEF SyncInv
        <3>2. ASSUME NEW c \in Call, ScanFails(c) PROVE SyncInv'
            <4>1. lock = c /\ broken' /\ ~sendErr' /\ lock' = None
                BY <3>2 DEF ScanFails, Return, SyncInv, LockInv
            <4> QED BY <3>1, <4>1 DEF SyncInv, LockInv, TypeOK
        <3>3. ASSUME NEW c \in Call, Finish(c) PROVE SyncInv'
            <4>1. lock = c /\ Quiet /\ ~sendErr' /\ lock' = None /\ UNCHANGED <<stdin, stdout, bash>>
                BY <3>3 DEF Finish, Return, SyncInv, LockInv
            <4>2. Quiet'
                BY <4>1 DEF Quiet
            <4> QED BY <3>1, <4>1, <4>2 DEF SyncInv, LockInv, TypeOK
        <3>4. CASE ReadStderr \/ \E c \in Call : Cancel(c)
            BY <2>2, <3>1, <3>4, UnchangedSync DEF ReadStderr, Cancel, locals
        <3>5. CASE Close
            BY <3>1, <3>5, CloseSync
        <3>6. ASSUME NEW c \in Call, Start(c) \/ PassLine(c) \/ SeeMarker(c) PROVE SyncInv'
            BY <3>1, <3>6, StartSync, PassLineSync, SeeMarkerSync
        <3>7. CASE StepOfBash
            BY <3>1, <3>7, BashStepSync
        <3>8. \/ \E c \in Call : Start(c) \/ PassLine(c) \/ SeeMarker(c) \/ ScanFails(c) \/ Finish(c)
              \/ (ReadStderr \/ \E c \in Call : Cancel(c)) \/ Close \/ StepOfBash
            BY <2>2 DEF Next, CallStep, BashStep, StepOfBash
        <3> QED BY <3>1, <3>2, <3>3, <3>4, <3>5, <3>6, <3>7, <3>8
    <2> QED BY <2>1, <2>2
<1> QED BY <1>1, <1>2, PTL DEF Spec

\* A session is in step whenever no call has it, unless it is marked as broken:
\* whatever commands do, no call meets what an earlier one left behind.
THEOREM InStep == Spec => []InStepOrBroken
<1>1. TypeOK /\ SyncInv => InStepOrBroken
    <2> SUFFICES ASSUME TypeOK, SyncInv, NEW c \in Call, InFlight(c), lock # c PROVE broken
        BY DEF InStepOrBroken
    <2>1. ~Quiet
        BY DEF InFlight, Quiet, By, Runs
    <2>2. ASSUME NEW d \in Call, lock = d PROVE FALSE
        <3>1. pc[d] = "scan" /\ OnlyOf(d) /\ c # d
            BY <2>1, <2>2 DEF SyncInv, LockInv
        <3> QED BY <3>1 DEF OnlyOf, InFlight, By, Runs
    <2> QED BY <2>1, <2>2 DEF SyncInv, TypeOK
<1> QED BY <1>1, SyncAlways, PTL

\* A session that was left broken is never used again: only the one who drained
\* up to its own marker, and has the lock, takes the mark back.
THEOREM StaysBroken == Spec => BrokenForGood
<1> DEFINE Inv == TypeOK /\ LockInv
<1>1. Spec => []Inv
    BY TypeAndLock
<1>2. Inv /\ [Next]_vars => [broken /\ lock = None => broken' /\ lock' \in {None, Closer}]_vars
    <2> SUFFICES ASSUME TypeOK, LockInv, Next, broken, lock = None
                 PROVE  broken' /\ lock' \in {None, Closer}
        OBVIOUS
    <2>1. ASSUME NEW c \in Call PROVE pc[c] \notin {"scan", "stderr"}
        BY DEF LockInv
    <2>2. ASSUME NEW c \in Call, CallStep(c) PROVE broken' /\ lock' = None
        <3>1. Start(c)
            BY <2>1, <2>2 DEF CallStep, PassLine, SeeMarker, ScanFails, Finish
        <3> QED BY <3>1 DEF Start, Usable, Return
    <2>3. CASE Close \/ ReadStderr \/ \E c \in Call : Cancel(c)
        BY <2>3 DEF Close, ReadStderr, Cancel
    <2>4. CASE StepOfBash
        <3>1. UNCHANGED runner
            BY <2>4 DEF StepOfBash, BashLine, CommandActs, CommandEnds, StrayEnds
        <3> QED BY <3>1 DEF runner
    <2> QED BY <2>2, <2>3, <2>4 DEF Next, BashStep, StepOfBash
<1> QED BY <1>1, <1>2, PTL DEF Spec, BrokenForGood

-----------------------------------------------------------------------------
(* BashShell implements ShellSession.                                      *)

\* Close is done only when bash has ended, and bash does not come back.
ClosedInv == closer = "done" => ~bash.alive

LEMMA ClosedStep ==
    ASSUME TypeOK, ClosedInv, [Next]_vars
    PROVE  ClosedInv'
<1>1. bash'.alive => bash.alive
    <2>1. ASSUME NEW c \in Call, CallStep(c) \/ Cancel(c) PROVE bash' = bash
        BY <2>1 DEF CallStep, Start, PassLine, SeeMarker, ScanFails, Finish, Cancel
    <2>2. ASSUME NEW c \in Call, CommandActs(c) \/ CommandEnds(c) \/ StrayEnds(c)
          PROVE  bash'.alive => bash.alive
        <3>1. bash \in Bash
            BY DEF TypeOK
        <3>2. CASE CommandActs(c)
            BY <3>2 DEF CommandActs, Runs
        <3>3. CASE CommandEnds(c)
            BY <3>3 DEF CommandEnds, Runs
        <3>4. CASE StrayEnds(c)
            BY <3>1, <3>4 DEF StrayEnds, Bash
        <3> QED BY <2>2, <3>2, <3>3, <3>4
    <2>3. CASE BashLine \/ Close \/ ReadStderr
        BY <2>3 DEF BashLine, Exit, Close, ReadStderr, TypeOK, Bash
    <2> QED BY <2>1, <2>2, <2>3 DEF Next, BashStep, vars
<1>2. closer' = closer \/ ~bash.alive \/ closer' = "exit"
    <2>1. ASSUME NEW c \in Call, CallStep(c) \/ Cancel(c) PROVE closer' = closer
        BY <2>1 DEF CallStep, Start, PassLine, SeeMarker, ScanFails, Finish, Cancel
    <2>2. CASE StepOfBash
        BY <2>2 DEF StepOfBash, BashLine, CommandActs, CommandEnds, StrayEnds, runner
    <2>3. CASE Close \/ ReadStderr
        BY <2>3 DEF Close, ReadStderr
    <2> QED BY <2>1, <2>2, <2>3 DEF Next, BashStep, StepOfBash, vars, runner
<1> QED BY <1>1, <1>2 DEF ClosedInv

States == [c \in Call |-> State(c)]

\* A call that returns shows its caller what it returns.
LEMMA ReturnState ==
    ASSUME TypeOK, NEW c \in Call, NEW res \in Answer, Return(c, res)
    PROVE  States' = [States EXCEPT ![c] = res.kind]
<1>1. pc' = [pc EXCEPT ![c] = "done"] /\ answer' = [answer EXCEPT ![c] = res]
    BY DEF Return
<1> QED BY <1>1 DEF States, State, TypeOK

\* The steps of a call, as its caller sees them.
LEMMA CallRefines ==
    ASSUME TypeOK, SyncInv, ClosedInv, NEW c \in Call, CallStep(c)
    PROVE  Session!Next \/ UNCHANGED Session!vars
<1>0. ErrorAnswer \in Answer /\ ErrorAnswer.kind = "error"
    BY DEF Answer, ErrorAnswer, NoAnswer
<1>9. UNCHANGED <<lock, States, broken, closer>> => UNCHANGED Session!vars
    BY DEF Session!vars, States
<1>1. CASE Start(c)
    <2>0. lock = None /\ States[c] = "wait" /\ UNCHANGED closer
        BY <1>1 DEF Start, States, State
    <2>1. CASE Return(c, ErrorAnswer) /\ (UNCHANGED broken \/ broken' = TRUE)
        <3>1. lock' = None /\ States' = [States EXCEPT ![c] = "error"]
            BY <1>0, <2>1, ReturnState DEF Return
        <3>2. Session!Refuse(c)
            BY <2>0, <2>1, <3>1 DEF Session!Refuse, States
        <3> QED BY <3>2 DEF Session!Next
    <2>2. CASE /\ Usable /\ bash.alive /\ lock' = c /\ pc' = [pc EXCEPT ![c] = "scan"]
               /\ UNCHANGED <<broken, answer>>
        <3>1. States' = [States EXCEPT ![c] = "run"]
            BY <2>2 DEF States, State, TypeOK
        <3>2. Session!Begin(c)
            BY <2>0, <2>2, <3>1 DEF Session!Begin, States, Usable, ClosedInv
        <3> QED BY <3>2 DEF Session!Next
    <2> QED BY <1>1, <2>1, <2>2 DEF Start
<1>2. CASE pc[c] \in {"scan", "stderr"}
    <2>0. lock = c /\ States[c] = "run" /\ broken = sendErr
        BY <1>2 DEF SyncInv, LockInv, States, State
    <2>1. CASE PassLine(c)
        <3>1. UNCHANGED <<lock, pc, answer, closer>> /\ (UNCHANGED broken \/ broken' = TRUE)
            BY <2>1 DEF PassLine
        <3>2. States' = States
            BY <3>1 DEF States, State
        <3>3. CASE broken' = TRUE
            <4>1. Session!Drain(c)
                BY <2>0, <3>1, <3>2, <3>3 DEF Session!Drain, States
            <4> QED BY <4>1 DEF Session!Next
        <3> QED BY <1>9, <3>1, <3>2, <3>3
    <2>2. ASSUME NEW res \in Answer, Return(c, res), UNCHANGED closer, broken' \in BOOLEAN,
                 res.kind = "error" \/ (res.kind = "ok" /\ ~broken /\ ~broken')
          PROVE  Session!Next
        <3>1. lock' = None /\ States' = [States EXCEPT ![c] = res.kind]
            BY <2>2, ReturnState DEF Return
        <3>2. Session!End(c)
            BY <2>0, <2>2, <3>1 DEF Session!End, States
        <3> QED BY <3>2 DEF Session!Next
    <2>3. CASE SeeMarker(c)
        <3>1. CASE pc' = [pc EXCEPT ![c] = "stderr"] /\ UNCHANGED <<lock, answer, broken, closer>>
            <4>1. States' = States
                BY <1>2, <3>1 DEF States, State, TypeOK
            <4> QED BY <1>9, <3>1, <4>1
        <3>2. CASE Return(c, ErrorAnswer) /\ UNCHANGED <<broken, closer>>
            BY <1>0, <2>2, <3>2 DEF TypeOK
        <3> QED BY <2>3, <3>1, <3>2 DEF SeeMarker
    <2>4. CASE ScanFails(c)
        <3>1. Return(c, ErrorAnswer) /\ UNCHANGED closer /\ broken' = TRUE
            BY <2>4 DEF ScanFails
        <3> QED BY <1>0, <2>2, <3>1
    <2>5. CASE Finish(c)
        <3>1. UNCHANGED closer /\ broken' = (broken /\ ~sendErr)
            BY <2>5 DEF Finish
        <3>2. CASE sendErr /\ Return(c, ErrorAnswer)
            BY <1>0, <2>2, <3>1, <3>2 DEF TypeOK
        <3> DEFINE res == [kind |-> "ok", code |-> exitCode, stderr |-> stderrBuf]
        <3>3. CASE ~sendErr /\ Return(c, res)
            <4>1. exitCode \in Code
                BY <2>5 DEF Finish, SyncInv, LockInv, TypeOK
            <4>2. res \in Answer /\ res.kind = "ok"
                BY <4>1 DEF TypeOK, Answer
            <4> QED BY <2>0, <2>2, <3>1, <3>3, <4>2
        <3> QED BY <2>5, <3>2, <3>3 DEF Finish
    <2> QED BY <1>2, <2>1, <2>3, <2>4, <2>5 DEF CallStep, Start
<1> QED BY <1>1, <1>2 DEF CallStep, PassLine, SeeMarker, ScanFails, Finish

\* BashShell keeps the promise of ShellSession: no call begins in a session that
\* was left broken or closed, and none is answered out of step.
THEOREM SessionRefinement == Spec => RefinesSession
<1> DEFINE Inv == TypeOK /\ SyncInv /\ ClosedInv
<1>1. Spec => []Inv
    <2>1. Init => ClosedInv
        BY DEF Init, ClosedInv
    <2>2. (TypeOK /\ SyncInv) /\ ClosedInv /\ [Next]_vars => ClosedInv'
        BY ClosedStep
    <2> QED BY <2>1, <2>2, SyncAlways, PTL DEF Spec
<1>2. Init => Session!Init
    BY DEF Init, Session!Init, State
<1>3. Inv /\ [Next]_vars => [Session!Next]_(Session!vars)
    <2> SUFFICES ASSUME TypeOK, SyncInv, ClosedInv, [Next]_vars
                 PROVE  Session!Next \/ UNCHANGED Session!vars
        BY DEF Session!vars
    <2>0. UNCHANGED <<lock, pc, answer, broken, closer>> => UNCHANGED Session!vars
        BY DEF Session!vars, State
    <2>1. ASSUME NEW c \in Call, CallStep(c) PROVE Session!Next \/ UNCHANGED Session!vars
        BY <2>1, CallRefines
    <2>2. CASE Close
        <3>1. UNCHANGED <<pc, answer, broken>>
            BY <2>2 DEF Close, results
        <3>2. Session!Close
            BY <2>2, <3>1 DEF Close, Session!Close, State, SyncInv, LockInv
        <3> QED BY <3>2 DEF Session!Next
    <2>3. CASE ReadStderr \/ \E c \in Call : Cancel(c)
        BY <2>0, <2>3 DEF ReadStderr, Cancel, results
    <2>4. CASE StepOfBash
        <3>1. UNCHANGED runner
            BY <2>4 DEF StepOfBash, BashLine, CommandActs, CommandEnds, StrayEnds
        <3> QED BY <2>0, <3>1 DEF runner, results
    <2>5. CASE UNCHANGED vars
        BY <2>0, <2>5 DEF vars, runner, results
    <2> QED BY <2>1, <2>2, <2>3, <2>4, <2>5 DEF Next, BashStep, StepOfBash
<1> QED BY <1>1, <1>2, <1>3, PTL DEF Spec, RefinesSession, Session!Spec
-----------------------------------------------------------------------------
(* The exit code of an answer.                                             *)

Others(c) == (Call \cup {None, Closer}) \ {c}

\* Bash will do nothing more for call c.
Gone(c) == By(stdin, Others(c)) /\ bash.running # c /\ bash.open # c

\* A call that was answered is over for bash as well, whatever later calls do.
DoneInv == \A c \in Call : answer[c].kind = "ok" => pc[c] = "done" /\ Gone(c)

\* Only Close tells bash to exit.
ExitInv == closer # "exit" => By(stdin, Call)

LEMMA ByConcat ==
    ASSUME NEW S, NEW a \in Seq(S), NEW b \in Seq(S), NEW A, By(a, A), By(b, A)
    PROVE  By(a \o b, A)
<1>1. /\ Len(a \o b) = Len(a) + Len(b) /\ Len(a) \in Nat /\ Len(b) \in Nat
      /\ DOMAIN a = 1..Len(a) /\ DOMAIN b = 1..Len(b) /\ DOMAIN (a \o b) = 1..(Len(a) + Len(b))
      /\ \A i \in 1..Len(a) : (a \o b)[i] = a[i]
      /\ \A i \in 1..Len(b) : (a \o b)[Len(a) + i] = b[i]
    BY ConcatProperties
<1>2. ASSUME NEW i \in 1..(Len(a) + Len(b)) PROVE (a \o b)[i].by \in A
    <2>1. CASE i \in 1..Len(a)
        BY <1>1, <2>1 DEF By
    <2>2. CASE i \notin 1..Len(a)
        <3>1. i - Len(a) \in 1..Len(b) /\ Len(a) + (i - Len(a)) = i
            BY <1>1, <2>2
        <3> QED BY <1>1, <3>1 DEF By
    <2> QED BY <2>1, <2>2
<1> QED BY <1>1, <1>2 DEF By

\* What becomes of stdin: a script is added by the call that begins, "exit" by
\* Close, and lines are taken from the front.
LEMMA StdinSteps ==
    ASSUME TypeOK, [Next]_vars
    PROVE  \/ UNCHANGED stdin
           \/ stdin' = <<>> /\ closer' = "done"
           \/ stdin # <<>> /\ stdin' = Tail(stdin)
           \/ /\ closer' = "exit" /\ stdin' = Append(stdin, [by |-> Closer, text |-> "exit"])
           \/ \E c \in Call : Start(c) /\ bash.alive /\ ~broken /\ pc' = [pc EXCEPT ![c] = "scan"]
                              /\ stdin' = stdin \o ScriptOf(c)
<1>1. ASSUME NEW c \in Call, PassLine(c) \/ SeeMarker(c) \/ ScanFails(c) \/ Finish(c) \/ Cancel(c)
      PROVE  UNCHANGED stdin
    BY <1>1 DEF PassLine, SeeMarker, ScanFails, Finish, Cancel
<1>2. ASSUME NEW c \in Call, CommandActs(c) \/ CommandEnds(c) \/ StrayEnds(c)
      PROVE  UNCHANGED stdin \/ (stdin # <<>> /\ stdin' = Tail(stdin))
    BY <1>2 DEF CommandActs, CommandEnds, StrayEnds
<1>3. ASSUME NEW c \in Call, Start(c)
      PROVE  \/ UNCHANGED stdin
             \/ Start(c) /\ bash.alive /\ ~broken /\ pc' = [pc EXCEPT ![c] = "scan"]
                /\ stdin' = stdin \o ScriptOf(c)
    BY <1>3 DEF Start, Usable
<1>4. CASE ReadStderr \/ BashLine \/ UNCHANGED vars
    BY <1>4 DEF ReadStderr, BashLine, vars
<1>5. CASE Close
    BY <1>5 DEF Close
<1> QED BY <1>1, <1>2, <1>3, <1>4, <1>5 DEF Next, CallStep, BashStep

LEMMA ScriptBy ==
    ASSUME NEW c \in Call, NEW A, c \in A
    PROVE  By(ScriptOf(c), A)
  BY DEF By, ScriptOf

\* Steps that are not of bash leave bash alone, but for the end of Close.
LEMMA OthersKeepBash ==
    ASSUME [Next]_vars
    PROVE  StepOfBash \/ Close \/ UNCHANGED bash
<1>1. ASSUME NEW c \in Call, CallStep(c) \/ Cancel(c) PROVE UNCHANGED bash
    BY <1>1 DEF CallStep, Start, PassLine, SeeMarker, ScanFails, Finish, Cancel
<1> QED BY <1>1 DEF Next, BashStep, StepOfBash, ReadStderr, vars

LEMMA ExitStep ==
    ASSUME TypeOK, ClosedInv, ExitInv, [Next]_vars
    PROVE  ExitInv'
<1>1. stdin \in Seq(Script)
    BY DEF TypeOK
<1>2. closer' # "exit" => closer # "exit" \/ stdin' = <<>>
    <2>1. ASSUME NEW c \in Call, CallStep(c) \/ Cancel(c) PROVE closer' = closer
        BY <2>1 DEF CallStep, Start, PassLine, SeeMarker, ScanFails, Finish, Cancel
    <2>2. CASE StepOfBash \/ UNCHANGED vars
        BY <2>2 DEF StepOfBash, BashLine, CommandActs, CommandEnds, StrayEnds, vars, runner
    <2>3. CASE Close \/ ReadStderr
        BY <2>3 DEF Close, ReadStderr
    <2> QED BY <2>1, <2>2, <2>3 DEF Next, BashStep, StepOfBash
<1>3. By(<<>>, Call)
    BY DEF By
<1>4. ASSUME NEW c \in Call, closer # "exit", stdin' = stdin \o ScriptOf(c)
      PROVE  By(stdin', Call)
    <2>1. By(ScriptOf(c), Call) /\ ScriptOf(c) \in Seq(Script)
        BY ScriptBy, ScriptType
    <2> QED BY <1>1, <1>4, <2>1, ByConcat DEF ExitInv
<1>5. closer # "exit" /\ stdin # <<>> => By(Tail(stdin), Call)
    BY <1>1, ByTail DEF ExitInv
<1>6. CASE closer' = "exit"
    BY <1>6 DEF ExitInv
<1>7. CASE closer # "exit" /\ closer' # "exit" /\ stdin' # <<>>
    BY <1>4, <1>5, <1>7, StdinSteps DEF ExitInv
<1> QED BY <1>2, <1>3, <1>6, <1>7 DEF ExitInv

\* What a running command changes about bash.
LEMMA CommandKeeps ==
    ASSUME TypeOK, NEW d \in Call, CommandActs(d)
    PROVE  /\ bash'.alive = bash.alive /\ bash'.running = d /\ bash'.status = bash.status
           /\ bash'.ec = bash.ec /\ bash'.code = bash.code
           /\ bash'.took = IF stdin' = stdin THEN bash.took ELSE bash.took \cup {d}
           /\ bash'.strays = bash.strays \/ bash'.strays = [bash.strays EXCEPT ![d] = "running"]
<1>1. bash \in Bash /\ bash.running = d /\ stdin \in Seq(Script)
    BY DEF TypeOK, CommandActs, Runs
<1>2. CASE stdin # <<>> /\ stdin' = Tail(stdin) /\ bash' = [bash EXCEPT !.took = @ \cup {d}]
    <2>1. stdin' # stdin
        BY <1>1, <1>2
    <2> QED BY <1>1, <1>2, <2>1 DEF Bash
<1>3. ASSUME NEW text, stdin' = stdin, bash' = [bash EXCEPT !.out[d] = Append(@, text)]
      PROVE  /\ bash'.alive = bash.alive /\ bash'.running = d /\ bash'.status = bash.status
             /\ bash'.ec = bash.ec /\ bash'.code = bash.code /\ bash'.took = bash.took
             /\ bash'.strays = bash.strays
    BY <1>1, <1>3 DEF Bash
<1>4. CASE stdin' = stdin /\ bash' = [bash EXCEPT !.out[d] = Append(@, "line"), !.open = d]
    BY <1>1, <1>4 DEF Bash
<1>5. CASE /\ stdin' = stdin
           /\ \/ bash' = [bash EXCEPT !.err[d] = @ + 1]
              \/ bash' = [bash EXCEPT !.muted = TRUE]
    BY <1>1, <1>5 DEF Bash
<1>6. CASE stdin' = stdin /\ bash' = [bash EXCEPT !.strays[d] = "running"]
    BY <1>1, <1>6 DEF Bash
<1> QED BY <1>2, <1>3, <1>4, <1>5, <1>6 DEF CommandActs

LEMMA GoneStep ==
    ASSUME TypeOK, NEW c \in Call, Gone(c), pc'[c] # "scan", [Next]_vars
    PROVE  Gone(c)'
<1>1. stdin \in Seq(Script) /\ bash \in Bash
    BY DEF TypeOK
<1>2. By(stdin', Others(c))
    <2>1. CASE stdin' = <<>>
        BY <2>1 DEF By
    <2>2. CASE stdin # <<>> /\ stdin' = Tail(stdin)
        BY <1>1, <2>2, ByTail DEF Gone
    <2>3. CASE stdin' = Append(stdin, [by |-> Closer, text |-> "exit"])
        <3>1. [by |-> Closer, text |-> "exit"] \in Script /\ Closer \in Others(c)
            BY DEF Script, Others
        <3>2. [by |-> Closer, text |-> "exit"].by = Closer
            OBVIOUS
        <3> QED BY <1>1, <2>3, <3>1, <3>2, ByAppend DEF Gone
    <2>4. ASSUME NEW d \in Call, pc' = [pc EXCEPT ![d] = "scan"], stdin' = stdin \o ScriptOf(d)
          PROVE  By(stdin', Others(c))
        <3>1. d \in Others(c)
            BY <2>4 DEF TypeOK, Others
        <3>2. By(ScriptOf(d), Others(c)) /\ ScriptOf(d) \in Seq(Script)
            BY <3>1, ScriptBy, ScriptType
        <3> QED BY <1>1, <2>4, <3>2, ByConcat DEF Gone
    <2> QED BY <2>1, <2>2, <2>3, <2>4, StdinSteps DEF Gone
<1>3. bash'.running # c /\ bash'.open # c
    <2>1. CASE BashLine
        <3>1. Head(stdin).by # c /\ Head(stdin) \in Script
            BY <1>1, <2>1, ByTail, TailType DEF BashLine, Gone, Others
        <3>2. bash.running # c /\ bash.open # c /\ c # None
            BY DEF Gone
        <3>3. CASE bash' = [bash EXCEPT !.running = Head(stdin).by]
            BY <1>1, <3>1, <3>2, <3>3 DEF Bash
        <3>4. CASE \/ bash' = [bash EXCEPT !.ec = bash.status, !.status = 0]
                   \/ bash' = [bash EXCEPT !.status = 0]
            BY <1>1, <3>2, <3>4 DEF Bash
        <3>5. CASE bash' = [bash EXCEPT !.status = 0, !.open = None]
            BY <1>1, <3>2, <3>5 DEF Bash
        <3>6. CASE Exit
            BY <1>1, <3>2, <3>6 DEF Exit, Bash
        <3> QED BY <2>1, <3>3, <3>4, <3>5, <3>6 DEF BashLine
    <2>2. ASSUME NEW d \in Call, CommandActs(d) PROVE bash'.running # c /\ bash'.open # c
        <3>1. d # c /\ bash'.running = d /\ bash.open # c
            BY <2>2, CommandKeeps DEF CommandActs, Runs, Gone
        <3>2. CASE bash' = [bash EXCEPT !.out[d] = Append(@, "line"), !.open = d]
            BY <1>1, <3>1, <3>2 DEF Bash
        <3>3. ASSUME NEW text, bash' = [bash EXCEPT !.out[d] = Append(@, text)]
              PROVE  bash'.open = bash.open
            BY <1>1, <3>3 DEF Bash
        <3>4. ASSUME \/ bash' = [bash EXCEPT !.err[d] = @ + 1]
                     \/ bash' = [bash EXCEPT !.took = @ \cup {d}]
                     \/ bash' = [bash EXCEPT !.muted = TRUE]
                     \/ bash' = [bash EXCEPT !.strays[d] = "running"]
              PROVE  bash'.open = bash.open
            BY <1>1, <3>4 DEF Bash
        <3> QED BY <2>2, <3>1, <3>2, <3>3, <3>4 DEF CommandActs
    <2>3. ASSUME NEW d \in Call, CommandEnds(d) PROVE bash'.running # c /\ bash'.open # c
        BY <1>1, <2>3 DEF CommandEnds, Exit, Gone, Bash
    <2>4. ASSUME NEW d \in Call, StrayEnds(d) PROVE bash'.running # c /\ bash'.open # c
        BY <1>1, <2>4 DEF StrayEnds, Gone, Bash
    <2>5. CASE Close
        BY <1>1, <2>5 DEF Close, Gone, Bash
    <2>6. CASE UNCHANGED bash
        BY <2>6 DEF Gone
    <2> QED BY <2>1, <2>2, <2>3, <2>4, <2>5, <2>6, OthersKeepBash DEF StepOfBash
<1> QED BY <1>2, <1>3 DEF Gone

\* How a call comes to its answer, and keeps it.
LEMMA AnswerSteps ==
    ASSUME TypeOK, NEW c \in Call, [Next]_vars
    PROVE  \/ answer'[c] = answer[c] /\ (pc[c] = "done" => pc'[c] = "done")
           \/ Finish(c) /\ ~sendErr /\ pc'[c] = "done"
              /\ answer'[c] = [kind |-> "ok", code |-> exitCode, stderr |-> stderrBuf]
           \/ answer'[c] = ErrorAnswer
<1>1. answer \in [Call -> Answer] /\ pc \in [Call -> {"wait", "scan", "stderr", "done"}]
    BY DEF TypeOK
<1>2. ASSUME NEW d \in Call, NEW res, Return(d, res), d # c
      PROVE  answer'[c] = answer[c] /\ (pc[c] = "done" => pc'[c] = "done")
    BY <1>1, <1>2 DEF Return
<1>3. ASSUME Return(c, ErrorAnswer) PROVE answer'[c] = ErrorAnswer
    BY <1>1, <1>3 DEF Return
<1>4. ASSUME NEW d \in Call, Start(d) \/ SeeMarker(d)
      PROVE  \/ answer'[c] = answer[c] /\ (pc[c] = "done" => pc'[c] = "done")
             \/ answer'[c] = ErrorAnswer
    <2>1. CASE Return(d, ErrorAnswer)
        BY <1>2, <1>3, <2>1
    <2>2. CASE UNCHANGED answer /\ pc' = [pc EXCEPT ![d] = "scan"] /\ pc[d] = "wait"
        BY <1>1, <2>2
    <2>3. CASE UNCHANGED answer /\ pc' = [pc EXCEPT ![d] = "stderr"] /\ pc[d] = "scan"
        BY <1>1, <2>3
    <2> QED BY <1>4, <2>1, <2>2, <2>3 DEF Start, SeeMarker
<1>5. ASSUME NEW d \in Call, ScanFails(d)
      PROVE  \/ answer'[c] = answer[c] /\ (pc[c] = "done" => pc'[c] = "done")
             \/ answer'[c] = ErrorAnswer
    BY <1>2, <1>3, <1>5 DEF ScanFails
<1>6. ASSUME NEW d \in Call, Finish(d), d # c
      PROVE  answer'[c] = answer[c] /\ (pc[c] = "done" => pc'[c] = "done")
    BY <1>2, <1>6 DEF Finish
<1>7. ASSUME Finish(c)
      PROVE  \/ /\ ~sendErr /\ pc'[c] = "done"
                /\ answer'[c] = [kind |-> "ok", code |-> exitCode, stderr |-> stderrBuf]
             \/ answer'[c] = ErrorAnswer
    <2>1. CASE sendErr
        BY <1>3, <1>7, <2>1 DEF Finish
    <2>2. CASE ~sendErr
        <3>1. Return(c, [kind |-> "ok", code |-> exitCode, stderr |-> stderrBuf])
            BY <1>7, <2>2 DEF Finish
        <3> QED BY <1>1, <2>2, <3>1 DEF Return
    <2> QED BY <2>1, <2>2
<1>8. ASSUME NEW d \in Call, PassLine(d) \/ Cancel(d) PROVE UNCHANGED <<answer, pc>>
    BY <1>8 DEF PassLine, Cancel, results
<1>9. CASE Close \/ ReadStderr \/ StepOfBash \/ UNCHANGED vars
    <2>1. UNCHANGED <<answer, pc>>
        BY <1>9 DEF Close, ReadStderr, StepOfBash, BashLine, CommandActs, CommandEnds, StrayEnds,
                    vars, runner, results
    <2> QED BY <2>1
<1> QED BY <1>4, <1>5, <1>6, <1>7, <1>8, <1>9 DEF Next, CallStep, BashStep, StepOfBash

LEMMA QuietGone ==
    ASSUME Quiet, NEW c \in Call
    PROVE  Gone(c)
  BY DEF Quiet, Gone, By, Others

LEMMA DoneStep ==
    ASSUME TypeOK, SyncInv, DoneInv, [Next]_vars
    PROVE  DoneInv'
<1> SUFFICES ASSUME NEW c \in Call, answer'[c].kind = "ok" PROVE pc'[c] = "done" /\ Gone(c)'
    BY DEF DoneInv
<1>1. CASE answer'[c] = answer[c] /\ (pc[c] = "done" => pc'[c] = "done")
    BY <1>1, GoneStep DEF DoneInv
<1>2. CASE Finish(c) /\ pc'[c] = "done"
    <2>1. pc[c] = "stderr" /\ Quiet
        BY <1>2 DEF Finish, SyncInv
    <2> QED BY <1>2, <2>1, QuietGone, GoneStep
<1> QED BY <1>1, <1>2, AnswerSteps DEF ErrorAnswer, NoAnswer

\* The code with which the command of a call ended stays.
LEMMA CodeKept ==
    ASSUME TypeOK, NEW c \in Call, [Next]_vars, ~Runs(c)
    PROVE  bash'.code[c] = bash.code[c]
<1>1. bash \in Bash
    BY DEF TypeOK
<1>2. CASE BashLine
    BY <1>1, <1>2 DEF BashLine, Exit, Bash
<1>3. ASSUME NEW d \in Call, CommandActs(d) PROVE bash'.code[c] = bash.code[c]
    BY <1>3, CommandKeeps
<1>4. ASSUME NEW d \in Call, CommandEnds(d) PROVE bash'.code[c] = bash.code[c]
    <2>1. c # d
        BY <1>4 DEF CommandEnds, Runs
    <2>2. CASE Exit
        BY <1>1, <2>2 DEF Exit, Bash
    <2>3. ASSUME NEW code, bash' = [bash EXCEPT !.running = None, !.status = code, !.code[d] = code]
          PROVE  bash'.code[c] = bash.code[c]
        BY <1>1, <2>1, <2>3 DEF Bash
    <2> QED BY <1>4, <2>2, <2>3 DEF CommandEnds
<1>5. ASSUME NEW d \in Call, StrayEnds(d) PROVE bash'.code[c] = bash.code[c]
    BY <1>1, <1>5 DEF StrayEnds, Bash
<1>6. CASE Close
    BY <1>1, <1>6 DEF Close, Bash
<1> QED BY <1>2, <1>3, <1>4, <1>5, <1>6, OthersKeepBash DEF StepOfBash

\* Who took lines of the script, once and for all.
LEMMA TookStays ==
    ASSUME TypeOK, [Next]_vars
    PROVE  bash.took \subseteq bash'.took
<1>1. bash \in Bash
    BY DEF TypeOK
<1>2. CASE BashLine
    BY <1>1, <1>2 DEF BashLine, Exit, Bash
<1>3. ASSUME NEW d \in Call, CommandActs(d) PROVE bash.took \subseteq bash'.took
    BY <1>1, <1>3, CommandKeeps
<1>4. ASSUME NEW d \in Call, CommandEnds(d) PROVE bash.took \subseteq bash'.took
    BY <1>1, <1>4 DEF CommandEnds, Exit, Bash
<1>5. ASSUME NEW d \in Call, StrayEnds(d) PROVE bash.took \subseteq bash'.took
    BY <1>1, <1>5 DEF StrayEnds, Bash
<1>6. CASE Close
    BY <1>1, <1>6 DEF Close, Bash
<1> QED BY <1>2, <1>3, <1>4, <1>5, <1>6, OthersKeepBash DEF StepOfBash

\* A call that waits for stderr has seen its marker.
LEMMA StderrSteps ==
    ASSUME TypeOK, SyncInv, NEW c \in Call, pc'[c] = "stderr", [Next]_vars
    PROVE  \/ SeeMarker(c)
           \/ pc[c] = "stderr" /\ UNCHANGED <<exitCode, pending, sendErr, sent>> /\ ~CallStep(c)
<1>1. pc \in [Call -> {"wait", "scan", "stderr", "done"}]
    BY DEF TypeOK
<1>2. ASSUME NEW d \in Call, NEW res, Return(d, res), lock \in {d, None} PROVE FALSE
    <2>1. pc[c] = "stderr" /\ d # c
        BY <1>1, <1>2 DEF Return
    <2>2. lock = c
        BY <2>1 DEF SyncInv, LockInv
    <2> QED BY <1>2, <2>1, <2>2
<1>3. ASSUME NEW d \in Call, Start(d) PROVE FALSE
    <2>1. pc' = [pc EXCEPT ![d] = "scan"] /\ lock = None
        BY <1>2, <1>3 DEF Start
    <2>2. pc[c] = "stderr"
        BY <1>1, <2>1
    <2> QED BY <2>1, <2>2 DEF SyncInv, LockInv
<1>4. ASSUME NEW d \in Call, SeeMarker(d), d # c PROVE FALSE
    <2>1. lock = d
        BY <1>4 DEF SeeMarker, SyncInv, LockInv
    <2>2. pc' = [pc EXCEPT ![d] = "stderr"]
        BY <1>2, <1>4, <2>1 DEF SeeMarker
    <2>3. pc[c] = "stderr"
        BY <1>1, <1>4, <2>2
    <2> QED BY <1>4, <2>1, <2>3 DEF SyncInv, LockInv
<1>5. ASSUME NEW d \in Call, ScanFails(d) \/ Finish(d) PROVE FALSE
    <2>1. lock = d
        BY <1>5 DEF ScanFails, Finish, SyncInv, LockInv
    <2>2. \E res : Return(d, res)
        BY <1>5 DEF ScanFails, Finish
    <2> QED BY <1>2, <2>1, <2>2
<1>6. ASSUME NEW d \in Call, PassLine(d) PROVE FALSE
    <2>1. pc[d] = "scan" /\ pc[c] = "stderr"
        BY <1>6 DEF PassLine
    <2> QED BY <2>1 DEF SyncInv, LockInv
<1>7. ASSUME StepOfBash \/ ReadStderr \/ Close \/ UNCHANGED vars \/ \E d \in Call : Cancel(d)
      PROVE  pc[c] = "stderr" /\ UNCHANGED <<exitCode, pending, sendErr, sent>>
    BY <1>7 DEF ReadStderr, StepOfBash, BashLine, CommandActs, CommandEnds, StrayEnds, Cancel, Close,
           vars, runner, locals, results
<1>8. \A d \in Call : CallStep(d) => d = c /\ SeeMarker(c)
    BY <1>3, <1>4, <1>5, <1>6 DEF CallStep
<1> QED BY <1>7, <1>8 DEF Next, BashStep, StepOfBash

\* Who has the lock is alone with bash and the goroutine that reads stderr.
LEMMA ScanSteps ==
    ASSUME TypeOK, SyncInv, NEW c \in Call, pc'[c] = "scan", [Next]_vars
    PROVE  \/ /\ Start(c) /\ bash.alive /\ ~broken /\ ExpectMarker(c)
              /\ stdin' = stdin \o ScriptOf(c) /\ UNCHANGED <<broken, answer, locals>>
           \/ /\ pc[c] = "scan"
              /\ \/ PassLine(c) \/ StepOfBash \/ ReadStderr
                 \/ UNCHANGED vars \/ \E d \in Call : Cancel(d)
<1>1. pc \in [Call -> {"wait", "scan", "stderr", "done"}]
    BY DEF TypeOK
<1>2. ASSUME NEW d \in Call, NEW res, Return(d, res), lock = d PROVE FALSE
    <2>1. pc[d] # "done" /\ pc[c] = "scan" /\ d # c
        BY <1>1, <1>2 DEF Return, SyncInv, LockInv
    <2> QED BY <1>2, <2>1 DEF SyncInv, LockInv
<1>3. ASSUME Start(c)
      PROVE  /\ bash.alive /\ ~broken /\ ExpectMarker(c)
             /\ stdin' = stdin \o ScriptOf(c) /\ UNCHANGED <<broken, answer, locals>>
    BY <1>1, <1>3 DEF Start, Usable, Return
<1>4. ASSUME NEW d \in Call, Start(d), d # c PROVE FALSE
    <2>1. pc[c] = "scan" /\ lock = None
        BY <1>1, <1>4 DEF Start, Return
    <2> QED BY <2>1 DEF SyncInv, LockInv
<1>5. ASSUME NEW d \in Call, SeeMarker(d) PROVE FALSE
    <2>1. lock = d
        BY <1>5 DEF SeeMarker, SyncInv, LockInv
    <2>2. pc' = [pc EXCEPT ![d] = "stderr"]
        BY <1>2, <1>5, <2>1 DEF SeeMarker
    <2>3. pc[c] = "scan" /\ c # d
        BY <1>1, <2>2
    <2> QED BY <2>1, <2>3 DEF SyncInv, LockInv
<1>6. ASSUME NEW d \in Call, ScanFails(d) \/ Finish(d) PROVE FALSE
    <2>1. lock = d
        BY <1>6 DEF ScanFails, Finish, SyncInv, LockInv
    <2>2. \E res : Return(d, res)
        BY <1>6 DEF ScanFails, Finish
    <2> QED BY <1>2, <2>1, <2>2
<1>7. ASSUME NEW d \in Call, PassLine(d) PROVE PassLine(c) /\ pc[c] = "scan"
    <2>1. pc[c] = "scan" /\ pc[d] = "scan"
        BY <1>7 DEF PassLine
    <2>2. d = c
        BY <2>1 DEF SyncInv, LockInv
    <2> QED BY <1>7, <2>1, <2>2
<1>8. ASSUME Close PROVE FALSE
    <2>1. pc[c] = "scan" /\ (lock = None \/ closer = "exit")
        BY <1>8 DEF Close
    <2> QED BY <2>1 DEF SyncInv, LockInv
<1>9. StepOfBash \/ ReadStderr \/ UNCHANGED vars \/ (\E d \in Call : Cancel(d)) => pc[c] = "scan"
    BY DEF ReadStderr, StepOfBash, BashLine, CommandActs, CommandEnds, StrayEnds, Cancel,
           vars, runner
<1> QED BY <1>3, <1>4, <1>5, <1>6, <1>7, <1>8, <1>9 DEF Next, CallStep, BashStep, StepOfBash

\* The markers of c say with which code its command ended.
Codes(c) == \A i \in DOMAIN stdout :
    stdout[i].text = "marker" /\ stdout[i].by = c => stdout[i].code = bash.code[c]

\* What is left of the script of c.
Rest(c) ==
    /\ Len(stdin) \in {0, 1, 2, 3, 4, 5}
    /\ \A i \in DOMAIN stdin : stdin[i] = ScriptOf(c)[i + 5 - Len(stdin)]

\* While bash goes through the script of c, the code goes from the command to $?,
\* to __ec and to the marker.
Coded(c) ==
    /\ Rest(c)
    /\ Len(stdin) = 5 => bash.running = None
    /\ Len(stdin) = 4 /\ bash.running = None /\ bash.alive => bash.status = bash.code[c]
    /\ Len(stdin) \notin {4, 5} => bash.running = None /\ bash.ec = bash.code[c] /\ bash.code[c] # None
    /\ Codes(c)

CodeInv == \A c \in Call \ bash.took :
    /\ pc[c] = "scan" => Coded(c)
    /\ pc[c] = "stderr" => exitCode = bash.code[c]
    /\ answer[c].kind = "ok" => answer[c].code = bash.code[c]

LEMMA CodesTail ==
    ASSUME TypeOK, NEW c \in Call, Codes(c), stdout # <<>>, stdout' = Tail(stdout),
           bash'.code[c] = bash.code[c]
    PROVE  Codes(c)'
<1>1. /\ DOMAIN stdout = 1..Len(stdout) /\ Len(stdout) \in Nat
      /\ DOMAIN stdout' = 1..(Len(stdout) - 1)
      /\ \A i \in 1..(Len(stdout) - 1) : stdout'[i] = stdout[i + 1]
    BY DEF TypeOK
<1>2. \A i \in 1..(Len(stdout) - 1) : i + 1 \in DOMAIN stdout
    BY <1>1
<1> QED BY <1>1, <1>2 DEF Codes

LEMMA CodesAppend ==
    ASSUME TypeOK, NEW c \in Call, Codes(c), NEW item \in Item, stdout' = Append(stdout, item),
           bash'.code[c] = bash.code[c],
           item.text = "marker" => item.code = bash.code[c]
    PROVE  Codes(c)'
<1>1. /\ DOMAIN stdout = 1..Len(stdout) /\ Len(stdout) \in Nat
      /\ DOMAIN stdout' = 1..(Len(stdout) + 1)
      /\ \A i \in 1..Len(stdout) : stdout'[i] = stdout[i]
      /\ stdout'[Len(stdout) + 1] = item
    BY DEF TypeOK
<1> QED BY <1>1 DEF Codes

LEMMA StrayPut ==
    ASSUME TypeOK, NEW text \in {"line", "empty"}, Put([by |-> None, text |-> text])
    PROVE  \E item \in Item : stdout' = Append(stdout, item) /\ item.text # "marker"
<1>1. [by |-> None, text |-> text] \in Item /\ [by |-> None, text |-> text].text # "marker"
    BY ItemTypes
<1>2. PICK item \in Item : /\ stdout' = Append(stdout, item)
                           /\ bash.open = None => item = [by |-> None, text |-> text]
                           /\ bash.open # None => item.by = bash.open /\ item.text = "line"
    BY <1>1, PutWhat
<1>3. item.text # "marker"
    BY <1>1, <1>2
<1> QED BY <1>2, <1>3

\* A marker is all that bash appends of its own accord.
LEMMA BashWrites ==
    ASSUME TypeOK, StepOfBash
    PROVE  \/ UNCHANGED stdout
           \/ \E item \in Item :
                /\ stdout' = Append(stdout, item)
                /\ \/ item.text # "marker"
                   \/ /\ BashLine /\ Head(stdin).text = "outMarker" /\ bash.open = None
                      /\ item = [by |-> Head(stdin).by, text |-> "marker", code |-> bash.ec]
<1> DEFINE Unmarked == \E item \in Item : stdout' = Append(stdout, item) /\ item.text # "marker"
<1>1. ASSUME NEW line \in Item, line.text # "marker", Put(line) PROVE Unmarked
    <2>1. PICK item \in Item : /\ stdout' = Append(stdout, item)
                               /\ bash.open = None => item = line
                               /\ bash.open # None => item.by = bash.open /\ item.text = "line"
        BY <1>1, PutWhat
    <2>2. item.text # "marker"
        BY <1>1, <2>1
    <2> QED BY <2>1, <2>2
<1>2. CASE Exit
    <2>1. bash.open # None => [by |-> bash.open, text |-> "line"] \in Item
        BY DEF TypeOK, Bash, Item, Written
    <2> QED BY <1>2, <2>1 DEF Exit
<1>3. ASSUME NEW c \in Call, CommandActs(c) PROVE UNCHANGED stdout \/ Unmarked
    <2>1. ASSUME NEW text \in {"line", "empty", "overlong"}, Put([by |-> c, text |-> text])
          PROVE  Unmarked
        <3>1. [by |-> c, text |-> text] \in Item /\ [by |-> c, text |-> text].text # "marker"
            BY ItemTypes
        <3> QED BY <1>1, <2>1, <3>1
    <2> QED BY <1>3, <2>1 DEF CommandActs
<1>4. ASSUME NEW c \in Call, CommandEnds(c) PROVE UNCHANGED stdout \/ Exit
    BY <1>4 DEF CommandEnds
<1>5. ASSUME NEW c \in Call, StrayEnds(c) PROVE UNCHANGED stdout \/ Unmarked
    <2>1. ASSUME NEW text \in {"line", "empty"}, Put([by |-> None, text |-> text])
          PROVE  Unmarked
        <3>1. [by |-> None, text |-> text] \in Item /\ [by |-> None, text |-> text].text # "marker"
            BY ItemTypes
        <3> QED BY <1>1, <2>1, <3>1
    <2> QED BY <1>5, <2>1 DEF StrayEnds
<1>6. CASE BashLine
    <2> DEFINE line == Head(stdin)
    <2>0. line \in Script /\ bash \in Bash
        BY <1>6, TailType DEF BashLine, TypeOK
    <2>1. CASE line.text = "blank"
        <3>1. Put([by |-> None, text |-> "empty"])
            BY <1>6, <2>1 DEF BashLine
        <3>2. [by |-> None, text |-> "empty"] \in Item /\ [by |-> None, text |-> "empty"].text # "marker"
            BY ItemTypes
        <3> QED BY <1>1, <3>1, <3>2
    <2>2. CASE line.text = "outMarker"
        <3> DEFINE marker == [by |-> line.by, text |-> "marker", code |-> bash.ec]
        <3>1. Put(marker)
            BY <1>6, <2>2 DEF BashLine
        <3>2. line.by \in Call
            BY <2>0, <2>2 DEF Script
        <3>3. marker \in Item
            BY <2>0, <3>2 DEF Item, Marker, Bash
        <3>4. PICK item \in Item : /\ stdout' = Append(stdout, item)
                                   /\ bash.open = None => item = marker
                                   /\ bash.open # None => item.by = bash.open /\ item.text = "line"
            BY <3>1, <3>3, PutWhat
        <3>5. CASE bash.open = None
            BY <1>6, <2>2, <3>4, <3>5
        <3>6. CASE bash.open # None
            BY <3>4, <3>6
        <3> QED BY <3>5, <3>6
    <2>3. CASE line.text = "exit"
        BY <1>2, <1>6, <2>3 DEF BashLine
    <2>4. CASE line.text \in {"command", "save", "errMarker"}
        BY <1>6, <2>4 DEF BashLine
    <2> QED BY <2>0, <2>1, <2>2, <2>3, <2>4 DEF Script
<1> QED BY <1>2, <1>3, <1>4, <1>5, <1>6 DEF StepOfBash

\* A script is taken line by line.
LEMMA RestStep ==
    ASSUME TypeOK, NEW c \in Call, Rest(c), stdin # <<>>, stdin' = Tail(stdin)
    PROVE  /\ Rest(c)' /\ Len(stdin) \in {1, 2, 3, 4, 5} /\ Len(stdin') = Len(stdin) - 1
           /\ Head(stdin).by = c
           /\ Len(stdin) = 5 <=> Head(stdin).text = "command"
           /\ Len(stdin) = 4 <=> Head(stdin).text = "save"
           /\ Len(stdin) = 3 <=> Head(stdin).text = "errMarker"
           /\ Len(stdin) = 2 <=> Head(stdin).text = "blank"
           /\ Len(stdin) = 1 <=> Head(stdin).text = "outMarker"
<1>1. /\ DOMAIN stdin = 1..Len(stdin) /\ Len(stdin) \in Nat \ {0} /\ Head(stdin) = stdin[1]
      /\ DOMAIN stdin' = 1..(Len(stdin) - 1) /\ Len(stdin') = Len(stdin) - 1
      /\ \A i \in 1..(Len(stdin) - 1) : stdin'[i] = stdin[i + 1]
    BY DEF TypeOK
<1>5. Len(stdin) \in {0, 1, 2, 3, 4, 5}
    BY DEF Rest
<1>2. Len(stdin) \in {1, 2, 3, 4, 5} /\ 1 \in DOMAIN stdin /\ 1 + 5 - Len(stdin) = 6 - Len(stdin)
    BY <1>1, <1>5
<1>3. ASSUME NEW i \in DOMAIN stdin' PROVE stdin'[i] = ScriptOf(c)[i + 5 - Len(stdin')]
    <2>1. i + 1 \in DOMAIN stdin /\ (i + 1) + 5 - Len(stdin) = i + 5 - Len(stdin')
        BY <1>1
    <2>2. stdin[i + 1] = ScriptOf(c)[(i + 1) + 5 - Len(stdin)]
        BY <2>1 DEF Rest
    <2> QED BY <1>1, <2>1, <2>2
<1>4. Len(stdin') \in {0, 1, 2, 3, 4, 5}
    BY <1>1, <1>2
<1>6. Head(stdin) = ScriptOf(c)[6 - Len(stdin)]
    BY <1>1, <1>2 DEF Rest
<1>7. /\ ScriptOf(c)[1].text = "command" /\ ScriptOf(c)[2].text = "save"
      /\ ScriptOf(c)[3].text = "errMarker" /\ ScriptOf(c)[4].text = "blank"
      /\ ScriptOf(c)[5].text = "outMarker" /\ \A k \in 1..5 : ScriptOf(c)[k].by = c
    BY DEF ScriptOf
<1>8. /\ Head(stdin).by = c
      /\ Len(stdin) = 5 <=> Head(stdin).text = "command"
      /\ Len(stdin) = 4 <=> Head(stdin).text = "save"
      /\ Len(stdin) = 3 <=> Head(stdin).text = "errMarker"
      /\ Len(stdin) = 2 <=> Head(stdin).text = "blank"
      /\ Len(stdin) = 1 <=> Head(stdin).text = "outMarker"
    <2>1. CASE Len(stdin) = 1
        BY <1>6, <1>7, <2>1
    <2>2. CASE Len(stdin) = 2
        BY <1>6, <1>7, <2>2
    <2>3. CASE Len(stdin) = 3
        BY <1>6, <1>7, <2>3
    <2>4. CASE Len(stdin) = 4
        BY <1>6, <1>7, <2>4
    <2>5. CASE Len(stdin) = 5
        BY <1>6, <1>7, <2>5
    <2> QED BY <1>2, <2>1, <2>2, <2>3, <2>4, <2>5
<1> QED BY <1>1, <1>2, <1>3, <1>4, <1>8 DEF Rest

\* The script of a call that begins is all there is on stdin.
LEMMA StartScript ==
    ASSUME TypeOK, SyncInv, ClosedInv, ExitInv, NEW c \in Call, Start(c), bash.alive, ~broken,
           stdin' = stdin \o ScriptOf(c)
    PROVE  Quiet /\ stdin = <<>> /\ stdin' = ScriptOf(c) /\ Rest(c)' /\ Len(stdin') = 5
<1>1. lock = None /\ Quiet
    BY DEF Start, SyncInv
<1>2. closer = "wait"
    BY <1>1 DEF TypeOK, ClosedInv, SyncInv, LockInv
<1>3. stdin \in Seq(Script) /\ By(stdin, {Closer}) /\ By(stdin, Call)
    BY <1>1, <1>2 DEF TypeOK, ExitInv, Quiet
<1>4. stdin = <<>>
    <2>1. ASSUME stdin # <<>> PROVE FALSE
        <3>1. Head(stdin).by \in {Closer} /\ Head(stdin).by \in Call
            BY <1>3, <2>1, ByTail
        <3> QED BY <3>1
    <2> QED BY <2>1
<1>5. stdin' = ScriptOf(c) /\ Len(stdin') = 5
    BY <1>4, ScriptType, ConcatProperties
<1>6. Rest(c)'
    <2>1. Len(stdin') \in {0, 1, 2, 3, 4, 5}
        BY <1>5
    <2>2. ASSUME NEW i \in DOMAIN stdin' PROVE stdin'[i] = ScriptOf(c)[i + 5 - Len(stdin')]
        <3>1. i + 5 - Len(stdin') = i
            BY <1>5, ScriptType
        <3> QED BY <1>5, <3>1
    <2> QED BY <2>1, <2>2 DEF Rest
<1> QED BY <1>1, <1>4, <1>5, <1>6

\* Coded is kept by bash,
LEMMA CodedBash ==
    ASSUME TypeOK, NEW c \in Call, OnlyOf(c), Coded(c), StepOfBash, c \notin bash'.took
    PROVE  Coded(c)'
<1>0. bash \in Bash /\ stdin \in Seq(Script) /\ Len(stdin) \in Nat
      /\ bash.running \in {c, None} /\ Rest(c) /\ Codes(c)
    BY DEF TypeOK, OnlyOf, Coded
<1>6. Len(stdin) \in {0, 1, 2, 3, 4, 5}
    BY <1>0 DEF Rest
<1>1. Runs(c) => Len(stdin) = 4
    <2>1. Runs(c) => Len(stdin) # 5 /\ Len(stdin) \in {4, 5}
        BY DEF Coded, Runs
    <2> QED BY <1>0, <1>6, <2>1
<1>2. CASE BashLine
    <2>1. /\ Rest(c)' /\ Len(stdin) \in {1, 2, 3, 4, 5} /\ Len(stdin') = Len(stdin) - 1
        BY <1>0, <1>2, RestStep DEF BashLine
    <2>7. /\ Head(stdin).by = c
          /\ Len(stdin) = 5 <=> Head(stdin).text = "command"
          /\ Len(stdin) = 4 <=> Head(stdin).text = "save"
          /\ Len(stdin) = 3 <=> Head(stdin).text = "errMarker"
          /\ Len(stdin) = 2 <=> Head(stdin).text = "blank"
          /\ Len(stdin) = 1 <=> Head(stdin).text = "outMarker"
        BY <1>0, <1>2, RestStep DEF BashLine
    <2>2. bash.alive /\ bash.running = None /\ bash'.code = bash.code
        BY <1>0, <1>2 DEF BashLine, Exit, Bash
    <2>3. Codes(c)'
        <3>1. CASE UNCHANGED stdout
            BY <2>2, <3>1 DEF Codes, Coded
        <3>2. CASE ~UNCHANGED stdout
            <4>1. PICK item \in Item :
                    /\ stdout' = Append(stdout, item)
                    /\ \/ item.text # "marker"
                       \/ /\ Head(stdin).text = "outMarker"
                          /\ item = [by |-> Head(stdin).by, text |-> "marker", code |-> bash.ec]
                BY <3>2, BashWrites
            <4>2. Head(stdin).text = "outMarker" => bash.ec = bash.code[c]
                BY <2>1, <2>7 DEF Coded
            <4>3. item.text = "marker" => item.code = bash.code[c]
                BY <4>1, <4>2
            <4> QED BY <1>0, <2>2, <4>1, <4>3, CodesAppend
        <3> QED BY <3>1, <3>2
    <2>4. CASE Len(stdin) = 5
        <3>1. Head(stdin).text = "command" /\ Head(stdin).by = c
            BY <2>4, <2>7
        <3>2. bash' = [bash EXCEPT !.running = c]
            BY <1>2, <3>1 DEF BashLine
        <3>3. bash'.running = c
            BY <1>0, <3>2 DEF Bash
        <3>4. Rest(c)' /\ Len(stdin') = 4 /\ c # None
            BY <2>1, <2>4
        <3> QED BY <2>3, <3>3, <3>4 DEF Coded
    <2>5. CASE Len(stdin) = 4
        <3>1. Head(stdin).text = "save"
            BY <2>5, <2>7
        <3>2. bash' = [bash EXCEPT !.ec = bash.status, !.status = 0]
            BY <1>2, <3>1 DEF BashLine
        <3>3. bash'.running = None /\ bash'.ec = bash'.code[c] /\ bash'.code[c] # None
            <4>1. bash'.running = None /\ bash'.ec = bash.status /\ bash.status \in Code
                BY <1>0, <2>2, <3>2 DEF Bash
            <4>2. bash.status = bash.code[c]
                BY <2>2, <2>5 DEF Coded
            <4> QED BY <2>2, <4>1, <4>2
        <3>4. Len(stdin') \notin {4, 5}
            BY <2>1, <2>5
        <3> QED BY <2>1, <2>3, <3>3, <3>4 DEF Coded
    <2>6. CASE Len(stdin) \in {1, 2, 3}
        <3>1. Head(stdin).text \in {"errMarker", "blank", "outMarker"}
            BY <2>6, <2>7
        <3>2. bash'.running = None /\ bash'.ec = bash.ec
            BY <1>0, <1>2, <2>2, <3>1 DEF BashLine, Bash
        <3>3. bash.ec = bash.code[c] /\ bash.code[c] # None /\ Len(stdin') \notin {4, 5}
            BY <2>1, <2>6 DEF Coded
        <3> QED BY <2>1, <2>2, <2>3, <3>2, <3>3 DEF Coded
    <2> QED BY <2>1, <2>4, <2>5, <2>6
<1>3. ASSUME NEW d \in Call, CommandActs(d) PROVE Coded(c)'
    <2>1. d = c /\ Len(stdin) = 4 /\ bash' \in Bash /\ ~BashLine
        BY <1>0, <1>1, <1>3, CommandType DEF CommandActs, Runs, TypeOK, BashLine
    <2>2. stdin' = stdin /\ bash'.running = c /\ bash'.code = bash.code
        BY <1>3, <2>1, CommandKeeps
    <2>3. Codes(c)'
        <3>1. CASE UNCHANGED stdout
            BY <2>2, <3>1 DEF Codes, Coded
        <3>2. CASE ~UNCHANGED stdout
            <4>1. PICK item \in Item : stdout' = Append(stdout, item) /\ item.text # "marker"
                BY <2>1, <3>2, BashWrites
            <4> QED BY <1>0, <2>2, <4>1, CodesAppend
        <3> QED BY <3>1, <3>2
    <2>4. Rest(c)'
        BY <2>2 DEF Rest, Coded
    <2> QED BY <2>1, <2>2, <2>3, <2>4 DEF Coded
<1>4. ASSUME NEW d \in Call, CommandEnds(d) PROVE Coded(c)'
    <2>1. d = c /\ Len(stdin) = 4 /\ stdin' = stdin /\ ~BashLine
        BY <1>0, <1>1, <1>4 DEF CommandEnds, Runs, BashLine
    <2>2. Rest(c)'
        BY <2>1 DEF Rest, Coded
    <2>3. ~Marked(c)
        BY <2>1, <1>4 DEF OnlyOf, Marked, CommandEnds, Runs
    <2>4. Codes(c)'
        <3>1. UNCHANGED stdout => Codes(c)'
            BY <2>3 DEF Marked, Codes
        <3>2. CASE ~UNCHANGED stdout
            <4>1. PICK item \in Item : stdout' = Append(stdout, item) /\ item.text # "marker"
                BY <2>1, <3>2, BashWrites
            <4>2. Exit
                BY <1>4, <3>2 DEF CommandEnds
            <4>3. bash'.code = bash.code
                BY <1>0, <4>2 DEF Exit, Bash
            <4> QED BY <1>0, <4>1, <4>3, CodesAppend
        <3> QED BY <3>1, <3>2
    <2>5. bash'.running = None /\ (bash'.alive => bash'.status = bash'.code[c])
        <3>1. CASE Exit
            BY <1>0, <3>1 DEF Exit, Bash
        <3>2. ASSUME NEW code, bash' = [bash EXCEPT !.running = None, !.status = code, !.code[c] = code]
              PROVE  bash'.running = None /\ bash'.status = bash'.code[c]
            BY <1>0, <3>2, SMTT(30) DEF Bash
        <3> QED BY <1>4, <2>1, <3>1, <3>2 DEF CommandEnds
    <2> QED BY <2>1, <2>2, <2>4, <2>5 DEF Coded
<1>5. ASSUME NEW d \in Call, StrayEnds(d) PROVE Coded(c)'
    <2>1. stdin' = stdin
        BY <1>5 DEF StrayEnds
    <2>2. /\ bash'.running = bash.running /\ bash'.code = bash.code /\ bash'.alive = bash.alive
          /\ bash'.status = bash.status /\ bash'.ec = bash.ec
        BY <1>0, <1>5 DEF StrayEnds, Bash
    <2>3. Codes(c)'
        <3>1. CASE UNCHANGED stdout
            BY <2>2, <3>1 DEF Codes, Coded
        <3>2. CASE ~UNCHANGED stdout
            <4>1. \E text \in {"line", "empty"} : Put([by |-> None, text |-> text])
                BY <1>5, <3>2 DEF StrayEnds
            <4>2. PICK item \in Item : stdout' = Append(stdout, item) /\ item.text # "marker"
                BY <4>1, StrayPut
            <4> QED BY <1>0, <2>2, <4>2, CodesAppend
        <3> QED BY <3>1, <3>2
    <2>4. Rest(c)'
        BY <2>1 DEF Rest, Coded
    <2>5. /\ Len(stdin') = 5 => bash'.running = None
          /\ Len(stdin') = 4 /\ bash'.running = None /\ bash'.alive => bash'.status = bash'.code[c]
          /\ Len(stdin') \notin {4, 5} =>
                bash'.running = None /\ bash'.ec = bash'.code[c] /\ bash'.code[c] # None
        BY <2>1, <2>2 DEF Coded
    <2> QED BY <2>3, <2>4, <2>5 DEF Coded
<1> QED BY <1>2, <1>3, <1>4, <1>5 DEF StepOfBash

\* and by the call itself, from the beginning.
LEMMA CodedStep ==
    ASSUME TypeOK, SyncInv, ClosedInv, ExitInv, NEW c \in Call, pc'[c] = "scan",
           pc[c] = "scan" => Coded(c), [Next]_vars, c \notin bash'.took
    PROVE  Coded(c)'
<1>1. CASE Start(c) /\ bash.alive /\ ~broken /\ stdin' = stdin \o ScriptOf(c)
    <2>1. Quiet /\ Rest(c)' /\ Len(stdin') = 5
        BY <1>1, StartScript
    <2>2. UNCHANGED <<stdout, bash>>
        BY <1>1 DEF Start
    <2>3. Codes(c)'
        <3>1. c # None /\ By(stdout, {None})
            BY <2>1 DEF Quiet
        <3> QED BY <2>2, <3>1 DEF By, Codes
    <2>4. bash'.running = None
        BY <2>1, <2>2 DEF Quiet
    <2> QED BY <2>1, <2>3, <2>4 DEF Coded
<1>2. CASE pc[c] = "scan" /\ PassLine(c)
    <2>1. UNCHANGED <<stdin, bash>> /\ stdout # <<>> /\ stdout' = Tail(stdout)
        BY <1>2 DEF PassLine
    <2>2. Codes(c)'
        BY <1>2, <2>1, CodesTail DEF Coded
    <2>3. Rest(c)'
        BY <1>2, <2>1 DEF Coded, Rest
    <2> QED BY <1>2, <2>1, <2>2, <2>3 DEF Coded
<1>3. CASE pc[c] = "scan" /\ StepOfBash
    BY <1>3, CodedBash DEF SyncInv
<1>4. CASE pc[c] = "scan" /\ UNCHANGED <<stdin, stdout, bash>>
    BY <1>4 DEF Coded, Rest, Codes
<1>5. ReadStderr \/ UNCHANGED vars \/ (\E d \in Call : Cancel(d)) => UNCHANGED <<stdin, stdout, bash>>
    BY DEF ReadStderr, Cancel, vars
<1> QED BY <1>1, <1>2, <1>3, <1>4, <1>5, ScanSteps

LEMMA CodeStep ==
    ASSUME TypeOK, SyncInv, ClosedInv, ExitInv, DoneInv, CodeInv, [Next]_vars
    PROVE  CodeInv'
<1> SUFFICES ASSUME NEW c \in Call, c \notin bash'.took
             PROVE  /\ pc'[c] = "scan" => Coded(c)'
                    /\ pc'[c] = "stderr" => exitCode' = bash'.code[c]
                    /\ answer'[c].kind = "ok" => answer'[c].code = bash'.code[c]
    BY DEF CodeInv
<1>0. c \notin bash.took
    BY TookStays
<1>1. pc'[c] = "scan" => Coded(c)'
    BY <1>0, CodedStep DEF CodeInv
<1>2. pc[c] = "stderr" => bash'.code[c] = bash.code[c]
    <2>1. pc[c] = "stderr" => ~Runs(c)
        BY DEF SyncInv, Quiet, Runs
    <2> QED BY <2>1, CodeKept
<1>3. ASSUME pc'[c] = "stderr" PROVE exitCode' = bash'.code[c]
    <2>1. CASE SeeMarker(c)
        <3>1. pc[c] = "scan" /\ Codes(c) /\ stdout # <<>> /\ UNCHANGED bash
            BY <1>0, <2>1 DEF SeeMarker, CodeInv, Coded
        <3>2. Line = stdout[1] /\ 1 \in DOMAIN stdout
            BY <3>1 DEF Line, TypeOK
        <3>3. Line.text = "marker" /\ Line.by = c /\ exitCode' = Line.code
            BY <1>3, <2>1 DEF SeeMarker, Return, TypeOK
        <3> QED BY <3>1, <3>2, <3>3 DEF Codes
    <2>2. CASE pc[c] = "stderr" /\ UNCHANGED exitCode
        BY <1>0, <1>2, <2>2 DEF CodeInv
    <2> QED BY <1>3, <2>1, <2>2, StderrSteps
<1>4. ASSUME answer'[c].kind = "ok" PROVE answer'[c].code = bash'.code[c]
    <2>1. CASE answer'[c] = answer[c]
        <3>1. ~Runs(c)
            BY <1>4, <2>1 DEF DoneInv, Gone, Runs
        <3> QED BY <1>0, <1>4, <2>1, <3>1, CodeKept DEF CodeInv
    <2>2. CASE Finish(c) /\ answer'[c] = [kind |-> "ok", code |-> exitCode, stderr |-> stderrBuf]
        BY <1>0, <1>2, <2>2 DEF CodeInv, Finish
    <2> QED BY <1>4, <2>1, <2>2, AnswerSteps DEF ErrorAnswer, NoAnswer
<1> QED BY <1>1, <1>3, <1>4

LEMMA CodeAlways ==
    Spec => [](TypeOK /\ SyncInv /\ ClosedInv /\ ExitInv /\ DoneInv /\ CodeInv)
<1> DEFINE Inv == TypeOK /\ SyncInv
           More == ClosedInv /\ ExitInv /\ DoneInv /\ CodeInv
<1>1. Init => More
    <2>1. Init => ClosedInv /\ ExitInv
        BY DEF Init, ClosedInv, ExitInv, By
    <2>2. Init => DoneInv /\ CodeInv
        BY DEF Init, DoneInv, CodeInv, NoAnswer
    <2> QED BY <2>1, <2>2
<1>2. Inv /\ More /\ [Next]_vars => More'
    BY ClosedStep, ExitStep, DoneStep, CodeStep
<1> QED BY <1>1, <1>2, SyncAlways, PTL DEF Spec

\* The exit code of an answer is the one with which the command ended, for any
\* number of calls and whatever runs beside it, unless the command took lines of
\* its own script.
THEOREM CodeCorrect == Spec => []AnswerCode
<1>1. CodeInv => AnswerCode
    BY DEF CodeInv, AnswerCode, Answered
<1> QED BY <1>1, CodeAlways, PTL
-----------------------------------------------------------------------------
(* The lines of an answer.                                                 *)

\* The lines of c in seq.
Mine(seq, c) == {i \in DOMAIN seq : seq[i].by = c /\ seq[i].text # "marker"}

LEMMA ConcatAt ==
    ASSUME NEW S, NEW a \in Seq(S), NEW b \in Seq(S)
    PROVE  /\ Len(a) \in Nat /\ Len(b) \in Nat /\ Len(a \o b) = Len(a) + Len(b)
           /\ DOMAIN a = 1..Len(a) /\ DOMAIN b = 1..Len(b)
           /\ DOMAIN (a \o b) = 1..(Len(a) + Len(b))
           /\ \A i \in DOMAIN a : i \in DOMAIN (a \o b) /\ (a \o b)[i] = a[i]
           /\ \A i \in DOMAIN b : Len(a) + i \in DOMAIN (a \o b) /\ (a \o b)[Len(a) + i] = b[i]
           /\ \A i \in DOMAIN (a \o b) : i \in DOMAIN a \/ (i - Len(a) \in DOMAIN b /\ (a \o b)[i] = b[i - Len(a)])
<1>1. /\ Len(a) \in Nat /\ Len(b) \in Nat /\ Len(a \o b) = Len(a) + Len(b)
      /\ DOMAIN a = 1..Len(a) /\ DOMAIN b = 1..Len(b)
      /\ DOMAIN (a \o b) = 1..(Len(a) + Len(b))
      /\ \A i \in 1..Len(a) : (a \o b)[i] = a[i]
      /\ \A i \in 1..Len(b) : (a \o b)[Len(a) + i] = b[i]
    BY ConcatProperties
<1>2. \A i \in 1..Len(a) : i \in 1..(Len(a) + Len(b))
    BY <1>1
<1>3. \A i \in 1..Len(b) : Len(a) + i \in 1..(Len(a) + Len(b))
    BY <1>1
<1>4. ASSUME NEW i \in 1..(Len(a) + Len(b)), i \notin 1..Len(a)
      PROVE  i - Len(a) \in 1..Len(b) /\ (a \o b)[i] = b[i - Len(a)]
    <2>1. i - Len(a) \in 1..Len(b) /\ Len(a) + (i - Len(a)) = i
        BY <1>1, <1>4
    <2> QED BY <1>1, <2>1
<1> QED BY <1>1, <1>2, <1>3, <1>4

LEMMA MineConcat ==
    ASSUME NEW S, NEW a \in Seq(S), NEW b \in Seq(S), NEW c, Mine(b, c) = {}
    PROVE  Mine(a \o b, c) = Mine(a, c)
<1>1. ASSUME NEW i \in Mine(a, c) PROVE i \in Mine(a \o b, c)
    BY ConcatAt DEF Mine
<1>2. ASSUME NEW i \in Mine(a \o b, c) PROVE i \in Mine(a, c)
    <2>1. i \in DOMAIN (a \o b)
        BY DEF Mine
    <2>2. CASE i \in DOMAIN a
        BY <2>2, ConcatAt DEF Mine
    <2>3. CASE i - Len(a) \in DOMAIN b /\ (a \o b)[i] = b[i - Len(a)]
        <3>1. i - Len(a) \in Mine(b, c)
            BY <2>3 DEF Mine
        <3> QED BY <3>1
    <2> QED BY <2>1, <2>2, <2>3, ConcatAt
<1> QED BY <1>1, <1>2

\* What others write behind changes nothing.
LEMMA WroteConcat ==
    ASSUME NEW S, NEW a \in Seq(S), NEW b \in Seq(S), NEW c, Mine(b, c) = {}, NEW texts
    PROVE  Wrote(a \o b, c, texts) <=> Wrote(a, c, texts)
<1>1. Mine(a \o b, c) = Mine(a, c)
    BY MineConcat
<1>2. \A i \in Mine(a, c) : i \in DOMAIN a /\ i \in DOMAIN (a \o b) /\ (a \o b)[i] = a[i]
    BY ConcatAt DEF Mine
<1>3. ASSUME NEW seq \in {a, a \o b}
      PROVE  Wrote(seq, c, texts) <=> \E at \in [DOMAIN texts -> Mine(a, c)] :
                /\ \A k \in DOMAIN texts : a[at[k]].text = texts[k]
                /\ \A j, k \in DOMAIN texts : j < k => at[j] < at[k]
                /\ {at[k] : k \in DOMAIN texts} = Mine(a, c)
    <2>1. Mine(seq, c) = Mine(a, c) /\ \A i \in Mine(a, c) : i \in DOMAIN seq /\ seq[i] = a[i]
        BY <1>1, <1>2
    <2>2. ASSUME Wrote(seq, c, texts)
          PROVE  \E at \in [DOMAIN texts -> Mine(a, c)] :
                    /\ \A k \in DOMAIN texts : a[at[k]].text = texts[k]
                    /\ \A j, k \in DOMAIN texts : j < k => at[j] < at[k]
                    /\ {at[k] : k \in DOMAIN texts} = Mine(a, c)
        <3>1. PICK at \in [DOMAIN texts -> DOMAIN seq] :
                    /\ \A k \in DOMAIN texts : seq[at[k]].text = texts[k]
                    /\ \A j, k \in DOMAIN texts : j < k => at[j] < at[k]
                    /\ {at[k] : k \in DOMAIN texts} = Mine(seq, c)
            BY <2>2 DEF Wrote, Mine
        <3>2. \A k \in DOMAIN texts : at[k] \in Mine(a, c)
            BY <2>1, <3>1
        <3>3. at \in [DOMAIN texts -> Mine(a, c)]
            BY <3>2
        <3> QED BY <2>1, <3>1, <3>2, <3>3
    <2>3. ASSUME NEW at \in [DOMAIN texts -> Mine(a, c)],
                 \A k \in DOMAIN texts : a[at[k]].text = texts[k],
                 \A j, k \in DOMAIN texts : j < k => at[j] < at[k],
                 {at[k] : k \in DOMAIN texts} = Mine(a, c)
          PROVE  Wrote(seq, c, texts)
        <3>1. at \in [DOMAIN texts -> DOMAIN seq]
            BY <2>1
        <3>2. \A k \in DOMAIN texts : seq[at[k]].text = texts[k]
            BY <2>1, <2>3
        <3>3. {at[k] : k \in DOMAIN texts} = {i \in DOMAIN seq : seq[i].by = c /\ seq[i].text # "marker"}
            BY <2>1, <2>3 DEF Mine
        <3> QED BY <2>3, <3>1, <3>2, <3>3 DEF Wrote
    <2> QED BY <2>2, <2>3
<1> QED BY <1>3

\* A line of c is one more.
LEMMA WroteMore ==
    ASSUME NEW S, NEW a \in Seq(S), NEW c, NEW T, NEW texts \in Seq(T), Wrote(a, c, texts),
           NEW item \in S, item.by = c, item.text # "marker", item.text \in T
    PROVE  Wrote(Append(a, item), c, Append(texts, item.text))
<1> DEFINE n == Len(texts)
           more == Append(texts, item.text)
           b == Append(a, item)
           last == Len(a) + 1
<1>1. PICK at \in [DOMAIN texts -> DOMAIN a] :
            /\ \A k \in DOMAIN texts : a[at[k]].text = texts[k]
            /\ \A j, k \in DOMAIN texts : j < k => at[j] < at[k]
            /\ {at[k] : k \in DOMAIN texts} = Mine(a, c)
    BY DEF Wrote, Mine
<1>2. /\ n \in Nat /\ DOMAIN texts = 1..n /\ DOMAIN more = 1..(n + 1)
      /\ \A k \in 1..n : more[k] = texts[k]
      /\ more[n + 1] = item.text
    OBVIOUS
<1>3. /\ Len(a) \in Nat /\ DOMAIN a = 1..Len(a) /\ DOMAIN b = 1..last
      /\ \A i \in 1..Len(a) : b[i] = a[i]
      /\ b[last] = item
    OBVIOUS
<1> DEFINE to == [k \in 1..(n + 1) |-> IF k = n + 1 THEN last ELSE at[k]]
<1> HIDE DEF n, more, b, last
<1>4. \A k \in 1..n : k # n + 1 /\ k \in 1..(n + 1) /\ at[k] \in 1..Len(a)
    BY <1>1, <1>2, <1>3
<1>5. \A k \in 1..(n + 1) : k = n + 1 \/ k \in 1..n
    BY <1>2
<1>6. n + 1 \in 1..(n + 1) /\ last \in 1..last /\ last \notin 1..Len(a) /\ \A i \in 1..Len(a) : i \in 1..last /\ i < last
    BY <1>2, <1>3 DEF last
<1>7. to \in [DOMAIN more -> DOMAIN b] /\ to[n + 1] = last /\ \A k \in 1..n : to[k] = at[k]
    BY <1>2, <1>3, <1>4, <1>5, <1>6
<1>8. \A k \in DOMAIN more : b[to[k]].text = more[k]
    BY <1>1, <1>2, <1>3, <1>4, <1>5, <1>7
<1>9. ASSUME NEW j \in DOMAIN more, NEW k \in DOMAIN more, j < k PROVE to[j] < to[k]
    <2>1. j \in 1..n
        BY <1>2, <1>9
    <2>2. CASE k = n + 1
        BY <1>4, <1>6, <1>7, <2>1, <2>2
    <2>3. CASE k \in 1..n
        BY <1>1, <1>2, <1>7, <1>9, <2>1, <2>3
    <2> QED BY <1>2, <1>5, <2>2, <2>3
<1>10. {to[k] : k \in DOMAIN more} = {i \in DOMAIN b : b[i].by = c /\ b[i].text # "marker"}
    <2>1. {i \in DOMAIN b : b[i].by = c /\ b[i].text # "marker"} = Mine(a, c) \cup {last}
        <3>1. \A i \in DOMAIN b : i = last \/ i \in DOMAIN a
            BY <1>3 DEF last
        <3> QED BY <1>3, <1>6, <3>1 DEF Mine
    <2>2. {to[k] : k \in DOMAIN more} = {at[k] : k \in DOMAIN texts} \cup {last}
        BY <1>2, <1>4, <1>5, <1>6, <1>7
    <2> QED BY <1>1, <2>1, <2>2
<1>11. Wrote(b, c, more)
    BY <1>7, <1>8, <1>9, <1>10 DEF Wrote
<1> QED BY <1>11 DEF b, more

LEMMA WroteNothing ==
    ASSUME NEW seq, NEW c, Mine(seq, c) = {}
    PROVE  Wrote(seq, c, <<>>)
<1> DEFINE at == [k \in {} |-> k]
<1>1. DOMAIN << >> = {}
    OBVIOUS
<1>2. at \in [{} -> DOMAIN seq] /\ {at[k] : k \in {}} = {}
    OBVIOUS
<1>3. {i \in DOMAIN seq : seq[i].by = c /\ seq[i].text # "marker"} = {}
    BY DEF Mine
<1> QED BY <1>1, <1>2, <1>3 DEF Wrote

LEMMA LinesMore ==
    ASSUME NEW n \in Nat
    PROVE  Lines(n) \in Seq({"line"}) /\ Append(Lines(n), "line") = Lines(n + 1)
<1>1. Lines(n) \in Seq({"line"}) /\ Len(Lines(n)) = n
    BY DEF Lines
<1>2. Lines(n + 1) \in Seq({"line"}) /\ Len(Lines(n + 1)) = n + 1
    BY DEF Lines
<1>3. Append(Lines(n), "line") \in Seq({"line"}) /\ Len(Append(Lines(n), "line")) = n + 1
    BY <1>1
<1>4. ASSUME NEW i \in 1..(n + 1) PROVE Append(Lines(n), "line")[i] = Lines(n + 1)[i]
    BY <1>1, <1>4 DEF Lines
<1> QED BY <1>1, <1>2, <1>3, <1>4, SeqEqual

\* What a step of bash does to stdout: nothing;
Silent ==
    /\ UNCHANGED stdout /\ bash'.open = bash.open /\ bash'.out = bash.out
    /\ BashLine => Head(stdin).text \notin {"blank", "outMarker"}

\* a command writes the last line, without its end,
OpensLine(d) ==
    /\ Runs(d) /\ bash.open = None /\ bash'.open = d /\ UNCHANGED stdout
    /\ bash'.out = [bash.out EXCEPT ![d] = Append(@, "line")]

\* or a whole line;
WritesLine(d, text) ==
    /\ Runs(d) /\ bash.open = None /\ bash'.open = None
    /\ stdout' = Append(stdout, [by |-> d, text |-> text])
    /\ bash'.out = [bash.out EXCEPT ![d] = Append(@, text)]

\* the unfinished line swallows what follows;
EndsLine ==
    /\ bash.open # None /\ bash'.open = None /\ bash'.out = bash.out
    /\ stdout' = Append(stdout, [by |-> bash.open, text |-> "line"])

\* the script, or what an earlier command left behind, writes an item.
AddsItem(item) ==
    /\ bash.open = None /\ bash'.open = None /\ bash'.out = bash.out
    /\ stdout' = Append(stdout, item)
    /\ \/ BashLine /\ Head(stdin).text = "blank" /\ item = [by |-> None, text |-> "empty"]
       \/ /\ BashLine /\ Head(stdin).text = "outMarker"
          /\ item = [by |-> Head(stdin).by, text |-> "marker", code |-> bash.ec]
       \/ (\E d \in Call : Stray(d)) /\ item.by = None /\ item.text # "marker"

LEMMA OutputSteps ==
    ASSUME TypeOK, StepOfBash
    PROVE  \/ Silent \/ EndsLine
           \/ \E d \in Call : OpensLine(d)
           \/ \E d \in Call : \E text \in {"line", "empty", "overlong"} : WritesLine(d, text)
           \/ \E item \in Item : AddsItem(item)
<1>0. bash \in Bash /\ stdin \in Seq(Script)
    BY DEF TypeOK
<1>1. ASSUME Exit
      PROVE  EndsLine \/ (UNCHANGED stdout /\ bash'.open = bash.open /\ bash'.out = bash.out)
    BY <1>0, <1>1 DEF Exit, Bash, EndsLine
<1>2. CASE BashLine
    <2> DEFINE line == Head(stdin)
    <2>0. line \in Script
        BY <1>0, <1>2, TailType DEF BashLine
    <2>1. CASE line.text \in {"command", "save", "errMarker"}
        BY <1>0, <1>2, <2>1 DEF BashLine, Bash, Silent
    <2>2. CASE line.text = "blank"
        <3>1. Put([by |-> None, text |-> "empty"]) /\ bash' = [bash EXCEPT !.status = 0, !.open = None]
            BY <1>2, <2>2 DEF BashLine
        <3>2. bash'.open = None /\ bash'.out = bash.out
            BY <1>0, <3>1 DEF Bash
        <3>3. [by |-> None, text |-> "empty"] \in Item
            BY ItemTypes
        <3>4. CASE bash.open = None
            <4>1. stdout' = Append(stdout, [by |-> None, text |-> "empty"])
                BY <3>1, <3>4 DEF Put
            <4>2. AddsItem([by |-> None, text |-> "empty"])
                BY <1>2, <2>2, <3>2, <3>4, <4>1 DEF AddsItem
            <4> QED BY <3>3, <4>2
        <3> QED BY <3>1, <3>2, <3>4 DEF Put, EndsLine
    <2>3. CASE line.text = "outMarker"
        <3> DEFINE marker == [by |-> line.by, text |-> "marker", code |-> bash.ec]
        <3>1. Put(marker) /\ bash' = [bash EXCEPT !.status = 0, !.open = None]
            BY <1>2, <2>3 DEF BashLine
        <3>2. bash'.open = None /\ bash'.out = bash.out
            BY <1>0, <3>1 DEF Bash
        <3>3. line.by \in Call
            BY <2>0, <2>3 DEF Script
        <3>5. marker \in Item
            BY <1>0, <3>3 DEF Item, Marker, Bash
        <3>4. CASE bash.open = None
            <4>1. stdout' = Append(stdout, marker)
                BY <3>1, <3>4 DEF Put
            <4>2. AddsItem(marker)
                BY <1>2, <2>3, <3>2, <3>4, <4>1 DEF AddsItem
            <4> QED BY <3>5, <4>2
        <3> QED BY <3>1, <3>2, <3>4 DEF Put, EndsLine
    <2>4. CASE line.text = "exit"
        BY <1>1, <1>2, <2>4 DEF BashLine, Silent
    <2> QED BY <2>0, <2>1, <2>2, <2>3, <2>4 DEF Script
<1>6. ASSUME NEW d \in Call, CommandActs(d) \/ CommandEnds(d) \/ StrayEnds(d) PROVE ~BashLine
    <2>1. ASSUME BashLine PROVE bash.running = None /\ stdin' # stdin
        <3>1. stdin # <<>> /\ stdin' = Tail(stdin) /\ bash.running = None
            BY <2>1 DEF BashLine
        <3>2. Len(Tail(stdin)) = Len(stdin) - 1 /\ Len(stdin) \in Nat
            BY <1>0, <3>1
        <3>3. Len(Tail(stdin)) # Len(stdin)
            BY <3>2
        <3>4. Tail(stdin) # stdin
            BY <3>3
        <3> QED BY <3>1, <3>4
    <2> QED BY <1>6, <2>1 DEF CommandActs, CommandEnds, StrayEnds, Runs
<1>3. ASSUME NEW d \in Call, CommandActs(d)
      PROVE  \/ Silent \/ OpensLine(d)
             \/ \E text \in {"line", "empty", "overlong"} : WritesLine(d, text)
    <2>1. ASSUME NEW text \in {"line", "empty", "overlong"}, bash.open = None, Put([by |-> d, text |-> text]),
                 bash' = [bash EXCEPT !.out[d] = Append(@, text)]
          PROVE  WritesLine(d, text)
        <3>1. bash'.open = None /\ bash'.out = [bash.out EXCEPT ![d] = Append(@, text)]
            BY <1>0, <2>1 DEF Bash
        <3>2. stdout' = Append(stdout, [by |-> d, text |-> text])
            BY <2>1 DEF Put
        <3> QED BY <1>3, <2>1, <3>1, <3>2 DEF WritesLine, CommandActs
    <2>2. ASSUME bash.open = None, UNCHANGED stdout,
                 bash' = [bash EXCEPT !.out[d] = Append(@, "line"), !.open = d]
          PROVE  OpensLine(d)
        <3>1. bash'.open = d /\ bash'.out = [bash.out EXCEPT ![d] = Append(@, "line")]
            BY <1>0, <2>2 DEF Bash
        <3> QED BY <1>3, <2>2, <3>1 DEF OpensLine, CommandActs
    <2>3. ASSUME UNCHANGED stdout,
                 \/ bash' = [bash EXCEPT !.err[d] = @ + 1]
                 \/ bash' = [bash EXCEPT !.took = @ \cup {d}]
                 \/ bash' = [bash EXCEPT !.muted = TRUE]
                 \/ bash' = [bash EXCEPT !.strays[d] = "running"]
          PROVE  Silent
        BY <1>0, <1>3, <1>6, <2>3 DEF Bash, Silent
    <2> QED BY <1>3, <2>1, <2>2, <2>3 DEF CommandActs
<1>4. ASSUME NEW d \in Call, CommandEnds(d) PROVE Silent \/ EndsLine
    <2>1. ASSUME NEW code, UNCHANGED stdout,
                 bash' = [bash EXCEPT !.running = None, !.status = code, !.code[d] = code]
          PROVE  Silent
        BY <1>0, <1>4, <1>6, <2>1 DEF Bash, Silent
    <2>2. CASE Exit
        BY <1>1, <1>4, <1>6, <2>2 DEF Silent
    <2> QED BY <1>4, <2>1, <2>2 DEF CommandEnds
<1>5. ASSUME NEW d \in Call, StrayEnds(d)
      PROVE  Silent \/ EndsLine \/ \E item \in Item : AddsItem(item)
    <2>1. ASSUME NEW text \in {"line", "empty"}, Put([by |-> None, text |-> text]),
                 bash' = [bash EXCEPT !.open = None, !.strays[d] = "ended"]
          PROVE  EndsLine \/ \E item \in Item : AddsItem(item)
        <3>1. bash'.open = None /\ bash'.out = bash.out
            BY <1>0, <2>1 DEF Bash
        <3>2. [by |-> None, text |-> text] \in Item
            BY ItemTypes
        <3>3. CASE bash.open = None
            <4>1. stdout' = Append(stdout, [by |-> None, text |-> text])
                BY <2>1, <3>3 DEF Put
            <4>2. AddsItem([by |-> None, text |-> text])
                BY <1>5, <3>1, <3>3, <4>1 DEF AddsItem, StrayEnds
            <4> QED BY <3>2, <4>2
        <3> QED BY <2>1, <3>1, <3>3 DEF Put, EndsLine
    <2>2. ASSUME UNCHANGED stdout, bash' = [bash EXCEPT !.strays[d] = "ended"] PROVE Silent
        BY <1>0, <1>5, <1>6, <2>2 DEF Bash, Silent
    <2> QED BY <1>5, <2>1, <2>2 DEF StrayEnds
<1> QED BY <1>2, <1>3, <1>4, <1>5 DEF StepOfBash

\* And what it does to stderr: nothing, a line of a command,
WritesError(d) ==
    /\ Runs(d) /\ stderr' = Append(stderr, [by |-> d, text |-> "line"])
    /\ bash'.err = [bash.err EXCEPT ![d] = @ + 1]

\* the marker of the script, or a line of what an earlier command left behind.
AddsError(item) ==
    /\ stderr' = Append(stderr, item) /\ bash'.err = bash.err
    /\ \/ /\ BashLine /\ Head(stdin).text = "errMarker"
          /\ item = [by |-> Head(stdin).by, text |-> "marker", code |-> None]
       \/ (\E d \in Call : Stray(d)) /\ item = [by |-> None, text |-> "line"]

LEMMA ErrorSteps ==
    ASSUME TypeOK, StepOfBash
    PROVE  \/ UNCHANGED stderr /\ bash'.err = bash.err
           \/ \E d \in Call : WritesError(d)
           \/ \E item \in Item : AddsError(item)
<1>0. bash \in Bash /\ stdin \in Seq(Script)
    BY DEF TypeOK
<1>1. CASE BashLine
    <2> DEFINE line == Head(stdin)
    <2>0. line \in Script
        BY <1>0, <1>1, TailType DEF BashLine
    <2>1. bash'.err = bash.err
        BY <1>0, <1>1 DEF BashLine, Exit, Bash
    <2>2. CASE line.text = "errMarker" /\ ~UNCHANGED stderr
        <3> DEFINE marker == [by |-> line.by, text |-> "marker", code |-> None]
        <3>1. stderr' = Append(stderr, marker)
            BY <1>1, <2>2 DEF BashLine
        <3>2. line.by \in Call
            BY <2>0, <2>2 DEF Script
        <3>3. marker \in Item
            BY <3>2 DEF Item, Marker
        <3>4. AddsError(marker)
            BY <1>1, <2>1, <2>2, <3>1 DEF AddsError
        <3> QED BY <3>3, <3>4
    <2>3. line.text # "errMarker" => UNCHANGED stderr
        BY <1>1 DEF BashLine
    <2> QED BY <2>1, <2>2, <2>3
<1>2. ASSUME NEW d \in Call, CommandActs(d)
      PROVE  (UNCHANGED stderr /\ bash'.err = bash.err) \/ WritesError(d)
    <2>1. ASSUME NEW text, bash' = [bash EXCEPT !.out[d] = Append(@, text)]
          PROVE  bash'.err = bash.err
        BY <1>0, <2>1 DEF Bash
    <2>2. ASSUME \/ bash' = [bash EXCEPT !.out[d] = Append(@, "line"), !.open = d]
                 \/ bash' = [bash EXCEPT !.took = @ \cup {d}]
                 \/ bash' = [bash EXCEPT !.muted = TRUE]
                 \/ bash' = [bash EXCEPT !.strays[d] = "running"]
          PROVE  bash'.err = bash.err
        BY <1>0, <2>2 DEF Bash
    <2>3. ASSUME bash' = [bash EXCEPT !.err[d] = @ + 1]
          PROVE  bash'.err = [bash.err EXCEPT ![d] = @ + 1]
        BY <1>0, <2>3 DEF Bash
    <2> QED BY <1>2, <2>1, <2>2, <2>3 DEF CommandActs, WritesError
<1>3. ASSUME NEW d \in Call, CommandEnds(d) PROVE UNCHANGED stderr /\ bash'.err = bash.err
    <2>1. ASSUME NEW code, bash' = [bash EXCEPT !.running = None, !.status = code, !.code[d] = code]
          PROVE  bash'.err = bash.err
        BY <1>0, <2>1 DEF Bash
    <2> QED BY <1>0, <1>3, <2>1 DEF CommandEnds, Exit, Bash
<1>4. ASSUME NEW d \in Call, StrayEnds(d)
      PROVE  (UNCHANGED stderr /\ bash'.err = bash.err) \/ \E item \in Item : AddsError(item)
    <2>1. bash'.err = bash.err
        BY <1>0, <1>4 DEF StrayEnds, Bash
    <2>2. [by |-> None, text |-> "line"] \in Item
        BY ItemTypes
    <2>3. CASE stderr' = Append(stderr, [by |-> None, text |-> "line"])
        <3>1. AddsError([by |-> None, text |-> "line"])
            BY <1>4, <2>1, <2>3 DEF AddsError, StrayEnds
        <3> QED BY <2>2, <3>1
    <2> QED BY <1>4, <2>1, <2>3 DEF StrayEnds
<1> QED BY <1>1, <1>2, <1>3, <1>4 DEF StepOfBash

\* What was sent for a call, and what its command wrote, as long as it does not run.
LEMMA SentKept ==
    ASSUME TypeOK, NEW c \in Call, [Next]_vars, ~PassLine(c)
    PROVE  sent'[c] = sent[c]
<1>1. ASSUME NEW d \in Call, PassLine(d) PROVE sent'[c] = sent[c]
    <2>1. d # c
        BY <1>1
    <2> QED BY <1>1, <2>1 DEF PassLine, TypeOK
<1>2. ASSUME NEW d \in Call, Start(d) \/ SeeMarker(d) \/ ScanFails(d) \/ Finish(d) \/ Cancel(d)
      PROVE  sent' = sent
    BY <1>2 DEF Start, SeeMarker, ScanFails, Finish, Cancel, results
<1>3. CASE Close \/ ReadStderr \/ StepOfBash \/ UNCHANGED vars
    BY <1>3 DEF Close, ReadStderr, StepOfBash, BashLine, CommandActs, CommandEnds, StrayEnds,
                vars, runner, results
<1> QED BY <1>1, <1>2, <1>3 DEF Next, CallStep, BashStep, StepOfBash

LEMMA WrittenKept ==
    ASSUME TypeOK, NEW c \in Call, [Next]_vars, ~Runs(c)
    PROVE  bash'.out[c] = bash.out[c] /\ bash'.err[c] = bash.err[c]
<1>1. bash \in Bash
    BY DEF TypeOK
<1>2. ASSUME StepOfBash PROVE bash'.out[c] = bash.out[c]
    <2>1. ASSUME NEW d \in Call, OpensLine(d) PROVE bash'.out[c] = bash.out[c]
        BY <1>1, <2>1 DEF OpensLine, Runs, Bash
    <2>2. ASSUME NEW d \in Call, NEW text, WritesLine(d, text) PROVE bash'.out[c] = bash.out[c]
        BY <1>1, <2>2 DEF WritesLine, Runs, Bash
    <2> QED BY <1>2, <2>1, <2>2, OutputSteps DEF Silent, EndsLine, AddsItem
<1>3. ASSUME StepOfBash PROVE bash'.err[c] = bash.err[c]
    <2>1. ASSUME NEW d \in Call, WritesError(d) PROVE bash'.err[c] = bash.err[c]
        BY <1>1, <2>1 DEF WritesError, Runs, Bash
    <2> QED BY <1>3, <2>1, ErrorSteps DEF AddsError
<1>4. CASE Close
    BY <1>1, <1>4 DEF Close, Bash
<1> QED BY <1>2, <1>3, <1>4, OthersKeepBash

\* Who wrote what is on stderr.
LEMMA ErrorsBy ==
    ASSUME TypeOK, [Next]_vars, NEW A, By(stderr, A), By(stdin, A), None \in A, bash.running \in A
    PROVE  By(stderr', A)
<1>1. stderr \in Seq(Item) /\ stdin \in Seq(Script)
    BY DEF TypeOK, Item
<1>2. ASSUME StepOfBash PROVE By(stderr', A)
    <2>1. ASSUME NEW d \in Call, WritesError(d) PROVE By(stderr', A)
        <3>1. [by |-> d, text |-> "line"] \in Item /\ d \in A
            BY <2>1, ItemTypes DEF WritesError, Runs
        <3> QED BY <1>1, <2>1, <3>1, ByAppend DEF WritesError
    <2>2. ASSUME NEW item \in Item, AddsError(item) PROVE By(stderr', A)
        <3>1. BashLine => Head(stdin).by \in A
            BY <1>1, ByTail DEF BashLine
        <3>2. item.by \in A
            BY <2>2, <3>1 DEF AddsError
        <3> QED BY <1>1, <2>2, <3>2, ByAppend DEF AddsError
    <2> QED BY <1>2, <2>1, <2>2, ErrorSteps
<1>3. CASE stderr # <<>> /\ stderr' = Tail(stderr)
    BY <1>1, <1>3, ByTail
<1>4. CASE stderr' = <<>>
    BY <1>4 DEF By
<1>5. ASSUME NEW d \in Call, CallStep(d) \/ Cancel(d) PROVE UNCHANGED stderr
    BY <1>5 DEF CallStep, Start, PassLine, SeeMarker, ScanFails, Finish, Cancel
<1>6. Close => UNCHANGED stderr \/ stderr' = <<>>
    BY DEF Close
<1>7. ReadStderr => stderr # <<>> /\ stderr' = Tail(stderr)
    BY DEF ReadStderr
<1> QED BY <1>2, <1>3, <1>4, <1>5, <1>6, <1>7 DEF Next, BashStep, StepOfBash, vars

\* Nothing of a call that did not begin is anywhere.
FreshInv == \A c \in Call : pc[c] = "wait" =>
    /\ Gone(c) /\ By(stderr, Others(c))
    /\ sent[c] = <<>> /\ bash.out[c] = <<>> /\ bash.err[c] = 0

LEMMA WaitSteps ==
    ASSUME TypeOK, NEW c \in Call, pc'[c] = "wait", [Next]_vars
    PROVE  pc[c] = "wait"
<1>1. pc \in [Call -> {"wait", "scan", "stderr", "done"}]
    BY DEF TypeOK
<1>2. ASSUME NEW d \in Call, Start(d) \/ PassLine(d) \/ SeeMarker(d) \/ ScanFails(d) \/ Finish(d)
      PROVE  pc[c] = "wait"
    <2>1. pc' = pc \/ pc' = [pc EXCEPT ![d] = "scan"] \/ pc' = [pc EXCEPT ![d] = "stderr"]
          \/ pc' = [pc EXCEPT ![d] = "done"]
        BY <1>2 DEF Start, PassLine, SeeMarker, ScanFails, Finish, Return
    <2> QED BY <1>1, <2>1
<1>3. CASE StepOfBash \/ Close \/ ReadStderr \/ UNCHANGED vars \/ \E d \in Call : Cancel(d)
    BY <1>3 DEF Close, ReadStderr, StepOfBash, BashLine, CommandActs, CommandEnds, StrayEnds, Cancel,
                vars, runner
<1> QED BY <1>2, <1>3 DEF Next, CallStep, BashStep, StepOfBash

LEMMA FreshStep ==
    ASSUME TypeOK, FreshInv, [Next]_vars
    PROVE  FreshInv'
<1> SUFFICES ASSUME NEW c \in Call, pc'[c] = "wait"
             PROVE  /\ Gone(c)' /\ By(stderr', Others(c))
                    /\ sent'[c] = <<>> /\ bash'.out[c] = <<>> /\ bash'.err[c] = 0
    BY DEF FreshInv
<1>1. pc[c] = "wait" /\ Gone(c) /\ By(stderr, Others(c))
      /\ sent[c] = <<>> /\ bash.out[c] = <<>> /\ bash.err[c] = 0
    BY WaitSteps DEF FreshInv
<1>2. bash.running \in Others(c) /\ None \in Others(c) /\ By(stdin, Others(c)) /\ ~Runs(c)
    BY <1>1 DEF Gone, Others, Runs, TypeOK, Bash
<1>3. ~PassLine(c)
    BY <1>1 DEF PassLine
<1> QED BY <1>1, <1>2, <1>3, GoneStep, ErrorsBy, SentKept, WrittenKept

\* No command left a process behind.
NoStrays == \A d \in Call : bash.strays[d] = "none"

LEMMA StraysStay ==
    ASSUME TypeOK, [Next]_vars, NoStrays'
    PROVE  NoStrays
<1>1. bash \in Bash
    BY DEF TypeOK
<1> SUFFICES ASSUME NEW c \in Call, bash.strays[c] # "none" PROVE bash'.strays[c] # "none"
    BY DEF NoStrays
<1>2. CASE BashLine
    <2>1. \/ bash' = [bash EXCEPT !.running = Head(stdin).by]
          \/ bash' = [bash EXCEPT !.ec = bash.status, !.status = 0]
          \/ bash' = [bash EXCEPT !.status = 0]
          \/ bash' = [bash EXCEPT !.status = 0, !.open = None]
          \/ bash' = [bash EXCEPT !.alive = FALSE, !.running = None, !.open = None]
        BY <1>2 DEF BashLine, Exit
    <2> QED BY <1>1, <2>1 DEF Bash
<1>3. ASSUME NEW d \in Call, CommandActs(d) PROVE bash'.strays[c] # "none"
    <2>1. bash'.strays = bash.strays \/ bash'.strays = [bash.strays EXCEPT ![d] = "running"]
        BY <1>3, CommandKeeps
    <2>2. bash.strays \in [Call -> {"none", "running", "ended"}]
        BY <1>1 DEF Bash
    <2>3. [bash.strays EXCEPT ![d] = "running"][c] # "none"
        BY <2>2
    <2> QED BY <2>1, <2>3
<1>4. ASSUME NEW d \in Call, CommandEnds(d) PROVE bash'.strays[c] # "none"
    <2>1. ASSUME NEW code, bash' = [bash EXCEPT !.running = None, !.status = code, !.code[d] = code]
          PROVE  bash'.strays = bash.strays
        BY <1>1, <2>1 DEF Bash
    <2> QED BY <1>1, <1>4, <2>1 DEF CommandEnds, Exit, Bash
<1>5. ASSUME NEW d \in Call, StrayEnds(d) PROVE bash'.strays[c] # "none"
    <2>1. ASSUME bash' = [bash EXCEPT !.open = None, !.strays[d] = "ended"]
          PROVE  bash'.strays = [bash.strays EXCEPT ![d] = "ended"]
        BY <1>1, <2>1 DEF Bash
    <2>2. ASSUME bash' = [bash EXCEPT !.strays[d] = "ended"]
          PROVE  bash'.strays = [bash.strays EXCEPT ![d] = "ended"]
        BY <1>1, <2>2 DEF Bash
    <2>3. bash'.strays = [bash.strays EXCEPT ![d] = "ended"]
        BY <1>5, <2>1, <2>2 DEF StrayEnds
    <2>4. bash.strays \in [Call -> {"none", "running", "ended"}]
        BY <1>1 DEF Bash
    <2> QED BY <2>3, <2>4
<1>6. CASE Close
    BY <1>1, <1>6 DEF Close, Bash, Stray
<1> QED BY <1>2, <1>3, <1>4, <1>5, <1>6, OthersKeepBash DEF StepOfBash

LEMMA StrayIsOne ==
    ASSUME NEW d \in Call, Stray(d)
    PROVE  ~NoStrays
  BY DEF Stray, NoStrays

\* Without such processes stderr is written by commands alone, and a session
\* that is in step has an empty stdout.
Idle == By(stdin, {Closer}) /\ bash.running = None /\ bash.open = None

TidyErrors == NoStrays => By(stderr, Call) /\ By(stderrBuf, Call)

TidyOutput == NoStrays =>
    /\ lock \notin Call /\ ~broken => stdout = <<>>
    /\ \A c \in Call : pc[c] = "stderr" => stdout = <<>>
    /\ \A c \in Call : pc[c] = "scan" =>
        \A i \in DOMAIN stdout : stdout[i].text = "marker" /\ stdout[i].by = c => i = Len(stdout)

LEMMA IdleStill ==
    ASSUME TypeOK, Idle, NoStrays, StepOfBash
    PROVE  UNCHANGED stdout
<1>1. BashLine => Head(stdin) \in Script /\ Head(stdin).by = Closer
    <2>1. stdin \in Seq(Script)
        BY DEF TypeOK
    <2> QED BY <2>1, TailType, ByTail DEF BashLine, Idle
<1>2. ~BashLine \/ Head(stdin).text = "exit"
    BY <1>1 DEF Script
<1>3. \A d \in Call : ~Runs(d) /\ ~Stray(d)
    BY StrayIsOne DEF Idle, Runs
<1>4. ~EndsLine
    BY DEF EndsLine, Idle
<1>5. \A d \in Call, text \in {"line", "empty", "overlong"} : ~OpensLine(d) /\ ~WritesLine(d, text)
    BY <1>3 DEF OpensLine, WritesLine
<1>6. \A item \in Item : ~AddsItem(item)
    BY <1>2, <1>3 DEF AddsItem
<1> QED BY <1>4, <1>5, <1>6, OutputSteps DEF Silent

LEMMA TidyErrorsStep ==
    ASSUME TypeOK, TidyErrors, [Next]_vars
    PROVE  TidyErrors'
<1> SUFFICES ASSUME NoStrays' PROVE By(stderr', Call) /\ By(stderrBuf', Call)
    BY DEF TidyErrors
<1>1. NoStrays /\ By(stderr, Call) /\ By(stderrBuf, Call)
    BY StraysStay DEF TidyErrors
<1>2. stderr \in Seq(Item) /\ stderrBuf \in Seq(Item) /\ stdin \in Seq(Script)
    BY DEF TypeOK, Item
<1>0. By(<<>>, Call)
    BY DEF By
<1>3. ASSUME StepOfBash PROVE By(stderr', Call) /\ UNCHANGED stderrBuf
    <2>1. ASSUME NEW d \in Call, WritesError(d) PROVE By(stderr', Call)
        <3>1. [by |-> d, text |-> "line"] \in Item /\ [by |-> d, text |-> "line"].by \in Call
            BY ItemTypes
        <3> QED BY <1>1, <1>2, <2>1, <3>1, ByAppend DEF WritesError
    <2>2. ASSUME NEW item \in Item, AddsError(item) PROVE By(stderr', Call)
        <3>1. BashLine => Head(stdin) \in Script
            BY <1>2, TailType DEF BashLine
        <3>2. item.by \in Call
            BY <1>1, <2>2, <3>1, StrayIsOne DEF AddsError, Script
        <3> QED BY <1>1, <1>2, <2>2, <3>2, ByAppend DEF AddsError
    <2>3. UNCHANGED stderrBuf
        BY <1>3 DEF StepOfBash, BashLine, CommandActs, CommandEnds, StrayEnds, runner, stderrVars
    <2> QED BY <1>1, <1>3, <2>1, <2>2, <2>3, ErrorSteps
<1>4. CASE ReadStderr
    <2>1. By(stderr', Call) /\ Head(stderr).by \in Call /\ Head(stderr) \in Item
        BY <1>1, <1>2, <1>4, ByTail, TailType DEF ReadStderr
    <2>2. By(Append(stderrBuf, Head(stderr)), Call)
        BY <1>1, <1>2, <2>1, ByAppend
    <2> QED BY <1>1, <1>4, <2>1, <2>2 DEF ReadStderr
<1>5. CASE Close
    BY <1>0, <1>1, <1>5 DEF Close, stderrVars
<1>6. ASSUME NEW c \in Call, Start(c) PROVE By(stderr', Call) /\ By(stderrBuf', Call)
    BY <1>0, <1>1, <1>6 DEF Start, ExpectMarker, stderrVars
<1>7. ASSUME NEW c \in Call, PassLine(c) \/ SeeMarker(c) \/ ScanFails(c) \/ Finish(c) \/ Cancel(c)
      PROVE  UNCHANGED <<stderr, stderrBuf>>
    BY <1>7 DEF PassLine, SeeMarker, ScanFails, Finish, Cancel, stderrVars
<1>8. CASE UNCHANGED vars
    BY <1>1, <1>8 DEF vars, runner, stderrVars
<1> QED BY <1>1, <1>3, <1>4, <1>5, <1>6, <1>7, <1>8 DEF Next, CallStep, BashStep, StepOfBash

\* Who has the lock after a step had it, or gave it back.
LEMMA LockSteps ==
    ASSUME TypeOK, SyncInv, [Next]_vars, lock' \notin Call
    PROVE  \/ /\ lock \notin Call /\ (~broken' => ~broken)
              /\ \/ StepOfBash
                 \/ UNCHANGED <<stdout, stderr>>
                 \/ stdout' = <<>> /\ stderr' = <<>>
                 \/ ReadStderr
           \/ \E c \in Call : lock = c /\ (SeeMarker(c) \/ Finish(c))
           \/ broken'
<1>1. ASSUME NEW c \in Call, Start(c)
      PROVE  lock \notin Call /\ (~broken' => ~broken) /\ UNCHANGED <<stdout, stderr>>
    <2>1. lock = None /\ UNCHANGED <<stdout, stderr>>
        BY <1>1 DEF Start
    <2>2. ~broken' => ~broken
        BY <1>1 DEF Start
    <2> QED BY <2>1, <2>2
<1>2. ASSUME NEW c \in Call, PassLine(c) PROVE FALSE
    BY <1>2 DEF PassLine, SyncInv, LockInv
<1>3. ASSUME NEW c \in Call, SeeMarker(c) \/ Finish(c) PROVE lock = c
    BY <1>3 DEF SeeMarker, Finish, SyncInv, LockInv
<1>4. ASSUME NEW c \in Call, ScanFails(c) PROVE broken'
    BY <1>4 DEF ScanFails
<1>5. CASE ReadStderr \/ \E c \in Call : Cancel(c)
    BY <1>5 DEF ReadStderr, Cancel
<1>6. CASE Close
    BY <1>6 DEF Close, SyncInv, LockInv
<1>7. CASE StepOfBash \/ UNCHANGED vars
    BY <1>7 DEF StepOfBash, BashLine, CommandActs, CommandEnds, StrayEnds, runner, vars
<1> QED BY <1>1, <1>2, <1>3, <1>4, <1>5, <1>6, <1>7 DEF Next, CallStep, BashStep, StepOfBash

\* How a call comes to read stdout no more.
LEMMA TidyOutputStep ==
    ASSUME TypeOK, SyncInv, TidyOutput, [Next]_vars
    PROVE  TidyOutput'
<1> SUFFICES ASSUME NoStrays'
             PROVE  /\ lock' \notin Call /\ ~broken' => stdout' = <<>>
                    /\ \A c \in Call : pc'[c] = "stderr" => stdout' = <<>>
                    /\ \A c \in Call : pc'[c] = "scan" =>
                        \A i \in DOMAIN stdout' :
                            stdout'[i].text = "marker" /\ stdout'[i].by = c => i = Len(stdout')
    BY DEF TidyOutput
<1>1. NoStrays /\ stdout \in Seq(Item)
    BY StraysStay DEF TypeOK, Item
<1>2. Quiet => Idle
    BY DEF Quiet, Idle
<1>3. ASSUME NEW c \in Call, SeeMarker(c) PROVE stdout' = <<>>
    <2>1. /\ stdout # <<>> /\ stdout' = Tail(stdout) /\ Line = stdout[1] /\ 1 \in DOMAIN stdout
          /\ pc[c] = "scan"
        BY <1>1, <1>3 DEF SeeMarker, Line
    <2>2. 1 = Len(stdout)
        BY <1>1, <1>3, <2>1 DEF TidyOutput, SeeMarker
    <2> QED BY <1>1, <2>1, <2>2, EmptySeq
<1>4. ASSUME lock' \notin Call, ~broken' PROVE stdout' = <<>>
    <2>1. CASE lock \notin Call /\ ~broken
        <3>1. stdout = <<>> /\ Idle
            BY <1>1, <1>2, <2>1 DEF TidyOutput, SyncInv
        <3>2. StepOfBash => stdout' = <<>>
            BY <1>1, <3>1, IdleStill
        <3> QED BY <1>3, <1>4, <2>1, <3>1, <3>2, LockSteps DEF ReadStderr
    <2>2. ASSUME NEW c \in Call, lock = c, Finish(c) PROVE stdout' = <<>>
        BY <1>1, <2>2 DEF Finish, TidyOutput
    <2> QED BY <1>3, <1>4, <2>1, <2>2, LockSteps
<1>5. ASSUME NEW c \in Call, pc'[c] = "stderr" PROVE stdout' = <<>>
    <2>1. CASE SeeMarker(c)
        BY <1>3, <2>1
    <2>2. CASE pc[c] = "stderr" /\ ~CallStep(c)
        <3>1. stdout = <<>> /\ Idle /\ lock = c
            BY <1>1, <1>2, <2>2 DEF TidyOutput, SyncInv, LockInv
        <3>2. StepOfBash => stdout' = <<>>
            BY <1>1, <3>1, IdleStill
        <3>3. ASSUME NEW d \in Call, CallStep(d) \/ Cancel(d) PROVE stdout' = <<>>
            <4>1. stdout' = stdout \/ (stdout # <<>> /\ stdout' = Tail(stdout))
                BY <3>3 DEF CallStep, Start, PassLine, SeeMarker, ScanFails, Finish, Cancel
            <4> QED BY <3>1, <4>1
        <3> QED BY <3>1, <3>2, <3>3 DEF Next, BashStep, StepOfBash, Close, ReadStderr, vars
    <2> QED BY <1>5, <2>1, <2>2, StderrSteps
<1>6. ASSUME NEW c \in Call, pc'[c] = "scan",
             NEW i \in DOMAIN stdout', stdout'[i].text = "marker", stdout'[i].by = c
      PROVE  i = Len(stdout')
    <2>1. CASE Start(c)
        <3>1. stdout' = stdout /\ c # None /\ lock = None
            BY <2>1 DEF Start
        <3>2. ~broken
            BY <1>6, ScanSteps, <2>1 DEF Start, TypeOK, Return, Usable
        <3>3. By(stdout, {None})
            BY <3>1, <3>2 DEF SyncInv, Quiet
        <3> QED BY <1>6, <3>1, <3>3 DEF By
    <2>2. CASE pc[c] = "scan" /\ PassLine(c)
        <3>1. /\ DOMAIN stdout = 1..Len(stdout) /\ Len(stdout) \in Nat
              /\ DOMAIN stdout' = 1..(Len(stdout) - 1) /\ Len(stdout') = Len(stdout) - 1
              /\ \A j \in 1..(Len(stdout) - 1) : stdout'[j] = stdout[j + 1]
            BY <1>1, <2>2 DEF PassLine
        <3>2. i + 1 \in DOMAIN stdout /\ stdout'[i] = stdout[i + 1]
            BY <1>6, <3>1
        <3>3. i + 1 = Len(stdout)
            BY <1>1, <1>6, <2>2, <3>2 DEF TidyOutput
        <3> QED BY <1>6, <3>1, <3>3
    <2>3. CASE pc[c] = "scan" /\ StepOfBash
        <3>1. OnlyOf(c)
            BY <2>3 DEF SyncInv
        <3>2. CASE Marked(c)
            <4>1. Idle
                BY <3>1, <3>2 DEF Marked, OnlyOf, Idle, By
            <4> QED BY <1>1, <1>6, <2>3, <4>1, IdleStill DEF TidyOutput
        <3>3. CASE ~Marked(c)
            <4>1. CASE UNCHANGED stdout
                BY <1>6, <3>3, <4>1 DEF Marked
            <4>2. ASSUME NEW item \in Item, stdout' = Append(stdout, item) PROVE i = Len(stdout')
                <5>1. /\ DOMAIN stdout = 1..Len(stdout) /\ Len(stdout) \in Nat
                      /\ DOMAIN stdout' = 1..(Len(stdout) + 1) /\ Len(stdout') = Len(stdout) + 1
                      /\ \A j \in 1..Len(stdout) : stdout'[j] = stdout[j]
                    BY <1>1, <4>2
                <5>2. i \notin 1..Len(stdout)
                    BY <1>6, <3>3, <5>1 DEF Marked
                <5> QED BY <5>1, <5>2
            <4> QED BY <2>3, <4>1, <4>2, BashWrites
        <3> QED BY <3>2, <3>3
    <2>4. CASE pc[c] = "scan" /\ UNCHANGED stdout
        BY <1>1, <1>6, <2>4 DEF TidyOutput
    <2> QED BY <1>6, <2>1, <2>2, <2>3, <2>4, ScanSteps DEF ReadStderr, Cancel, vars
<1> QED BY <1>4, <1>5, <1>6

\* An empty line is held back by the call that has the lock.
PendingInv ==
    /\ lock \notin Call => pending = None
    /\ pending # None => pending.text = "empty" /\ pending.by \in {lock, None}

LEMMA PendingStep ==
    ASSUME TypeOK, SyncInv, PendingInv, [Next]_vars
    PROVE  PendingInv'
<1>1. ASSUME NEW c \in Call, PassLine(c) PROVE PendingInv'
    <2>1. lock = c /\ OnlyOf(c) /\ UNCHANGED lock /\ stdout \in Seq(Item) /\ stdout # <<>>
        BY <1>1 DEF PassLine, SyncInv, LockInv, TypeOK, Item
    <2>2. Line.by \in {c, None}
        BY <2>1, ByTail DEF OnlyOf, Line
    <2>3. UNCHANGED pending \/ pending' = None \/ (pending' = Line /\ Held)
        BY <1>1 DEF PassLine
    <2> QED BY <2>1, <2>2, <2>3 DEF PendingInv, Held
<1>2. ASSUME NEW c \in Call, NEW res, Return(c, res) PROVE PendingInv'
    BY <1>2 DEF Return, PendingInv
<1>3. ASSUME NEW c \in Call, Start(c) \/ SeeMarker(c) \/ ScanFails(c) \/ Finish(c) PROVE PendingInv'
    <2>1. CASE UNCHANGED <<lock, pending>>
        BY <2>1 DEF PendingInv
    <2>2. CASE Start(c) /\ lock' = c /\ UNCHANGED locals
        BY <2>2 DEF Start, PendingInv, TypeOK, locals
    <2>3. Start(c) => (\E res : Return(c, res)) \/ (lock' = c /\ UNCHANGED locals)
        BY DEF Start
    <2>4. SeeMarker(c) => (\E res : Return(c, res)) \/ UNCHANGED <<lock, pending>>
        BY DEF SeeMarker
    <2>5. ScanFails(c) \/ Finish(c) => \E res : Return(c, res)
        BY DEF ScanFails, Finish
    <2> QED BY <1>2, <1>3, <2>1, <2>2, <2>3, <2>4, <2>5
<1>4. CASE Close
    BY <1>4 DEF Close, PendingInv, SyncInv, LockInv, locals, TypeOK
<1>5. UNCHANGED <<lock, pending>> => PendingInv'
    BY DEF PendingInv
<1>6. StepOfBash \/ ReadStderr \/ UNCHANGED vars \/ (\E c \in Call : Cancel(c)) => UNCHANGED <<lock, pending>>
    BY DEF StepOfBash, BashLine, CommandActs, CommandEnds, StrayEnds, ReadStderr, Cancel,
           vars, runner, locals
<1> QED BY <1>1, <1>3, <1>4, <1>5, <1>6 DEF Next, CallStep, BashStep, StepOfBash

-----------------------------------------------------------------------------
\* All that was sent, is held back, or is still in the pipe.
Unfinished == IF bash.open = None THEN <<>> ELSE <<[by |-> bash.open, text |-> "line"]>>
Output(c) == (sent[c] \o Before) \o (stdout \o Unfinished)

LEMMA OutputParts ==
    ASSUME TypeOK, NEW c \in Call
    PROVE  /\ sent[c] \in Seq(Item) /\ Before \in Seq(Item) /\ stdout \in Seq(Item)
           /\ Unfinished \in Seq(Item) /\ sent[c] \o Before \in Seq(Item)
           /\ stdout \o Unfinished \in Seq(Item) /\ Output(c) \in Seq(Item)
<1>1. sent[c] \in Seq(Item) /\ stdout \in Seq(Item)
    BY DEF TypeOK, Item
<1>2. <<>> \in Seq(Item) /\ (\A item \in Item : <<item>> \in Seq(Item))
    OBVIOUS
<1>3. Before \in Seq(Item)
    <2>1. pending # None => pending \in Item
        BY DEF TypeOK, Item
    <2> QED BY <1>2, <2>1 DEF Before
<1>4. Unfinished \in Seq(Item)
    <2>1. bash.open # None => [by |-> bash.open, text |-> "line"] \in Item
        BY DEF TypeOK, Bash, Item, Written
    <2> QED BY <1>2, <2>1 DEF Unfinished
<1>5. sent[c] \o Before \in Seq(Item) /\ stdout \o Unfinished \in Seq(Item)
    BY <1>1, <1>3, <1>4, ConcatProperties
<1>6. Output(c) \in Seq(Item)
    BY <1>5, ConcatProperties DEF Output
<1> QED BY <1>1, <1>3, <1>4, <1>5, <1>6

\* Concatenation, under a name: the provers expand \o, and see its laws only
\* where it is not expanded.
Cat(a, b) == a \o b

LEMMA Cats ==
    ASSUME NEW S
    PROVE  \A a, b \in Seq(S) : Cat(a, b) \in Seq(S)
BY ConcatProperties DEF Cat

LEMMA Associative ==
    ASSUME NEW S, NEW a \in Seq(S), NEW b \in Seq(S), NEW x \in Seq(S)
    PROVE  Cat(Cat(a, b), x) = Cat(a, Cat(b, x))
BY ConcatAssociative, SMTT(60) DEF Cat

LEMMA Regroup ==
    ASSUME NEW S, NEW a \in Seq(S), NEW b \in Seq(S), NEW x \in Seq(S), NEW y \in Seq(S)
    PROVE  Cat(Cat(a, x), Cat(y, b)) = Cat(a, Cat(Cat(x, y), b))
<1>1. Cat(y, b) \in Seq(S)
    BY Cats
<1>2. Cat(Cat(a, x), Cat(y, b)) = Cat(a, Cat(x, Cat(y, b)))
    BY <1>1, Associative
<1>3. Cat(Cat(x, y), b) = Cat(x, Cat(y, b))
    BY Associative
<1> QED BY <1>2, <1>3

\* A line that is passed from the pipe to what is held back or sent.
LEMMA HeadMoves ==
    ASSUME NEW S, NEW a \in Seq(S), NEW b \in Seq(S), NEW u \in Seq(S), b # <<>>
    PROVE  (a \o <<Head(b)>>) \o (Tail(b) \o u) = a \o (b \o u)
<1>1. Head(b) \in S /\ Tail(b) \in Seq(S) /\ <<Head(b)>> \in Seq(S)
    BY HeadTailProperties
<1>2. <<Head(b)>> \o Tail(b) = b
    <2>1. /\ Len(b) \in Nat /\ Len(Tail(b)) = Len(b) - 1 /\ Head(b) = b[1]
          /\ \A i \in 1..(Len(b) - 1) : Tail(b)[i] = b[i + 1]
        OBVIOUS
    <2>2. /\ <<Head(b)>> \o Tail(b) \in Seq(S) /\ Len(<<Head(b)>> \o Tail(b)) = Len(b)
          /\ Len(<<Head(b)>>) = 1
        BY <1>1, <2>1, ConcatProperties
    <2>3. ASSUME NEW i \in 1..Len(b) PROVE (<<Head(b)>> \o Tail(b))[i] = b[i]
        <3>1. CASE i = 1
            BY <1>1, <2>1, <2>2, <3>1, ConcatAt
        <3>2. CASE i # 1
            <4>1. i - 1 \in 1..(Len(b) - 1) /\ 1 + (i - 1) = i
                BY <2>1, <3>2
            <4>2. (<<Head(b)>> \o Tail(b))[1 + (i - 1)] = Tail(b)[i - 1]
                BY <1>1, <2>1, <2>2, <4>1, ConcatAt
            <4> QED BY <2>1, <4>1, <4>2
        <3> QED BY <3>1, <3>2
    <2> QED BY <2>2, <2>3, SeqEqual
<1>3. ASSUME NEW h \in Seq(S), NEW t \in Seq(S), Cat(h, t) = b
      PROVE  Cat(Cat(a, h), Cat(t, u)) = Cat(a, Cat(b, u))
    BY <1>3, Regroup
<1>4. PICK h \in Seq(S), t \in Seq(S) : h = <<Head(b)>> /\ t = Tail(b)
    BY <1>1
<1>5. Cat(h, t) = b
    BY <1>2, <1>4 DEF Cat
<1>6. Cat(Cat(a, h), Cat(t, u)) = Cat(a, Cat(b, u))
    BY <1>3, <1>5
<1> QED BY <1>4, <1>6 DEF Cat

\* An item at the end of the pipe, or an unfinished line behind it.
LEMMA EndGrows ==
    ASSUME NEW S, NEW a \in Seq(S), NEW b \in Seq(S), NEW item \in S
    PROVE  /\ a \o (Append(b, item) \o <<>>) = Append(a \o (b \o <<>>), item)
           /\ a \o (b \o <<item>>) = Append(a \o (b \o <<>>), item)
           /\ a \o (b \o <<>>) \in Seq(S)
<1>1. /\ b \o <<>> = b /\ Append(b, item) \o <<>> = Append(b, item)
      /\ Append(b, item) = b \o <<item>> /\ <<item>> \in Seq(S) /\ a \o b \in Seq(S)
    BY ConcatEmptySeq, AppendIsConcat, ConcatProperties
<1>2. Append(a \o b, item) = (a \o b) \o <<item>>
    BY <1>1, AppendIsConcat
<1>3. (a \o b) \o <<item>> = a \o (b \o <<item>>)
    BY <1>1, ConcatAssociative
<1> QED BY <1>1, <1>2, <1>3

\* The line at place i, from the one that is held back.
At(i) == IF i = 0 THEN pending ELSE stdout[i]

\* The marker of c is at place i, or will be put there next.
Ends(c, i) ==
    IF i = Len(stdout) + 1 THEN Len(stdin) = 1
    ELSE stdout[i].text = "marker" /\ stdout[i].by = c

\* The line before the marker is not an empty line of the command: the script
\* put one of its own between them, or ended a line with it.
Parted(c) == \A i \in 0..Len(stdout) :
    Ends(c, i + 1) /\ At(i) # None => ~(At(i).by = c /\ At(i).text = "empty")

\* The empty line of the script is followed by the marker only.
Plain(c) == NoStrays => \A i \in 0..Len(stdout) : At(i) # None /\ At(i).by = None =>
    /\ At(i).text = "empty" /\ Len(stdin) \in {0, 1}
    /\ \A j \in 1..Len(stdout) : j > i => stdout[j].text = "marker" /\ stdout[j].by = c

\* Nothing but lines of c and of what earlier commands left behind.
Clean(seq, c) == \A i \in DOMAIN seq :
    \/ seq[i].by = c /\ seq[i].text # "marker"
    \/ seq[i].by = None /\ ~NoStrays

Whole(c) ==
    /\ Wrote(Output(c), c, bash.out[c]) /\ Clean(sent[c], c)
    /\ Parted(c) /\ Plain(c)
    /\ Len(stdin) \in {0, 1} => bash.open = None

\* What the pipe loses in front goes to the line held back, or is sent.
LEMMA PlacesShift ==
    ASSUME TypeOK, NEW c \in Call, stdout # <<>>, stdout' = Tail(stdout), UNCHANGED stdin,
           pending' = None \/ pending' = stdout[1]
    PROVE  /\ \A i \in 0..Len(stdout') :
                /\ i + 1 \in 0..Len(stdout) /\ (Ends(c, i + 1)' <=> Ends(c, i + 2))
                /\ At(i)' = At(i + 1) \/ At(i)' = None
           /\ \A j \in 1..Len(stdout') : j + 1 \in 1..Len(stdout) /\ stdout'[j] = stdout[j + 1]
           /\ Len(stdout) \in Nat /\ Len(stdout') = Len(stdout) - 1
<1>1. /\ Len(stdout) \in Nat \ {0} /\ Len(stdout') = Len(stdout) - 1
      /\ \A j \in 1..(Len(stdout) - 1) : stdout'[j] = stdout[j + 1]
    BY DEF TypeOK
<1>2. ASSUME NEW i \in 0..Len(stdout') PROVE i + 1 \in 0..Len(stdout)
    BY <1>1
<1>3. ASSUME NEW i \in 0..Len(stdout') PROVE Ends(c, i + 1)' <=> Ends(c, i + 2)
    <2>1. CASE i = Len(stdout')
        <3>1. i + 1 = Len(stdout') + 1 /\ i + 2 = Len(stdout) + 1
            BY <1>1, <2>1
        <3> QED BY <3>1 DEF Ends
    <2>2. CASE i # Len(stdout')
        <3>2. \A n \in Nat \ {0} : \A m : m = n - 1 =>
                \A k \in 0..m : k # m => /\ k + 1 # m + 1 /\ k + 2 # n + 1 /\ k + 1 \in 1..(n - 1)
                                         /\ (k + 1) + 1 = k + 2
            OBVIOUS
        <3>1. i + 1 # Len(stdout') + 1 /\ i + 2 # Len(stdout) + 1 /\ i + 1 \in 1..(Len(stdout) - 1)
              /\ (i + 1) + 1 = i + 2
            <4> DEFINE n == Len(stdout)
                       m == Len(stdout')
            <4>1. n \in Nat \ {0} /\ m = n - 1 /\ i \in 0..m /\ i # m
                BY <1>1, <2>2
            <4> HIDE DEF n, m
            <4>2. i + 1 # m + 1 /\ i + 2 # n + 1 /\ i + 1 \in 1..(n - 1) /\ (i + 1) + 1 = i + 2
                BY <3>2, <4>1
            <4> QED BY <4>2 DEF n, m
        <3>3. stdout'[i + 1] = stdout[i + 2]
            BY <1>1, <3>1
        <3> QED BY <3>1, <3>3 DEF Ends
    <2> QED BY <2>1, <2>2
<1>4. ASSUME NEW i \in 0..Len(stdout') PROVE At(i)' = At(i + 1) \/ At(i)' = None
    <2>1. CASE i = 0
        <3>1. i + 1 # 0 /\ i + 1 = 1
            BY <2>1
        <3> QED BY <2>1, <3>1 DEF At
    <2>2. CASE i # 0
        <3>1. i \in 1..(Len(stdout) - 1) /\ i + 1 # 0
            BY <1>1, <2>2
        <3> QED BY <1>1, <2>2, <3>1 DEF At
    <2> QED BY <2>1, <2>2
<1>5. \A j \in 1..Len(stdout') : j + 1 \in 1..Len(stdout)
    BY <1>1
<1> QED BY <1>1, <1>2, <1>3, <1>4, <1>5

LEMMA PartedShift ==
    ASSUME TypeOK, NEW c \in Call, stdout # <<>>, stdout' = Tail(stdout), UNCHANGED stdin,
           pending' = None \/ pending' = stdout[1], Parted(c)
    PROVE  Parted(c)'
<1> SUFFICES ASSUME NEW i \in 0..Len(stdout'), Ends(c, i + 1)', At(i)' # None
             PROVE  ~(At(i)'.by = c /\ At(i)'.text = "empty")
    BY DEF Parted
<1>1. i + 1 \in 0..Len(stdout) /\ Ends(c, i + 2) /\ At(i)' = At(i + 1)
    BY PlacesShift
<1>2. (i + 1) + 1 = i + 2
    BY PlacesShift
<1> QED BY <1>1, <1>2 DEF Parted

LEMMA PlainShift ==
    ASSUME TypeOK, NEW c \in Call, stdout # <<>>, stdout' = Tail(stdout), UNCHANGED <<stdin, bash>>,
           pending' = None \/ pending' = stdout[1], Plain(c)
    PROVE  Plain(c)'
<1> SUFFICES ASSUME NoStrays, NEW i \in 0..Len(stdout'), At(i)' # None, At(i)'.by = None
             PROVE  /\ At(i)'.text = "empty" /\ Len(stdin) \in {0, 1}
                    /\ \A j \in 1..Len(stdout') : j > i => stdout'[j].text = "marker" /\ stdout'[j].by = c
    BY DEF Plain, NoStrays
<1>1. i + 1 \in 0..Len(stdout) /\ At(i)' = At(i + 1)
      /\ Len(stdout) \in Nat /\ Len(stdout') = Len(stdout) - 1
    BY PlacesShift
<1>2. /\ At(i)'.text = "empty" /\ Len(stdin) \in {0, 1}
      /\ \A j \in 1..Len(stdout) : j > i + 1 => stdout[j].text = "marker" /\ stdout[j].by = c
    BY <1>1 DEF Plain
<1>3. ASSUME NEW j \in 1..Len(stdout'), j > i PROVE stdout'[j].text = "marker" /\ stdout'[j].by = c
    <2>1. j + 1 \in 1..Len(stdout) /\ stdout'[j] = stdout[j + 1]
        BY PlacesShift
    <2>2. j + 1 > i + 1
        BY <1>1, <1>3
    <2> QED BY <1>2, <2>1, <2>2
<1> QED BY <1>2, <1>3

\* What the pipe gains is behind what it had.
LEMMA PlacesGrow ==
    ASSUME TypeOK, NEW item \in Item, stdout' = Append(stdout, item), UNCHANGED pending
    PROVE  /\ Len(stdout) \in Nat /\ Len(stdout') = Len(stdout) + 1
           /\ \A i \in 1..Len(stdout) : stdout'[i] = stdout[i]
           /\ stdout'[Len(stdout) + 1] = item
           /\ \A i \in 0..Len(stdout) : At(i)' = At(i)
           /\ \A i : i = Len(stdout) + 1 => At(i)' = item
           /\ \A i \in 0..Len(stdout') : i \in 0..Len(stdout) \/ i = Len(stdout) + 1
<1>1. /\ Len(stdout) \in Nat /\ Len(stdout') = Len(stdout) + 1
      /\ \A i \in 1..Len(stdout) : stdout'[i] = stdout[i]
      /\ stdout'[Len(stdout) + 1] = item
    BY DEF TypeOK
<1>2. \A i \in 0..Len(stdout) : i = 0 \/ i \in 1..Len(stdout)
    BY <1>1
<1>3. \A i \in 0..Len(stdout) : At(i)' = At(i)
    BY <1>1, <1>2 DEF At
<1>4. Len(stdout) + 1 # 0 /\ \A i \in 0..Len(stdout') : i \in 0..Len(stdout) \/ i = Len(stdout) + 1
    BY <1>1
<1>5. \A i : i = Len(stdout) + 1 => At(i)' = item
    BY <1>1, <1>4 DEF At
<1> QED BY <1>1, <1>3, <1>4, <1>5

LEMMA PartedGrow ==
    ASSUME TypeOK, NEW c \in Call, Parted(c), NEW item \in Item, stdout' = Append(stdout, item),
           UNCHANGED pending,
           item.text = "marker" /\ item.by = c => Len(stdin) = 1,
           Len(stdin') = 1 => ~(item.by = c /\ item.text = "empty")
    PROVE  Parted(c)'
<1> SUFFICES ASSUME NEW i \in 0..Len(stdout'), Ends(c, i + 1)', At(i)' # None
             PROVE  ~(At(i)'.by = c /\ At(i)'.text = "empty")
    BY DEF Parted
<1>1. CASE i = Len(stdout) + 1
    <2>1. i + 1 = Len(stdout') + 1 /\ At(i)' = item
        BY <1>1, PlacesGrow
    <2> QED BY <2>1 DEF Ends
<1>2. CASE i \in 0..Len(stdout)
    <2>1. At(i)' = At(i)
        BY <1>2, PlacesGrow
    <2>2. Ends(c, i + 1)
        <3>1. \A n \in Nat : \A m : m = n + 1 => \A k \in 0..n : k + 1 # m + 1 /\ (k # n => k + 1 # n + 1 /\ k + 1 \in 1..n)
            OBVIOUS
        <3>2. i + 1 # Len(stdout') + 1 /\ (i # Len(stdout) => i + 1 # Len(stdout) + 1 /\ i + 1 \in 1..Len(stdout))
            BY <1>2, <3>1, PlacesGrow
        <3>3. stdout'[i + 1].text = "marker" /\ stdout'[i + 1].by = c
            BY <3>2 DEF Ends
        <3>4. CASE i = Len(stdout)
            BY <3>3, <3>4, PlacesGrow DEF Ends
        <3>5. CASE i # Len(stdout)
            BY <3>2, <3>3, <3>5, PlacesGrow DEF Ends
        <3> QED BY <3>4, <3>5
    <2> QED BY <1>2, <2>1, <2>2 DEF Parted
<1> QED BY <1>1, <1>2, PlacesGrow

LEMMA PlainGrow ==
    ASSUME TypeOK, NEW c \in Call, Plain(c), NEW item \in Item, stdout' = Append(stdout, item),
           UNCHANGED pending, NoStrays' => NoStrays,
           Len(stdin) \in {0, 1} => Len(stdin') \in {0, 1},
           NoStrays /\ Len(stdin) \in {0, 1} => item.text = "marker" /\ item.by = c,
           NoStrays /\ item.by = None => item.text = "empty" /\ Len(stdin') \in {0, 1}
    PROVE  Plain(c)'
<1> SUFFICES ASSUME NoStrays, NEW i \in 0..Len(stdout'), At(i)' # None, At(i)'.by = None
             PROVE  /\ At(i)'.text = "empty" /\ Len(stdin') \in {0, 1}
                    /\ \A j \in 1..Len(stdout') : j > i => stdout'[j].text = "marker" /\ stdout'[j].by = c
    BY DEF Plain
<1>1. CASE i = Len(stdout) + 1
    <2>1. At(i)' = item /\ \A j \in 1..Len(stdout') : ~(j > i)
        BY <1>1, PlacesGrow
    <2> QED BY <2>1
<1>2. CASE i \in 0..Len(stdout)
    <2>1. At(i)' = At(i)
        BY <1>2, PlacesGrow
    <2>2. /\ At(i).text = "empty" /\ Len(stdin) \in {0, 1}
          /\ \A j \in 1..Len(stdout) : j > i => stdout[j].text = "marker" /\ stdout[j].by = c
        BY <1>2, <2>1 DEF Plain
    <2>3. ASSUME NEW j \in 1..Len(stdout'), j > i PROVE stdout'[j].text = "marker" /\ stdout'[j].by = c
        <3>1. j \in 1..Len(stdout) \/ j = Len(stdout) + 1
            BY PlacesGrow
        <3> QED BY <2>2, <2>3, <3>1, PlacesGrow
    <2> QED BY <2>1, <2>2, <2>3
<1> QED BY <1>1, <1>2, PlacesGrow

LEMMA CleanConcat ==
    ASSUME NEW S, NEW a \in Seq(S), NEW b \in Seq(S), NEW c, Clean(a, c), Clean(b, c)
    PROVE  Clean(a \o b, c)
<1> SUFFICES ASSUME NEW i \in DOMAIN (a \o b)
             PROVE  \/ (a \o b)[i].by = c /\ (a \o b)[i].text # "marker"
                    \/ (a \o b)[i].by = None /\ ~NoStrays
    BY DEF Clean
<1>1. CASE i \in DOMAIN a
    BY <1>1, ConcatAt DEF Clean
<1>2. CASE i - Len(a) \in DOMAIN b /\ (a \o b)[i] = b[i - Len(a)]
    BY <1>2 DEF Clean
<1> QED BY <1>1, <1>2, ConcatAt

\* A line is passed on, and nothing is lost.
LEMMA WholePass ==
    ASSUME TypeOK, SyncInv, PendingInv, NEW c \in Call, Whole(c), PassLine(c), ~sendErr, ~sendErr'
    PROVE  Whole(c)'
<1>1. /\ stdout \in Seq(Item) /\ stdout # <<>> /\ stdout' = Tail(stdout) /\ UNCHANGED <<stdin, bash>>
      /\ Line = stdout[1] /\ Line = Head(stdout) /\ 1 \in DOMAIN stdout /\ Line \in Item
      /\ ~(Line.text = "marker" /\ Line.by = c) /\ Len(stdout) \in Nat \ {0}
      /\ DOMAIN stdout = 1..Len(stdout)
    BY DEF PassLine, Line, TypeOK, Item
<1>2. lock = c /\ OnlyOf(c)
    BY DEF PassLine, SyncInv, LockInv
<1>3. \/ Held /\ pending' = Line /\ sent' = [sent EXCEPT ![c] = @ \o Before]
      \/ ~Held /\ pending' = None /\ sent' = [sent EXCEPT ![c] = @ \o Before \o <<Line>>]
    BY DEF PassLine
<1>4. pending' = None \/ pending' = stdout[1]
    BY <1>1, <1>3
<1>5. Parted(c)' /\ Plain(c)'
    BY <1>1, <1>4, PartedShift, PlainShift DEF Whole
<1>6. /\ sent[c] \in Seq(Item) /\ Before \in Seq(Item) /\ Unfinished \in Seq(Item)
      /\ sent[c] \o Before \in Seq(Item) /\ <<Line>> \in Seq(Item)
      /\ (sent[c] \o Before) \o <<Line>> \in Seq(Item)
    BY <1>1, OutputParts, ConcatProperties
<1>7. \/ Held /\ sent'[c] = sent[c] \o Before /\ Before' = <<Line>>
      \/ ~Held /\ sent'[c] = (sent[c] \o Before) \o <<Line>> /\ Before' = <<>>
    <2>1. Held => Line # None
        BY <1>1, NoneIsNoLine DEF Held, Item, Marker
    <2>2. CASE Held
        BY <1>3, <2>1, <2>2 DEF TypeOK, Before
    <2>3. CASE ~Held
        BY <1>3, <2>3 DEF TypeOK, Before
    <2> QED BY <2>2, <2>3
<1>8. Output(c)' = Output(c)
    <2>1. sent'[c] \o Before' = (sent[c] \o Before) \o <<Line>>
        BY <1>6, <1>7, ConcatEmptySeq
    <2>2. Unfinished' = Unfinished
        BY <1>1 DEF Unfinished
    <2>4. ((sent[c] \o Before) \o <<Head(stdout)>>) \o (Tail(stdout) \o Unfinished)
            = (sent[c] \o Before) \o (stdout \o Unfinished)
        <3> DEFINE a == sent[c] \o Before
        <3> HIDE DEF a
        <3>1. a \in Seq(Item)
            BY <1>6 DEF a
        <3>2. (a \o <<Head(stdout)>>) \o (Tail(stdout) \o Unfinished) = a \o (stdout \o Unfinished)
            <4>1. stdout \in Seq(Item) /\ stdout # <<>> /\ Unfinished \in Seq(Item)
                BY <1>1, <1>6
            <4> QED BY <3>1, <4>1, HeadMoves, SMTT(30)
        <3> QED BY <3>2 DEF a
    <2>3. ((sent[c] \o Before) \o <<Line>>) \o (Tail(stdout) \o Unfinished)
            = (sent[c] \o Before) \o (stdout \o Unfinished)
        BY <1>1, <2>4
    <2> QED BY <1>1, <2>1, <2>2, <2>3 DEF Output
<1>9. Clean(sent'[c], c)
    <2>1. 0 \in 0..Len(stdout) /\ 1 \in 0..Len(stdout) /\ 1 > 0 /\ 1 \in 1..Len(stdout)
        BY <1>1
    <2>2. Clean(Before, c)
        <3>1. ASSUME pending # None 
              PROVE  \/ pending.by = c /\ pending.text # "marker"
                     \/ pending.by = None /\ ~NoStrays
            <4>1. pending.text = "empty" /\ pending.by \in {c, None}
                BY <1>2, <3>1 DEF PendingInv
            <4>2. ASSUME pending.by = None, NoStrays PROVE FALSE
                <5>1. At(0) = pending
                    BY DEF At
                <5>2. stdout[1].text = "marker" /\ stdout[1].by = c
                    BY <2>1, <3>1, <4>2, <5>1 DEF Whole, Plain
                <5> QED BY <1>1, <5>2
            <4> QED BY <4>1, <4>2
        <3>2. CASE pending = None
            BY <3>2 DEF Before, Clean
        <3>3. CASE pending # None
            <4>1. Before = <<pending>> /\ DOMAIN <<pending>> = {1} /\ <<pending>>[1] = pending
                BY <3>3 DEF Before
            <4> QED BY <3>1, <3>3, <4>1 DEF Clean
        <3> QED BY <3>2, <3>3
    <2>3. ASSUME ~Held PROVE Clean(<<Line>>, c)
        <3>1. Line.by \in {c, None}
            BY <1>1, <1>2, ByTail DEF OnlyOf
        <3>2. ASSUME Line.by = None, NoStrays PROVE FALSE
            <4>1. At(1) = Line
                BY <1>1 DEF At
            <4>2. Line # None
                BY <1>1, <3>2, NoneIsNoLine DEF Item, Marker
            <4> QED BY <2>1, <2>3, <3>2, <4>1, <4>2 DEF Whole, Plain, Held
        <3>3. DOMAIN <<Line>> = {1} /\ <<Line>>[1] = Line
            OBVIOUS
        <3> QED BY <1>1, <3>1, <3>2, <3>3 DEF Clean
    <2>4. Clean(sent[c] \o Before, c)
        BY <1>6, <2>2, CleanConcat DEF Whole
    <2>5. ~Held => Clean((sent[c] \o Before) \o <<Line>>, c)
        BY <1>6, <2>3, <2>4, CleanConcat
    <2> QED BY <1>7, <2>4, <2>5
<1>10. Clean(sent[c], c)' /\ (Len(stdin') \in {0, 1} => bash'.open = None)
    BY <1>1, <1>9 DEF Clean, NoStrays, Whole
<1>11. Wrote(Output(c), c, bash.out[c])'
    BY <1>1, <1>8 DEF Whole
<1> QED BY <1>5, <1>10, <1>11 DEF Whole

\* A call that begins has nothing in the pipe.
LEMMA WholeStart ==
    ASSUME TypeOK, SyncInv, ClosedInv, ExitInv, PendingInv, FreshInv, TidyOutput,
           NEW c \in Call, Start(c), bash.alive, ~broken, stdin' = stdin \o ScriptOf(c), UNCHANGED locals
    PROVE  Whole(c)'
<1>1. Quiet /\ Len(stdin') = 5
    BY StartScript
<1>2. UNCHANGED <<stdout, bash, pending, sent>> /\ lock = None /\ pc[c] = "wait"
    BY DEF Start, locals
<1>3. pending' = None /\ sent'[c] = <<>> /\ bash'.out[c] = <<>> /\ bash'.open = None
    BY <1>1, <1>2 DEF PendingInv, FreshInv, Quiet
<1>4. stdout \in Seq(Item) /\ \A i \in DOMAIN stdout : stdout[i].by # c
    BY <1>1 DEF TypeOK, Item, Quiet, By
<1>5. Output(c)' = stdout
    <2>1. Output(c)' = (<<>> \o <<>>) \o (stdout \o <<>>)
        BY <1>2, <1>3 DEF Output, Before, Unfinished
    <2>2. <<>> \o stdout = stdout /\ stdout \o <<>> = stdout /\ <<>> \o <<>> = <<>>
        BY <1>4, ConcatEmptySeq
    <2> QED BY <2>1, <2>2
<1>6. Wrote(Output(c)', c, bash'.out[c])
    BY <1>3, <1>4, <1>5, WroteNothing DEF Mine
<1>7. Clean(sent[c], c)'
    BY <1>3 DEF Clean
<1>8. Parted(c)'
    <2> SUFFICES ASSUME NEW i \in 0..Len(stdout'), Ends(c, i + 1)' PROVE FALSE
        BY DEF Parted
    <2>1. \A n \in Nat : \A k \in 0..n : k + 1 # n + 1 => k + 1 \in 1..n
        OBVIOUS
    <2>2. Len(stdout') = Len(stdout) /\ Len(stdout) \in Nat /\ DOMAIN stdout = 1..Len(stdout)
        BY <1>2, <1>4
    <2>3. i + 1 # Len(stdout') + 1
        BY <1>1 DEF Ends
    <2>4. i + 1 \in DOMAIN stdout
        BY <2>1, <2>2, <2>3
    <2> QED BY <1>2, <1>4, <2>3, <2>4 DEF Ends
<1>9. Plain(c)'
    <2> SUFFICES ASSUME NoStrays', NEW i \in 0..Len(stdout'), At(i)' # None PROVE FALSE
        BY DEF Plain
    <2>1. stdout' = <<>>
        BY <1>2 DEF TidyOutput, NoStrays
    <2>2. i = 0
        BY <2>1
    <2> QED BY <1>3, <2>2 DEF At
<1>10. Len(stdin') \notin {0, 1}
    BY <1>1
<1> QED BY <1>6, <1>7, <1>8, <1>9, <1>10 DEF Whole

\* Where nothing is put, places stay.
LEMMA PlacesSame ==
    ASSUME NEW c \in Call, UNCHANGED <<stdout, pending>>, NoStrays' => NoStrays,
           Len(stdin') = 1 => Len(stdin) = 1, Len(stdin) \in {0, 1} => Len(stdin') \in {0, 1},
           Parted(c), Plain(c)
    PROVE  Parted(c)' /\ Plain(c)'
<1>1. \A i : At(i)' = At(i)
    BY DEF At
<1>2. \A i : Ends(c, i)' => Ends(c, i)
    BY DEF Ends
<1>3. Parted(c)'
    BY <1>1, <1>2 DEF Parted
<1>4. Plain(c)'
    BY <1>1 DEF Plain
<1> QED BY <1>3, <1>4

\* What becomes of stdin while c is read: bash takes its lines.
LEMMA BashTakes ==
    ASSUME TypeOK, NEW c \in Call, OnlyOf(c), Coded(c), StepOfBash, c \notin bash'.took
    PROVE  /\ BashLine => /\ stdin # <<>> /\ stdin' = Tail(stdin) /\ Len(stdin) \in {1, 2, 3, 4, 5}
                          /\ bash.running = None /\ Head(stdin).by = c
                          /\ Len(stdin) = 4 <=> Head(stdin).text = "save"
                          /\ Len(stdin) = 3 <=> Head(stdin).text = "errMarker"
                          /\ Len(stdin) = 2 <=> Head(stdin).text = "blank"
                          /\ Len(stdin) = 1 <=> Head(stdin).text = "outMarker"
                          /\ Len(stdin') \in {0, 1} <=> Len(stdin) \in {1, 2}
                          /\ Len(stdin') = 1 <=> Len(stdin) = 2
                          /\ Len(stdin') \in {0, 1, 2} <=> Len(stdin) \in {1, 2, 3}
           /\ ~BashLine => UNCHANGED stdin
           /\ \A d \in Call : Runs(d) => d = c /\ Len(stdin) = 4
           /\ UNCHANGED runner
<1>1. ASSUME BashLine
      PROVE  /\ stdin # <<>> /\ stdin' = Tail(stdin) /\ Len(stdin) \in {1, 2, 3, 4, 5}
             /\ bash.running = None /\ Head(stdin).by = c
             /\ Len(stdin) = 4 <=> Head(stdin).text = "save"
             /\ Len(stdin) = 3 <=> Head(stdin).text = "errMarker"
             /\ Len(stdin) = 2 <=> Head(stdin).text = "blank"
             /\ Len(stdin) = 1 <=> Head(stdin).text = "outMarker"
             /\ Len(stdin') \in {0, 1} <=> Len(stdin) \in {1, 2}
             /\ Len(stdin') = 1 <=> Len(stdin) = 2
             /\ Len(stdin') \in {0, 1, 2} <=> Len(stdin) \in {1, 2, 3}
    <2>1. stdin # <<>> /\ stdin' = Tail(stdin) /\ bash.running = None
        BY <1>1 DEF BashLine
    <2>2. Rest(c)
        BY DEF Coded
    <2>3. /\ Len(stdin) \in {1, 2, 3, 4, 5} /\ Head(stdin).by = c
          /\ Len(stdin) = 4 <=> Head(stdin).text = "save"
          /\ Len(stdin) = 3 <=> Head(stdin).text = "errMarker"
          /\ Len(stdin) = 2 <=> Head(stdin).text = "blank"
          /\ Len(stdin) = 1 <=> Head(stdin).text = "outMarker"
        BY <2>1, <2>2, RestStep
    <2>4. Len(stdin') = Len(stdin) - 1
        BY <2>1, <2>2, RestStep
    <2>5. \A n \in {1, 2, 3, 4, 5} :
            /\ n - 1 \in {0, 1} <=> n \in {1, 2}
            /\ n - 1 = 1 <=> n = 2
            /\ n - 1 \in {0, 1, 2} <=> n \in {1, 2, 3}
        OBVIOUS
    <2> QED BY <2>1, <2>3, <2>4, <2>5
<1>2. \A d \in Call : Runs(d) => d = c /\ Len(stdin) = 4
    <2>1. Len(stdin) \in {0, 1, 2, 3, 4, 5}
        BY DEF Coded, Rest
    <2> QED BY <2>1 DEF OnlyOf, Runs, Coded
<1>3. ASSUME NEW d \in Call, CommandActs(d) PROVE UNCHANGED stdin
    <2>1. d = c
        BY <1>2, <1>3 DEF CommandActs
    <2> QED BY <1>3, <2>1, CommandKeeps
<1>4. ASSUME NEW d \in Call, CommandEnds(d) \/ StrayEnds(d) PROVE UNCHANGED stdin
    BY <1>4 DEF CommandEnds, StrayEnds
<1>5. UNCHANGED runner
    BY DEF StepOfBash, BashLine, CommandActs, CommandEnds, StrayEnds
<1> QED BY <1>1, <1>2, <1>3, <1>4, <1>5 DEF StepOfBash

\* What bash writes is read by the call that has the lock.
LEMMA WroteBash ==
    ASSUME TypeOK, NEW c \in Call, OnlyOf(c), Coded(c), StepOfBash, c \notin bash'.took,
           Wrote(Output(c), c, bash.out[c])
    PROVE  Wrote(Output(c), c, bash.out[c])'
<1> DEFINE a == sent[c] \o Before
           texts == {"line", "empty", "overlong"}
<1>1. a \in Seq(Item) /\ stdout \in Seq(Item) /\ Output(c) \in Seq(Item) /\ bash.out[c] \in Seq(texts)
      /\ bash.out \in [Call -> Seq(texts)]
    BY OutputParts DEF TypeOK, Bash
<1>2. a' = a /\ \A d \in Call : Runs(d) => d = c
    BY BashTakes DEF runner, locals, results, Before
<1>3. /\ Output(c) = a \o (stdout \o Unfinished)
      /\ Output(c)' = a' \o (stdout' \o Unfinished')
    BY DEF Output
<1> HIDE DEF a
<1>4. CASE Silent
    <2>1. Unfinished' = Unfinished /\ stdout' = stdout /\ bash'.out = bash.out
        BY <1>4 DEF Silent, Unfinished
    <2> QED BY <1>2, <1>3, <2>1
<1>5. ASSUME NEW text \in texts, bash'.out = [bash.out EXCEPT ![c] = Append(@, text)],
             Output(c)' = Append(Output(c), [by |-> c, text |-> text])
      PROVE  Wrote(Output(c), c, bash.out[c])'
    <2> DEFINE item == [by |-> c, text |-> text]
    <2>1. item \in Item /\ item.by = c /\ item.text = text /\ text # "marker"
        BY ItemTypes
    <2>2. bash'.out[c] = Append(bash.out[c], text)
        BY <1>1, <1>5
    <2> HIDE DEF item
    <2>3. Wrote(Append(Output(c), item), c, Append(bash.out[c], item.text))
        BY <1>1, <2>1, WroteMore
    <2> QED BY <1>5, <2>1, <2>2, <2>3 DEF item
<1>6. ASSUME NEW d \in Call, OpensLine(d) PROVE Wrote(Output(c), c, bash.out[c])'
    <2>1. d = c /\ [by |-> c, text |-> "line"] \in Item
        BY <1>2, <1>6, ItemTypes DEF OpensLine
    <2>2. Unfinished = <<>> /\ Unfinished' = <<[by |-> c, text |-> "line"]>> /\ stdout' = stdout
        BY <1>6, <2>1 DEF OpensLine, Unfinished
    <2>3. Output(c)' = Append(Output(c), [by |-> c, text |-> "line"])
        BY <1>1, <1>2, <1>3, <2>1, <2>2, EndGrows
    <2> QED BY <1>5, <1>6, <2>1, <2>3 DEF OpensLine
<1>7. ASSUME NEW d \in Call, NEW text \in texts, WritesLine(d, text)
      PROVE  Wrote(Output(c), c, bash.out[c])'
    <2>1. d = c /\ [by |-> c, text |-> text] \in Item
        BY <1>2, <1>7, ItemTypes DEF WritesLine
    <2>2. Unfinished = <<>> /\ Unfinished' = <<>> /\ stdout' = Append(stdout, [by |-> c, text |-> text])
        BY <1>7, <2>1 DEF WritesLine, Unfinished
    <2>3. Output(c)' = Append(Output(c), [by |-> c, text |-> text])
        BY <1>1, <1>2, <1>3, <2>1, <2>2, EndGrows
    <2> QED BY <1>5, <1>7, <2>1, <2>3 DEF WritesLine
<1>8. CASE EndsLine
    <2> DEFINE item == [by |-> bash.open, text |-> "line"]
    <2>1. item \in Item
        BY <1>8 DEF EndsLine, TypeOK, Bash, Item, Written
    <2>2. Unfinished = <<item>> /\ Unfinished' = <<>> /\ stdout' = Append(stdout, item)
        BY <1>8 DEF EndsLine, Unfinished
    <2> HIDE DEF item
    <2>5. a \o (Append(stdout, item) \o <<>>) = Append(a \o (stdout \o <<>>), item)
        BY <1>1, <2>1, EndGrows
    <2>6. a \o (stdout \o <<item>>) = Append(a \o (stdout \o <<>>), item)
        BY <1>1, <2>1, EndGrows
    <2>4. a \o (Append(stdout, item) \o <<>>) = a \o (stdout \o <<item>>)
        BY <2>5, <2>6
    <2>3. Output(c)' = Output(c)
        BY <1>2, <1>3, <2>2, <2>4
    <2> QED BY <1>8, <2>3 DEF EndsLine
<1>9. ASSUME NEW item \in Item, AddsItem(item) PROVE Wrote(Output(c), c, bash.out[c])'
    <2>1. Unfinished = <<>> /\ Unfinished' = <<>> /\ stdout' = Append(stdout, item) /\ bash'.out = bash.out
        BY <1>9 DEF AddsItem, Unfinished
    <2>2. Output(c)' = Append(Output(c), item)
        BY <1>1, <1>2, <1>3, <2>1, EndGrows
    <2>3. <<item>> \in Seq(Item) /\ Append(Output(c), item) = Output(c) \o <<item>>
        BY <1>1, AppendIsConcat
    <2>4. item.by # c \/ item.text = "marker"
        BY <1>9 DEF AddsItem
    <2>5. Mine(<<item>>, c) = {}
        BY <2>4 DEF Mine
    <2>6. Wrote(Output(c) \o <<item>>, c, bash.out[c])
        BY <1>1, <2>3, <2>5, WroteConcat
    <2> QED BY <2>1, <2>2, <2>3, <2>6
<1> QED BY <1>4, <1>6, <1>7, <1>8, <1>9, OutputSteps

\* The marker is parted from the command.
LEMMA PlacesBash ==
    ASSUME TypeOK, NEW c \in Call, OnlyOf(c), Coded(c), StepOfBash, c \notin bash'.took, [Next]_vars,
           Parted(c), Plain(c), Len(stdin) \in {0, 1} => bash.open = None
    PROVE  /\ Parted(c)' /\ Plain(c)'
           /\ Len(stdin') \in {0, 1} => bash'.open = None
<1>1. NoStrays' => NoStrays
    BY StraysStay
<1>2. UNCHANGED pending /\ (~BashLine => UNCHANGED stdin) /\ \A d \in Call : Runs(d) => d = c /\ Len(stdin) = 4
    BY BashTakes DEF runner, locals
<1>3. BashLine =>
        /\ Len(stdin) \in {1, 2, 3, 4, 5} /\ Head(stdin).by = c
        /\ Len(stdin) = 2 <=> Head(stdin).text = "blank"
        /\ Len(stdin) = 1 <=> Head(stdin).text = "outMarker"
        /\ Len(stdin') \in {0, 1} <=> Len(stdin) \in {1, 2}
        /\ Len(stdin') = 1 <=> Len(stdin) = 2
    BY BashTakes
<1>4. Len(stdin) \in {0, 1} => Len(stdin') \in {0, 1}
    BY <1>2, <1>3
<1>5. CASE Silent
    <2>1. Len(stdin') \in {0, 1} => UNCHANGED stdin
        BY <1>2, <1>3, <1>5 DEF Silent
    <2>2. (Len(stdin') = 1 => Len(stdin) = 1) /\ UNCHANGED stdout /\ bash'.open = bash.open
        BY <1>5, <2>1 DEF Silent
    <2> QED BY <1>1, <1>2, <1>4, <2>1, <2>2, PlacesSame
<1>6. ASSUME NEW d \in Call, OpensLine(d)
      PROVE  Parted(c)' /\ Plain(c)' /\ (Len(stdin') \in {0, 1} => bash'.open = None)
    <2>1. UNCHANGED <<stdin, stdout>> /\ Len(stdin) = 4
        BY <1>2, <1>3, <1>6 DEF OpensLine, BashLine, Runs
    <2> QED BY <1>1, <1>2, <2>1, PlacesSame
<1>7. ASSUME NEW item \in Item, stdout' = Append(stdout, item), bash'.open = None,
             item.text = "marker" /\ item.by = c => Len(stdin) = 1,
             Len(stdin') = 1 => ~(item.by = c /\ item.text = "empty"),
             NoStrays /\ Len(stdin) \in {0, 1} => item.text = "marker" /\ item.by = c,
             NoStrays /\ item.by = None => item.text = "empty" /\ Len(stdin') \in {0, 1}
      PROVE  Parted(c)' /\ Plain(c)' /\ (Len(stdin') \in {0, 1} => bash'.open = None)
    <2>1. Parted(c)'
        BY <1>2, <1>7, PartedGrow
    <2>2. Plain(c)'
        BY <1>1, <1>2, <1>4, <1>7, PlainGrow
    <2> QED BY <1>7, <2>1, <2>2
<1>8. ASSUME NEW d \in Call, NEW text \in {"line", "empty", "overlong"}, WritesLine(d, text)
      PROVE  Parted(c)' /\ Plain(c)' /\ (Len(stdin') \in {0, 1} => bash'.open = None)
    <2> DEFINE item == [by |-> d, text |-> text]
    <2>1. item \in Item /\ item.by = d /\ item.text # "marker" /\ stdout' = Append(stdout, item)
          /\ bash'.open = None
        BY <1>8, ItemTypes DEF WritesLine
    <2>2. UNCHANGED stdin /\ Len(stdin) = 4 /\ d # None
        BY <1>2, <1>3, <1>8 DEF WritesLine, BashLine, Runs
    <2> HIDE DEF item
    <2> QED BY <1>7, <2>1, <2>2
<1>9. CASE EndsLine
    <2> DEFINE item == [by |-> bash.open, text |-> "line"]
    <2>1. item \in Item /\ item.by = bash.open /\ item.text = "line" /\ stdout' = Append(stdout, item)
          /\ bash'.open = None /\ bash.open # None
        BY <1>9 DEF EndsLine, TypeOK, Bash, Item, Written
    <2> HIDE DEF item
    <2> QED BY <1>7, <2>1
<1>10. ASSUME NEW item \in Item, AddsItem(item)
      PROVE  Parted(c)' /\ Plain(c)' /\ (Len(stdin') \in {0, 1} => bash'.open = None)
    <2>1. stdout' = Append(stdout, item) /\ bash'.open = None
        BY <1>10 DEF AddsItem
    <2>2. CASE BashLine /\ Head(stdin).text = "blank" /\ item = [by |-> None, text |-> "empty"]
        <3>1. item.by = None /\ item.text = "empty" /\ Len(stdin) = 2 /\ Len(stdin') \in {0, 1} /\ c # None
            BY <1>3, <2>2
        <3> QED BY <1>7, <2>1, <3>1
    <2>3. CASE /\ BashLine /\ Head(stdin).text = "outMarker"
               /\ item = [by |-> Head(stdin).by, text |-> "marker", code |-> bash.ec]
        <3>1. item.by = c /\ item.text = "marker" /\ Len(stdin) = 1 /\ c # None
            BY <1>3, <2>3
        <3> QED BY <1>7, <2>1, <3>1
    <2>4. CASE (\E d \in Call : Stray(d)) /\ item.by = None /\ item.text # "marker"
        <3>1. ~NoStrays /\ c # None
            BY <2>4, StrayIsOne
        <3> QED BY <1>7, <2>1, <2>4, <3>1
    <2> QED BY <1>10, <2>2, <2>3, <2>4 DEF AddsItem
<1> QED BY <1>5, <1>6, <1>8, <1>9, <1>10, OutputSteps

LEMMA WholeBash ==
    ASSUME TypeOK, NEW c \in Call, OnlyOf(c), Coded(c), StepOfBash, c \notin bash'.took, [Next]_vars, Whole(c)
    PROVE  Whole(c)'
<1>1. Wrote(Output(c), c, bash.out[c])'
    BY WroteBash DEF Whole
<1>2. Parted(c)' /\ Plain(c)' /\ (Len(stdin') \in {0, 1} => bash'.open = None)
    BY PlacesBash DEF Whole
<1>3. UNCHANGED sent
    BY BashTakes DEF runner, results
<1>4. Clean(sent[c], c)'
    BY <1>3, StraysStay DEF Whole, Clean
<1> QED BY <1>1, <1>2, <1>4 DEF Whole

\* Whole is kept from the beginning, unless the client is gone.
LEMMA WholeStep ==
    ASSUME TypeOK, SyncInv, ClosedInv, ExitInv, PendingInv, FreshInv, TidyOutput, NEW c \in Call,
           pc'[c] = "scan", ~sendErr', pc[c] = "scan" => Coded(c) /\ (~sendErr => Whole(c)),
           [Next]_vars, c \notin bash'.took
    PROVE  Whole(c)'
<1>1. CASE Start(c) /\ bash.alive /\ ~broken /\ stdin' = stdin \o ScriptOf(c) /\ UNCHANGED locals
    BY <1>1, WholeStart
<1>2. CASE pc[c] = "scan" /\ PassLine(c)
    <2>1. ~sendErr
        BY <1>2 DEF PassLine
    <2> QED BY <1>2, <2>1, WholePass
<1>3. CASE pc[c] = "scan" /\ StepOfBash
    <2>1. UNCHANGED sendErr /\ OnlyOf(c)
        BY <1>3, BashTakes DEF runner, locals, SyncInv
    <2> QED BY <1>3, <2>1, WholeBash
<1>4. CASE pc[c] = "scan" /\ UNCHANGED <<sent, locals, stdin, stdout, bash>>
    <2>1. UNCHANGED <<sent, pending, sendErr, stdin, stdout, bash>>
        BY <1>4 DEF locals
    <2>2. /\ Output(c)' = Output(c) /\ (NoStrays' <=> NoStrays)
          /\ \A i : At(i)' = At(i) /\ (Ends(c, i)' <=> Ends(c, i))
        BY <2>1 DEF Output, Before, Unfinished, NoStrays, At, Ends
    <2>3. Whole(c)
        BY <1>4, <2>1
    <2>4. Wrote(Output(c), c, bash.out[c])'
        BY <2>1, <2>2, <2>3 DEF Whole
    <2>5. Clean(sent[c], c)'
        BY <2>1, <2>2, <2>3 DEF Whole, Clean
    <2>6. Parted(c)' /\ Plain(c)'
        <3>1. Parted(c)'
            BY <2>1, <2>2, <2>3 DEF Whole, Parted
        <3>2. Plain(c)'
            BY <2>1, <2>2, <2>3 DEF Whole, Plain
        <3> QED BY <3>1, <3>2
    <2> QED BY <2>1, <2>3, <2>4, <2>5, <2>6 DEF Whole
<1>5. ReadStderr \/ UNCHANGED vars \/ (\E d \in Call : Cancel(d))
        => UNCHANGED <<sent, locals, stdin, stdout, bash>>
    BY DEF ReadStderr, Cancel, vars, runner, results
<1> QED BY <1>1, <1>2, <1>3, <1>4, <1>5, ScanSteps

\* At the marker all was sent.
LEMMA WholeSent ==
    ASSUME TypeOK, SyncInv, PendingInv, NEW c \in Call, Whole(c), SeeMarker(c)
    PROVE  Wrote(sent[c], c, bash.out[c])
<1>1. /\ OnlyOf(c) /\ lock = c /\ stdout # <<>> /\ stdout[1].text = "marker" /\ stdout[1].by = c
    BY DEF SeeMarker, SyncInv, LockInv, Line, TypeOK
<1>2. /\ sent[c] \in Seq(Item) /\ Before \in Seq(Item) /\ stdout \in Seq(Item)
      /\ sent[c] \o Before \in Seq(Item)
    BY OutputParts
<1>3. Len(stdout) \in Nat \ {0} /\ DOMAIN stdout = 1..Len(stdout)
    BY <1>1, <1>2
<1>4. bash.open = None /\ \A j \in DOMAIN stdout : j > 1 => stdout[j].by = None
    <2>1. 1 \in DOMAIN stdout
        BY <1>3
    <2> QED BY <1>1, <2>1 DEF OnlyOf
<1>5. Output(c) = (sent[c] \o Before) \o stdout
    BY <1>2, <1>4, ConcatEmptySeq DEF Output, Unfinished
<1>6. Mine(stdout, c) = {}
    <2>1. \A j \in DOMAIN stdout : j = 1 \/ j > 1
        BY <1>3
    <2> QED BY <1>1, <1>4, <2>1 DEF Mine
<1>7. Mine(Before, c) = {}
    <2>1. CASE pending = None
        BY <2>1 DEF Before, Mine
    <2>2. CASE pending # None
        <3>1. 0 \in 0..Len(stdout) /\ 0 + 1 = 1 /\ 1 # Len(stdout) + 1
            BY <1>3
        <3>2. Ends(c, 1) /\ At(0) = pending
            BY <1>1, <3>1 DEF Ends, At
        <3>3. ~(pending.by = c /\ pending.text = "empty")
            BY <2>2, <3>1, <3>2 DEF Whole, Parted
        <3>4. pending.by # c
            BY <2>2, <3>3 DEF PendingInv
        <3> QED BY <2>2, <3>4 DEF Before, Mine
    <2> QED BY <2>1, <2>2
<1>8. Wrote(sent[c] \o Before, c, bash.out[c])
    <2> DEFINE a == sent[c] \o Before
    <2>1. a \in Seq(Item) /\ stdout \in Seq(Item) /\ Wrote(a \o stdout, c, bash.out[c])
        BY <1>2, <1>5 DEF Whole
    <2> HIDE DEF a
    <2>2. Wrote(a, c, bash.out[c])
        BY <1>6, <2>1, WroteConcat
    <2> QED BY <2>2 DEF a
<1> QED BY <1>2, <1>7, <1>8, WroteConcat

\* What a call has sent, once it saw its marker.
OutInv == \A c \in Call \ bash.took :
    /\ pc[c] = "scan" /\ ~sendErr => Whole(c)
    /\ (pc[c] = "stderr" /\ ~sendErr) \/ answer[c].kind = "ok" =>
        Wrote(sent[c], c, bash.out[c]) /\ Clean(sent[c], c)

LEMMA OutStep ==
    ASSUME TypeOK, SyncInv, ClosedInv, ExitInv, DoneInv, CodeInv, PendingInv, FreshInv, TidyOutput,
           OutInv, [Next]_vars
    PROVE  OutInv'
<1> SUFFICES ASSUME NEW c \in Call, c \notin bash'.took
             PROVE  /\ pc'[c] = "scan" /\ ~sendErr' => Whole(c)'
                    /\ (pc'[c] = "stderr" /\ ~sendErr') \/ answer'[c].kind = "ok" =>
                        Wrote(sent[c], c, bash.out[c])' /\ Clean(sent[c], c)'
    BY DEF OutInv
<1>0. c \notin bash.took
    BY TookStays
<1>1. ASSUME pc'[c] = "scan", ~sendErr' PROVE Whole(c)'
    <2>1. pc[c] = "scan" => Coded(c) /\ (~sendErr => Whole(c))
        BY <1>0 DEF CodeInv, OutInv
    <2> QED BY <1>1, <2>1, WholeStep
<1>2. ASSUME Wrote(sent[c], c, bash.out[c]), Clean(sent[c], c), ~Runs(c), ~PassLine(c)
      PROVE  Wrote(sent[c], c, bash.out[c])' /\ Clean(sent[c], c)'
    <2>1. sent'[c] = sent[c] /\ bash'.out[c] = bash.out[c]
        BY <1>2, SentKept, WrittenKept
    <2>2. Clean(sent[c], c)'
        BY <1>2, <2>1, StraysStay DEF Clean
    <2> QED BY <1>2, <2>1, <2>2
<1>3. ASSUME pc'[c] = "stderr", ~sendErr'
      PROVE  Wrote(sent[c], c, bash.out[c])' /\ Clean(sent[c], c)'
    <2>1. CASE SeeMarker(c)
        <3>1. pc[c] = "scan" /\ ~sendErr /\ UNCHANGED <<sent, bash>>
            BY <1>3, <2>1 DEF SeeMarker, Return, TypeOK
        <3>2. Whole(c)
            BY <1>0, <3>1 DEF OutInv
        <3>3. Wrote(sent[c], c, bash.out[c]) /\ Clean(sent[c], c)
            BY <2>1, <3>2, WholeSent DEF Whole
        <3>4. ~Runs(c)
            <4>1. OnlyOf(c) /\ stdout # <<>> /\ stdout[1].text = "marker" /\ stdout[1].by = c /\ 1 \in DOMAIN stdout
                BY <2>1, <3>1 DEF SeeMarker, SyncInv, Line, TypeOK
            <4> QED BY <4>1 DEF OnlyOf, Runs
        <3>5. ~PassLine(c)
            BY <2>1 DEF SeeMarker, PassLine
        <3> QED BY <1>2, <3>3, <3>4, <3>5
    <2>2. CASE pc[c] = "stderr" /\ UNCHANGED sendErr
        <3>1. ~Runs(c) /\ ~PassLine(c)
            BY <2>2 DEF SyncInv, Quiet, Runs, PassLine
        <3>2. Wrote(sent[c], c, bash.out[c]) /\ Clean(sent[c], c)
            BY <1>0, <1>3, <2>2 DEF OutInv
        <3> QED BY <1>2, <3>1, <3>2
    <2> QED BY <1>3, <2>1, <2>2, StderrSteps
<1>4. ASSUME answer'[c].kind = "ok"
      PROVE  Wrote(sent[c], c, bash.out[c])' /\ Clean(sent[c], c)'
    <2>1. CASE answer'[c] = answer[c]
        <3>1. ~Runs(c) /\ ~PassLine(c)
            BY <1>4, <2>1 DEF DoneInv, Gone, Runs, PassLine
        <3>2. Wrote(sent[c], c, bash.out[c]) /\ Clean(sent[c], c)
            BY <1>0, <1>4, <2>1 DEF OutInv
        <3> QED BY <1>2, <3>1, <3>2
    <2>2. CASE Finish(c) /\ ~sendErr
        <3>1. pc[c] = "stderr"
            BY <2>2 DEF Finish
        <3>2. ~Runs(c) /\ ~PassLine(c)
            BY <3>1 DEF SyncInv, Quiet, Runs, PassLine
        <3>3. Wrote(sent[c], c, bash.out[c]) /\ Clean(sent[c], c)
            BY <1>0, <2>2, <3>1 DEF OutInv
        <3> QED BY <1>2, <3>2, <3>3
    <2> QED BY <1>4, <2>1, <2>2, AnswerSteps DEF ErrorAnswer, NoAnswer
<1> QED BY <1>1, <1>3, <1>4

-----------------------------------------------------------------------------
(* What the command writes to stderr.                                      *)

\* The errMarker of c was taken by bash.
Past(c) == pc[c] = "scan" => Len(stdin) \in {0, 1, 2}

\* How a call keeps the lock.
LEMMA HolderSteps ==
    ASSUME TypeOK, SyncInv, NEW c \in Call, lock' = c, [Next]_vars
    PROVE  \/ /\ Start(c) /\ ~broken /\ ExpectMarker(c) /\ lock = None
              /\ UNCHANGED <<stderr, bash>>
           \/ /\ lock = c
              /\ \/ StepOfBash
                 \/ ReadStderr
                 \/ UNCHANGED <<stderr, stderrVars, bash>> /\ (Past(c) => Past(c)')
<1>1. LockInv' /\ (pc[c] \in {"scan", "stderr"} <=> lock = c)
    <2>1. LockInv
        BY DEF SyncInv
    <2>2. UNCHANGED vars => LockInv'
        BY <2>1 DEF LockInv, vars, runner, locals
    <2> QED BY <2>1, <2>2, LockStep DEF LockInv
<1>2. pc'[c] \in {"scan", "stderr"}
    BY <1>1 DEF LockInv
<1>3. CASE pc'[c] = "scan"
    <2>1. PassLine(c) => UNCHANGED <<stderr, stderrVars, bash>> /\ (Past(c) => Past(c)')
        BY DEF PassLine, Past
    <2>2. UNCHANGED vars \/ (\E d \in Call : Cancel(d))
            => UNCHANGED <<stderr, stderrVars, bash>> /\ (Past(c) => Past(c)')
        BY DEF Cancel, vars, runner, Past
    <2>3. CASE Start(c) /\ ~broken /\ ExpectMarker(c)
        BY <2>3 DEF Start
    <2>4. CASE pc[c] = "scan" /\ (PassLine(c) \/ StepOfBash \/ ReadStderr \/ UNCHANGED vars \/ \E d \in Call : Cancel(d))
        BY <1>1, <2>1, <2>2, <2>4
    <2> QED BY <1>3, <2>3, <2>4, ScanSteps
<1>4. CASE pc'[c] = "stderr"
    <2>1. Past(c)'
        BY <1>4 DEF Past
    <2>2. CASE SeeMarker(c)
        <3>1. UNCHANGED <<stderr, stderrVars, bash>> /\ pc[c] = "scan"
            BY <2>2 DEF SeeMarker
        <3> QED BY <1>1, <2>1, <3>1
    <2>3. CASE pc[c] = "stderr" /\ ~CallStep(c)
        <3>1. lock = c
            BY <1>1, <2>3
        <3>2. ASSUME NEW d \in Call, CallStep(d) PROVE FALSE
            <4>1. lock = None \/ pc[d] \in {"scan", "stderr"}
                BY <3>2 DEF CallStep, Start, PassLine, SeeMarker, ScanFails, Finish
            <4>2. lock = d
                BY <3>1, <4>1 DEF SyncInv, LockInv
            <4> QED BY <2>3, <3>1, <3>2, <4>2
        <3>3. ~Close
            BY <3>1 DEF Close, SyncInv, LockInv
        <3>4. ASSUME UNCHANGED vars \/ \E d \in Call : Cancel(d) PROVE UNCHANGED <<stderr, stderrVars, bash>>
            BY <3>4 DEF Cancel, vars, runner
        <3> QED BY <2>1, <3>1, <3>2, <3>3, <3>4 DEF Next, BashStep, StepOfBash
    <2> QED BY <1>4, <2>2, <2>3, StderrSteps
<1> QED BY <1>2, <1>3, <1>4

\* What earlier commands may have left on stderr.
Leavers == bash.took \cup {None, Closer}

LeftInv ==
    /\ lock \notin Call /\ ~broken => By(stderr, Leavers)
    /\ lock \in Call => By(stderr, Leavers \cup {lock}) /\ By(stderrBuf, Leavers \cup {lock})

\* All that the command of c wrote to stderr was read, or is in the pipe, and
\* its marker is behind it.
Logged(c) ==
    /\ Wrote(stderrBuf \o stderr, c, Lines(bash.err[c]))
    /\ \A i \in DOMAIN stderrBuf : ~(stderrBuf[i].by = c /\ stderrBuf[i].text = "marker")
    /\ IF stderrDone THEN stderrMarker = None /\ By(stderr, Others(c)) /\ Past(c) ELSE stderrMarker = c
    /\ \A i \in DOMAIN stderr : stderr[i].by = c /\ stderr[i].text = "marker" =>
        Past(c) /\ \A j \in DOMAIN stderr : j > i => stderr[j].by # c

LogInv == \A c \in Call \ bash.took : lock = c => Logged(c)

LEMMA LinesNone == Lines(0) = <<>>
<1>1. Lines(0) \in Seq({"line"}) /\ Len(Lines(0)) = 0
    BY DEF Lines
<1> QED BY <1>1, EmptySeq

LEMMA LogParts ==
    ASSUME TypeOK
    PROVE  stderrBuf \in Seq(Item) /\ stderr \in Seq(Item) /\ stderrBuf \o stderr \in Seq(Item)
<1>1. stderrBuf \in Seq(Item) /\ stderr \in Seq(Item)
    BY DEF TypeOK, Item
<1> QED BY <1>1, ConcatProperties

LEMMA LoggedStart ==
    ASSUME TypeOK, FreshInv, NEW c \in Call, Start(c), ExpectMarker(c), UNCHANGED <<stderr, bash>>
    PROVE  Logged(c)'
<1>1. pc[c] = "wait" /\ By(stderr, Others(c)) /\ bash.err[c] = 0
    BY DEF Start, FreshInv
<1>2. stderrBuf' = <<>> /\ stderrDone' = FALSE /\ stderrMarker' = c
    BY DEF ExpectMarker
<1>3. \A i \in DOMAIN stderr : stderr[i].by # c
    BY <1>1 DEF By, Others
<1>4. stderrBuf' \o stderr' = stderr
    BY <1>2, LogParts, ConcatEmptySeq
<1>5. Wrote(stderr, c, Lines(0))
    BY <1>3, WroteNothing, LinesNone DEF Mine
<1>6. Wrote(stderrBuf \o stderr, c, Lines(bash.err[c]))'
    BY <1>1, <1>4, <1>5
<1>7. \A i \in DOMAIN stderr' : stderr'[i].by # c
    BY <1>3
<1> QED BY <1>2, <1>6, <1>7 DEF Logged

\* The goroutine that reads stderr loses nothing but the marker.
LEMMA LoggedRead ==
    ASSUME TypeOK, NEW c \in Call, Logged(c), ReadStderr
    PROVE  Logged(c)'
<1> DEFINE item == Head(stderr)
           marked(seq) == \E i \in DOMAIN seq : seq[i].by = c /\ seq[i].text = "marker"
<1>1. /\ stderrBuf \in Seq(Item) /\ stderr \in Seq(Item) /\ stderr # <<>>
      /\ stderr' = Tail(stderr) /\ UNCHANGED <<pc, stdin, bash>>
      /\ IF item.text = "marker" /\ item.by = stderrMarker
         THEN stderrMarker' = None /\ stderrDone' = TRUE /\ UNCHANGED stderrBuf
         ELSE stderrBuf' = Append(stderrBuf, item) /\ UNCHANGED <<stderrMarker, stderrDone>>
    BY LogParts DEF ReadStderr
<1>2. /\ DOMAIN stderr = 1..Len(stderr) /\ Len(stderr) \in Nat \ {0}
      /\ item = stderr[1] /\ item \in Item /\ 1 \in DOMAIN stderr
      /\ DOMAIN stderr' = 1..(Len(stderr) - 1) /\ stderr' \in Seq(Item)
      /\ \A i \in 1..(Len(stderr) - 1) : stderr'[i] = stderr[i + 1]
    BY <1>1, TailType
<1>3. \A i \in DOMAIN stderr' : i + 1 \in DOMAIN stderr /\ i + 1 > 1 /\ stderr'[i] = stderr[i + 1]
    BY <1>2
<1>4. Past(c)' <=> Past(c)
    BY <1>1 DEF Past
<1>5. item.text = "marker" => item.by \in Call
    BY <1>2, NoneIsNoLine DEF Item, Written, Marker
<1>6. By(stderr, Others(c)) => By(stderr', Others(c)) /\ item.by \in Others(c)
    BY <1>1, ByTail
<1>7. \A i \in DOMAIN stderr' : stderr'[i].by = c /\ stderr'[i].text = "marker" =>
        Past(c)' /\ \A j \in DOMAIN stderr' : j > i => stderr'[j].by # c
    <2> SUFFICES ASSUME NEW i \in DOMAIN stderr', stderr'[i].by = c, stderr'[i].text = "marker"
                 PROVE  Past(c)' /\ \A j \in DOMAIN stderr' : j > i => stderr'[j].by # c
        OBVIOUS
    <2>1. Past(c) /\ \A j \in DOMAIN stderr : j > i + 1 => stderr[j].by # c
        BY <1>3 DEF Logged
    <2>2. ASSUME NEW j \in DOMAIN stderr', j > i PROVE j + 1 > i + 1
        BY <1>2, <2>2
    <2> QED BY <1>3, <1>4, <2>1, <2>2
<1>8. CASE item.text = "marker" /\ item.by = stderrMarker
    <2>1. ~stderrDone /\ item.by = c
        BY <1>5, <1>8 DEF Logged
    <2>2. Past(c) /\ \A j \in DOMAIN stderr : j > 1 => stderr[j].by # c
        BY <1>2, <1>8, <2>1 DEF Logged
    <2>3. \A i \in DOMAIN stderr' : stderr'[i].by # c
        BY <1>3, <2>2
    <2>4. By(stderr', Others(c))
        <3>1. \A i \in DOMAIN stderr' : stderr'[i] \in Item
            BY <1>2
        <3>2. \A x \in Item : x.by \in Call \cup {None}
            BY DEF Item, Written, Marker
        <3> QED BY <2>3, <3>1, <3>2 DEF By, Others
    <2>5. Mine(stderr, c) = {} /\ Mine(stderr', c) = {}
        <3>1. \A i \in DOMAIN stderr : i = 1 \/ i > 1
            BY <1>2
        <3> QED BY <1>2, <1>8, <2>2, <2>3, <3>1 DEF Mine
    <2>6. Wrote(stderrBuf, c, Lines(bash.err[c]))
        BY <1>1, <2>5, WroteConcat DEF Logged
    <2>7. Wrote(stderrBuf \o stderr', c, Lines(bash.err[c]))
        BY <1>1, <1>2, <2>5, <2>6, WroteConcat
    <2>8. Wrote(stderrBuf \o stderr, c, Lines(bash.err[c]))'
        BY <1>1, <1>8, <2>7
    <2>9. \A i \in DOMAIN stderrBuf' : ~(stderrBuf'[i].by = c /\ stderrBuf'[i].text = "marker")
        BY <1>1, <1>8 DEF Logged
    <2> QED BY <1>1, <1>4, <1>7, <1>8, <2>2, <2>4, <2>8, <2>9 DEF Logged
<1>9. CASE ~(item.text = "marker" /\ item.by = stderrMarker)
    <2>1. stderrBuf' = Append(stderrBuf, item) /\ UNCHANGED <<stderrMarker, stderrDone>>
        BY <1>1, <1>9
    <2>2. ~(item.by = c /\ item.text = "marker")
        BY <1>6, <1>9 DEF Logged, Others
    <2>3. stderrBuf' \o stderr' = stderrBuf \o stderr
        <3>1. (stderrBuf \o <<Head(stderr)>>) \o (Tail(stderr) \o <<>>) = stderrBuf \o (stderr \o <<>>)
            <4>1. <<>> \in Seq(Item)
                OBVIOUS
            <4> QED BY <1>1, <4>1, HeadMoves
        <3>2. Tail(stderr) \o <<>> = Tail(stderr) /\ stderr \o <<>> = stderr
            BY <1>1, <1>2, ConcatEmptySeq
        <3>3. Append(stderrBuf, item) = stderrBuf \o <<item>>
            BY <1>1, <1>2, AppendIsConcat
        <3> QED BY <1>1, <2>1, <3>1, <3>2, <3>3
    <2>4. Wrote(stderrBuf \o stderr, c, Lines(bash.err[c]))'
        BY <1>1, <2>3 DEF Logged
    <2>5. \A i \in DOMAIN stderrBuf' : ~(stderrBuf'[i].by = c /\ stderrBuf'[i].text = "marker")
        <3>1. /\ Len(stderrBuf) \in Nat /\ DOMAIN stderrBuf = 1..Len(stderrBuf)
              /\ DOMAIN stderrBuf' = 1..(Len(stderrBuf) + 1)
              /\ \A i \in 1..Len(stderrBuf) : stderrBuf'[i] = stderrBuf[i]
              /\ stderrBuf'[Len(stderrBuf) + 1] = item
            BY <1>1, <1>2, <2>1
        <3>2. \A i \in DOMAIN stderrBuf' : i \in 1..Len(stderrBuf) \/ i = Len(stderrBuf) + 1
            BY <3>1
        <3> QED BY <2>2, <3>1, <3>2 DEF Logged
    <2> QED BY <1>4, <1>6, <1>7, <2>1, <2>4, <2>5 DEF Logged
<1> QED BY <1>8, <1>9

\* What bash and its command write to stderr is in the pipe.
LEMMA LoggedBash ==
    ASSUME TypeOK, NEW c \in Call, Logged(c), StepOfBash, UNCHANGED runner,
           \A d \in Call : Runs(d) => d = c /\ ~Past(c),
           BashLine /\ Head(stdin).text = "errMarker" => Head(stdin).by = c /\ ~Past(c) /\ Past(c)',
           Past(c) => Past(c)'
    PROVE  Logged(c)'
<1> DEFINE log == stderrBuf \o stderr
<1>1. /\ stderrBuf \in Seq(Item) /\ stderr \in Seq(Item) /\ log \in Seq(Item)
      /\ bash.err \in [Call -> 0..MaxErr] /\ bash.err[c] \in Nat
    <2>1. bash.err \in [Call -> 0..MaxErr] /\ MaxErr \in Nat
        BY DEF TypeOK, Bash
    <2>2. bash.err[c] \in Nat
        BY <2>1
    <2> QED BY <2>1, <2>2, LogParts
<1>2. UNCHANGED <<stderrBuf, stderrMarker, stderrDone>>
    BY DEF runner, stderrVars
<1>3. \A i \in DOMAIN stderrBuf' : ~(stderrBuf'[i].by = c /\ stderrBuf'[i].text = "marker")
    BY <1>2 DEF Logged
<1>4. CASE UNCHANGED stderr /\ bash'.err = bash.err
    <2>1. Wrote(stderrBuf \o stderr, c, Lines(bash.err[c]))'
        BY <1>2, <1>4 DEF Logged
    <2>2. \A i \in DOMAIN stderr' : stderr'[i].by = c /\ stderr'[i].text = "marker" =>
            Past(c)' /\ \A j \in DOMAIN stderr' : j > i => stderr'[j].by # c
        BY <1>4 DEF Logged
    <2>3. IF stderrDone' THEN stderrMarker' = None /\ By(stderr', Others(c)) /\ Past(c)' ELSE stderrMarker' = c
        BY <1>2, <1>4 DEF Logged
    <2> QED BY <1>3, <2>1, <2>2, <2>3 DEF Logged
<1>5. ASSUME NEW item \in Item, stderr' = Append(stderr, item),
             item.by = c => ~Past(c) /\ (item.text = "marker" => Past(c)'),
             item.by = c \/ item.by = None,
             Wrote(stderrBuf \o stderr, c, Lines(bash.err[c]))'
      PROVE  Logged(c)'
    <2>1. /\ DOMAIN stderr = 1..Len(stderr) /\ Len(stderr) \in Nat
          /\ DOMAIN stderr' = 1..(Len(stderr) + 1)
          /\ \A i \in 1..Len(stderr) : stderr'[i] = stderr[i]
          /\ stderr'[Len(stderr) + 1] = item
        BY <1>1, <1>5
    <2>2. \A i \in DOMAIN stderr' : i \in DOMAIN stderr \/ i = Len(stderr) + 1
        BY <2>1
    <2>3. ASSUME NEW i \in DOMAIN stderr', stderr'[i].by = c, stderr'[i].text = "marker"
          PROVE  Past(c)' /\ \A j \in DOMAIN stderr' : j > i => stderr'[j].by # c
        <3>1. CASE i \in DOMAIN stderr
            <4>1. Past(c) /\ \A j \in DOMAIN stderr : j > i => stderr[j].by # c
                BY <2>1, <2>3, <3>1 DEF Logged
            <4>2. item.by # c
                BY <1>5, <4>1
            <4> QED BY <2>1, <2>2, <4>1, <4>2
        <3>2. CASE i = Len(stderr) + 1
            <4>1. Past(c)'
                BY <1>5, <2>1, <2>3, <3>2
            <4>2. \A j \in DOMAIN stderr' : ~(j > i)
                BY <2>1, <3>2
            <4> QED BY <4>1, <4>2
        <3> QED BY <2>2, <3>1, <3>2
    <2>4. ASSUME stderrDone PROVE stderrMarker = None /\ By(stderr', Others(c)) /\ Past(c)'
        <3>1. stderrMarker = None /\ By(stderr, Others(c)) /\ Past(c)
            BY <2>4 DEF Logged
        <3>2. item.by \in Others(c)
            BY <1>5, <3>1 DEF Others
        <3>3. By(stderr', Others(c))
            BY <1>1, <1>5, <3>1, <3>2, ByAppend
        <3> QED BY <3>1, <3>3
    <2>5. IF stderrDone' THEN stderrMarker' = None /\ By(stderr', Others(c)) /\ Past(c)' ELSE stderrMarker' = c
        BY <1>2, <2>4 DEF Logged
    <2> QED BY <1>3, <1>5, <2>3, <2>5 DEF Logged
<1>6. ASSUME NEW item \in Item, stderr' = Append(stderr, item) PROVE (stderrBuf \o stderr)' = Append(log, item)
    <2>1. stderrBuf \o (Append(stderr, item) \o <<>>) = Append(stderrBuf \o (stderr \o <<>>), item)
        BY <1>1, EndGrows
    <2>2. Append(stderr, item) \o <<>> = Append(stderr, item) /\ stderr \o <<>> = stderr
        BY <1>1, ConcatEmptySeq
    <2> QED BY <1>2, <1>6, <2>1, <2>2
<1>7. ASSUME NEW d \in Call, WritesError(d) PROVE Logged(c)'
    <2> DEFINE item == [by |-> c, text |-> "line"]
    <2>1. d = c /\ ~Past(c) /\ item \in Item /\ item.by = c /\ item.text = "line"
        BY <1>7, ItemTypes DEF WritesError
    <2>2. stderr' = Append(stderr, item) /\ bash'.err[c] = bash.err[c] + 1
        BY <1>1, <1>7, <2>1 DEF WritesError
    <2> HIDE DEF item
    <2>3. Lines(bash.err[c]) \in Seq({"line"}) /\ Append(Lines(bash.err[c]), "line") = Lines(bash.err[c] + 1)
        BY <1>1, LinesMore
    <2>4. Wrote(Append(log, item), c, Append(Lines(bash.err[c]), item.text))
        <3>1. Wrote(log, c, Lines(bash.err[c]))
            BY DEF Logged
        <3> HIDE DEF log
        <3> QED BY <1>1, <2>1, <2>3, <3>1, WroteMore
    <2>5. (stderrBuf \o stderr)' = Append(log, item)
        BY <1>6, <2>1, <2>2
    <2>6. Wrote(stderrBuf \o stderr, c, Lines(bash.err[c]))'
        BY <2>1, <2>2, <2>3, <2>4, <2>5
    <2> QED BY <1>5, <2>1, <2>2, <2>6
<1>8. ASSUME NEW item \in Item, AddsError(item) PROVE Logged(c)'
    <2>1. stderr' = Append(stderr, item) /\ bash'.err = bash.err
        BY <1>8 DEF AddsError
    <2>2. \/ item.by = c /\ item.text = "marker" /\ ~Past(c) /\ Past(c)'
          \/ item.by = None
        BY <1>8 DEF AddsError
    <2>3. Mine(<<item>>, c) = {}
        BY <2>2 DEF Mine
    <2>4. Wrote(log \o <<item>>, c, Lines(bash.err[c]))
        <3>1. Wrote(log, c, Lines(bash.err[c])) /\ <<item>> \in Seq(Item)
            BY DEF Logged
        <3> HIDE DEF log
        <3> QED BY <1>1, <2>3, <3>1, WroteConcat
    <2>5. (stderrBuf \o stderr)' = Append(log, item)
        BY <1>6, <2>1
    <2>6. Append(log, item) = log \o <<item>>
        <3> HIDE DEF log
        <3> QED BY <1>1, AppendIsConcat
    <2>7. Wrote(stderrBuf \o stderr, c, Lines(bash.err[c]))'
        BY <2>1, <2>4, <2>5, <2>6
    <2>8. item.by = c => ~Past(c) /\ (item.text = "marker" => Past(c)')
        BY <2>2
    <2> QED BY <1>5, <2>1, <2>2, <2>7, <2>8
<1> QED BY <1>4, <1>7, <1>8, ErrorSteps

LEMMA LogStep ==
    ASSUME TypeOK, SyncInv, CodeInv, FreshInv, LogInv, [Next]_vars
    PROVE  LogInv'
<1> SUFFICES ASSUME NEW c \in Call, c \notin bash'.took, lock' = c PROVE Logged(c)'
    BY DEF LogInv
<1>1. c \notin bash.took
    BY TookStays
<1>2. CASE Start(c) /\ ExpectMarker(c) /\ UNCHANGED <<stderr, bash>>
    BY <1>2, LoggedStart
<1>3. CASE lock = c /\ ReadStderr
    BY <1>1, <1>3, LoggedRead DEF LogInv
<1>4. CASE lock = c /\ UNCHANGED <<stderr, stderrVars, bash>> /\ (Past(c) => Past(c)')
    <2>1. Logged(c) /\ UNCHANGED <<stderr, stderrBuf, stderrMarker, stderrDone, bash>>
        BY <1>1, <1>4 DEF LogInv, stderrVars
    <2>2. Wrote(stderrBuf \o stderr, c, Lines(bash.err[c]))'
        BY <2>1 DEF Logged
    <2>3. \A i \in DOMAIN stderr' : stderr'[i].by = c /\ stderr'[i].text = "marker" =>
            Past(c)' /\ \A j \in DOMAIN stderr' : j > i => stderr'[j].by # c
        BY <1>4, <2>1 DEF Logged
    <2>4. IF stderrDone' THEN stderrMarker' = None /\ By(stderr', Others(c)) /\ Past(c)' ELSE stderrMarker' = c
        BY <1>4, <2>1 DEF Logged
    <2>5. \A i \in DOMAIN stderrBuf' : ~(stderrBuf'[i].by = c /\ stderrBuf'[i].text = "marker")
        BY <2>1 DEF Logged
    <2> QED BY <2>2, <2>3, <2>4, <2>5 DEF Logged
<1>5. CASE lock = c /\ StepOfBash
    <2>1. Logged(c) /\ pc[c] \in {"scan", "stderr"}
        BY <1>1, <1>5 DEF LogInv, SyncInv, LockInv
    <2>2. CASE pc[c] = "scan"
        <3>1. OnlyOf(c) /\ Coded(c)
            BY <1>1, <2>2 DEF SyncInv, CodeInv
        <3>2. UNCHANGED pc
            BY <1>5, <3>1, BashTakes DEF runner
        <3>3. \A d \in Call : Runs(d) => d = c /\ ~Past(c)
            <4>1. \A d \in Call : Runs(d) => d = c /\ Len(stdin) = 4
                BY <1>5, <3>1, BashTakes
            <4> QED BY <2>2, <4>1 DEF Past
        <3>4. BashLine /\ Head(stdin).text = "errMarker" => Head(stdin).by = c /\ ~Past(c) /\ Past(c)'
            BY <1>5, <2>2, <3>1, BashTakes DEF Past
        <3>5. Past(c) => Past(c)'
            <4>1. Len(stdin) \in {0, 1, 2} => Len(stdin') \in {0, 1, 2}
                BY <1>5, <3>1, BashTakes
            <4> QED BY <2>2, <3>2, <4>1 DEF Past
        <3>6. UNCHANGED runner
            BY <1>5, <3>1, BashTakes
        <3> QED BY <1>5, <2>1, <3>3, <3>4, <3>5, <3>6, LoggedBash
    <2>3. CASE pc[c] = "stderr"
        <3>1. UNCHANGED runner
            BY <1>5 DEF StepOfBash, BashLine, CommandActs, CommandEnds, StrayEnds
        <3>2. Past(c)'
            BY <2>3, <3>1 DEF Past, runner
        <3>3. \A d \in Call : ~Runs(d)
            BY <2>3 DEF SyncInv, Quiet, Runs
        <3>4. ~(BashLine /\ Head(stdin).text = "errMarker")
            <4>1. stdin \in Seq(Script) /\ By(stdin, {Closer})
                BY <2>3 DEF TypeOK, SyncInv, Quiet
            <4>2. BashLine => Head(stdin) \in Script /\ Head(stdin).by = Closer
                BY <4>1, ByTail, TailType DEF BashLine
            <4> QED BY <4>2 DEF Script
        <3> QED BY <1>5, <2>1, <3>1, <3>2, <3>3, <3>4, LoggedBash
    <2> QED BY <2>1, <2>2, <2>3
<1> QED BY <1>2, <1>3, <1>4, <1>5, HolderSteps

LEMMA LeftStep ==
    ASSUME TypeOK, SyncInv, CodeInv, LeftInv, LogInv, [Next]_vars
    PROVE  LeftInv'
<1>1. Leavers \subseteq Leavers' /\ None \in Leavers /\ Closer \in Leavers
    BY TookStays DEF Leavers
<1>2. ASSUME NEW seq, NEW A, NEW B, A \subseteq B, By(seq, A) PROVE By(seq, B)
    BY <1>2 DEF By
<1>3. ASSUME lock' \notin Call, ~broken' PROVE By(stderr', Leavers')
    <2>1. CASE lock \notin Call /\ ~broken
        <3>1. Quiet /\ By(stderr, Leavers)
            BY <2>1 DEF SyncInv, LeftInv
        <3>2. By(stdin, Leavers) /\ bash.running \in Leavers
            BY <1>1, <3>1 DEF Quiet, By
        <3>3. By(stderr', Leavers)
            BY <1>1, <3>1, <3>2, ErrorsBy
        <3> QED BY <1>1, <1>2, <3>3
    <2>2. ASSUME NEW c \in Call, lock = c, SeeMarker(c) \/ Finish(c) PROVE By(stderr', Leavers')
        <3>1. UNCHANGED stderr /\ By(stderr, Leavers \cup {c})
            BY <2>2 DEF SeeMarker, Finish, LeftInv
        <3>2. CASE c \in bash.took
            <4>1. Leavers \cup {c} = Leavers
                BY <3>2 DEF Leavers
            <4> QED BY <1>1, <1>2, <3>1, <4>1
        <3>3. CASE c \notin bash.took
            <4>1. Finish(c)
                <5> SUFFICES ASSUME SeeMarker(c) PROVE FALSE
                    BY <2>2
                <5>1. ~HasCode /\ pc[c] = "scan" /\ stdout # <<>> /\ Line.text = "marker" /\ Line.by = c
                    BY <1>3, <2>2 DEF SeeMarker
                <5>2. Coded(c) /\ OnlyOf(c) /\ Line = stdout[1] /\ 1 \in DOMAIN stdout
                    BY <3>3, <5>1 DEF CodeInv, SyncInv, Line, TypeOK
                <5>3. stdin = <<>> /\ Line.code = bash.code[c]
                    BY <5>1, <5>2 DEF OnlyOf, Coded, Codes
                <5>4. bash.code[c] # None
                    <6>1. Len(stdin) \notin {4, 5}
                        BY <5>3
                    <6> QED BY <5>2, <6>1 DEF Coded
                <5> QED BY <5>1, <5>3, <5>4 DEF HasCode
            <4>2. By(stderr, Others(c))
                BY <2>2, <3>3, <4>1 DEF Finish, Complete, LogInv, Logged
            <4>3. By(stderr, Leavers)
                BY <3>1, <4>2 DEF By, Others
            <4> QED BY <1>1, <1>2, <3>1, <4>3
        <3> QED BY <3>2, <3>3
    <2> QED BY <1>3, <2>1, <2>2, LockSteps
<1>4. ASSUME NEW c \in Call, lock' = c
      PROVE  By(stderr', Leavers' \cup {c}) /\ By(stderrBuf', Leavers' \cup {c})
    <2> DEFINE A == Leavers \cup {c}
    <2>0. A \subseteq Leavers' \cup {c}
        BY <1>1
    <2>1. CASE Start(c) /\ ~broken /\ ExpectMarker(c) /\ lock = None /\ UNCHANGED <<stderr, bash>>
        <3>1. By(stderr, Leavers) /\ stderrBuf' = <<>>
            BY <2>1 DEF LeftInv, ExpectMarker
        <3>2. By(<<>>, A) /\ Leavers \subseteq A
            BY DEF By
        <3> QED BY <1>2, <2>0, <2>1, <3>1, <3>2
    <2>2. CASE lock = c
        <3>1. By(stderr, A) /\ By(stderrBuf, A)
            BY <2>2 DEF LeftInv
        <3>2. By(stdin, A) /\ bash.running \in A
            <4>1. pc[c] \in {"scan", "stderr"}
                BY <2>2 DEF SyncInv, LockInv
            <4>2. By(stdin, {c, Closer}) /\ bash.running \in {c, None}
                BY <4>1 DEF SyncInv, OnlyOf, Quiet, By
            <4> QED BY <1>1, <4>2 DEF By
        <3>3. By(stderr', A)
            BY <1>1, <3>1, <3>2, ErrorsBy
        <3>4. CASE ReadStderr
            <4>1. stderr # <<>> /\ Head(stderr).by \in A /\ Head(stderr) \in Item /\ stderrBuf \in Seq(Item)
                BY <3>1, <3>4, LogParts, ByTail, TailType DEF ReadStderr
            <4>2. By(Append(stderrBuf, Head(stderr)), A)
                BY <3>1, <4>1, ByAppend
            <4>3. By(stderrBuf', A)
                BY <3>1, <3>4, <4>2 DEF ReadStderr
            <4> QED BY <1>2, <2>0, <3>3, <4>3
        <3>5. CASE UNCHANGED stderrBuf
            BY <1>2, <2>0, <3>1, <3>3, <3>5
        <3>6. StepOfBash \/ UNCHANGED stderrVars => UNCHANGED stderrBuf
            BY DEF StepOfBash, BashLine, CommandActs, CommandEnds, StrayEnds, runner, stderrVars
        <3> QED BY <1>4, <2>2, <3>4, <3>5, <3>6, HolderSteps
    <2> QED BY <1>4, <2>1, <2>2, HolderSteps
<1> QED BY <1>3, <1>4 DEF LeftInv

\* What was read from stderr for an answer.
ToldInv == \A c \in Call \ bash.took : answer[c].kind = "ok" =>
    /\ Wrote(answer[c].stderr, c, Lines(bash.err[c]))
    /\ By(answer[c].stderr, Leavers \cup {c})
    /\ \A i \in DOMAIN answer[c].stderr :
        ~(answer[c].stderr[i].by = c /\ answer[c].stderr[i].text = "marker")
    /\ NoStrays => By(answer[c].stderr, Call)

LEMMA ToldStep ==
    ASSUME TypeOK, SyncInv, DoneInv, LeftInv, LogInv, TidyErrors, ToldInv, [Next]_vars
    PROVE  ToldInv'
<1> SUFFICES ASSUME NEW c \in Call, c \notin bash'.took, answer'[c].kind = "ok"
             PROVE  /\ Wrote(answer'[c].stderr, c, Lines(bash'.err[c]))
                    /\ By(answer'[c].stderr, Leavers' \cup {c})
                    /\ \A i \in DOMAIN answer'[c].stderr :
                        ~(answer'[c].stderr[i].by = c /\ answer'[c].stderr[i].text = "marker")
                    /\ NoStrays' => By(answer'[c].stderr, Call)
    BY DEF ToldInv
<1>1. c \notin bash.took /\ Leavers \subseteq Leavers' /\ (NoStrays' => NoStrays)
    BY TookStays, StraysStay DEF Leavers
<1>2. ASSUME NEW seq, Wrote(seq, c, Lines(bash.err[c])), By(seq, Leavers \cup {c}),
             \A i \in DOMAIN seq : ~(seq[i].by = c /\ seq[i].text = "marker"),
             NoStrays => By(seq, Call), answer'[c].stderr = seq, ~Runs(c)
      PROVE  /\ Wrote(answer'[c].stderr, c, Lines(bash'.err[c]))
             /\ By(answer'[c].stderr, Leavers' \cup {c})
             /\ \A i \in DOMAIN answer'[c].stderr :
                 ~(answer'[c].stderr[i].by = c /\ answer'[c].stderr[i].text = "marker")
             /\ NoStrays' => By(answer'[c].stderr, Call)
    <2>1. bash'.err[c] = bash.err[c]
        BY <1>2, WrittenKept
    <2>2. By(seq, Leavers' \cup {c})
        BY <1>1, <1>2 DEF By
    <2> QED BY <1>1, <1>2, <2>1, <2>2
<1>3. CASE answer'[c] = answer[c]
    <2>1. ~Runs(c)
        BY <1>3 DEF DoneInv, Gone, Runs
    <2>2. /\ Wrote(answer[c].stderr, c, Lines(bash.err[c]))
          /\ By(answer[c].stderr, Leavers \cup {c})
          /\ \A i \in DOMAIN answer[c].stderr :
              ~(answer[c].stderr[i].by = c /\ answer[c].stderr[i].text = "marker")
          /\ NoStrays => By(answer[c].stderr, Call)
        BY <1>1, <1>3 DEF ToldInv
    <2> QED BY <1>2, <1>3, <2>1, <2>2
<1>4. CASE Finish(c) /\ answer'[c] = [kind |-> "ok", code |-> exitCode, stderr |-> stderrBuf]
    <2>1. pc[c] = "stderr" /\ stderrDone /\ lock = c /\ Logged(c)
        BY <1>1, <1>4 DEF Finish, Complete, SyncInv, LockInv, LogInv
    <2>2. ~Runs(c)
        BY <2>1 DEF SyncInv, Quiet, Runs
    <2>3. Wrote(stderrBuf, c, Lines(bash.err[c]))
        <3>1. By(stderr, Others(c))
            BY <2>1 DEF Logged
        <3>2. Mine(stderr, c) = {}
            BY <3>1 DEF By, Others, Mine
        <3> QED BY <2>1, <3>2, LogParts, WroteConcat DEF Logged
    <2>4. By(stderrBuf, Leavers \cup {c}) /\ (NoStrays => By(stderrBuf, Call))
        BY <2>1 DEF LeftInv, TidyErrors
    <2>5. \A i \in DOMAIN stderrBuf : ~(stderrBuf[i].by = c /\ stderrBuf[i].text = "marker")
        BY <2>1 DEF Logged
    <2> QED BY <1>2, <1>4, <2>2, <2>3, <2>4, <2>5
<1> QED BY <1>3, <1>4, AnswerSteps DEF ErrorAnswer, NoAnswer

LEMMA CompleteAlways ==
    Spec => [](TypeOK /\ FreshInv /\ TidyErrors /\ TidyOutput /\ PendingInv /\ OutInv /\ LeftInv /\ LogInv /\ ToldInv)
<1> DEFINE Known == TypeOK /\ SyncInv /\ ClosedInv /\ ExitInv /\ DoneInv /\ CodeInv
           Tidy == FreshInv /\ TidyErrors /\ TidyOutput /\ PendingInv
           Kept == OutInv /\ LeftInv /\ LogInv /\ ToldInv
<1>1. Init => Tidy /\ Kept
    <2>1. Init => FreshInv
        BY DEF Init, FreshInv, Gone, By
    <2>2. Init => TidyErrors /\ TidyOutput /\ PendingInv
        BY DEF Init, TidyErrors, TidyOutput, PendingInv, By
    <2>3. Init => OutInv /\ LeftInv /\ LogInv /\ ToldInv
        BY DEF Init, OutInv, LeftInv, LogInv, ToldInv, NoAnswer, By
    <2> QED BY <2>1, <2>2, <2>3
<1>2. Known /\ Tidy /\ [Next]_vars => Tidy'
    BY FreshStep, TidyErrorsStep, TidyOutputStep, PendingStep
<1>3. Known /\ Tidy /\ Kept /\ [Next]_vars => Kept'
    BY OutStep, LeftStep, LogStep, ToldStep
<1> QED BY <1>1, <1>2, <1>3, CodeAlways, PTL DEF Spec

\* What a call answers is what its command wrote to stdout and to stderr, all of
\* it and nothing of another, for any number of calls, of lines and of codes, and
\* any habits of the commands: whichever goroutine comes first, whatever was
\* cancelled, held back or left in the pipes before.
THEOREM AnswersComplete == Spec => []AnswerComplete
<1>1. TypeOK /\ OutInv /\ ToldInv => AnswerComplete
    <2> SUFFICES ASSUME TypeOK, OutInv, ToldInv, NEW c \in Call, Answered(c)
                 PROVE  /\ Wrote(sent[c], c, bash.out[c])
                        /\ Wrote(answer[c].stderr, c, Lines(bash.err[c]))
                        /\ \A i \in DOMAIN (sent[c] \o answer[c].stderr) :
                            LET item == (sent[c] \o answer[c].stderr)[i]
                            IN  \/ item.by = c /\ item.text # "marker"
                                \/ item.by = None /\ \E d \in Call : bash.strays[d] # "none"
                                \/ item.by \in bash.took /\ i > Len(sent[c])
        BY DEF AnswerComplete
    <2> DEFINE log == answer[c].stderr
    <2>1. answer[c].kind = "ok" /\ c \notin bash.took
        BY DEF Answered
    <2>2. Wrote(sent[c], c, bash.out[c]) /\ Clean(sent[c], c)
        BY <2>1 DEF OutInv
    <2>3. /\ Wrote(log, c, Lines(bash.err[c])) /\ By(log, Leavers \cup {c})
          /\ \A i \in DOMAIN log : ~(log[i].by = c /\ log[i].text = "marker")
          /\ NoStrays => By(log, Call)
        BY <2>1 DEF ToldInv
    <2>4. sent[c] \in Seq(Item) /\ log \in Seq(Item)
        <3>1. answer[c] \in Answer /\ sent[c] \in Seq(Item)
            BY DEF TypeOK, Item
        <3> QED BY <2>1, <3>1 DEF Answer, NoAnswer, ErrorAnswer, Item
    <2>5. NoStrays \/ \E d \in Call : bash.strays[d] # "none"
        BY DEF NoStrays
    <2>6. ASSUME NEW i \in DOMAIN (sent[c] \o log), NEW item, item = (sent[c] \o log)[i]
          PROVE  \/ item.by = c /\ item.text # "marker"
                 \/ item.by = None /\ \E d \in Call : bash.strays[d] # "none"
                 \/ item.by \in bash.took /\ i > Len(sent[c])
        <3>1. CASE i \in DOMAIN sent[c]
            <4>1. item = sent[c][i]
                BY <2>4, <2>6, <3>1, ConcatAt
            <4>2. (item.by = c /\ item.text # "marker") \/ (item.by = None /\ ~NoStrays)
                BY <2>2, <3>1, <4>1 DEF Clean
            <4> QED BY <2>5, <4>2
        <3>2. CASE i - Len(sent[c]) \in DOMAIN log /\ item = log[i - Len(sent[c])]
            <4> DEFINE j == i - Len(sent[c])
            <4>1. i > Len(sent[c])
                <5>1. Len(sent[c]) \in Nat /\ Len(log) \in Nat /\ DOMAIN log = 1..Len(log)
                      /\ DOMAIN (sent[c] \o log) = 1..(Len(sent[c]) + Len(log))
                    BY <2>4, ConcatAt
                <5> QED BY <2>6, <3>2, <5>1
            <4> HIDE DEF log
            <4>2. item.by \in Call \cup {None}
                <5>1. item \in Item
                    BY <2>4, <3>2
                <5> QED BY <5>1 DEF Item, Written, Marker
            <4>3. item.by \in bash.took \cup {None, c}
                BY <2>3, <3>2, <4>2 DEF By, Leavers
            <4>4. item.by = c => item.text # "marker"
                BY <2>3, <3>2
            <4>5. item.by = None => ~NoStrays
                BY <2>3, <3>2 DEF By
            <4> QED BY <2>5, <4>1, <4>3, <4>4, <4>5
        <3>3. i \in DOMAIN sent[c] \/ (i - Len(sent[c]) \in DOMAIN log /\ item = log[i - Len(sent[c])])
            <4> HIDE DEF log
            <4> QED BY <2>4, <2>6, ConcatAt
        <3> QED BY <3>1, <3>2, <3>3
    <2> QED BY <2>2, <2>3, <2>6
<1> QED BY <1>1, CompleteAlways, PTL
=============================================================================
