------------------------------ MODULE DemoAppProofs ------------------------------
(***************************************************************************)
(* DemoApp, for any number of PUTs and connections: the file is whole,     *)
(* pages are current, and no child outlives its connection's answer.       *)
(***************************************************************************)
EXTENDS DemoApp, TLAPS

\* A temporary file belongs to one PUT, which is what keeps it whole.
TmpInv ==
    /\ \A p \in Put : put[p] = "written" => tmp[p] = p
    /\ file \in Version /\ loaded \in Version
    /\ \A c \in Conn : code[c] \in Version

\* A version is replaced once, and never comes back.
PastInv ==
    /\ file \notin past
    /\ past \cup {file} \subseteq {Shipped} \cup {p \in Put : put[p] = "done"}
    /\ \A c \in Conn : old[c] \subseteq past
    /\ \A c \in Conn : conn[c] \in {"run", "read", "wait"} \/ answer[c] = "page" => known[c] \notin old[c]

\* The child is there between the fork and waitpid.
ChildInv ==
    \A c \in Conn :
        /\ conn[c] \in {"idle", "refresh", "run"} => child[c] = "none" /\ answer[c] = "none"
        /\ conn[c] = "read" => child[c] \in {"runs", "closed", "wrote", "zombie"} /\ answer[c] = "none"
        /\ conn[c] = "wait" => child[c] \in {"runs", "closed", "wrote", "zombie"} /\ answer[c] \in {"none", "timeout"}
        /\ conn[c] = "done" => child[c] \in {"none", "reaped"}
        /\ answer[c] = "page" => exit[c] = "ok"

IInv == TypeOK /\ TmpInv /\ PastInv /\ ChildInv

LEMMA InitInv == Init => IInv
  BY DemoAppAssumption DEF Init, IInv, TypeOK, TmpInv, PastInv, ChildInv, Version

LEMMA PutStepInv ==
    ASSUME IInv, NEW p \in Put, PutHandler(p)
    PROVE  IInv'
<1> USE DEF IInv, TypeOK, PutStep, appVars, connVars, childVars, Tmp
<1>1. TypeOK'
  BY DemoAppAssumption DEF PutHandler, Open, Write, WriteFails, Rename, RenameFails, Version
<1>2. TmpInv'
  <2>1. CASE Rename(p)
    BY <2>1 DEF Rename, TmpInv, Version
  <2>2. CASE Open(p) \/ Write(p) \/ WriteFails(p) \/ RenameFails(p)
    BY <2>2 DEF Open, Write, WriteFails, RenameFails, TmpInv
  <2> QED BY <2>1, <2>2 DEF PutHandler
<1>3. PastInv'
  <2>1. CASE Rename(p)
    <3>1. file' = p /\ put[p] = "written" /\ put'[p] = "done"
      BY <2>1 DEF Rename, TmpInv
    <3>2. p \notin past \cup {file}
      BY <3>1, DemoAppAssumption DEF PastInv, Version
    <3> QED BY <2>1, <3>1, <3>2 DEF Rename, PastInv
  <2>2. CASE Open(p) \/ Write(p) \/ WriteFails(p) \/ RenameFails(p)
    BY <2>2 DEF Open, Write, WriteFails, RenameFails, PastInv
  <2> QED BY <2>1, <2>2 DEF PutHandler
<1>4. ChildInv'
  BY DEF PutHandler, Open, Write, WriteFails, Rename, RenameFails, ChildInv
<1> QED BY <1>1, <1>2, <1>3, <1>4

LEMMA ServerStepInv ==
    ASSUME IInv, StartServer \/ InitRefresh \/ EndServer
    PROVE  IInv'
  BY DEF IInv, TypeOK, TmpInv, PastInv, ChildInv, StartServer, InitRefresh, EndServer, fileVars,
         connVars, childVars

LEMMA ConnStepInv ==
    ASSUME IInv, NEW c \in Conn, AcceptConn(c) \/ Connection(c)
    PROVE  IInv'
<1> USE DEF IInv, TypeOK, fileVars, appVars, childVars, Goto, Respond
<1>1. CASE AcceptConn(c)
  BY <1>1 DEF AcceptConn, TmpInv, PastInv, ChildInv
<1>2. CASE BadRequest(c)
  BY <1>2 DEF BadRequest, TmpInv, PastInv, ChildInv
<1>3. CASE Refresh(c)
  BY <1>3 DEF Refresh, UpToDate, TmpInv, PastInv, ChildInv
<1>4. CASE Run(c)
  BY <1>4 DEF Run, TmpInv, PastInv, ChildInv
<1>5. CASE ReadToEnd(c)
  BY <1>5 DEF ReadToEnd, TmpInv, PastInv, ChildInv
<1>6. CASE Deadline(c)
  BY <1>6 DEF Deadline, Killed, TmpInv, PastInv, ChildInv
<1>7. CASE Wait(c)
  <2>1. child' = [child EXCEPT ![c] = "reaped"] /\ UNCHANGED <<code, known, old, exit, piped, held>>
    BY <1>7 DEF Wait, Awaited
  <2>2. conn' = [conn EXCEPT ![c] = "done"] /\ conn[c] = "wait" /\ UNCHANGED <<fileVars, appVars>>
    BY <1>7 DEF Wait
  <2>3. \/ answer' = answer /\ answer[c] = "timeout"
        \/ answer' = [answer EXCEPT ![c] = "page"] /\ exit[c] = "ok"
        \/ answer' = [answer EXCEPT ![c] = "error"]
    BY <1>7 DEF Wait
  <2>4. TypeOK'
    BY <2>1, <2>2, <2>3
  <2>5. TmpInv' /\ ChildInv'
    BY <2>1, <2>2, <2>3 DEF TmpInv, ChildInv
  <2>6. PastInv'
    BY <2>1, <2>2, <2>3 DEF PastInv
  <2> QED BY <2>4, <2>5, <2>6
<1> QED BY <1>1, <1>2, <1>3, <1>4, <1>5, <1>6, <1>7 DEF Connection

LEMMA ChildStepInv ==
    ASSUME IInv, NEW c \in Conn, Child(c)
    PROVE  IInv'
<1> USE DEF IInv, TypeOK, fileVars, appVars
<1>1. CASE ChildWrites(c)
  BY <1>1 DEF ChildWrites, TmpInv, PastInv, ChildInv
<1>2. CASE ChildCloses(c)
  BY <1>2 DEF ChildCloses, TmpInv, PastInv, ChildInv
<1>3. CASE ChildForks(c) \/ OtherExits(c)
  <2>1. held' \in [Conn -> BOOLEAN]
    <3>1. CASE ChildForks(c)
      BY <3>1 DEF ChildForks
    <3>2. CASE OtherExits(c)
      BY <3>2 DEF OtherExits
    <3> QED BY <1>3, <3>1, <3>2
  <2>2. UNCHANGED <<conn, code, known, old, child, exit, piped, answer, fileVars, appVars>>
    BY <1>3 DEF ChildForks, OtherExits
  <2> QED BY <2>1, <2>2 DEF TmpInv, PastInv, ChildInv
<1>4. CASE ChildExits(c)
  <2>1. conn[c] # "done" /\ answer[c] # "page"
    BY <1>4 DEF ChildExits, ChildInv
  <2>2. /\ child' = [child EXCEPT ![c] = "zombie"]
        /\ exit' = exit \/ \E e \in {"ok", "die", "other"} : exit' = [exit EXCEPT ![c] = e]
    BY <1>4 DEF ChildExits
  <2>3. UNCHANGED <<conn, code, known, old, piped, held, answer, fileVars, appVars>>
    BY <1>4 DEF ChildExits
  <2>4. child[c] \in {"runs", "closed", "wrote"}
    BY <1>4 DEF ChildExits
  <2>5. ChildInv'
    BY <2>1, <2>2, <2>3, <2>4 DEF ChildInv
  <2> QED BY <2>2, <2>3, <2>5 DEF TmpInv, PastInv
<1> QED BY <1>1, <1>2, <1>3, <1>4 DEF Child

\* The invariant of the demo app.
THEOREM Invariance == Spec => []IInv
<1>1. IInv /\ [Next]_vars => IInv'
  <2> SUFFICES ASSUME IInv, [Next]_vars PROVE IInv'
    OBVIOUS
  <2>1. CASE UNCHANGED vars
    BY <2>1 DEF vars, fileVars, appVars, connVars, childVars, IInv, TypeOK, TmpInv, PastInv, ChildInv
  <2>2. CASE Next
    BY <2>2, PutStepInv, ServerStepInv, ConnStepInv, ChildStepInv DEF Next
  <2> QED BY <2>1, <2>2
<1> QED BY <1>1, InitInv, PTL DEF Spec

\* Overlapping PUTs never leave, and the app never loads, a file that is not
\* the whole of one of them.
THEOREM FileStaysWhole == Spec => []FileWhole
<1>1. IInv => FileWhole
  BY DemoAppAssumption DEF IInv, TmpInv, FileWhole, Version
<1> QED BY <1>1, Invariance, PTL

\* No page is of a version that had been replaced before its connection was
\* accepted, unless the server missed a change when it started.
THEOREM PagesAreCurrent == Spec => []PageIsCurrent
<1>1. IInv => PageIsCurrent
  BY DEF IInv, PastInv, PageIsCurrent
<1> QED BY <1>1, Invariance, PTL

\* The child of a connection is gone when that is answered.
THEOREM NothingIsLeft == Spec => []NothingRuns
<1>1. IInv => NothingRuns
  BY DEF IInv, ChildInv, NothingRuns
<1> QED BY <1>1, Invariance, PTL
=============================================================================
