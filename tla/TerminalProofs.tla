----------------------------- MODULE TerminalProofs -----------------------------
(***************************************************************************)
(* For any number of runners, shells and loads of the page: connect and    *)
(* run are never under way at once, and whoever can type has a shell, or   *)
(* will be told that it is lost.                                           *)
(***************************************************************************)
EXTENDS Terminal, TLAPS

Stage == {"idle", "create", "delay", "exec", "stream"}
State == {"busy", "stale", "gone"}
Delete == [load : 1..MaxLoads, sent : Cookies \cup {None}, answer : Answer \cup {None}]

-----------------------------------------------------------------------------
(* Types.                                                                  *)

LEMMA FreshMember == ASSUME NEW S, NEW x \in Fresh(S) PROVE x \in S
<1>1. S # {} /\ x = CHOOSE y \in S : TRUE
    BY DEF Fresh
<1> QED BY <1>1

\* Where a request may end up: at its runner, or at one that nothing names.
LEMMA ResolvedCases ==
    ASSUME TypeOK, NEW s \in Runner \cup {None}, NEW o \in Resolved(s)
    PROVE  \/ /\ s # None /\ rec[s] = "busy" /\ o.runner = s /\ o.session = None /\ o.marked = FALSE
              /\ o.rec = rec /\ o.home = home
           \/ \E r \in Runner \ UsedRunners :
                /\ o.runner = r /\ o.session = r /\ o.marked \in {FALSE, Stale(s)}
                /\ ~(s # None /\ rec[s] = "busy")
                /\ o.rec = [x \in Runner |-> IF x = r THEN "busy" ELSE IF x = s THEN "gone" ELSE rec[x]]
                /\ o.home = [i \in Shell |-> IF home[i] = r THEN None ELSE home[i]]
<1>1. CASE s # None /\ rec[s] = "busy"
    <2>1. o = [runner |-> s, marked |-> FALSE, session |-> None, rec |-> rec, home |-> home]
        BY <1>1 DEF Resolved
    <2> QED BY <1>1, <2>1
<1>2. CASE ~(s # None /\ rec[s] = "busy")
    <2>1. PICK r \in Fresh(Runner \ UsedRunners), m \in {FALSE, Stale(s)} :
            o = [runner |-> r, marked |-> m, session |-> r,
                 rec |-> [x \in Runner |-> IF x = r THEN "busy" ELSE IF x = s THEN "gone" ELSE rec[x]],
                 home |-> [i \in Shell |-> IF home[i] = r THEN None ELSE home[i]]]
        BY <1>2 DEF Resolved
    <2>2. r \in Runner \ UsedRunners
        BY <2>1, FreshMember
    <2>3. /\ o.runner = r /\ o.session = r /\ o.marked \in {FALSE, Stale(s)}
          /\ o.rec = [x \in Runner |-> IF x = r THEN "busy" ELSE IF x = s THEN "gone" ELSE rec[x]]
          /\ o.home = [i \in Shell |-> IF home[i] = r THEN None ELSE home[i]]
        BY <2>1, Zenon
    <2> QED BY <1>2, <2>2, <2>3, Zenon
<1> QED BY <1>1, <1>2

LEMMA ResolvedType ==
    ASSUME TypeOK, NEW s \in Runner \cup {None}, NEW o \in Resolved(s)
    PROVE  /\ o.runner \in Runner /\ o.session \in Runner \cup {None} /\ o.marked \in BOOLEAN
           /\ o.rec \in [Runner -> State] /\ o.home \in [Shell -> Runner \cup {None}]
<1>1. rec \in [Runner -> State] /\ home \in [Shell -> Runner \cup {None}]
    BY DEF TypeOK, State
<1>2. {FALSE, Stale(s)} \subseteq BOOLEAN
    BY DEF Stale
<1>3. CASE s # None /\ o.runner = s /\ o.session = None /\ o.marked = FALSE /\ o.rec = rec /\ o.home = home
    BY <1>1, <1>3
<1>4. ASSUME NEW r \in Runner \ UsedRunners,
             o.runner = r, o.session = r, o.marked \in {FALSE, Stale(s)},
             o.rec = [x \in Runner |-> IF x = r THEN "busy" ELSE IF x = s THEN "gone" ELSE rec[x]],
             o.home = [i \in Shell |-> IF home[i] = r THEN None ELSE home[i]]
      PROVE  /\ o.runner \in Runner /\ o.session \in Runner \cup {None} /\ o.marked \in BOOLEAN
             /\ o.rec \in [Runner -> State] /\ o.home \in [Shell -> Runner \cup {None}]
    <2>1. o.marked \in BOOLEAN
        BY <1>2, <1>4, Zenon
    <2>2. o.rec \in [Runner -> State]
        BY <1>1, <1>4 DEF State
    <2>3. o.home \in [Shell -> Runner \cup {None}]
        BY <1>1, <1>4
    <2> QED BY <1>4, <2>1, <2>2, <2>3
<1> QED BY <1>3, <1>4, ResolvedCases, Zenon

LEMMA SentType ==
    ASSUME TypeOK, NEW a \in Function, sent[a] # None
    PROVE  sent[a] \in Cookies /\ sent[a].session \in Runner \cup {None}
                               /\ sent[a].shell \in Shell \cup {None}
BY DEF TypeOK, Cookies

LEMMA AnswerType ==
    ASSUME TypeOK, NEW a \in Function, answer[a] # None
    PROVE  /\ answer[a] \in Answer /\ answer[a].session \in Runner \cup {None}
           /\ answer[a].shell \in Shell \cup {None, Expire}
           /\ answer[a].ok \in BOOLEAN /\ answer[a].marked \in BOOLEAN
BY DEF TypeOK, Answer

LEMMA FailedType == Failed \in Answer /\ ~Failed.ok /\ ~Failed.marked
                    /\ Failed.session = None /\ Failed.shell = None
BY DEF Failed, Answer

LEMMA CookiesType ==
    ASSUME TypeOK, NEW m \in Answer, SetCookies(m)
    PROVE  session' \in Runner \cup {None} /\ shell' \in Shell \cup {None}
BY DEF TypeOK, Answer, SetCookies

LEMMA ReplyType ==
    ASSUME TypeOK, NEW a \in Function, NEW m \in Answer, Replies(a, m)
    PROVE  /\ sent' \in [Function -> Cookies \cup {None}] /\ sent'[a] = None
           /\ answer' \in [Function -> Answer \cup {None}] /\ answer'[a] = m
           /\ \A b \in Function \ {a} : sent'[b] = sent[b] /\ answer'[b] = answer[b]
BY DEF TypeOK, Replies

LEMMA ServeCreateType ==
    ASSUME TypeOK, NEW a \in Function, NEW ok \in BOOLEAN, ServeCreate(a, ok)
    PROVE  TypeOK'
<1>1. sent[a] # None /\ sent[a].session \in Runner \cup {None}
    BY SentType DEF ServeCreate
<1>2. PICK o \in Resolved(sent[a].session), i \in Fresh(Shell \ UsedShells) :
        /\ rec' = o.rec
        /\ home' = IF ok THEN [o.home EXCEPT ![i] = o.runner] ELSE o.home
        /\ broken' = IF ok THEN broken \ {i} ELSE broken
        /\ Replies(a, [ok |-> ok, marked |-> o.marked, session |-> o.session,
                       shell |-> IF ok THEN i ELSE None])
    BY Zenon DEF ServeCreate
<1>3. i \in Shell
    BY FreshMember
<1>4. /\ o.runner \in Runner /\ o.session \in Runner \cup {None} /\ o.marked \in BOOLEAN
      /\ o.rec \in [Runner -> State] /\ o.home \in [Shell -> Runner \cup {None}]
    BY <1>1, ResolvedType
<1>5. [ok |-> ok, marked |-> o.marked, session |-> o.session, shell |-> IF ok THEN i ELSE None] \in Answer
    BY <1>3, <1>4 DEF Answer
<1>6. sent' \in [Function -> Cookies \cup {None}] /\ answer' \in [Function -> Answer \cup {None}]
    BY <1>2, <1>5, ReplyType
<1>7. rec' \in [Runner -> State] /\ home' \in [Shell -> Runner \cup {None}] /\ broken' \in SUBSET Shell
    <2>1. [o.home EXCEPT ![i] = o.runner] \in [Shell -> Runner \cup {None}]
        BY <1>3, <1>4
    <2> QED BY <1>2, <1>4, <2>1 DEF TypeOK
<1> QED BY <1>6, <1>7 DEF TypeOK, ServeCreate, State

LEMMA ServeExecType ==
    ASSUME TypeOK, NEW a \in Function, ServeExec(a)
    PROVE  TypeOK'
<1>1. sent[a] # None /\ sent[a].session \in Runner \cup {None}
    BY SentType DEF ServeExec
<1>2. PICK o \in Resolved(sent[a].session), ok \in BOOLEAN, i \in {None, Expire} :
        /\ rec' = o.rec /\ home' = o.home
        /\ Replies(a, [ok |-> ok, marked |-> o.marked, session |-> o.session, shell |-> i])
    BY Zenon DEF ServeExec
<1>3. /\ o.session \in Runner \cup {None} /\ o.marked \in BOOLEAN
      /\ o.rec \in [Runner -> State] /\ o.home \in [Shell -> Runner \cup {None}]
    BY <1>1, ResolvedType
<1>4. [ok |-> ok, marked |-> o.marked, session |-> o.session, shell |-> i] \in Answer
    BY <1>3 DEF Answer
<1>5. sent' \in [Function -> Cookies \cup {None}] /\ answer' \in [Function -> Answer \cup {None}]
    BY <1>2, <1>4, ReplyType
<1> QED BY <1>2, <1>3, <1>5 DEF TypeOK, ServeExec, State

LEMMA RefuseType ==
    ASSUME TypeOK, NEW a \in Function, Refuse(a)
    PROVE  TypeOK'
<1>1. sent' \in [Function -> Cookies \cup {None}] /\ answer' \in [Function -> Answer \cup {None}]
    BY FailedType, ReplyType DEF Refuse
<1>2. rec' \in [Runner -> State]
    BY DEF TypeOK, Refuse, State
<1>3. silent' \in BOOLEAN
    BY DEF TypeOK, Refuse
<1> QED BY <1>1, <1>2, <1>3 DEF TypeOK, Refuse, State

LEMMA LoseType ==
    ASSUME TypeOK, NEW a \in Function, LoseAnswer(a)
    PROVE  TypeOK'
<1>1. answer' \in [Function -> Answer \cup {None}]
    BY FailedType DEF TypeOK, LoseAnswer
<1>2. silent' \in BOOLEAN
    BY AnswerType DEF TypeOK, LoseAnswer
<1> QED BY <1>1, <1>2 DEF TypeOK, LoseAnswer, serverVars

LEMMA DeleteSent ==
    ASSUME TypeOK, NEW d \in deletes
    PROVE  /\ d \in Delete /\ d.answer \in Answer \cup {None}
           /\ d.sent # None => /\ d.sent \in Cookies /\ d.sent.session \in Runner \cup {None}
                               /\ d.sent.shell \in Shell \cup {None}
<1>1. d \in Delete
    BY DEF TypeOK, Delete
<1> QED BY <1>1 DEF Delete, Cookies

\* A DELETE is refused, maybe after its record was deleted; or it is answered,
\* and closes its shell if that is at the runner.
LEMMA DeleteCases ==
    ASSUME TypeOK, NEW d \in deletes, ServeDelete(d)
    PROVE  /\ d.sent # None /\ d.sent \in Cookies
           /\ d.sent.session \in Runner \cup {None} /\ d.sent.shell \in Shell \cup {None}
           /\ \/ /\ deletes' = deletes \ {d} /\ home' = home
                 /\ rec' = rec \/ (Stale(d.sent.session) /\ rec' = [rec EXCEPT ![d.sent.session] = "gone"])
              \/ \E o \in Resolved(d.sent.session), e \in Delete :
                   /\ rec' = o.rec
                   /\ \/ home' = o.home
                      \/ /\ d.sent.shell \in Shell
                         /\ home' = [o.home EXCEPT ![d.sent.shell] = None]
                   /\ deletes' = (deletes \ {d}) \cup {e}
                   /\ e.sent = None /\ e.answer.shell \in {None, Expire}
<1>1. /\ d.sent # None /\ d.sent \in Cookies /\ d \in Delete
      /\ d.sent.session \in Runner \cup {None} /\ d.sent.shell \in Shell \cup {None}
    BY DeleteSent DEF ServeDelete
<1>2. CASE /\ deletes' = deletes \ {d}
           /\ rec' = rec \/ (Stale(d.sent.session) /\ rec' = [rec EXCEPT ![d.sent.session] = "gone"])
           /\ UNCHANGED home
    BY <1>1, <1>2
<1>3. ASSUME NEW o \in Resolved(d.sent.session), NEW there \in BOOLEAN,
             there = (d.sent.shell # None /\ o.home[d.sent.shell] = o.runner),
             rec' = o.rec,
             home' = IF there THEN [o.home EXCEPT ![d.sent.shell] = None] ELSE o.home,
             deletes' = (deletes \ {d}) \cup
                    {[d EXCEPT !.sent = None,
                               !.answer = [ok |-> there, marked |-> o.marked, session |-> o.session,
                                           shell |-> IF there THEN Expire ELSE None]]}
      PROVE  \E e \in Delete :
                   /\ rec' = o.rec
                   /\ \/ home' = o.home
                      \/ /\ d.sent.shell \in Shell
                         /\ home' = [o.home EXCEPT ![d.sent.shell] = None]
                   /\ deletes' = (deletes \ {d}) \cup {e}
                   /\ e.sent = None /\ e.answer.shell \in {None, Expire}
    <2> DEFINE m == [ok |-> there, marked |-> o.marked, session |-> o.session,
                     shell |-> IF there THEN Expire ELSE None]
               e == [d EXCEPT !.sent = None, !.answer = m]
    <2>1. m \in Answer /\ m.shell \in {None, Expire}
        BY <1>1, ResolvedType DEF Answer
    <2>2. deletes' = (deletes \ {d}) \cup {e}
        BY <1>3
    <2> HIDE DEF m
    <2>3. e \in Delete /\ e.sent = None /\ e.answer = m
        BY <1>1, <2>1 DEF Delete
    <2>4. home' = o.home \/ (d.sent.shell \in Shell /\ home' = [o.home EXCEPT ![d.sent.shell] = None])
        BY <1>1, <1>3
    <2> HIDE DEF e
    <2> QED BY <1>3, <2>1, <2>2, <2>3, <2>4
<1>4. CASE \E o \in Resolved(d.sent.session) :
               LET there == d.sent.shell # None /\ o.home[d.sent.shell] = o.runner IN
               /\ rec' = o.rec
               /\ home' = IF there THEN [o.home EXCEPT ![d.sent.shell] = None] ELSE o.home
               /\ deletes' = (deletes \ {d}) \cup
                    {[d EXCEPT !.sent = None,
                               !.answer = [ok |-> there, marked |-> o.marked, session |-> o.session,
                                           shell |-> IF there THEN Expire ELSE None]]}
    <2>1. PICK o \in Resolved(d.sent.session) :
               LET there == d.sent.shell # None /\ o.home[d.sent.shell] = o.runner IN
               /\ rec' = o.rec
               /\ home' = IF there THEN [o.home EXCEPT ![d.sent.shell] = None] ELSE o.home
               /\ deletes' = (deletes \ {d}) \cup
                    {[d EXCEPT !.sent = None,
                               !.answer = [ok |-> there, marked |-> o.marked, session |-> o.session,
                                           shell |-> IF there THEN Expire ELSE None]]}
        BY <1>4, Zenon
    <2>2. (d.sent.shell # None /\ o.home[d.sent.shell] = o.runner) \in BOOLEAN
        BY Zenon
    <2>3. \E e \in Delete :
                   /\ rec' = o.rec
                   /\ \/ home' = o.home
                      \/ /\ d.sent.shell \in Shell
                         /\ home' = [o.home EXCEPT ![d.sent.shell] = None]
                   /\ deletes' = (deletes \ {d}) \cup {e}
                   /\ e.sent = None /\ e.answer.shell \in {None, Expire}
        BY <1>3, <2>1, <2>2, Zenon
    <2> QED BY <1>1, <2>3, Zenon
<1> QED BY <1>2, <1>4, Zenon DEF ServeDelete

LEMMA ServeDeleteType ==
    ASSUME TypeOK, NEW d \in deletes, ServeDelete(d)
    PROVE  TypeOK'
<1>1. /\ deletes \in SUBSET Delete /\ rec \in [Runner -> State]
      /\ home \in [Shell -> Runner \cup {None}]
    BY DEF TypeOK, Delete, State
<1>2. /\ deletes' \in SUBSET Delete /\ rec' \in [Runner -> State]
      /\ home' \in [Shell -> Runner \cup {None}]
    <2>1. CASE /\ deletes' = deletes \ {d} /\ home' = home
               /\ rec' = rec \/ (Stale(d.sent.session) /\ rec' = [rec EXCEPT ![d.sent.session] = "gone"])
        BY <1>1, <2>1 DEF State
    <2>2. ASSUME NEW o \in Resolved(d.sent.session), NEW e \in Delete,
                 rec' = o.rec,
                 home' = o.home \/ (d.sent.shell \in Shell /\ home' = [o.home EXCEPT ![d.sent.shell] = None]),
                 deletes' = (deletes \ {d}) \cup {e}
          PROVE  /\ deletes' \in SUBSET Delete /\ rec' \in [Runner -> State]
                 /\ home' \in [Shell -> Runner \cup {None}]
        <3>1. d.sent.session \in Runner \cup {None}
            BY DeleteCases
        <3>2. o.rec \in [Runner -> State] /\ o.home \in [Shell -> Runner \cup {None}]
            BY <3>1, ResolvedType
        <3> QED BY <1>1, <2>2, <3>2
    <2> QED BY <2>1, <2>2, DeleteCases, Zenon
<1>3. silent' \in BOOLEAN
    BY DEF TypeOK, ServeDelete
<1> QED BY <1>2, <1>3 DEF TypeOK, ServeDelete, Delete, State

LEMMA PageType ==
    ASSUME TypeOK, ConnectStep \/ RunStep \/ Submit \/ Reload
    PROVE  TypeOK'
<1>1. /\ at \in [Function -> Stage] /\ sent \in [Function -> Cookies \cup {None}]
      /\ answer \in [Function -> Answer \cup {None}]
      /\ session \in Runner \cup {None} /\ shell \in Shell \cup {None}
    BY DEF TypeOK, Stage
<1>2. at' \in [Function -> Stage]
    BY <1>1 DEF ConnectStep, Connected, ConnectFails, NotConnected, Retry, RunStep, Reassigned,
                Executed, StreamEnds, Recreated, RecreateFails, BeginReconnect, Submit, Reload,
                Goto, Stage, Function
<1>3. /\ session' \in Runner \cup {None} /\ shell' \in Shell \cup {None}
      /\ answer' \in [Function -> Answer \cup {None}]
    <2>1. CASE \E a \in Function : Hears(a) /\ Drop(a)
        <3>1. PICK a \in Function : Hears(a) /\ Drop(a)
            BY <2>1
        <3> QED BY <1>1, <3>1, AnswerType, CookiesType DEF Hears, Drop
    <2>2. CASE Retry \/ Submit \/ StreamEnds \/ Reload
        BY <1>1, <2>2 DEF Retry, Submit, StreamEnds, Reload, serverVars
    <2> QED BY <2>1, <2>2 DEF ConnectStep, Connected, ConnectFails, RunStep, Reassigned, Executed,
                             Recreated, RecreateFails, Function
<1>4. sent' \in [Function -> Cookies \cup {None}]
    <2>1. [session |-> session', shell |-> shell'] \in Cookies /\ [session |-> session, shell |-> shell] \in Cookies
        BY <1>1, <1>3 DEF Cookies
    <2> QED BY <1>1, <2>1 DEF ConnectStep, Connected, ConnectFails, Retry, RunStep, Reassigned,
                Executed, StreamEnds, Recreated, RecreateFails, BeginReconnect, Submit, Reload,
                Send, Resend, Function
<1>5. busy' \in BOOLEAN /\ silent' \in BOOLEAN
    BY DEF TypeOK, ConnectStep, Connected, ConnectFails, Retry, RunStep, Reassigned, Executed,
           StreamEnds, Recreated, RecreateFails, BeginReconnect, Submit, Reload, Hears
<1>6. loads' \in 1..MaxLoads /\ deletes' \in SUBSET Delete
    <2>1. CASE Reload
        <3>1. [load |-> loads, sent |-> [session |-> session, shell |-> shell], answer |-> None] \in Delete
            BY <1>1 DEF TypeOK, Delete, Cookies
        <3> QED BY <2>1, <3>1, TerminalAssumption DEF TypeOK, Delete, Reload
    <2>2. CASE ConnectStep \/ RunStep \/ Submit
        BY <2>2 DEF TypeOK, Delete, ConnectStep, Connected, ConnectFails, Retry, RunStep, Reassigned,
                    Executed, StreamEnds, Recreated, RecreateFails, Submit, Hears
    <2> QED BY <2>1, <2>2
<1>7. UNCHANGED serverVars
    BY DEF ConnectStep, Connected, ConnectFails, Retry, RunStep, Reassigned, Executed,
           StreamEnds, Recreated, RecreateFails, Submit, Reload, Hears
<1> QED BY <1>2, <1>3, <1>4, <1>5, <1>6, <1>7 DEF TypeOK, serverVars, Delete, Stage

LEMMA DeleteAnsweredType ==
    ASSUME TypeOK, NEW d \in deletes, DeleteAnswered(d)
    PROVE  TypeOK'
<1>1. d.answer \in Answer
    BY DeleteSent DEF DeleteAnswered
<1>2. session' \in Runner \cup {None} /\ shell' \in Shell \cup {None}
    BY <1>1, CookiesType DEF DeleteAnswered
<1>3. silent' \in BOOLEAN
    BY DEF TypeOK, DeleteAnswered
<1> QED BY <1>2, <1>3 DEF TypeOK, DeleteAnswered, serverVars

LEMMA FaultType ==
    ASSUME TypeOK, \/ \E r \in Runner : Crash(r) \/ Leave(r)
                   \/ \E i \in Shell : Break(i)
    PROVE  TypeOK'
BY DEF TypeOK, Crash, Leave, Break, pageVars

LEMMA TypeStep == TypeOK /\ [Next]_vars => TypeOK'
<1>1. ASSUME TypeOK, UNCHANGED vars PROVE TypeOK'
    BY <1>1 DEF TypeOK, vars, pageVars, serverVars
<1> QED BY <1>1, ServeCreateType, ServeExecType, RefuseType, LoseType, ServeDeleteType, PageType,
           DeleteAnsweredType, FaultType DEF Next, Serve

LEMMA TypeInit == Init => TypeOK
<1> SUFFICES ASSUME Init PROVE TypeOK
    OBVIOUS
<1>1. at \in [Function -> {"idle", "create", "delay", "exec", "stream"}]
    BY DEF Init, Function
<1>2. sent \in [Function -> Cookies \cup {None}]
    <2>1. [session |-> None, shell |-> None] \in Cookies
        BY DEF Cookies
    <2>2. sent = [connect |-> [session |-> None, shell |-> None], run |-> None]
        BY DEF Init
    <2> QED BY <2>1, <2>2 DEF Function
<1>3. answer \in [Function -> Answer \cup {None}] /\ deletes = {}
    BY DEF Init
<1>4. rec \in [Runner -> {"busy", "stale", "gone"}] /\ home \in [Shell -> Runner \cup {None}]
    BY DEF Init
<1>5. loads \in 1..MaxLoads
    BY TerminalAssumption DEF Init
<1>6. /\ broken \in SUBSET Shell /\ busy \in BOOLEAN /\ silent \in BOOLEAN
      /\ session \in Runner \cup {None} /\ shell \in Shell \cup {None}
    BY DEF Init
<1> QED BY <1>1, <1>2, <1>3, <1>4, <1>5, <1>6 DEF TypeOK

\* The cookies, the requests and the stages of the page have their types.
THEOREM TypeCorrect == Spec => []TypeOK
BY TypeInit, TypeStep, PTL DEF Spec

-----------------------------------------------------------------------------
(* Turns.  What makes OneAtATime inductive: a function that is idle has    *)
(* nothing under way, and a request and its answer are not there at once.  *)

Turn ==
    /\ \A a \in Function : at[a] # "idle" => busy
    /\ \A a, b \in Function : at[a] # "idle" /\ at[b] # "idle" => a = b
    /\ \A a \in Function :
        /\ sent[a] # None \/ answer[a] # None => at[a] \in {"create", "exec"}
        /\ sent[a] # None => answer[a] = None
    /\ at["connect"] \in {"idle", "create", "delay"}
    /\ at["run"] \in {"idle", "create", "exec", "stream"}

LEMMA TurnImplies == Turn => OneAtATime
BY DEF Turn, OneAtATime

LEMMA TurnInit == Init => Turn
BY DEF Init, Turn, Function

LEMMA TurnStep == TypeOK /\ Turn /\ [Next]_vars => Turn'
<1> SUFFICES ASSUME TypeOK, Turn, [Next]_vars PROVE Turn'
    OBVIOUS
<1>1. /\ at \in [Function -> Stage] /\ sent \in [Function -> Cookies \cup {None}]
      /\ answer \in [Function -> Answer \cup {None}]
    BY DEF TypeOK, Stage
<1>2. CASE UNCHANGED <<at, busy, sent, answer>>
    BY <1>2 DEF Turn
<1>3. ASSUME NEW a \in Function, NEW m, sent[a] # None, Replies(a, m), UNCHANGED <<at, busy>>
      PROVE  Turn'
    BY <1>1, <1>3 DEF Turn, Replies
<1>4. ASSUME NEW a \in Function, Serve(a) PROVE Turn'
    BY <1>3, <1>4 DEF Serve, Refuse, ServeCreate, ServeExec
<1>5. ASSUME NEW a \in Function, LoseAnswer(a) PROVE Turn'
    BY <1>1, <1>5 DEF Turn, LoseAnswer
<1>6. CASE ConnectStep \/ Submit
    BY <1>1, <1>6 DEF Turn, ConnectStep, Connected, ConnectFails, NotConnected, Retry, Submit, MayRun,
                      Hears, Drop, Goto, Send, Stage, Function
<1>7. CASE RunStep
    BY <1>1, <1>7 DEF Turn, RunStep, Reassigned, Executed, StreamEnds, Recreated, RecreateFails,
                      BeginReconnect, Hears, Drop, Goto, Resend, Stage, Function
<1>8. CASE Reload
    BY <1>8 DEF Turn, Reload, Function
<1>9. ASSUME NEW d \in deletes, ServeDelete(d) \/ DeleteAnswered(d) PROVE Turn'
    BY <1>2, <1>9 DEF ServeDelete, DeleteAnswered
<1>10. ASSUME \/ \E r \in Runner : Crash(r) \/ Leave(r)
              \/ \E i \in Shell : Break(i)
       PROVE  Turn'
    BY <1>2, <1>10 DEF Crash, Leave, Break, pageVars
<1> QED BY <1>2, <1>4, <1>5, <1>6, <1>7, <1>8, <1>9, <1>10 DEF Next, vars, pageVars

\* connect and run never have a request under way at once, and the input is
\* disabled meanwhile, whatever is lost and however often the page is loaded.
THEOREM TakesTurns == Spec => []OneAtATime
<1>1. Init => TypeOK /\ Turn
    BY TypeInit, TurnInit
<1>2. TypeOK /\ Turn /\ [Next]_vars => (TypeOK /\ Turn)'
    BY TypeStep, TurnStep
<1> QED BY <1>1, <1>2, TurnImplies, PTL DEF Spec

-----------------------------------------------------------------------------
(* The shell of the page.  What makes InputHasShell inductive: the shell   *)
(* that an answer brings is there as well, no DELETE under way is for it,  *)
(* and a command runs with the cookies that are there.                     *)

\* Shell i is there, at runner s, and stays.
Kept(s, i) ==
    /\ s \in Runner /\ i \in Shell /\ i \notin broken
    /\ rec[s] # "gone" /\ home[i] = s
    /\ \A d \in deletes : d.sent # None => d.sent.shell # i

\* The page relies on the shell of its cookies.
Relies ==
    /\ at["connect"] = "idle" /\ at["run"] # "create"
    /\ ~(answer["run"] # None /\ answer["run"].marked)

\* The session after answer m.
SessionAfter(m) == IF m.session = None THEN session ELSE m.session

SentOwn == \A a \in Function : sent[a] # None => sent[a].session = session

AnswerPlain ==
    at["run"] = "exec" /\ answer["run"] # None /\ ~answer["run"].marked =>
        answer["run"].session = None /\ answer["run"].shell = None

AnswerKept ==
    \A a \in Function : at[a] = "create" /\ answer[a] # None /\ answer[a].ok =>
        Kept(SessionAfter(answer[a]), answer[a].shell)

Heard == SentOwn /\ (Relies => Kept(session, shell)) /\ AnswerPlain /\ AnswerKept

DeletePlain == \A d \in deletes : d.answer # None => d.answer.shell \in {None, Expire}

ShellInv == TypeOK /\ Turn /\ DeletePlain /\ (~silent => Heard)

LEMMA ShellImplies == ShellInv => InputHasShell
<1> SUFFICES ASSUME ShellInv, ~busy, ~silent PROVE HasShell
    BY DEF InputHasShell
<1>1. Relies
    <2>1. at["connect"] = "idle" /\ at["run"] = "idle"
        BY DEF ShellInv, Turn, Function
    <2>2. answer["run"] = None
        BY <2>1 DEF ShellInv, Turn, Function
    <2> QED BY <2>1, <2>2 DEF Relies
<1>2. Kept(session, shell)
    BY <1>1 DEF ShellInv, Heard
<1> QED BY <1>2, TerminalAssumption DEF Kept, HasShell

\* What the cookies, a request or an answer names is used.
LEMMA Used ==
    /\ session \in UsedRunners /\ shell \in UsedShells
    /\ \A a \in Function : answer[a] # None => answer[a].session \in UsedRunners
    /\ \A d \in deletes : d.sent # None => d.sent.shell \in UsedShells
<1>1. ASSUME NEW a \in Function, answer[a] # None PROVE answer[a] \in InTransit
    BY <1>1 DEF InTransit
<1>2. ASSUME NEW d \in deletes, d.sent # None PROVE d.sent \in InTransit
    BY <1>2 DEF InTransit
<1> QED BY <1>1, <1>2 DEF UsedRunners, UsedShells

\* A request that is resolved takes no shell from another runner, and gives up
\* only a lost one of its own.
LEMMA ResolvedKeeps ==
    ASSUME TypeOK, NEW t \in Runner \cup {None}, NEW o \in Resolved(t),
           NEW s \in Runner, s \in UsedRunners, rec[s] # "gone", NEW i \in Shell, home[i] = s
    PROVE  /\ o.home[i] = s
           /\ o.rec[s] # "gone" \/ (t = s /\ rec[s] = "stale" /\ o.rec[s] = "gone")
<1>1. CASE o.rec = rec /\ o.home = home
    BY <1>1
<1>2. ASSUME NEW r \in Runner \ UsedRunners, ~(t # None /\ rec[t] = "busy"),
             o.rec = [x \in Runner |-> IF x = r THEN "busy" ELSE IF x = t THEN "gone" ELSE rec[x]],
             o.home = [j \in Shell |-> IF home[j] = r THEN None ELSE home[j]]
      PROVE  /\ o.home[i] = s
             /\ o.rec[s] # "gone" \/ (t = s /\ rec[s] = "stale" /\ o.rec[s] = "gone")
    <2>1. s # r /\ s # None /\ rec[s] \in State
        BY TerminalAssumption DEF TypeOK, State
    <2>2. o.home[i] = s
        BY <1>2, <2>1
    <2>3. o.rec[s] = IF s = t THEN "gone" ELSE rec[s]
        BY <1>2, <2>1
    <2> QED BY <1>2, <2>1, <2>2, <2>3 DEF State
<1> QED BY <1>1, <1>2, ResolvedCases, Zenon

\* A step that keeps page and server keeps the shell.
LEMMA HeardKept ==
    ASSUME Heard, UNCHANGED <<at, session, shell, sent, answer>>,
           \A s \in UsedRunners : \A i : Kept(s, i) => Kept(s, i)'
    PROVE  Heard'
<1>1. SentOwn' /\ AnswerPlain'
    BY DEF Heard, SentOwn, AnswerPlain
<1>2. Relies' => Kept(session, shell)'
    <2>1. Relies' = Relies
        BY DEF Relies
    <2>2. ASSUME Kept(session, shell) PROVE Kept(session, shell)'
        <3>1. PICK s, i : s \in UsedRunners /\ s = session /\ i = shell
            BY Used
        <3>2. Kept(s, i)'
            BY <2>2, <3>1
        <3> QED BY <3>1, <3>2 DEF Kept
    <2> QED BY <2>1, <2>2 DEF Heard
<1>3. AnswerKept'
    <2> SUFFICES ASSUME NEW a \in Function, at[a] = "create", answer[a] # None, answer[a].ok
                 PROVE  Kept(SessionAfter(answer[a]), answer[a].shell)'
        BY DEF AnswerKept
    <2>1. PICK s, i : s \in UsedRunners /\ s = SessionAfter(answer[a]) /\ i = answer[a].shell
        BY Used DEF SessionAfter
    <2>2. Kept(s, i)
        BY <2>1 DEF Heard, AnswerKept
    <2>3. Kept(s, i)'
        BY <2>1, <2>2
    <2>4. SessionAfter(answer[a])' = SessionAfter(answer[a])
        BY DEF SessionAfter
    <2> QED BY <2>1, <2>3, <2>4 DEF Kept
<1> QED BY <1>1, <1>2, <1>3 DEF Heard

LEMMA ServeDeleteHeard ==
    ASSUME ShellInv, NEW d \in deletes, ServeDelete(d), ~silent'
    PROVE  Heard'
<1>1. TypeOK /\ Heard /\ ~silent
    BY DEF ShellInv, ServeDelete
<1>2. /\ d.sent # None /\ d.sent.session \in Runner \cup {None} /\ d.sent.shell \in Shell \cup {None}
      /\ rec \in [Runner -> State] /\ home \in [Shell -> Runner \cup {None}]
    BY <1>1, DeleteCases DEF TypeOK, State
<1>3. ~(Stale(d.sent.session) /\ rec'[d.sent.session] = "gone")
    BY DEF ServeDelete
<1>4. ASSUME NEW s \in UsedRunners, NEW i, Kept(s, i) PROVE Kept(s, i)'
    <2>1. /\ s \in Runner /\ i \in Shell /\ i \notin broken' /\ rec[s] # "gone" /\ home[i] = s
          /\ d.sent.shell # i
        BY <1>2, <1>4 DEF Kept, ServeDelete
    <2>2. CASE /\ deletes' = deletes \ {d} /\ home' = home
               /\ rec' = rec \/ (Stale(d.sent.session) /\ rec' = [rec EXCEPT ![d.sent.session] = "gone"])
        <3>1. rec' = rec
            BY <1>2, <1>3, <2>2
        <3> QED BY <1>4, <2>1, <2>2, <3>1 DEF Kept
    <2>3. ASSUME NEW o \in Resolved(d.sent.session), NEW e \in Delete,
                 rec' = o.rec, e.sent = None,
                 home' = o.home \/ (d.sent.shell \in Shell /\ home' = [o.home EXCEPT ![d.sent.shell] = None]),
                 deletes' = (deletes \ {d}) \cup {e}
          PROVE  Kept(s, i)'
        <3>1. /\ o.home[i] = s
              /\ o.rec[s] # "gone" \/ (d.sent.session = s /\ rec[s] = "stale" /\ o.rec[s] = "gone")
            BY <1>1, <1>2, <2>1, ResolvedKeeps
        <3>2. rec'[s] # "gone"
            BY <1>3, <2>1, <2>3, <3>1, TerminalAssumption DEF Stale
        <3>3. home'[i] = s
            <4>1. o.home \in [Shell -> Runner \cup {None}]
                BY <1>1, <1>2, ResolvedType
            <4> QED BY <2>1, <2>3, <3>1, <4>1
        <3> QED BY <1>4, <2>1, <2>3, <3>2, <3>3 DEF Kept
    <2> QED BY <1>1, <2>2, <2>3, DeleteCases, Zenon
<1> QED BY <1>1, <1>4, HeardKept DEF ServeDelete

LEMMA DeleteAnsweredHeard ==
    ASSUME ShellInv, NEW d \in deletes, DeleteAnswered(d), ~silent'
    PROVE  Heard'
<1>1. /\ TypeOK /\ Heard /\ ~silent /\ d.answer.session = None
      /\ ~(d.answer.shell = Expire /\ at["connect"] = "idle")
      /\ deletes' = deletes \ {d} /\ UNCHANGED <<at, sent, answer, rec, home, broken>>
    BY DEF ShellInv, DeleteAnswered, serverVars
<1>2. d.answer.shell \in {None, Expire}
    BY DEF ShellInv, DeletePlain, DeleteAnswered
<1>3. session' = session
    BY <1>1 DEF DeleteAnswered, SetCookies
<1>4. at["connect"] = "idle" => shell' = shell
    BY <1>1, <1>2 DEF DeleteAnswered, SetCookies
<1>5. \A s, i : Kept(s, i) => Kept(s, i)'
    BY <1>1 DEF Kept
<1>6. SentOwn' /\ AnswerPlain'
    BY <1>1, <1>3 DEF Heard, SentOwn, AnswerPlain
<1>7. Relies' => Kept(session, shell)'
    <2> SUFFICES ASSUME Relies' PROVE Kept(session, shell)'
        OBVIOUS
    <2>1. Relies /\ shell' = shell
        BY <1>1, <1>4 DEF Relies
    <2> QED BY <1>1, <1>3, <2>1 DEF Heard, Kept
<1>8. AnswerKept'
    <2> SUFFICES ASSUME NEW a \in Function, at[a] = "create", answer[a] # None, answer[a].ok
                 PROVE  Kept(SessionAfter(answer[a]), answer[a].shell)'
        BY <1>1 DEF AnswerKept
    <2>1. Kept(SessionAfter(answer[a]), answer[a].shell)
        BY <1>1 DEF Heard, AnswerKept
    <2>2. SessionAfter(answer[a])' = SessionAfter(answer[a])
        BY <1>1, <1>3 DEF SessionAfter
    <2> QED BY <1>1, <2>1, <2>2 DEF Kept
<1> QED BY <1>6, <1>7, <1>8 DEF Heard

\* While function a waits for its answer, the other is idle.
LEMMA OnlyOne ==
    ASSUME TypeOK, Turn, NEW a \in Function, at[a] # "idle"
    PROVE  \A b \in Function \ {a} : at[b] = "idle" /\ sent[b] = None /\ answer[b] = None
BY DEF Turn

LEMMA ServeCreateHeard ==
    ASSUME ShellInv, NEW a \in Function, NEW ok \in BOOLEAN, ServeCreate(a, ok), ~silent'
    PROVE  Heard'
<1>1. /\ TypeOK /\ Turn /\ Heard /\ ~silent /\ sent[a] # None /\ at[a] = "create"
      /\ UNCHANGED <<at, session, shell, deletes>> /\ sent[a].session = session
    BY DEF ShellInv, ServeCreate, Heard, SentOwn
<1>2. PICK o \in Resolved(session), i \in Fresh(Shell \ UsedShells) :
        /\ rec' = o.rec
        /\ home' = IF ok THEN [o.home EXCEPT ![i] = o.runner] ELSE o.home
        /\ broken' = IF ok THEN broken \ {i} ELSE broken
        /\ Replies(a, [ok |-> ok, marked |-> o.marked, session |-> o.session,
                       shell |-> IF ok THEN i ELSE None])
    BY <1>1, Zenon DEF ServeCreate
<1>3. i \in Shell \ UsedShells /\ session \in Runner \cup {None}
    BY <1>1, FreshMember DEF TypeOK
<1>4. /\ o.runner \in Runner /\ o.session \in Runner \cup {None} /\ o.marked \in BOOLEAN
      /\ o.home \in [Shell -> Runner \cup {None}]
    BY <1>1, <1>3, ResolvedType
<1> DEFINE m == [ok |-> ok, marked |-> o.marked, session |-> o.session,
                 shell |-> IF ok THEN i ELSE None]
<1>5. m \in Answer /\ m.ok = ok /\ m.session = o.session /\ (ok => m.shell = i)
    BY <1>3, <1>4 DEF Answer
<1>6. Replies(a, m)
    BY <1>2
<1> HIDE DEF m
<1>7. /\ sent'[a] = None /\ answer'[a] = m
      /\ \A b \in Function \ {a} : sent'[b] = None /\ answer'[b] = None /\ at[b] = "idle"
    BY <1>1, <1>5, <1>6, ReplyType, OnlyOne
<1>8. o.rec[o.runner] # "gone" /\ o.runner = (IF o.session = None THEN session ELSE o.session)
    <2>1. CASE session # None /\ rec[session] = "busy" /\ o.runner = session /\ o.session = None /\ o.rec = rec
        BY <2>1
    <2>2. ASSUME NEW r \in Runner \ UsedRunners, o.runner = r, o.session = r,
                 o.marked \in {FALSE, Stale(session)},
                 ~(session # None /\ rec[session] = "busy"),
                 o.rec = [x \in Runner |-> IF x = r THEN "busy" ELSE IF x = session THEN "gone" ELSE rec[x]],
                 o.home = [j \in Shell |-> IF home[j] = r THEN None ELSE home[j]]
          PROVE  o.rec[o.runner] # "gone" /\ o.runner = (IF o.session = None THEN session ELSE o.session)
        <3>1. r # None
            BY TerminalAssumption
        <3>2. o.rec[r] = "busy"
            BY <2>2
        <3>3. o.rec[o.runner] = "busy" /\ "busy" # "gone"
            BY <2>2, <3>2, Zenon
        <3>4. o.runner = (IF o.session = None THEN session ELSE o.session)
            BY <2>2, <3>1, Zenon
        <3> QED BY <3>3, <3>4, Zenon
    <2> QED BY <1>1, <1>3, <2>1, <2>2, ResolvedCases, Zenon
<1>9. ok => Kept(o.runner, i)'
    <2> SUFFICES ASSUME ok PROVE Kept(o.runner, i)'
        OBVIOUS
    <2>1. rec'[o.runner] # "gone" /\ home'[i] = o.runner /\ i \notin broken'
        BY <1>2, <1>3, <1>4, <1>8
    <2>2. \A d \in deletes : d.sent # None => d.sent.shell # i
        BY <1>3, Used
    <2> QED BY <1>1, <1>3, <1>4, <2>1, <2>2 DEF Kept
<1>10. ~Relies' /\ SentOwn' /\ AnswerPlain'
    BY <1>1, <1>7 DEF Relies, SentOwn, AnswerPlain, Function
<1>11. AnswerKept'
    <2> SUFFICES ASSUME NEW b \in Function, answer'[b] # None, answer'[b].ok
                 PROVE  Kept(SessionAfter(answer[b]), answer[b].shell)'
        BY DEF AnswerKept
    <2>1. b = a /\ ok /\ answer'[b].shell = i
        BY <1>5, <1>7
    <2>2. SessionAfter(answer[b])' = o.runner
        BY <1>1, <1>5, <1>7, <1>8, <2>1 DEF SessionAfter
    <2> QED BY <1>9, <2>1, <2>2 DEF Kept
<1> QED BY <1>10, <1>11 DEF Heard

\* A function whose command is not answered yet relies on its shell.
LEMMA ExecRelies ==
    ASSUME ShellInv, NEW a \in Function, at[a] = "exec", sent[a] # None
    PROVE  a = "run" /\ Relies
<1>1. a = "run"
    BY DEF ShellInv, Turn, Function
<1>2. at["connect"] = "idle" /\ answer["run"] = None
    BY <1>1 DEF ShellInv, Turn, Function
<1> QED BY <1>1, <1>2 DEF Relies

LEMMA ServeExecHeard ==
    ASSUME ShellInv, NEW a \in Function, ServeExec(a), ~silent'
    PROVE  Heard'
<1>1. /\ TypeOK /\ Turn /\ Heard /\ ~silent /\ sent[a] # None /\ at[a] = "exec"
      /\ UNCHANGED <<at, session, shell, deletes, broken>> /\ sent[a].session = session
    BY DEF ShellInv, ServeExec, Heard, SentOwn
<1>2. a = "run" /\ Kept(session, shell)
    BY <1>1, ExecRelies DEF Heard
<1>3. PICK o \in Resolved(session), ok \in BOOLEAN, i \in {None, Expire} :
        /\ i = Expire => o.marked
        /\ rec' = o.rec /\ home' = o.home
        /\ silent' = (silent \/ (Stale(session) /\ ~o.marked))
        /\ Replies(a, [ok |-> ok, marked |-> o.marked, session |-> o.session, shell |-> i])
    BY <1>1, Zenon DEF ServeExec
<1>4. session \in Runner /\ rec[session] \in State /\ rec[session] # "gone" /\ session # None
    BY <1>1, <1>2, TerminalAssumption DEF Kept, TypeOK, State
<1>5. \/ o.marked
      \/ ~o.marked /\ o.session = None /\ o.rec = rec /\ o.home = home
    <2>1. CASE Stale(session)
        BY <1>3, <2>1
    <2>2. CASE ~Stale(session)
        BY <1>1, <1>4, <2>2, ResolvedCases DEF State, Stale
    <2> QED BY <2>1, <2>2
<1>6. o.session \in Runner \cup {None} /\ o.marked \in BOOLEAN
    BY <1>1, <1>4, ResolvedType
<1> DEFINE m == [ok |-> ok, marked |-> o.marked, session |-> o.session, shell |-> i]
<1>7. m \in Answer /\ m.marked = o.marked /\ m.session = o.session /\ m.shell = i
    BY <1>6 DEF Answer
<1>8. Replies(a, m) /\ m # None
    BY <1>3, <1>7, NoneAssumption
<1> HIDE DEF m
<1>9. /\ sent'["run"] = None /\ answer'["run"] = m
      /\ sent'["connect"] = None /\ answer'["connect"] = None /\ at["connect"] = "idle"
    BY <1>1, <1>2, <1>7, <1>8, ReplyType, OnlyOne DEF Function
<1>10. SentOwn' /\ AnswerKept'
    BY <1>1, <1>2, <1>9 DEF SentOwn, AnswerKept, Function
<1>11. AnswerPlain'
    BY <1>1, <1>3, <1>5, <1>7, <1>9 DEF AnswerPlain
<1>12. Relies' => Kept(session, shell)'
    <2> SUFFICES ASSUME Relies' PROVE Kept(session, shell)'
        OBVIOUS
    <2>1. ~o.marked
        BY <1>7, <1>8, <1>9 DEF Relies
    <2> QED BY <1>1, <1>2, <1>3, <1>5, <2>1 DEF Kept
<1> QED BY <1>10, <1>11, <1>12 DEF Heard

LEMMA RefuseHeard ==
    ASSUME ShellInv, NEW a \in Function, Refuse(a), ~silent'
    PROVE  Heard'
<1>1. /\ TypeOK /\ Turn /\ Heard /\ ~silent /\ sent[a] # None /\ at[a] \in {"create", "exec"}
      /\ UNCHANGED <<at, session, shell, deletes, broken, home>>
    <2>1. TypeOK /\ Turn /\ sent[a] # None
        BY DEF ShellInv, Refuse
    <2>2. at[a] \in {"create", "exec"}
        BY <2>1 DEF Turn
    <2>3. ~silent
        BY DEF Refuse
    <2> QED BY <2>1, <2>2, <2>3 DEF ShellInv, Refuse
<1>2. Replies(a, Failed)
    BY DEF Refuse
<1>3. /\ sent'[a] = None /\ answer'[a] = Failed
      /\ \A b \in Function \ {a} : sent'[b] = None /\ answer'[b] = None /\ at[b] = "idle"
    BY <1>1, <1>2, FailedType, ReplyType, OnlyOne
<1>4. SentOwn' /\ AnswerPlain' /\ AnswerKept'
    BY <1>1, <1>3, FailedType DEF SentOwn, AnswerPlain, AnswerKept, Function
<1>5. Relies' => Kept(session, shell)'
    <2> SUFFICES ASSUME Relies' PROVE Kept(session, shell)'
        OBVIOUS
    <2>1. at[a] = "exec"
        BY <1>1 DEF Relies, Function
    <2>2. Kept(session, shell) /\ rec' = rec
        BY <1>1, <2>1, ExecRelies DEF Refuse, Heard
    <2> QED BY <1>1, <2>2 DEF Kept
<1> QED BY <1>4, <1>5 DEF Heard

LEMMA LoseHeard ==
    ASSUME ShellInv, NEW a \in Function, LoseAnswer(a), ~silent'
    PROVE  Heard'
<1>1. /\ TypeOK /\ Turn /\ Heard /\ ~silent /\ answer[a] # None /\ ~answer[a].marked
      /\ UNCHANGED <<at, session, shell, sent, deletes, rec, home, broken>>
    BY DEF ShellInv, LoseAnswer, serverVars
<1>2. answer'[a] = Failed /\ \A b \in Function \ {a} : answer'[b] = answer[b]
    BY <1>1 DEF TypeOK, LoseAnswer
<1>3. SentOwn' /\ AnswerPlain'
    BY <1>1, <1>2, FailedType DEF Heard, SentOwn, AnswerPlain, Function
<1>4. AnswerKept'
    <2> SUFFICES ASSUME NEW b \in Function, at[b] = "create", answer'[b] # None, answer'[b].ok
                 PROVE  Kept(SessionAfter(answer[b]), answer[b].shell)'
        BY <1>1 DEF AnswerKept
    <2>1. answer'[b] = answer[b]
        BY <1>2, FailedType
    <2>2. Kept(SessionAfter(answer[b]), answer[b].shell)
        BY <1>1, <2>1 DEF Heard, AnswerKept
    <2>3. SessionAfter(answer[b])' = SessionAfter(answer[b])
        BY <1>1, <2>1 DEF SessionAfter
    <2> QED BY <1>1, <2>1, <2>2, <2>3 DEF Kept
<1>5. Relies' => Kept(session, shell)'
    <2>1. Relies' => Relies
        BY <1>1, <1>2, FailedType DEF Relies, Function
    <2> QED BY <1>1, <2>1 DEF Heard, Kept
<1> QED BY <1>3, <1>4, <1>5 DEF Heard

\* The page gets the shell that an answer to its request for one brings.
LEMMA CreatedHeard ==
    ASSUME ShellInv, NEW a \in Function, Hears(a), Drop(a), UNCHANGED sent,
           at[a] = "create", answer[a].ok, Goto(a, "idle"), ~silent'
    PROVE  Heard'
<1>1. /\ TypeOK /\ Turn /\ Heard /\ ~silent /\ answer[a] # None /\ SetCookies(answer[a])
      /\ UNCHANGED <<deletes, rec, home, broken>>
    BY DEF ShellInv, Hears, serverVars
<1>2. Kept(SessionAfter(answer[a]), answer[a].shell)
    BY <1>1 DEF Heard, AnswerKept
<1>3. session' = SessionAfter(answer[a]) /\ shell' = answer[a].shell
    <2>1. answer[a].shell # None /\ answer[a].shell # Expire
        BY <1>2, TerminalAssumption DEF Kept
    <2> QED BY <1>1, <2>1 DEF SetCookies, SessionAfter
<1>4. Kept(session, shell)'
    BY <1>1, <1>2, <1>3 DEF Kept
<1>5. \A b \in Function : at'[b] = "idle" /\ sent'[b] = None /\ answer'[b] = None
    BY <1>1, OnlyOne DEF Turn, TypeOK, Goto, Drop
<1>6. SentOwn' /\ AnswerPlain' /\ AnswerKept'
    BY <1>5 DEF SentOwn, AnswerPlain, AnswerKept, Function
<1> QED BY <1>4, <1>6 DEF Heard

\* A function asks for a shell, with the cookies as they are by now; the other
\* is idle.
LEMMA AskingHeard ==
    ASSUME NEW a \in Function, at'[a] \in {"create", "delay"},
           a = "run" => at'[a] = "create",
           \A b \in Function : answer'[b] = None /\ (b # a => sent'[b] = None),
           sent'[a] # None => sent'[a].session = session'
    PROVE  Heard'
<1>1. ~Relies'
    BY DEF Relies, Function
<1>2. SentOwn' /\ AnswerPlain' /\ AnswerKept'
    BY DEF SentOwn, AnswerPlain, AnswerKept, Function
<1> QED BY <1>1, <1>2 DEF Heard

LEMMA ConnectHeard ==
    ASSUME ShellInv, ConnectStep, ~silent'
    PROVE  Heard'
<1>1. TypeOK /\ Turn /\ at["connect"] # "idle"
    BY DEF ShellInv, ConnectStep, Connected, ConnectFails, NotConnected, Retry
<1>2. CASE Connected
    BY <1>2, CreatedHeard DEF Connected, Function
<1>3. CASE ConnectFails
    <2>1. at'["connect"] = "delay" /\ answer'["connect"] = None /\ sent'["connect"] = None
        BY <1>1, <1>3 DEF ConnectFails, NotConnected, Hears, Drop, Goto, Turn, TypeOK, Function
    <2>2. answer'["run"] = None /\ sent'["run"] = None
        BY <1>1, <1>3 DEF ConnectFails, Hears, Drop, Turn, TypeOK, Function
    <2> QED BY <2>1, <2>2, AskingHeard DEF Function
<1>4. CASE Retry
    <2>1. at'["connect"] = "create" /\ sent'["connect"].session = session' /\ answer' = answer
        BY <1>1, <1>4 DEF Retry, Send, Goto, TypeOK, Function
    <2>2. answer["connect"] = None
        BY <1>1, <1>4 DEF Retry, Turn, Function
    <2>3. answer["run"] = None /\ sent'["run"] = None
        BY <1>1, <1>4 DEF Retry, Send, Turn, TypeOK, Function
    <2> QED BY <2>1, <2>2, <2>3, AskingHeard DEF Function
<1> QED BY <1>2, <1>3, <1>4 DEF ConnectStep

LEMMA SubmitHeard ==
    ASSUME ShellInv, Submit, ~silent'
    PROVE  Heard'
<1>1. /\ TypeOK /\ Turn /\ Heard /\ ~busy
      /\ UNCHANGED <<session, shell, answer, deletes, rec, home, broken>>
    BY DEF ShellInv, Submit, MayRun, serverVars
<1>2. \A a \in Function : at[a] = "idle" /\ sent[a] = None /\ answer[a] = None
    BY <1>1 DEF Turn
<1>3. /\ at'["connect"] = "idle" /\ at'["run"] = "exec"
      /\ sent'["connect"] = None /\ sent'["run"].session = session'
    BY <1>1, <1>2 DEF Submit, Goto, Send, TypeOK, Function
<1>4. SentOwn' /\ AnswerPlain' /\ AnswerKept'
    BY <1>1, <1>2, <1>3 DEF SentOwn, AnswerPlain, AnswerKept, Function
<1>5. Kept(session, shell)'
    <2>1. Relies
        BY <1>2 DEF Relies, Function
    <2> QED BY <1>1, <2>1 DEF Heard, Kept
<1> QED BY <1>4, <1>5 DEF Heard

LEMMA RunHeard ==
    ASSUME ShellInv, RunStep, ~silent'
    PROVE  Heard'
<1>1. /\ TypeOK /\ Turn /\ Heard /\ at["run"] # "idle"
      /\ UNCHANGED <<deletes, rec, home, broken>>
    BY DEF ShellInv, RunStep, Reassigned, Executed, StreamEnds, Recreated, RecreateFails, Hears,
           serverVars
<1>2. at["connect"] = "idle" /\ sent["connect"] = None /\ answer["connect"] = None
    BY <1>1, OnlyOne DEF Function
<1>3. CASE Reassigned
    <2>1. at'["run"] = "create" /\ sent'["run"].session = session' /\ answer'["run"] = None
        BY <1>1, <1>3 DEF Reassigned, Drop, Goto, Resend, TypeOK, Function
    <2>2. sent'["connect"] = None /\ answer'["connect"] = None
        BY <1>1, <1>2, <1>3 DEF Reassigned, Drop, Resend, TypeOK, Function
    <2> QED BY <2>1, <2>2, AskingHeard DEF Function
<1>4. CASE Executed
    <2>1. /\ at["run"] = "exec" /\ answer["run"] # None /\ ~answer["run"].marked
          /\ SetCookies(answer["run"]) /\ sent' = sent
        BY <1>4 DEF Executed, Hears
    <2>2. session' = session /\ shell' = shell
        <3>1. answer["run"].session = None /\ answer["run"].shell = None
            BY <1>1, <2>1 DEF Heard, AnswerPlain
        <3>2. session' = session
            BY <2>1, <3>1, Zenon DEF SetCookies
        <3>3. shell' = shell
            BY <2>1, <3>1, TerminalAssumption DEF SetCookies
        <3> QED BY <3>2, <3>3
    <2>3. Kept(session, shell)
        BY <1>1, <1>2, <2>1 DEF Heard, Relies
    <2>4. sent["run"] = None
        BY <1>1, <2>1 DEF Turn, Function
    <2>5. answer'["run"] = None /\ answer'["connect"] = None
        BY <1>1, <1>2, <1>4 DEF Executed, Drop, TypeOK, Function
    <2>6. SentOwn' /\ AnswerPlain' /\ AnswerKept'
        BY <1>2, <2>1, <2>4, <2>5 DEF SentOwn, AnswerPlain, AnswerKept, Function
    <2> QED BY <1>1, <2>2, <2>3, <2>6 DEF Heard, Kept
<1>5. CASE StreamEnds
    <2>1. /\ at["run"] = "stream" /\ at'["run"] = "idle" /\ at'["connect"] = "idle"
          /\ UNCHANGED <<session, shell, sent, answer>>
        BY <1>1, <1>2, <1>5 DEF StreamEnds, Goto, TypeOK, Function
    <2>2. sent["run"] = None /\ answer["run"] = None
        BY <1>1, <2>1 DEF Turn, Function
    <2>3. Kept(session, shell)
        BY <1>1, <1>2, <2>1, <2>2 DEF Heard, Relies
    <2>4. SentOwn' /\ AnswerPlain' /\ AnswerKept'
        BY <1>2, <2>1, <2>2 DEF SentOwn, AnswerPlain, AnswerKept, Function
    <2> QED BY <1>1, <2>1, <2>3, <2>4 DEF Heard, Kept
<1>6. CASE Recreated
    BY <1>6, CreatedHeard DEF Recreated, Function
<1>7. CASE RecreateFails
    <2>1. at'["connect"] = "create" /\ sent'["connect"].session = session'
        BY <1>1, <1>7 DEF RecreateFails, BeginReconnect, Resend, TypeOK, Function
    <2>2. sent["run"] = None
        BY <1>1, <1>7 DEF RecreateFails, Hears, Turn, Function
    <2>3. answer'["connect"] = None /\ answer'["run"] = None /\ sent'["run"] = None
        BY <1>1, <1>2, <1>7, <2>2 DEF RecreateFails, BeginReconnect, Drop, Resend, TypeOK, Function
    <2> QED BY <2>1, <2>3, AskingHeard DEF Function
<1> QED BY <1>3, <1>4, <1>5, <1>6, <1>7 DEF RunStep

LEMMA ReloadHeard == ASSUME ShellInv, Reload PROVE Heard'
<1>1. /\ at'["connect"] = "create" /\ sent'["connect"].session = session' /\ sent'["run"] = None
      /\ \A a \in Function : answer'[a] = None
    BY DEF Reload, Function
<1> QED BY <1>1, AskingHeard DEF Function

\* A runner is lost: its record stays, and will tell.
LEMMA CrashHeard ==
    ASSUME ShellInv, NEW r \in Runner, Crash(r), ~silent'
    PROVE  Heard'
<1>1. TypeOK /\ Heard /\ UNCHANGED <<at, session, shell, sent, answer, deletes, home, broken>>
    BY DEF ShellInv, Crash, pageVars
<1>2. ASSUME NEW s \in Runner, rec[s] # "gone" PROVE rec'[s] # "gone"
    BY <1>1, <1>2 DEF TypeOK, Crash
<1>3. \A s \in UsedRunners : \A i : Kept(s, i) => Kept(s, i)'
    BY <1>1, <1>2 DEF Kept
<1> QED BY <1>1, <1>3, HeardKept

LEMMA DeletePlainStep == ShellInv /\ [Next]_vars => DeletePlain'
<1> SUFFICES ASSUME ShellInv, [Next]_vars PROVE DeletePlain'
    OBVIOUS
<1>1. TypeOK /\ DeletePlain
    BY DEF ShellInv
<1>2. CASE deletes' \subseteq deletes
    BY <1>1, <1>2 DEF DeletePlain
<1>3. CASE Reload
    BY <1>1, <1>3 DEF DeletePlain, Reload
<1>4. ASSUME NEW d \in deletes, ServeDelete(d) PROVE DeletePlain'
    BY <1>1, <1>4, DeleteCases DEF DeletePlain
<1>5. ASSUME NEW a \in Function, Serve(a) \/ LoseAnswer(a) PROVE DeletePlain'
    BY <1>2, <1>5 DEF Serve, Refuse, ServeCreate, ServeExec, LoseAnswer
<1>6. CASE ConnectStep \/ RunStep \/ Submit
    BY <1>2, <1>6 DEF ConnectStep, Connected, ConnectFails, Retry, RunStep, Reassigned, Executed,
                      StreamEnds, Recreated, RecreateFails, Submit, Hears
<1>7. ASSUME \/ \E r \in Runner : Crash(r) \/ Leave(r)
             \/ \E i \in Shell : Break(i)
      PROVE  DeletePlain'
    BY <1>2, <1>7 DEF Crash, Leave, Break, pageVars
<1>8. ASSUME NEW d \in deletes, DeleteAnswered(d) PROVE DeletePlain'
    BY <1>2, <1>8 DEF DeleteAnswered
<1> QED BY <1>2, <1>3, <1>4, <1>5, <1>6, <1>7, <1>8 DEF Next, vars, pageVars

LEMMA HeardStep == ShellInv /\ [Next]_vars /\ ~silent' => Heard'
<1> SUFFICES ASSUME ShellInv, [Next]_vars, ~silent' PROVE Heard'
    OBVIOUS
<1>1. CASE UNCHANGED vars
    BY <1>1 DEF ShellInv, Heard, SentOwn, Relies, Kept, AnswerPlain, AnswerKept, SessionAfter,
                vars, pageVars, serverVars
<1>2. ASSUME NEW a \in Function, Serve(a) PROVE Heard'
    BY <1>2, ServeCreateHeard, ServeExecHeard, RefuseHeard DEF Serve
<1>3. ASSUME \/ \E r \in Runner : Leave(r)
             \/ \E i \in Shell : Break(i)
      PROVE  FALSE
    BY <1>3 DEF Leave, Break
<1> QED BY <1>1, <1>2, <1>3, LoseHeard, ConnectHeard, RunHeard, SubmitHeard, ReloadHeard,
           ServeDeleteHeard, DeleteAnsweredHeard, CrashHeard DEF Next

LEMMA ShellInit == Init => ShellInv
<1> SUFFICES ASSUME Init PROVE ShellInv
    OBVIOUS
<1>1. /\ at["connect"] = "create" /\ sent["connect"].session = session /\ sent["run"] = None
      /\ \A a \in Function : answer[a] = None
    BY DEF Init, Function
<1>2. SentOwn /\ ~Relies /\ AnswerPlain /\ AnswerKept
    BY <1>1 DEF SentOwn, Relies, AnswerPlain, AnswerKept, Function
<1>3. DeletePlain
    BY DEF Init, DeletePlain
<1> QED BY <1>2, <1>3, TypeInit, TurnInit DEF ShellInv, Heard

\* Whoever can type has a shell, or will be told with the next command that it
\* is lost: whatever is lost, refused or answered late, and in whatever order,
\* but for the ways of losing it that nothing tells.
THEOREM TypistHasShell == Spec => []InputHasShell
<1>1. ShellInv /\ [Next]_vars => ShellInv'
    BY TypeStep, TurnStep, DeletePlainStep, HeardStep DEF ShellInv
<1> QED BY <1>1, ShellInit, ShellImplies, PTL DEF Spec
=============================================================================
