--------------------------- MODULE RunnerProcessProofs ---------------------------
(***************************************************************************)
(* RunnerProcess, for any number of requests, shells and signals: every    *)
(* shell has one owner, the map and the handlers use it as it promises,    *)
(* and an orderly exit leaves nothing behind.                              *)
(***************************************************************************)
EXTENDS RunnerProcess, TLAPS

\* The handlers that are to close a shell themselves.
Own(r) == at[r] \in {"insert", "close"}

HandlerInv ==
    \A r \in Request :
        /\ at[r] = "idle" <=> target[r] = None
        /\ answer[r] = "none" <=> at[r] # "done"

OwnInv ==
    /\ shells \cap sweep = {}
    /\ sweep # {} => main = "sweep"
    /\ \A r \in Request : Own(r) => target[r] \notin shells \cup sweep
    /\ \A q, r \in Request : Own(q) /\ Own(r) /\ target[q] = target[r] => q = r
    /\ \A i \in shells \cup sweep : life[i] \in {"open", "exit"}
    /\ \A r \in Request : Own(r) => life[target[r]] \in {"open", "exit"}
    /\ \A i \in Shell : life[i] \in {"open", "exit"} =>
        i \in shells \cup sweep \/ \E r \in Request : Own(r) /\ target[r] = i

\* Who has the turn, and what for.
TurnInv ==
    /\ \A i \in Shell, r \in Request : holder[i] = r =>
        /\ target[r] = i
        /\ \/ at[r] = "run" /\ life[i] = "open" /\ i \notin broken
           \/ at[r] = "close" /\ life[i] = "exit"
    /\ \A i \in Shell : holder[i] = Main => i \in sweep /\ life[i] = "exit"
    /\ \A i \in Shell : life[i] = "exit" => holder[i] # None

ShellInv == TypeOK /\ HandlerInv /\ OwnInv /\ TurnInv

USE NamesAssumption

LEMMA CreateInv ==
    ASSUME ShellInv, NEW r \in Request, Create(r), UNCHANGED <<supVars, mainVars>>
    PROVE  ShellInv'
<1> PICK i \in Shell : /\ life[i] = "unused" /\ life' = [life EXCEPT ![i] = "open"]
                       /\ Enter(r, "insert", i)
  BY DEF Create
<1> USE DEF ShellInv, TypeOK, ShellTypeOK, SupTypeOK, MainTypeOK, supVars, mainVars, Create, Enter, Stages, Process
<1>1. TypeOK'
  OBVIOUS
<1>2. HandlerInv'
  BY DEF HandlerInv
<1>3. OwnInv'
  BY DEF OwnInv, Own
<1>4. TurnInv'
  BY DEF TurnInv
<1> QED BY <1>1, <1>2, <1>3, <1>4

LEMMA InsertInv ==
    ASSUME ShellInv, NEW r \in Request, Insert(r), UNCHANGED <<supVars, mainVars>>
    PROVE  ShellInv'
<1> USE DEF ShellInv, TypeOK, ShellTypeOK, SupTypeOK, MainTypeOK, supVars, mainVars, Stages, Process,
            Insert, Respond, Enter, requestVars, sessionVars
<1>1. TypeOK'
  BY DEF HandlerInv
<1>2. HandlerInv'
  BY DEF HandlerInv
<1>3. OwnInv'
  BY DEF HandlerInv, OwnInv, Own
<1>4. TurnInv'
  BY DEF HandlerInv, OwnInv, Own, TurnInv
<1> QED BY <1>1, <1>2, <1>3, <1>4

LEMMA ArriveInv ==
    ASSUME ShellInv, NEW r \in Request, NEW stage \in {"get", "remove"}, Arrive(r, stage), UNCHANGED <<supVars, mainVars>>
    PROVE  ShellInv'
<1> USE DEF ShellInv, TypeOK, ShellTypeOK, SupTypeOK, MainTypeOK, supVars, mainVars, Stages, Process,
            Arrive, Enter, requestVars, sessionVars
<1>1. TypeOK'
  BY DEF HandlerInv
<1>2. HandlerInv'
  BY DEF HandlerInv
<1>3. OwnInv'
  BY DEF HandlerInv, OwnInv, Own
<1>4. TurnInv'
  BY DEF HandlerInv, OwnInv, Own, TurnInv
<1> QED BY <1>1, <1>2, <1>3, <1>4

LEMMA GetInv ==
    ASSUME ShellInv, NEW r \in Request, Get(r), UNCHANGED <<supVars, mainVars>>
    PROVE  ShellInv'
<1> USE DEF ShellInv, TypeOK, ShellTypeOK, SupTypeOK, MainTypeOK, supVars, mainVars, Stages, Process,
            Get, Respond, Enter, Goto, requestVars, sessionVars
<1>1. TypeOK'
  BY DEF HandlerInv
<1>2. HandlerInv'
  BY DEF HandlerInv
<1>3. OwnInv'
  BY DEF HandlerInv, OwnInv, Own
<1>4. TurnInv'
  BY DEF HandlerInv, OwnInv, Own, TurnInv
<1> QED BY <1>1, <1>2, <1>3, <1>4

LEMMA BeginInv ==
    ASSUME ShellInv, NEW r \in Request, Begin(r), UNCHANGED <<supVars, mainVars>>
    PROVE  ShellInv'
<1> USE DEF ShellInv, TypeOK, ShellTypeOK, SupTypeOK, MainTypeOK, supVars, mainVars, Stages, Process,
            Begin, Usable, Complete, requestVars, sessionVars
<1>1. TypeOK'
  BY DEF HandlerInv
<1>2. HandlerInv'
  BY DEF HandlerInv
<1>3. OwnInv'
  BY DEF HandlerInv, OwnInv, Own
<1>4. TurnInv'
  BY DEF HandlerInv, OwnInv, Own, TurnInv
<1> QED BY <1>1, <1>2, <1>3, <1>4

LEMMA EndInv ==
    ASSUME ShellInv, NEW r \in Request, End(r), UNCHANGED <<supVars, mainVars>>
    PROVE  ShellInv'
<1> USE DEF ShellInv, TypeOK, ShellTypeOK, SupTypeOK, MainTypeOK, supVars, mainVars, Stages, Process,
            End, Complete, requestVars, sessionVars
<1>1. TypeOK'
  BY DEF HandlerInv
<1>2. HandlerInv'
  BY DEF HandlerInv
<1>3. OwnInv'
  BY DEF HandlerInv, OwnInv, Own
<1>4. TurnInv'
  BY DEF HandlerInv, OwnInv, Own, TurnInv
<1> QED BY <1>1, <1>2, <1>3, <1>4

LEMMA RemoveInv ==
    ASSUME ShellInv, NEW r \in Request, Remove(r), UNCHANGED <<supVars, mainVars>>
    PROVE  ShellInv'
<1> USE DEF ShellInv, TypeOK, ShellTypeOK, SupTypeOK, MainTypeOK, supVars, mainVars, Stages, Process,
            Remove, Respond, Enter, Goto, Taken, requestVars, sessionVars
<1>1. TypeOK'
  BY DEF HandlerInv
<1>2. HandlerInv'
  BY DEF HandlerInv
<1>3. OwnInv'
  BY DEF HandlerInv, OwnInv, Own
<1>4. TurnInv'
  BY DEF HandlerInv, OwnInv, Own, TurnInv
<1> QED BY <1>1, <1>2, <1>3, <1>4

LEMMA CloseInv ==
    ASSUME ShellInv, NEW r \in Request, Close(r), UNCHANGED <<supVars, mainVars>>
    PROVE  ShellInv'
<1> USE DEF ShellInv, TypeOK, ShellTypeOK, SupTypeOK, MainTypeOK, supVars, mainVars, Stages, Process,
            Close, BeginClose, EndClose, Free, Respond, Enter, requestVars, sessionVars
<1>1. TypeOK'
  BY DEF HandlerInv
<1>2. HandlerInv'
  BY DEF HandlerInv
<1>3. OwnInv'
  BY DEF HandlerInv, OwnInv, Own
<1>4. TurnInv'
  BY DEF HandlerInv, OwnInv, Own, TurnInv
<1> QED BY <1>1, <1>2, <1>3, <1>4

LEMMA HandleInv ==
    ASSUME ShellInv, NEW r \in Request, AcceptRequest(r) \/ HandleRequest(r)
    PROVE  ShellInv'
<1>1. UNCHANGED <<supVars, mainVars>> /\ (Accept(r) \/ Handle(r))
  BY DEF AcceptRequest, HandleRequest
<1>2. CASE Accept(r)
  BY <1>1, <1>2, CreateInv, ArriveInv DEF Accept
<1>3. CASE Handle(r)
  BY <1>1, <1>3, InsertInv, GetInv, BeginInv, EndInv, RemoveInv, CloseInv DEF Handle
<1> QED BY <1>1, <1>2, <1>3

LEMMA CloseAllInv ==
    ASSUME ShellInv, CloseAll
    PROVE  ShellInv'
<1> USE DEF ShellInv, TypeOK, ShellTypeOK, SupTypeOK, MainTypeOK, supVars, requestVars, sessionVars, shellVars,
            Stages, Process, Phases
<1>1. CASE main = "closeAll"
  <2>1. /\ main' = "sweep" /\ sweep' = shells /\ shells' = {} /\ sweep = {}
        /\ UNCHANGED <<requestVars, sessionVars, supVars, sig, signals, listener, cancelled, expired, drained>>
    BY <1>1 DEF CloseAll, OwnInv
  <2>2. TypeOK' /\ HandlerInv'
    BY <2>1 DEF HandlerInv
  <2>3. OwnInv'
    BY <2>1 DEF OwnInv, Own
  <2>4. TurnInv'
    BY <2>1 DEF TurnInv
  <2> QED BY <2>2, <2>3, <2>4
<1>2. CASE main = "sweep" /\ UNCHANGED sweep /\ UNCHANGED main /\ \E i \in sweep : BeginClose(Main, i)
  <2>1. PICK i \in sweep : BeginClose(Main, i)
    BY <1>2
  <2>2. UNCHANGED <<supVars, sig, signals, listener, cancelled, expired, drained>>
    BY DEF CloseAll
  <2> USE DEF BeginClose, Free
  <2>3. TypeOK' /\ HandlerInv'
    BY <1>2, <2>1, <2>2 DEF HandlerInv
  <2>4. OwnInv'
    BY <1>2, <2>1, <2>2 DEF OwnInv, Own
  <2>5. TurnInv'
    BY <1>2, <2>1, <2>2 DEF TurnInv, OwnInv
  <2> QED BY <2>3, <2>4, <2>5
<1>3. CASE /\ main = "sweep" /\ UNCHANGED main /\ UNCHANGED <<shells, requestVars>>
           /\ \E i \in sweep : EndClose(Main, i) /\ sweep' = sweep \ {i}
  <2>1. PICK i \in sweep : EndClose(Main, i) /\ sweep' = sweep \ {i}
    BY <1>3
  <2>2. UNCHANGED <<supVars, sig, signals, listener, cancelled, expired, drained>>
    BY DEF CloseAll
  <2> USE DEF EndClose
  <2>3. TypeOK' /\ HandlerInv'
    BY <1>3, <2>1, <2>2 DEF HandlerInv
  <2>4. OwnInv'
    BY <1>3, <2>1, <2>2 DEF OwnInv, Own
  <2>5. TurnInv'
    BY <1>3, <2>1, <2>2 DEF TurnInv, OwnInv
  <2> QED BY <2>3, <2>4, <2>5
<1>4. CASE main = "sweep" /\ sweep = {} /\ main' = "wait" /\ UNCHANGED <<shellVars, sweep>>
  BY <1>4 DEF CloseAll, HandlerInv, OwnInv, Own, TurnInv
<1> QED BY <1>1, <1>2, <1>3, <1>4 DEF CloseAll

\* The steps that do not touch the shells.
LEMMA OtherInv ==
    ASSUME ShellInv, UNCHANGED shellVars, UNCHANGED sweep, SupTypeOK', MainTypeOK',
           main # "sweep" \/ main' = main
    PROVE  ShellInv'
<1> USE DEF ShellInv, requestVars, sessionVars, shellVars
<1>1. TypeOK'
  BY DEF TypeOK, ShellTypeOK
<1>2. HandlerInv' /\ TurnInv'
  BY DEF HandlerInv, TurnInv
<1>3. OwnInv'
  BY DEF OwnInv, Own
<1> QED BY <1>1, <1>2, <1>3

LEMMA MainSteps ==
    ASSUME ShellInv,
           Signal \/ ListenerStep \/ Start \/ Registered \/ GiveUp \/ Stop \/ Shutdown \/ Exit \/ Expire
    PROVE  ShellInv'
<1>1. UNCHANGED shellVars /\ UNCHANGED sweep /\ UNCHANGED <<leader, child, left>>
  BY DEF Signal, ListenerStep, Start, Registered, GiveUp, Stop, Shutdown, Exit, Expire, supVars
<1>2. main # "sweep" \/ main' = main
  BY DEF Signal, ListenerStep, Start, Registered, GiveUp, Stop, Shutdown, Exit, Expire
<1>3. sup \in {"off", "start", "watch", "grace", "sleep", "done"} /\ stop \in BOOLEAN
      /\ leader \in Process /\ child \in Process /\ left \in SUBSET BOOLEAN
  BY DEF ShellInv, TypeOK, SupTypeOK
<1>4. (sup' = sup \/ sup' = "start") /\ (stop' = stop \/ stop' = TRUE)
  BY DEF Signal, ListenerStep, Start, Registered, GiveUp, Stop, Shutdown, Exit, Expire, supVars
<1>5. SupTypeOK'
  BY <1>1, <1>3, <1>4 DEF SupTypeOK
<1> USE DEF ShellInv, TypeOK, MainTypeOK, Phases
<1>6. CASE Signal
  <2>1. MainTypeOK'
    BY <1>6, <1>1, SignalsAssumption DEF Signal
  <2> QED BY <2>1, <1>1, <1>2, <1>5, OtherInv
<1>7. CASE ListenerStep
  <2>1. MainTypeOK'
    BY <1>7, <1>1 DEF ListenerStep
  <2> QED BY <2>1, <1>1, <1>2, <1>5, OtherInv
<1>8. CASE Start \/ Registered \/ GiveUp \/ Exit \/ Expire
  <2>1. MainTypeOK'
    BY <1>8, <1>1 DEF Start, Resolve, Registered, GiveUp, Exit, Expire
  <2> QED BY <2>1, <1>1, <1>2, <1>5, OtherInv
<1>9. CASE Stop \/ Shutdown
  <2>1. MainTypeOK'
    BY <1>9, <1>1 DEF Stop, Shutdown
  <2> QED BY <2>1, <1>1, <1>2, <1>5, OtherInv
<1> QED BY <1>6, <1>7, <1>8, <1>9

LEMMA SupSteps ==
    ASSUME ShellInv, Supervise \/ App
    PROVE  ShellInv'
<1>1. UNCHANGED shellVars /\ UNCHANGED mainVars
  BY DEF Supervise, App
<1>2. MainTypeOK' /\ UNCHANGED sweep /\ main' = main
  BY <1>1 DEF ShellInv, TypeOK, MainTypeOK, mainVars
<1>3. SupTypeOK'
  <2> USE DEF ShellInv, TypeOK, SupTypeOK, Process
  <2>1. CASE App
    BY <2>1 DEF App, AppStep
  <2>2. CASE StartApp \/ StartFails \/ Exited \/ Wake
    BY <2>2 DEF StartApp, StartFails, Exited, Wake
  <2>3. CASE Terminate
    BY <2>3 DEF Terminate
  <2>4. CASE Reap
    BY <2>4 DEF Reap
  <2> QED BY <2>1, <2>2, <2>3, <2>4 DEF Supervise, SupStep
<1> QED BY <1>1, <1>2, <1>3, OtherInv

LEMMA ShellStep == ShellInv /\ [Next]_vars => ShellInv'
<1> SUFFICES ASSUME ShellInv, [Next]_vars PROVE ShellInv'
  OBVIOUS
<1>1. CASE UNCHANGED vars
  <2>1. UNCHANGED shellVars /\ UNCHANGED sweep /\ main' = main
    BY <1>1 DEF vars, mainVars
  <2>2. SupTypeOK' /\ MainTypeOK'
    BY <1>1 DEF vars, supVars, mainVars, ShellInv, TypeOK, SupTypeOK, MainTypeOK
  <2> QED BY <2>1, <2>2, OtherInv
<1>2. CASE Next
  BY <1>2, HandleInv, CloseAllInv, MainSteps, SupSteps DEF Next, MainStep
<1> QED BY <1>1, <1>2

-----------------------------------------------------------------------------
(* What is left when the process exits.                                    *)

\* Once no request is left there is none any more.
DrainInv ==
    /\ main \in {"wait", "exited"} => sweep = {}
    /\ drained => /\ \A r \in Request : ~Active(r)
                  /\ main \in {"closeAll", "sweep", "wait", "exited"}
                  /\ main # "closeAll" => shells = {}

LeftInv ==
    /\ sup \notin {"watch", "grace"} => leader = "none" /\ child = "none"
    /\ sup = "grace" => leader # "up" /\ child # "up"
    /\ TRUE \notin left
    /\ main \in {"start", "register"} => sup = "off"
    /\ main = "exited" => sup = "done"

IInv == ShellInv /\ DrainInv /\ LeftInv

LEMMA InitInv == Init => IInv
<1> SUFFICES ASSUME Init PROVE IInv
  OBVIOUS
<1> USE DEF Init, ShellInit, SupInit
<1>1. ShellTypeOK
  BY DEF ShellTypeOK, Stages
<1>2. SupTypeOK
  BY DEF SupTypeOK, Process
<1>3. MainTypeOK
  <2>1. signals \in 0..MaxSignals
    BY SignalsAssumption
  <2> QED BY <2>1 DEF MainTypeOK, Phases
<1>4. HandlerInv /\ OwnInv /\ TurnInv
  BY DEF HandlerInv, OwnInv, Own, TurnInv
<1>5. DrainInv /\ LeftInv
  BY DEF DrainInv, LeftInv
<1> QED BY <1>1, <1>2, <1>3, <1>4, <1>5 DEF IInv, ShellInv, TypeOK

\* No step of a handler belongs to a request that is not active.
LEMMA HandleActive ==
    ASSUME ShellInv, NEW r \in Request, Handle(r)
    PROVE  Active(r)
  BY DEF Handle, Insert, Get, Begin, End, Remove, Close, Active

LEMMA DrainStep ==
    ASSUME IInv, Next
    PROVE  DrainInv'
<1> USE DEF IInv, DrainInv
<1>1. ASSUME NEW r \in Request, AcceptRequest(r) \/ HandleRequest(r) PROVE DrainInv'
  <2>1. ~drained
    BY <1>1, HandleActive DEF AcceptRequest, HandleRequest
  <2> QED BY <1>1, <2>1 DEF AcceptRequest, HandleRequest, mainVars
<1>2. CASE Supervise \/ App
  BY <1>2 DEF Supervise, App, mainVars, shellVars, requestVars, Active
<1>3. CASE Signal \/ ListenerStep \/ Expire
  BY <1>3 DEF Signal, ListenerStep, Expire, shellVars, requestVars, Active
<1>4. CASE Start \/ Registered \/ GiveUp \/ Stop \/ Exit
  BY <1>4 DEF Start, Resolve, Registered, GiveUp, Stop, Exit, shellVars, requestVars, Active
<1>5. CASE Shutdown
  BY <1>5 DEF Shutdown, Drained, shellVars, requestVars, Active
<1>6. CASE CloseAll
  <2>1. UNCHANGED drained /\ UNCHANGED at
    BY <1>6 DEF CloseAll, requestVars, shellVars, BeginClose
  <2>2. \/ main = "closeAll" /\ main' = "sweep" /\ shells' = {}
        \/ main = "sweep" /\ main' = "sweep" /\ shells' = shells
        \/ main = "sweep" /\ main' = "wait" /\ sweep' = {} /\ shells' = shells
    BY <1>6 DEF CloseAll, shellVars, BeginClose
  <2> QED BY <2>1, <2>2 DEF Active
<1> QED BY <1>1, <1>2, <1>3, <1>4, <1>5, <1>6 DEF Next, MainStep

LEMMA LeftStep ==
    ASSUME IInv, Next
    PROVE  LeftInv'
<1> USE DEF IInv, LeftInv
<1>1. ASSUME NEW r \in Request, AcceptRequest(r) \/ HandleRequest(r) PROVE LeftInv'
  BY <1>1 DEF AcceptRequest, HandleRequest, mainVars, supVars
<1>2. CASE Supervise
  BY <1>2 DEF Supervise, SupStep, StartApp, StartFails, Exited, Terminate, Reap, Wake, mainVars, Gone
<1>3. CASE App
  BY <1>3 DEF App, AppStep, mainVars
<1>4. CASE Signal \/ ListenerStep \/ Expire \/ CloseAll
  BY <1>4 DEF Signal, ListenerStep, Expire, CloseAll, supVars
<1>5. CASE Start \/ Registered \/ GiveUp \/ Stop \/ Exit \/ Shutdown
  BY <1>5 DEF Start, Resolve, Registered, GiveUp, Stop, Exit, Shutdown, supVars
<1> QED BY <1>1, <1>2, <1>3, <1>4, <1>5 DEF Next, MainStep

\* The invariant of the runner process.
THEOREM Invariance == Spec => []IInv
<1>1. IInv /\ [Next]_vars => IInv'
  <2> SUFFICES ASSUME IInv, [Next]_vars PROVE IInv'
    OBVIOUS
  <2>1. ShellInv'
    BY ShellStep DEF IInv
  <2>2. CASE UNCHANGED vars
    BY <2>1, <2>2 DEF vars, supVars, mainVars, shellVars, requestVars, sessionVars, IInv, DrainInv,
                      LeftInv, Active
  <2>3. CASE Next
    BY <2>1, <2>3, DrainStep, LeftStep DEF IInv
  <2> QED BY <2>2, <2>3
<1> QED BY <1>1, InitInv, PTL DEF Spec

\* Every shell whose bash runs is to be closed by exactly one: the map, CloseAll
\* or a handler.
THEOREM OwnersAreUnique == Spec => []OneOwner
<1>1. IInv => OneOwner
  <2> SUFFICES ASSUME IInv, NEW i \in Shell
               PROVE  IF life[i] \in {"open", "exit"}
                      THEN \E o \in Request \cup {Main, None} : Owners(i) = {o} ELSE Owners(i) = {}
    BY DEF OneOwner
  <2> USE DEF IInv, ShellInv, OwnInv, Own
  <2>1. CASE life[i] \in {"open", "exit"} /\ i \in shells
    <3>1. Owners(i) = {None}
      BY <2>1 DEF Owners
    <3> QED BY <2>1, <3>1
  <2>2. CASE life[i] \in {"open", "exit"} /\ i \in sweep
    <3>1. Owners(i) = {Main}
      BY <2>2 DEF Owners
    <3> QED BY <2>2, <3>1
  <2>3. CASE life[i] \in {"open", "exit"} /\ i \notin shells \cup sweep
    <3>1. PICK r \in Request : Own(r) /\ target[r] = i
      BY <2>3
    <3>2. Owners(i) = {r}
      BY <2>3, <3>1 DEF Owners
    <3> QED BY <2>3, <3>2
  <2>4. CASE life[i] \notin {"open", "exit"}
    BY <2>4 DEF Owners
  <2> QED BY <2>1, <2>2, <2>3, <2>4
<1> QED BY <1>1, Invariance, PTL

\* An orderly exit leaves no app, and no shell but one that a request had in
\* hand when the deadline passed.
THEOREM NothingIsLeft == Spec => []ExitLeavesNothing
<1>1. IInv => ExitLeavesNothing
  <2> SUFFICES ASSUME IInv, main = "exited" PROVE ExitLeavesNothing
    BY DEF ExitLeavesNothing
  <2>1. leader = "none" /\ child = "none" /\ TRUE \notin left
    BY DEF IInv, LeftInv
  <2>2. ASSUME NEW i \in Shell, life[i] \in {"open", "exit"}
        PROVE  ~drained /\ (i \in shells \/ \E r \in Request : target[r] = i /\ at[r] \in {"insert", "close"})
    BY <2>2 DEF IInv, DrainInv, ShellInv, OwnInv, Own, Active
  <2> QED BY <2>1, <2>2 DEF ExitLeavesNothing
<1> QED BY <1>1, Invariance, PTL

-----------------------------------------------------------------------------
(* The map and the handlers implement ShellSession, for every shell.       *)

\* Shell i does not notice a step that leaves its own state and what its callers
\* see alone.
LEMMA Unnoticed ==
    ASSUME NEW i \in Shell, Turn(i)' = Turn(i), Closing(i)' = Closing(i),
           (i \in broken)' = (i \in broken), \A r \in Request : Sees(r, i)' = Sees(r, i)
    PROVE  UNCHANGED Session(i)!vars
  BY DEF Session!vars

LEMMA InsertSees ==
    ASSUME ShellInv, NEW i \in Shell, NEW r \in Request,
           Create(r) \/ Insert(r) \/ Arrive(r, "get") \/ Arrive(r, "remove") \/ Get(r) \/ Remove(r)
    PROVE  UNCHANGED Session(i)!vars
<1> USE DEF ShellInv, TypeOK, ShellTypeOK, HandlerInv, TurnInv, Enter, Respond, Goto, Taken, requestVars, sessionVars
<1>1. Turn(i)' = Turn(i) /\ Closing(i)' = Closing(i) /\ broken' = broken
  BY DEF Create, Insert, Arrive, Get, Remove, Turn, Closing
<1>2. ASSUME NEW q \in Request PROVE Sees(q, i)' = Sees(q, i)
  BY DEF Create, Insert, Arrive, Get, Remove, Sees, Runs
<1> QED BY <1>1, <1>2, Unnoticed

\* What one request sees changes.
LEMMA SeesChange ==
    ASSUME NEW i \in Shell, NEW r \in Request, NEW v, Sees(r, i)' = v,
           \A q \in Request : q # r => Sees(q, i)' = Sees(q, i)
    PROVE  [q \in Request |-> Sees(q, i)]' = [[q \in Request |-> Sees(q, i)] EXCEPT ![r] = v]
  OBVIOUS

\* Begin and End of a request are those of its shell; the others do not notice.
LEMMA BeginRefines ==
    ASSUME ShellInv, NEW i \in Shell, NEW r \in Request, Begin(r)
    PROVE  Session(i)!Next \/ UNCHANGED Session(i)!vars
<1> USE DEF ShellInv, TypeOK, ShellTypeOK, HandlerInv, TurnInv, Begin, Complete, Usable, requestVars
<1>1. \A q \in Request : q # r => Sees(q, i)' = Sees(q, i)
  BY DEF Sees, Runs
<1>2. Closing(i)' = Closing(i)
  BY DEF Closing
<1>3. CASE target[r] # i
  <2>1. Turn(i)' = Turn(i) /\ (i \in broken)' = (i \in broken) /\ Sees(r, i)' = Sees(r, i)
    BY <1>3 DEF Turn, Sees
  <2> QED BY <2>1, <1>1, <1>2, Unnoticed
<1>4. CASE target[r] = i
  <2>1. Sees(r, i) = "wait" /\ Turn(i) = None
    BY <1>4 DEF Turn, Sees, Runs
  <2>2. CASE Usable(i) /\ holder' = [holder EXCEPT ![i] = r] /\ UNCHANGED <<requestVars, broken>>
    <3>1. Sees(r, i)' = "run" /\ Turn(i)' = r /\ Closing(i) = "wait"
      BY <1>4, <2>2 DEF Turn, Sees, Runs, Closing
    <3>2. [q \in Request |-> Sees(q, i)]' = [[q \in Request |-> Sees(q, i)] EXCEPT ![r] = "run"]
      BY ONLY i \in Shell, r \in Request, <1>1, <3>1, SeesChange
    <3>3. i \notin broken /\ broken' = broken
      BY <1>4, <2>2
    <3>4. Session(i)!Begin(r)
      BY ONLY r \in Request, <1>2, <2>1, <3>1, <3>2, <3>3 DEF Session!Begin
    <3> QED BY <3>4 DEF Session!Next
  <2>3. CASE Complete(r, "error") /\ broken' \in {broken, broken \cup {i}} /\ UNCHANGED holder
    <3>1. Sees(r, i)' = "error" /\ Turn(i)' = None
      BY <1>4, <2>1, <2>3 DEF Turn, Sees, Runs
    <3>2. [q \in Request |-> Sees(q, i)]' = [[q \in Request |-> Sees(q, i)] EXCEPT ![r] = "error"]
      BY ONLY i \in Shell, r \in Request, <1>1, <3>1, SeesChange
    <3>3. (i \in broken') \/ ((i \in broken') <=> (i \in broken))
      BY <2>3
    <3>4. (i \in broken)' \in {(i \in broken), TRUE}
      <4>1. CASE (i \in broken)'
        <5>1. (i \in broken)' = TRUE
          BY ONLY <4>1
        <5> QED BY ONLY <5>1, Zenon
      <4>2. CASE (i \in broken') <=> (i \in broken)
        <5>1. (i \in broken)' = (i \in broken)
          BY ONLY <4>2
        <5> QED BY ONLY <5>1, Zenon
      <4> QED BY ONLY <3>3, <4>1, <4>2
    <3>5. Session(i)!Refuse(r)
      BY ONLY r \in Request, <1>2, <2>1, <3>1, <3>2, <3>4, Zenon DEF Session!Refuse
    <3> QED BY <3>5 DEF Session!Next
  <2> QED BY <1>4, <2>2, <2>3
<1> QED BY <1>3, <1>4

LEMMA EndRefines ==
    ASSUME ShellInv, NEW i \in Shell, NEW r \in Request, End(r)
    PROVE  Session(i)!Next \/ UNCHANGED Session(i)!vars
<1> USE DEF ShellInv, TypeOK, ShellTypeOK, HandlerInv, TurnInv, End, Complete
<1>1. \A q \in Request : q # r => Sees(q, i)' = Sees(q, i)
  BY DEF Sees, Runs
<1>2. Closing(i)' = Closing(i)
  BY DEF Closing
<1>3. CASE target[r] # i
  <2>1. Turn(i)' = Turn(i) /\ (i \in broken)' = (i \in broken) /\ Sees(r, i)' = Sees(r, i)
    BY <1>3 DEF Turn, Sees
  <2> QED BY <2>1, <1>1, <1>2, Unnoticed
<1>4. CASE target[r] = i
  <2>1. Sees(r, i) = "run" /\ Turn(i) = r /\ Turn(i)' = None /\ i \notin broken
    BY <1>4 DEF Turn, Sees, Runs
  <2>2. CASE Complete(r, "ran") /\ UNCHANGED broken
    <3>1. Sees(r, i)' = "ok" /\ i \notin broken'
      BY <1>4, <2>1, <2>2 DEF Sees, Runs
    <3>2. [q \in Request |-> Sees(q, i)]' = [[q \in Request |-> Sees(q, i)] EXCEPT ![r] = "ok"]
      BY ONLY i \in Shell, r \in Request, <1>1, <3>1, SeesChange
    <3>3. Session(i)!End(r)
      BY ONLY r \in Request, <1>2, <2>1, <3>1, <3>2 DEF Session!End
    <3> QED BY <3>3 DEF Session!Next
  <2>3. CASE Complete(r, "error") /\ broken' \in {broken, broken \cup {i}}
    <3>1. Sees(r, i)' = "error"
      BY <1>4, <2>1, <2>3 DEF Sees, Runs
    <3>2. [q \in Request |-> Sees(q, i)]' = [[q \in Request |-> Sees(q, i)] EXCEPT ![r] = "error"]
      BY ONLY i \in Shell, r \in Request, <1>1, <3>1, SeesChange
    <3>3. Session(i)!End(r)
      BY ONLY r \in Request, <1>2, <2>1, <3>1, <3>2 DEF Session!End
    <3> QED BY <3>3 DEF Session!Next
  <2> QED BY <1>4, <2>2, <2>3
<1> QED BY <1>3, <1>4

\* Close, by whoever owns the shell.
LEMMA CloseRefines ==
    ASSUME ShellInv, NEW i \in Shell, NEW j \in Shell, NEW who \in Request \cup {Main},
           life[j] \in {"open", "exit"}, who \in Request => at[who] = "close",
           \/ BeginClose(who, j)
           \/ EndClose(who, j) /\ UNCHANGED requestVars
           \/ EndClose(who, j) /\ who \in Request /\ Respond(who)
    PROVE  Session(i)!Next \/ UNCHANGED Session(i)!vars
<1> USE DEF ShellInv, TypeOK, ShellTypeOK, HandlerInv, TurnInv, BeginClose, EndClose, Free, Respond, Enter,
            requestVars
<1>1. \A q \in Request : Sees(q, i)' = Sees(q, i)
  BY DEF Sees, Runs
<1>2. broken' = broken
  OBVIOUS
<1>3. CASE i # j
  <2>1. Turn(i)' = Turn(i) /\ Closing(i)' = Closing(i)
    BY <1>3 DEF Turn, Closing
  <2> QED BY <2>1, <1>1, <1>2, Unnoticed
<1>4. CASE i = j /\ BeginClose(who, j)
  <2>1. Turn(i) = None /\ Closing(i) = "wait" /\ Turn(i)' = Main /\ Closing(i)' = "exit"
    BY <1>4 DEF Turn, Closing
  <2> QED BY <1>1, <1>2, <2>1 DEF Session!Next, Session!Close
<1>5. CASE i = j /\ EndClose(who, j)
  <2>1. Turn(i) = Main /\ Closing(i) = "exit" /\ Turn(i)' = None /\ Closing(i)' = "done"
    BY <1>5 DEF Turn, Closing
  <2> QED BY <1>1, <1>2, <2>1 DEF Session!Next, Session!Close
<1> QED BY <1>3, <1>4, <1>5

\* A step of the process is one of the shell, or none.
LEMMA StepRefines ==
    ASSUME IInv, Next, NEW i \in Shell
    PROVE  Session(i)!Next \/ UNCHANGED Session(i)!vars
<1>0. ShellInv
  BY DEF IInv
<1>1. CASE UNCHANGED shellVars
  BY <1>1, Unnoticed DEF shellVars, requestVars, sessionVars, Turn, Closing, Sees, Runs
<1>2. ASSUME NEW r \in Request, AcceptRequest(r) \/ HandleRequest(r)
      PROVE  Session(i)!Next \/ UNCHANGED Session(i)!vars
  <2>1. CASE Create(r) \/ Insert(r) \/ Arrive(r, "get") \/ Arrive(r, "remove") \/ Get(r) \/ Remove(r)
    BY <1>0, <2>1, InsertSees
  <2>2. CASE Begin(r)
    BY <1>0, <2>2, BeginRefines
  <2>3. CASE End(r)
    BY <1>0, <2>3, EndRefines
  <2>4. CASE Close(r)
    <3>1. at[r] = "close" /\ target[r] \in Shell /\ life[target[r]] \in {"open", "exit"}
      BY <1>0, <2>4 DEF Close, ShellInv, OwnInv, Own, HandlerInv, TypeOK, ShellTypeOK
    <3>2. \/ BeginClose(r, target[r])
          \/ EndClose(r, target[r]) /\ r \in Request /\ Respond(r)
      BY <2>4 DEF Close
    <3> QED BY <1>0, <3>1, <3>2, CloseRefines
  <2> QED BY <1>2, <2>1, <2>2, <2>3, <2>4 DEF AcceptRequest, HandleRequest, Accept, Handle
<1>3. CASE CloseAll
  <2>1. ASSUME NEW j \in sweep, BeginClose(Main, j) \/ (EndClose(Main, j) /\ UNCHANGED requestVars)
        PROVE  Session(i)!Next \/ UNCHANGED Session(i)!vars
    <3>1. j \in Shell /\ life[j] \in {"open", "exit"} /\ Main \notin Request
      BY <1>0, NamesAssumption DEF ShellInv, OwnInv, TypeOK, MainTypeOK
    <3> QED BY <1>0, <2>1, <3>1, CloseRefines
  <2>2. CASE UNCHANGED <<requestVars, sessionVars>>
    BY <2>2, Unnoticed DEF requestVars, sessionVars, Turn, Closing, Sees, Runs
  <2> QED BY <1>1, <1>3, <2>1, <2>2 DEF CloseAll
<1>4. CASE Signal \/ ListenerStep \/ Expire \/ Start \/ Registered \/ GiveUp \/ Stop \/ Shutdown \/ Exit
           \/ Supervise \/ App
  BY <1>1, <1>4 DEF Signal, ListenerStep, Expire, Start, Registered, GiveUp, Stop, Shutdown, Exit,
                    Supervise, App
<1> QED BY <1>2, <1>3, <1>4 DEF Next, MainStep

\* The map, the handlers and CloseAll use every shell as ShellSession allows.
THEOREM PromiseKept == Spec => ShellsKeepPromise
<1>1. Init => \A i \in Shell : Session(i)!Init
  BY DEF Init, ShellInit, Session!Init, Turn, Closing, Sees, Runs
<1>2. IInv /\ [Next]_vars => [\A i \in Shell : Session(i)!Next \/ UNCHANGED Session(i)!vars]_shellVars
  BY StepRefines DEF vars
<1> QED BY <1>1, <1>2, Invariance, PTL DEF Spec, ShellsKeepPromise
=============================================================================
