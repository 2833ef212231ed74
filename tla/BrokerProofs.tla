---------------------------- MODULE BrokerProofs ----------------------------
(***************************************************************************)
(* Broker, for any number of runners and requests and any set of faults.   *)
(* Types hold for both backends.  Where queries are consistent and no      *)
(* update is sent twice (Firestore), sessions and runners are matched one  *)
(* to one, whatever else fails.  On both (DynamoDB too), and whatever      *)
(* fails, requests are sent to a runner for no more sessions than its      *)
(* record was put.                                                         *)
(***************************************************************************)
EXTENDS Broker, FiniteSetTheorems, TLAPS

\* A write of the table keeps the types of the store.
LEMMA WriteType ==
    ASSUME PoolTypeOK, NEW rec \in [Runner -> {Absent, Idle} \cup Session],
           NEW returning, Write(rec, returning)
    PROVE  /\ record' = rec
           /\ indexed' \in SUBSET Runner
           /\ candidates' \in [Session -> SUBSET Runner]
BY DEF PoolTypeOK, Write

\* So do the operations of the store that write it.
LEMMA DeleteType ==
    ASSUME PoolTypeOK, NEW r, Delete(r)
    PROVE  PoolTypeOK'
BY DEF Delete, Write, PoolTypeOK

LEMMA AssignType ==
    ASSUME PoolTypeOK, NEW s \in Session, NEW r \in Runner,
           NEW res \in Runner \cup Returned, NEW returning,
           Write([record EXCEPT ![r] = s], returning),
           outcome' = [outcome EXCEPT ![s] = res]
    PROVE  PoolTypeOK'
BY DEF Write, PoolTypeOK

LEMMA SessionIndexType ==
    ASSUME SessionIndexFollows,
           sessionIndexed \in [Runner -> Session \cup {None}]
    PROVE  sessionIndexed' \in [Runner -> Session \cup {None}]
BY DEF SessionIndexFollows, SessionIn

\* A request that goes on, or is answered, keeps the types.
LEMMA GotoType ==
    ASSUME BrokerTypeOK, NEW q \in Request, NEW step \in Steps, Goto(q, step)
    PROVE  pc' \in [Request -> Steps]
BY DEF BrokerTypeOK, Goto

LEMMA FinishType ==
    ASSUME BrokerTypeOK, NEW q \in Request, NEW fresh \in BOOLEAN,
           NEW res \in Runner \cup {None, NoIdleRunner, StoreError}, Finish(q, res, fresh)
    PROVE  /\ pc' \in [Request -> Steps] /\ created' \in [Request -> BOOLEAN]
           /\ answer' \in [Request -> Runner \cup {None, NoIdleRunner, StoreError}]
           /\ UNCHANGED <<cookie, found, reassigned>>
<1>1. "done" \in Steps
    BY DEF Steps
<1>2. pc' \in [Request -> Steps]
    BY <1>1, GotoType DEF Finish
<1> QED BY <1>2 DEF Finish, BrokerTypeOK

\* Every step keeps the types.
LEMMA TypeStep == TypeOK /\ [Next]_vars => TypeOK'
<1> SUFFICES ASSUME TypeOK, [Next]_vars PROVE TypeOK'
    OBVIOUS
<1> USE DEF TypeOK, BrokerTypeOK, Request
<1>1. CASE UNCHANGED vars
    BY <1>1 DEF vars, poolVars, brokerVars, PoolTypeOK
<1>2. ASSUME NEW r \in Runner, RunnerStep(r) \/ ReindexState(r) \/ ReindexSession(r)
      PROVE  TypeOK'
    <2>1. CASE PostRegister(r)
        <3>1. UNCHANGED <<phase, requestVars>>
              /\ reply' \in [Runner -> {"none", "created", "conflict", "failed"}]
            BY <2>1 DEF PostRegister, Replies
        <3>2. CASE PutRecord(r)
            <4>1. PoolTypeOK'
                BY <3>2 DEF PutRecord, Register, PoolTypeOK, Write
            <4>2. puts' \in [Runner -> 0..MaxPuts]
                BY <3>2, FaultsAssumption DEF PutRecord
            <4> QED BY <3>1, <3>2, <4>1, <4>2, SessionIndexType DEF PutRecord, requestVars
        <3>3. CASE NothingWritten
            BY <3>1, <3>3 DEF NothingWritten, poolVars, requestVars, PoolTypeOK
        <3> QED BY <2>1, <3>2, <3>3 DEF PostRegister
    <2>2. CASE ReceiveReply(r) \/ LoseReply(r) \/ Terminate(r) \/ Crash(r)
        BY <2>2 DEF ReceiveReply, LoseReply, Terminate, Crash, NothingWritten, poolVars,
            requestVars, PoolTypeOK, Phases
    <2>3. CASE Deregister(r)
        <3>1. PoolTypeOK' /\ sessionIndexed' \in [Runner -> Session \cup {None}] /\ UNCHANGED puts
            BY <2>3, SessionIndexType
            DEF Deregister, DeleteRecord, NothingWritten, poolVars, Delete, Write, PoolTypeOK
        <3> QED BY <2>3, <3>1 DEF Deregister, requestVars, Phases
    <2>4. CASE ReindexState(r)
        BY <2>4 DEF ReindexState, Reindex, brokerVars, PoolTypeOK
    <2>5. CASE ReindexSession(r)
        BY <2>5 DEF ReindexSession, SessionIn, poolVars, requestVars, PoolTypeOK
    <2> QED BY <1>2, <2>1, <2>2, <2>3, <2>4, <2>5 DEF RunnerStep
<1>3. ASSUME NEW q \in Request, NEW k \in Delivered \cup {None},
             ResolveSession(q, k) \/ CloseSession(q, k)
      PROVE  TypeOK'
    BY <1>3 DEF ResolveSession, CloseSession, Goto, Delivered, Steps, ResolveSteps,
        NothingWritten, poolVars, PoolTypeOK
<1>4. ASSUME NEW q \in Request, RequestStep(q) PROVE TypeOK'
    <2>6. {"check", "acquire", "deleteToClose", "delete", "deleteNew"} \subseteq Steps
        BY DEF Steps, ResolveSteps
    <2>7. ASSUME NEW res \in Runner \cup {None, NoIdleRunner, StoreError}, NEW fresh \in BOOLEAN,
                 Finish(q, res, fresh), PoolTypeOK',
                 sessionIndexed' \in [Runner -> Session \cup {None}], UNCHANGED <<phase, reply, puts>>
          PROVE  TypeOK'
        BY <2>7, FinishType
    <2>8. ASSUME NEW step \in Steps, Goto(q, step), PoolTypeOK',
                 UNCHANGED <<phase, reply, puts, sessionIndexed, cookie, created, reassigned, answer>>,
                 found' \in [Request -> Runner \cup {None}]
          PROVE  TypeOK'
        BY <2>8, GotoType
    <2>1. CASE FindSession(q) \/ CheckSession(q) \/ CheckNew(q) \/ FindToClose(q) \/ LookupSession(q)
        <3>1. PoolTypeOK' /\ UNCHANGED <<phase, reply, puts, sessionIndexed>>
            BY <2>1 DEF FindSession, CheckSession, CheckNew, FindToClose, LookupSession,
                NothingWritten, poolVars, PoolTypeOK
        <3>2. CASE FindSession(q)
            <4>1. ASSUME NEW r \in Runner, found' = [found EXCEPT ![q] = r]
                  PROVE  found' \in [Request -> Runner \cup {None}]
                BY <4>1
            <4>2. FoundFor(cookie[q]) \subseteq Runner
                BY DEF FoundFor
            <4> QED BY <2>6, <2>7, <2>8, <3>1, <3>2, <4>1, <4>2 DEF FindSession
        <3>3. CASE FindToClose(q)
            <4>1. ASSUME NEW r \in Runner, found' = [found EXCEPT ![q] = r]
                  PROVE  found' \in [Request -> Runner \cup {None}]
                BY <4>1
            <4>2. FoundFor(cookie[q]) \subseteq Runner
                BY DEF FoundFor
            <4> QED BY <2>6, <2>7, <2>8, <3>1, <3>3, <4>1, <4>2 DEF FindToClose
        <3>4. CASE LookupSession(q)
            <4>1. \E res \in Runner \cup {None, StoreError} : Finish(q, res, FALSE)
                BY <3>4 DEF LookupSession, FoundFor
            <4> QED BY <3>1, <4>1 DEF Goto, Finish, Steps
        <3>5. CASE CheckSession(q)
            <4>1. found[q] \in Runner \cup {None, NoIdleRunner, StoreError}
                OBVIOUS
            <4> QED BY <2>6, <2>7, <2>8, <3>1, <3>5, <4>1 DEF CheckSession
        <3>6. CASE CheckNew(q)
            <4>1. found[q] \in Runner \cup {None, NoIdleRunner, StoreError}
                OBVIOUS
            <4> QED BY <2>6, <2>7, <2>8, <3>1, <3>6, <4>1 DEF CheckNew
        <3> QED BY <2>1, <3>2, <3>3, <3>4, <3>5, <3>6
    <2>2. CASE DeleteUnhealthy(q) \/ DeleteNew(q) \/ DeleteToClose(q)
        <3>1. DeleteRecord(found[q]) \/ NothingWritten
            BY <2>2 DEF DeleteUnhealthy, DeleteNew, DeleteToClose
        <3>2. PoolTypeOK' /\ sessionIndexed' \in [Runner -> Session \cup {None}]
            BY <3>1, DeleteType, SessionIndexType
            DEF DeleteRecord, NothingWritten, poolVars, PoolTypeOK
        <3>3. UNCHANGED <<phase, reply, puts>>
            BY <2>2, <3>1 DEF DeleteUnhealthy, DeleteNew, DeleteToClose, DeleteRecord, NothingWritten
        <3>4. CASE DeleteUnhealthy(q)
            BY <3>2, <3>3, <3>4 DEF DeleteUnhealthy, Goto, Finish, Steps, ResolveSteps
        <3>5. CASE DeleteNew(q)
            BY <3>2, <3>3, <3>5 DEF DeleteNew, Goto, Finish, Steps, ResolveSteps
        <3>6. CASE DeleteToClose(q)
            BY <3>2, <3>3, <3>6 DEF DeleteToClose, Finish, Goto, Steps
        <3> QED BY <2>2, <3>4, <3>5, <3>6
    <2>3. CASE CallAcquireIdle(q)
        BY <2>3 DEF CallAcquireIdle, Begin, Goto, IdleRecords, PoolTypeOK, Returned,
            Steps, ResolveSteps
    <2>4. CASE NotAssigned(q)
        <3>1. PoolTypeOK'
            BY <2>4 DEF NotAssigned, Exhaust, Fail, PoolTypeOK, Returned
        <3>2. UNCHANGED <<phase, reply, puts, sessionIndexed>>
              /\ \E res \in {NoIdleRunner, StoreError} : Finish(q, res, FALSE)
            BY <2>4 DEF NotAssigned
        <3> QED BY <2>7, <3>1, <3>2
    <2>5. ASSUME NEW r \in Runner, Assigned(q, r) PROVE TypeOK'
        <3>1. PoolTypeOK'
            BY <2>5, AssignType DEF Assigned, Assign, AssignUnseen, Returned
        <3>2. sessionIndexed' \in [Runner -> Session \cup {None}]
            BY <2>5, SessionIndexType DEF Assigned
        <3>3. /\ pc' \in [Request -> Steps]
              /\ found' \in [Request -> Runner \cup {None}]
              /\ created' \in [Request -> BOOLEAN]
              /\ answer' \in [Request -> Runner \cup {None, NoIdleRunner, StoreError}]
              /\ UNCHANGED <<phase, reply, puts, cookie, reassigned>>
            <4>1. \/ UNCHANGED requestVars
                  \/ /\ found' = [found EXCEPT ![q] = r] /\ Goto(q, "checkNew")
                     /\ UNCHANGED <<cookie, created, reassigned, answer>>
                  \/ Finish(q, StoreError, FALSE)
                BY <2>5 DEF Assigned
            <4>2. "checkNew" \in Steps /\ UNCHANGED <<phase, reply, puts>>
                BY <2>5 DEF Assigned, Steps, ResolveSteps
            <4> QED BY <4>1, <4>2, GotoType, FinishType DEF requestVars
        <3> QED BY <3>1, <3>2, <3>3
    <2> QED BY <1>4, <2>1, <2>2, <2>3, <2>4, <2>5 DEF RequestStep
<1> QED BY <1>1, <1>2, <1>3, <1>4 DEF Next

\* The types of every behaviour, for both backends and any set of faults.
THEOREM TypeCorrect == Spec => []TypeOK
<1>1. Init => TypeOK
    BY FaultsAssumption DEF Init, PoolInit, TypeOK, PoolTypeOK, BrokerTypeOK, Returned, Request, Phases, Steps
<1> QED BY <1>1, TypeStep, PTL DEF Spec

-----------------------------------------------------------------------------
(* The matching of sessions and runners.                                   *)

\* A runner, or the store behind it, moves: it may register while no record
\* of it exists, and delete its record once it is past registering.
LEMMA RunnerMoves ==
    ASSUME TypeOK, MatchInv, TypeOK', IndexExact', UNCHANGED requestVars,
           \A r \in Runner : phase[r] # "registering" => phase'[r] # "registering",
           \A r \in Runner :
               \/ record'[r] = record[r]
               \/ record[r] = Absent /\ phase[r] = "registering" /\ record'[r] = Idle
               \/ record'[r] = Absent /\ phase'[r] # "registering"
    PROVE  MatchInv'
<1> USE NamesAssumption DEF Request
<1>1. \A q \in Request, r \in Runner : Holds(q, r)' <=> Holds(q, r)
    BY DEF Holds, requestVars
<1>2. \A q \in Request : RequestSound(q)'
    BY DEF MatchInv, RequestSound, Delivered, requestVars
<1>3. HoldersMatched'
    BY <1>1 DEF MatchInv, HoldersMatched, BoundTo
<1>4. BusyAccounted'
    BY <1>1 DEF MatchInv, BusyAccounted, requestVars
<1> QED BY <1>2, <1>3, <1>4 DEF MatchInv

\* A request moves: the record of an idle runner may become its own, and a
\* record may go if its runner is past registering or is the one it gives up.
LEMMA RequestMoves ==
    ASSUME TypeOK, MatchInv, TypeOK', IndexExact',
           NEW q \in Request, pc[q] # "done", RequestSound(q)',
           \A p \in Request \ {q} :
               /\ pc'[p] = pc[p] /\ cookie'[p] = cookie[p] /\ found'[p] = found[p]
               /\ created'[p] = created[p] /\ answer'[p] = answer[p],
           UNCHANGED phase,
           \A r \in Runner :
               \/ record'[r] = record[r]
               \/ record[r] = Idle /\ record'[r] = q
               \/ record'[r] = Absent /\ (phase[r] # "registering" \/ Holds(q, r)),
           \A r \in Runner : Holds(q, r)' => BoundTo(r, q)' /\ (Holds(q, r) \/ record[r] = Idle),
           \A r \in Runner : record'[r] = q =>
               Holds(q, r)' \/ (pc'[q] = "done" /\ ~created'[q] /\ answer'[q] = StoreError)
    PROVE  MatchInv'
<1> USE NamesAssumption DEF Request
<1>1. \A p \in Request \ {q}, r \in Runner : Holds(p, r)' <=> Holds(p, r)
    BY DEF Holds
<1>2. \A p \in Delivered : p # q /\ p \in Delivered' /\ answer'[p] = answer[p]
    BY DEF MatchInv, RequestSound, Delivered
<1>3. ASSUME NEW p \in Request PROVE RequestSound(p)'
    <2>1. CASE p # q
        BY <2>1, <1>2 DEF MatchInv, RequestSound
    <2> QED BY <2>1
<1>4. HoldersMatched'
    <2> SUFFICES ASSUME NEW p \in Request, NEW r \in Runner, Holds(p, r)'
        PROVE BoundTo(r, p)' /\ \A o \in Request : Holds(o, r)' => o = p
        BY DEF HoldersMatched
    <2>1. CASE p = q
        BY <2>1, <1>1 DEF MatchInv, HoldersMatched, BoundTo
    <2>2. CASE p # q
        <3>1. Holds(p, r) /\ BoundTo(r, p) /\ ~Holds(q, r)
            BY <2>2, <1>1 DEF MatchInv, HoldersMatched
        <3> QED BY <2>2, <3>1, <1>1 DEF MatchInv, HoldersMatched, BoundTo
    <2> QED BY <2>1, <2>2
<1>5. BusyAccounted'
    <2> SUFFICES ASSUME NEW r \in Runner, NEW s \in Session, record'[r] = s
        PROVE Holds(s, r)' \/ (pc'[s] = "done" /\ ~created'[s] /\ answer'[s] = StoreError)
        BY DEF BusyAccounted
    <2>1. CASE s # q
        <3>1. record[r] = s
            BY <2>1
        <3> QED BY <2>1, <3>1, <1>1 DEF MatchInv, BusyAccounted
    <2> QED BY <2>1
<1> QED BY <1>3, <1>4, <1>5 DEF MatchInv

\* Consistent queries: the session-index is exact after every step.
LEMMA IndexStaysExact ==
    ASSUME ~Lagging, MatchInv, SessionIndexFollows \/ NothingWritten
    PROVE  IndexExact'
BY DEF MatchInv, SessionIndexFollows, NothingWritten, poolVars, IndexExact, SessionIn

LEMMA RunnerStepMatch ==
    ASSUME ~Lagging, TypeOK, MatchInv, TypeOK', NEW r \in Runner, RunnerStep(r)
    PROVE  MatchInv'
<1>1. UNCHANGED requestVars /\ (SessionIndexFollows \/ NothingWritten)
    BY DEF RunnerStep, PostRegister, ReceiveReply, LoseReply, Terminate, Deregister, Crash,
        PutRecord, DeleteRecord, requestVars
<1>2. IndexExact'
    BY <1>1, IndexStaysExact
<1> USE DEF TypeOK, PoolTypeOK, BrokerTypeOK
<1>3. CASE PostRegister(r)
    <2>1. \A x \in Runner :
            \/ record'[x] = record[x]
            \/ record[x] = Absent /\ phase[x] = "registering" /\ record'[x] = Idle
        BY <1>3 DEF PostRegister, PutRecord, Register, Write, NothingWritten, poolVars
    <2> QED BY <1>1, <1>2, <1>3, <2>1, RunnerMoves DEF PostRegister
<1>4. CASE ReceiveReply(r) \/ LoseReply(r) \/ Terminate(r) \/ Crash(r)
    <2>1. record' = record /\ \A x \in Runner : phase[x] # "registering" => phase'[x] # "registering"
        BY <1>4 DEF ReceiveReply, LoseReply, Terminate, Crash, NothingWritten, poolVars
    <2> QED BY <1>1, <1>2, <2>1, RunnerMoves
<1>5. CASE Deregister(r)
    <2>1. /\ \A x \in Runner : phase[x] # "registering" => phase'[x] # "registering"
          /\ \A x \in Runner :
               record'[x] = record[x] \/ (record'[x] = Absent /\ phase'[x] # "registering")
        BY <1>5 DEF Deregister, DeleteRecord, Delete, Write, NothingWritten, poolVars
    <2> QED BY <1>1, <1>2, <2>1, RunnerMoves
<1> QED BY <1>3, <1>4, <1>5 DEF RunnerStep

\* A consistent session-index finds the runner a delivered session is on.
LEMMA FoundIsDelivered ==
    ASSUME TypeOK, MatchInv, NEW k \in Delivered, NEW r \in FoundFor(k)
    PROVE  r \in Runner /\ r = answer[k]
<1>1. r \in Runner /\ record[r] = k
    BY NamesAssumption DEF MatchInv, IndexExact, SessionIn, FoundFor, Delivered, TypeOK,
        BrokerTypeOK, Returned
<1>2. Holds(k, r)
    BY <1>1 DEF MatchInv, BusyAccounted, Delivered
<1> QED BY <1>1, <1>2 DEF Holds, Delivered

\* A step of a request that writes nothing.
LEMMA RequestReads ==
    ASSUME ~Lagging, TypeOK, MatchInv, TypeOK', NEW q \in Request, pc[q] # "done",
           NothingWritten, UNCHANGED phase, RequestSound(q)',
           \A p \in Request \ {q} :
               /\ pc'[p] = pc[p] /\ cookie'[p] = cookie[p] /\ found'[p] = found[p]
               /\ created'[p] = created[p] /\ answer'[p] = answer[p],
           \A r \in Runner : Holds(q, r)' => Holds(q, r),
           \A r \in Runner : Holds(q, r) =>
               Holds(q, r)' \/ (pc'[q] = "done" /\ ~created'[q] /\ answer'[q] = StoreError)
    PROVE  MatchInv'
<1>1. IndexExact' /\ record' = record
    BY IndexStaysExact DEF NothingWritten, poolVars
<1>2. \A r \in Runner : Holds(q, r)' => BoundTo(r, q)'
    BY <1>1 DEF MatchInv, HoldersMatched, BoundTo
<1>3. \A r \in Runner : record'[r] = q => Holds(q, r)
    BY <1>1 DEF MatchInv, BusyAccounted, Request
<1> QED BY <1>1, <1>2, <1>3, RequestMoves

\* The searches of a request: it finds the runner its cookie was delivered with.
LEMMA SearchMatch ==
    ASSUME ~Lagging, TypeOK, MatchInv, TypeOK', NEW q \in Request,
           FindSession(q) \/ FindToClose(q) \/ LookupSession(q)
    PROVE  MatchInv'
<1> USE NamesAssumption DEF TypeOK, BrokerTypeOK, Request, Goto, Finish
<1>1. pc[q] \in {"find", "findToClose", "lookup"} /\ NothingWritten /\ UNCHANGED <<phase, cookie>>
    BY DEF FindSession, FindToClose, LookupSession
<1>2. cookie[q] \in Delivered /\ ~created[q] /\ answer[q] = None
    BY <1>1 DEF MatchInv, RequestSound
<1>3. \A p \in Request \ {q} :
        /\ pc'[p] = pc[p] /\ cookie'[p] = cookie[p] /\ found'[p] = found[p]
        /\ created'[p] = created[p] /\ answer'[p] = answer[p]
    BY DEF FindSession, FindToClose, LookupSession
<1>4. cookie[q] # q /\ cookie'[q] \in Delivered' /\ answer'[cookie[q]] = answer[cookie[q]]
    BY <1>1, <1>2, <1>3 DEF Delivered
<1>5. ~created'[q] /\ pc'[q] \notin {"checkNew", "deleteNew"}
    BY <1>2 DEF FindSession, FindToClose, LookupSession
<1>6. /\ pc'[q] \in {"check", "deleteToClose"} => found'[q] \in FoundFor(cookie[q])
      /\ pc'[q] \in {"check", "deleteToClose", "acquire", "done"}
      /\ pc'[q] # "done" => answer'[q] = None
      /\ answer'[q] \in Runner => answer'[q] \in FoundFor(cookie[q])
    BY <1>2 DEF FindSession, FindToClose, LookupSession, Returned
<1>7. RequestSound(q)'
    <2>1. \A r \in FoundFor(cookie[q]) : r \in Runner /\ r = answer'[cookie'[q]]
        BY <1>1, <1>2, <1>4, FoundIsDelivered
    <2> QED BY <1>4, <1>5, <1>6, <2>1 DEF RequestSound
<1>8. \A r \in Runner : ~Holds(q, r) /\ ~Holds(q, r)'
    BY <1>1, <1>2, <1>5 DEF Holds
<1> QED BY <1>1, <1>3, <1>7, <1>8, RequestReads

\* The health checks: a runner that answers is past registering.
LEMMA CheckMatch ==
    ASSUME ~Lagging, TypeOK, MatchInv, TypeOK', NEW q \in Request,
           CheckSession(q) \/ CheckNew(q)
    PROVE  MatchInv'
<1> USE NamesAssumption DEF TypeOK, BrokerTypeOK, Request, Goto, Finish
<1>1. pc[q] \in {"check", "checkNew"} /\ NothingWritten /\ UNCHANGED <<phase, cookie, found>>
    BY DEF CheckSession, CheckNew
<1>2. found[q] \in Runner /\ ~created[q] /\ answer[q] = None
    BY <1>1 DEF MatchInv, RequestSound
<1>3. \A p \in Request \ {q} :
        /\ pc'[p] = pc[p] /\ cookie'[p] = cookie[p] /\ found'[p] = found[p]
        /\ created'[p] = created[p] /\ answer'[p] = answer[p]
    BY DEF CheckSession, CheckNew
<1>4. CASE CheckSession(q)
    <2>1. cookie[q] \in Delivered /\ found[q] = answer[cookie[q]]
        BY <1>4 DEF CheckSession, MatchInv, RequestSound
    <2>2. cookie[q] # q /\ cookie'[q] \in Delivered' /\ answer'[cookie[q]] = answer[cookie[q]]
        BY <1>1, <1>3, <2>1 DEF Delivered
    <2>3. /\ pc'[q] \in {"delete", "done"} /\ ~created'[q]
          /\ pc'[q] # "done" => answer'[q] = None
          /\ answer'[q] \in Runner => answer'[q] = found[q]
        BY <1>2, <1>4 DEF CheckSession, Returned
    <2>4. RequestSound(q)'
        BY <1>1, <1>2, <2>1, <2>2, <2>3 DEF RequestSound
    <2>5. \A r \in Runner : ~Holds(q, r) /\ ~Holds(q, r)'
        BY <1>2, <1>4, <2>3 DEF Holds, CheckSession
    <2> QED BY <1>1, <1>3, <2>4, <2>5, RequestReads
<1>5. CASE CheckNew(q)
    <2>1. \/ pc'[q] = "done" /\ created'[q] /\ answer'[q] = found[q] /\ phase[found[q]] # "registering"
          \/ pc'[q] = "done" /\ ~created'[q] /\ answer'[q] = StoreError
          \/ pc'[q] = "deleteNew" /\ ~created'[q] /\ answer'[q] = None
        BY <1>2, <1>5 DEF CheckNew, Healthy, Answering
    <2>2. RequestSound(q)'
        BY <1>1, <1>2, <2>1 DEF RequestSound, Returned
    <2>3. \A r \in Runner : Holds(q, r) <=> r = found[q]
        BY <1>2, <1>5 DEF Holds, CheckNew
    <2>4. \A r \in Runner : Holds(q, r)' => r = found[q]
        BY <1>1, <2>1 DEF Holds
    <2>5. \A r \in Runner : Holds(q, r) =>
            Holds(q, r)' \/ (pc'[q] = "done" /\ ~created'[q] /\ answer'[q] = StoreError)
        BY <1>1, <2>1, <2>3 DEF Holds
    <2> QED BY <1>1, <1>3, <2>2, <2>3, <2>4, <2>5, RequestReads
<1> QED BY <1>4, <1>5

\* The deletes: of the runner of a delivered session, which is past
\* registering, or of the new runner the request itself holds.
LEMMA DeleteMatch ==
    ASSUME ~Lagging, TypeOK, MatchInv, TypeOK', NEW q \in Request,
           DeleteUnhealthy(q) \/ DeleteToClose(q) \/ DeleteNew(q)
    PROVE  MatchInv'
<1> USE NamesAssumption DEF TypeOK, BrokerTypeOK, Request, Goto, Finish
<1>1. /\ pc[q] \in {"delete", "deleteToClose", "deleteNew"}
      /\ DeleteRecord(found[q]) \/ NothingWritten
      /\ UNCHANGED <<phase, cookie, found>>
    BY DEF DeleteUnhealthy, DeleteToClose, DeleteNew
<1>2. found[q] \in Runner /\ ~created[q] /\ answer[q] = None
    BY <1>1 DEF MatchInv, RequestSound
<1>3. \A p \in Request \ {q} :
        /\ pc'[p] = pc[p] /\ cookie'[p] = cookie[p] /\ found'[p] = found[p]
        /\ created'[p] = created[p] /\ answer'[p] = answer[p]
    BY DEF DeleteUnhealthy, DeleteToClose, DeleteNew
<1>4. IndexExact'
    BY <1>1, IndexStaysExact DEF DeleteRecord
<1>5. /\ pc'[q] \in {"acquire", "done"} /\ ~created'[q] /\ answer'[q] \notin Runner
      /\ pc'[q] # "done" => answer'[q] = None
    BY <1>2 DEF DeleteUnhealthy, DeleteToClose, DeleteNew, Returned
<1>6. RequestSound(q)'
    BY <1>5 DEF RequestSound
<1>7. \A r \in Runner : ~Holds(q, r)'
    BY <1>5 DEF Holds
<1>8. \A r \in Runner : record'[r] = record[r] \/ (r = found[q] /\ record'[r] = Absent)
    BY <1>1 DEF DeleteRecord, Delete, Write, NothingWritten, poolVars, PoolTypeOK
<1>9. phase[found[q]] # "registering" \/ (pc[q] = "deleteNew" /\ Holds(q, found[q]))
    <2>1. CASE pc[q] = "deleteNew"
        BY <2>1 DEF Holds
    <2>2. CASE pc[q] \in {"delete", "deleteToClose"}
        BY <2>2 DEF MatchInv, RequestSound, Delivered
    <2> QED BY <1>1, <2>1, <2>2
<1>10. ASSUME NEW r \in Runner, record'[r] = q
       PROVE  pc'[q] = "done" /\ ~created'[q] /\ answer'[q] = StoreError
    <2>1. record[r] = q
        BY <1>8, <1>10
    <2>2. Holds(q, r)
        BY <1>1, <2>1 DEF MatchInv, BusyAccounted
    <2>3. pc[q] = "deleteNew" /\ r = found[q]
        BY <1>1, <1>2, <2>2 DEF Holds
    <2>4. DeleteNew(q) /\ ~DeleteRecord(found[q])
        BY <1>10, <2>3 DEF DeleteUnhealthy, DeleteToClose, DeleteRecord, Delete, Write, PoolTypeOK
    <2> QED BY <1>2, <2>4 DEF DeleteNew
<1> QED BY <1>1, <1>3, <1>4, <1>6, <1>7, <1>8, <1>9, <1>10, RequestMoves

\* createSession: a runner that is assigned was held by nobody.
LEMMA AcquireMatch ==
    ASSUME ~Lagging, "resend" \notin Faults, TypeOK, MatchInv, TypeOK', NEW q \in Request,
           CallAcquireIdle(q) \/ NotAssigned(q) \/ \E r \in Runner : Assigned(q, r)
    PROVE  MatchInv'
<1> USE NamesAssumption DEF TypeOK, BrokerTypeOK, Request, Goto, Finish
<1>1. pc[q] \in {"acquire", "acquiring"} /\ UNCHANGED <<phase, cookie>>
    BY DEF CallAcquireIdle, NotAssigned, Assigned, requestVars
<1>2. ~created[q] /\ answer[q] = None /\ \A r \in Runner : ~Holds(q, r) /\ record[r] # q
    BY <1>1 DEF MatchInv, RequestSound, Holds, BusyAccounted
<1>3. \A p \in Request \ {q} :
        /\ pc'[p] = pc[p] /\ cookie'[p] = cookie[p] /\ found'[p] = found[p]
        /\ created'[p] = created[p] /\ answer'[p] = answer[p]
    BY DEF CallAcquireIdle, NotAssigned, Assigned, requestVars
<1>4. CASE CallAcquireIdle(q) \/ NotAssigned(q)
    <2>1. record' = record /\ sessionIndexed' = sessionIndexed
        BY <1>4 DEF CallAcquireIdle, NotAssigned, Begin, Exhaust, Fail
    <2>2. IndexExact'
        BY <2>1 DEF MatchInv, IndexExact, SessionIn
    <2>3. /\ pc'[q] \in {"acquiring", "done"} /\ ~created'[q] /\ answer'[q] \notin Runner
          /\ pc'[q] # "done" => answer'[q] = None
        BY <1>2, <1>4 DEF CallAcquireIdle, NotAssigned, Returned
    <2>4. RequestSound(q)' /\ \A r \in Runner : ~Holds(q, r)'
        BY <2>3 DEF RequestSound, Holds
    <2> QED BY <1>1, <1>2, <1>3, <2>1, <2>2, <2>4, RequestMoves
<1>5. ASSUME NEW r \in Runner, Assigned(q, r) PROVE MatchInv'
    <2>1. record[r] = Idle /\ record' = [record EXCEPT ![r] = q]
        BY <1>5 DEF Assigned, Assign, AssignUnseen, Write
    <2>2. IndexExact'
        BY <1>5, IndexStaysExact DEF Assigned
    <2>3. \/ pc'[q] = "checkNew" /\ found'[q] = r /\ ~created'[q] /\ answer'[q] = None
          \/ pc'[q] = "done" /\ ~created'[q] /\ answer'[q] = StoreError
        BY <1>2, <1>5 DEF Assigned
    <2>4. RequestSound(q)'
        BY <2>3 DEF RequestSound, Returned
    <2>5. /\ \A x \in Runner : Holds(q, x)' => x = r
          /\ Holds(q, r)' \/ (pc'[q] = "done" /\ ~created'[q] /\ answer'[q] = StoreError)
        BY <2>3 DEF Holds
    <2>6. \A x \in Runner : record'[x] = record[x] \/ (x = r /\ record'[x] = q)
        BY <2>1 DEF PoolTypeOK
    <2>7. BoundTo(r, q)'
        BY <2>1 DEF BoundTo, PoolTypeOK
    <2> QED BY <1>1, <1>2, <1>3, <2>1, <2>2, <2>4, <2>5, <2>6, <2>7, RequestMoves
<1> QED BY <1>4, <1>5

\* A request arrives, with a delivered session or none.
LEMMA ArriveMatch ==
    ASSUME ~Lagging, TypeOK, MatchInv, TypeOK', NEW q \in Request, NEW k \in Delivered \cup {None},
           ResolveSession(q, k) \/ CloseSession(q, k)
    PROVE  MatchInv'
<1> USE NamesAssumption DEF TypeOK, BrokerTypeOK, Request, Goto
<1>1. pc[q] = "new" /\ cookie'[q] = k /\ NothingWritten /\ UNCHANGED <<phase, found, created, answer>>
    BY DEF ResolveSession, CloseSession
<1>2. \A p \in Request \ {q} :
        /\ pc'[p] = pc[p] /\ cookie'[p] = cookie[p] /\ found'[p] = found[p]
        /\ created'[p] = created[p] /\ answer'[p] = answer[p]
    BY <1>1 DEF ResolveSession, CloseSession
<1>3. pc'[q] \in {"find", "acquire", "findToClose", "lookup"} /\ (pc'[q] # "acquire" => k # None)
    BY DEF ResolveSession, CloseSession
<1>4. ~created[q] /\ answer[q] = None
    BY <1>1 DEF MatchInv, RequestSound
<1>5. k # None => k \in Delivered'
    BY <1>1, <1>2 DEF Delivered
<1>6. RequestSound(q)'
    BY <1>1, <1>3, <1>4, <1>5 DEF RequestSound, Returned
<1>7. \A r \in Runner : ~Holds(q, r) /\ ~Holds(q, r)'
    BY <1>1, <1>3, <1>4 DEF Holds
<1> QED BY <1>1, <1>2, <1>6, <1>7, RequestReads

LEMMA MatchStep ==
    ASSUME ~Lagging, "resend" \notin Faults, TypeOK, MatchInv, [Next]_vars
    PROVE  MatchInv'
<1>1. TypeOK'
    BY TypeStep
<1>2. CASE UNCHANGED vars
    BY <1>2 DEF vars, poolVars, brokerVars, MatchInv, IndexExact, SessionIn, RequestSound, Delivered,
        HoldersMatched, Holds, BoundTo, BusyAccounted
<1>3. ASSUME NEW r \in Runner, RunnerStep(r) \/ ReindexState(r) \/ ReindexSession(r)
      PROVE  MatchInv'
    BY <1>1, <1>3, RunnerStepMatch DEF ReindexState, Reindex, ReindexSession
<1>4. ASSUME NEW q \in Request, RequestStep(q)
      PROVE  MatchInv'
    BY <1>1, <1>4, SearchMatch, CheckMatch, DeleteMatch, AcquireMatch DEF RequestStep
<1>5. ASSUME NEW q \in Request, NEW k \in Delivered \cup {None},
             ResolveSession(q, k) \/ CloseSession(q, k)
      PROVE  MatchInv'
    BY <1>1, <1>5, ArriveMatch
<1> QED BY <1>2, <1>3, <1>4, <1>5 DEF Next

LEMMA MatchInit == Init => TypeOK /\ MatchInv
<1> SUFFICES ASSUME Init PROVE TypeOK /\ MatchInv
    OBVIOUS
<1> USE NamesAssumption DEF Init, PoolInit, Request, Returned
<1>1. TypeOK
    BY FaultsAssumption DEF TypeOK, PoolTypeOK, BrokerTypeOK, Phases, Steps
<1>2. IndexExact /\ BusyAccounted
    BY DEF IndexExact, SessionIn, BusyAccounted
<1>3. \A q \in Request : RequestSound(q)
    BY DEF RequestSound
<1>4. HoldersMatched
    BY DEF HoldersMatched, Holds
<1> QED BY <1>1, <1>2, <1>3, <1>4 DEF MatchInv

\* Sessions and runners are matched one to one at every moment, whatever
\* requests, runners and the store's errors do (service.go, register.go).
THEOREM Matched ==
    ASSUME ~Lagging, "resend" \notin Faults
    PROVE  Spec => []MatchInv
<1>1. TypeOK /\ MatchInv /\ [Next]_vars => TypeOK' /\ MatchInv'
    BY TypeStep, MatchStep
<1> QED BY <1>1, MatchInit, PTL DEF Spec

\* The runner a request was sent to is the runner of its session.
LEMMA AnswerOfSession ==
    ASSUME TypeOK, MatchInv, NEW q \in Request, answer[q] \in Runner
    PROVE  /\ SessionOf(q) \in Delivered
           /\ answer[q] = answer[SessionOf(q)]
BY DEF MatchInv, RequestSound, SessionOf, Delivered, Request, TypeOK, BrokerTypeOK

\* No runner serves two sessions: two requests sent to one runner were sent
\* there for one session (service.go: a failed runner is deleted, not released).
THEOREM Exclusive ==
    ASSUME ~Lagging, "resend" \notin Faults
    PROVE  Spec => []ExclusiveTenancy
<1>1. TypeOK /\ MatchInv => ExclusiveTenancy
    <2> SUFFICES ASSUME TypeOK, MatchInv, NEW p \in Request, NEW q \in Request,
                        answer[p] \in Runner, answer[q] = answer[p]
                 PROVE  SessionOf(p) = SessionOf(q)
        BY DEF ExclusiveTenancy
    <2>1. Holds(SessionOf(p), answer[p]) /\ Holds(SessionOf(q), answer[p])
        BY AnswerOfSession DEF Holds, Delivered
    <2>2. SessionOf(p) \in Request /\ SessionOf(q) \in Request
        BY AnswerOfSession DEF Delivered, Request
    <2> QED BY <2>1, <2>2 DEF MatchInv, HoldersMatched
<1> QED BY <1>1, TypeCorrect, Matched, PTL

\* Every request of a session that is sent to a runner is sent to the same one.
THEOREM Sticks ==
    ASSUME ~Lagging, "resend" \notin Faults
    PROVE  Spec => []SessionSticks
<1>1. TypeOK /\ MatchInv => SessionSticks
    BY AnswerOfSession DEF SessionSticks
<1> QED BY <1>1, TypeCorrect, Matched, PTL

\* Only a request that failed half-way leaves a runner busy for nobody.
THEOREM LeaksOnlyAfterFailure ==
    ASSUME ~Lagging, "resend" \notin Faults
    PROVE  Spec => []LeakOnlyAfterFailure
<1>1. MatchInv => LeakOnlyAfterFailure
    BY DEF LeakOnlyAfterFailure, MatchInv, BusyAccounted, Holds
<1> QED BY <1>1, Matched, PTL

\* A request's step moves its own program counter only.
LEMMA StepMovesOne ==
    ASSUME TypeOK, NEW q \in Request, RequestStep(q)
    PROVE  \E step : pc' = [pc EXCEPT ![q] = step]
<1> USE DEF Goto, Finish, TypeOK, BrokerTypeOK
<1>1. CASE FindSession(q) \/ FindToClose(q) \/ LookupSession(q)
    BY <1>1 DEF FindSession, FindToClose, LookupSession
<1>2. CASE CheckSession(q) \/ CheckNew(q)
    BY <1>2 DEF CheckSession, CheckNew
<1>3. CASE DeleteUnhealthy(q) \/ DeleteNew(q) \/ DeleteToClose(q)
    BY <1>3 DEF DeleteUnhealthy, DeleteNew, DeleteToClose
<1>4. CASE CallAcquireIdle(q) \/ NotAssigned(q) \/ \E r \in Runner : Assigned(q, r)
    <2>1. pc' = pc \/ \E step : pc' = [pc EXCEPT ![q] = step]
        BY <1>4 DEF CallAcquireIdle, NotAssigned, Assigned, requestVars
    <2>2. pc = [pc EXCEPT ![q] = pc[q]]
        OBVIOUS
    <2> QED BY <2>1, <2>2
<1> QED BY <1>1, <1>2, <1>3, <1>4 DEF RequestStep

\* A session that has a record is found: it is replaced by a new one only if
\* its record is gone (FindBySessionID of firestore.go).
THEOREM FindSees ==
    ASSUME ~Lagging, "resend" \notin Faults
    PROVE  Spec => FindSeesSession
<1> DEFINE Sees == \A q \in Request :
        pc[q] = "find" /\ pc'[q] = "acquire" => \A r \in Runner : record[r] # cookie[q]
<1>1. ASSUME TypeOK, MatchInv, Next PROVE Sees
    <2> SUFFICES ASSUME NEW q \in Request, pc[q] = "find", pc'[q] = "acquire"
                 PROVE  \A r \in Runner : record[r] # cookie[q]
        OBVIOUS
    <2> USE DEF Goto, Finish, TypeOK, BrokerTypeOK, Request
    <2>1. \A r \in Runner : ~RunnerStep(r) /\ ~ReindexState(r) /\ ~ReindexSession(r)
        BY DEF RunnerStep, PostRegister, ReceiveReply, LoseReply, Terminate, Deregister, Crash,
            ReindexState, ReindexSession, brokerVars, requestVars
    <2>2. ASSUME NEW p \in Request, NEW k \in Delivered \cup {None},
                 ResolveSession(p, k) \/ CloseSession(p, k)
          PROVE  FALSE
        <3>1. pc[p] = "new" /\ \E step : pc' = [pc EXCEPT ![p] = step]
            BY <2>2 DEF ResolveSession, CloseSession
        <3> QED BY <1>1, <3>1
    <2>3. PICK p \in Request : RequestStep(p)
        BY <1>1, <2>1, <2>2 DEF Next
    <2>4. p = q
        <3>1. \E step : pc' = [pc EXCEPT ![p] = step]
            BY <1>1, <2>3, StepMovesOne
        <3> QED BY <1>1, <3>1
    <2>5. FindSession(q)
        BY <2>3, <2>4 DEF RequestStep, CheckSession, DeleteUnhealthy, CallAcquireIdle,
            NotAssigned, Assigned, CheckNew, DeleteNew, FindToClose, DeleteToClose, LookupSession
    <2>6. cookie[q] \in Session /\ FoundFor(cookie[q]) = {}
        BY <1>1, <2>5 DEF FindSession, MatchInv, RequestSound, Delivered
    <2> QED BY <1>1, <2>6, NamesAssumption DEF FoundFor, MatchInv, IndexExact, SessionIn
<1>2. TypeOK /\ MatchInv /\ [Next]_vars => [Sees]_vars
    BY <1>1
<1> QED BY <1>2, TypeCorrect, Matched, PTL DEF Spec, FindSeesSession

-----------------------------------------------------------------------------
(* A replaced session.                                                     *)

\* Once a request has replaced its session, that session's runner has no
\* record, and the process is past registering again.
ReplacedGone ==
    \A q \in Request :
        /\ pc[q] \in {"new", "find", "check", "delete"} => ~reassigned[q]
        /\ reassigned[q] => cookie[q] \in Delivered /\ record[answer[cookie[q]]] = Absent

LEMMA ReplacedStep ==
    ASSUME TypeOK, MatchInv, ReplacedGone, Next
    PROVE  ReplacedGone'
<1> USE NamesAssumption DEF TypeOK, PoolTypeOK, BrokerTypeOK, Request
<1>1. \A k \in Delivered : answer[k] \in Runner /\ phase[answer[k]] # "registering"
    BY DEF MatchInv, RequestSound, Delivered
<1>2. ASSUME NEW r \in Runner, RunnerStep(r) \/ ReindexState(r) \/ ReindexSession(r)
      PROVE  ReplacedGone'
    <2>1. UNCHANGED requestVars
        BY <1>2 DEF RunnerStep, PostRegister, ReceiveReply, LoseReply, Terminate, Deregister, Crash,
            ReindexState, ReindexSession, brokerVars, requestVars
    <2>2. \A x \in Runner : record[x] = Absent /\ phase[x] # "registering" => record'[x] = Absent
        BY <1>2 DEF RunnerStep, PostRegister, ReceiveReply, LoseReply, Terminate, Deregister, Crash,
            ReindexState, ReindexSession, NothingWritten, poolVars, Reindex, PutRecord, Register, DeleteRecord,
            Delete, Write
    <2> QED BY <1>1, <2>1, <2>2 DEF ReplacedGone, Delivered, requestVars
<1>3. ASSUME NEW q \in Request, NEW k \in Delivered \cup {None},
             ResolveSession(q, k) \/ CloseSession(q, k)
      PROVE  ReplacedGone'
    <2>1. /\ pc[q] = "new" /\ \E step : pc' = [pc EXCEPT ![q] = step]
          /\ cookie' = [cookie EXCEPT ![q] = k]
          /\ NothingWritten /\ UNCHANGED <<reassigned, created, answer>>
        BY <1>3 DEF ResolveSession, CloseSession, Goto
    <2>2. record' = record /\ ~reassigned[q] /\ ~reassigned'[q]
        BY <2>1 DEF ReplacedGone, NothingWritten, poolVars
    <2>3. Delivered \subseteq Delivered'
        BY <2>1 DEF Delivered
    <2> QED BY <2>1, <2>2, <2>3 DEF ReplacedGone
<1>4. ASSUME NEW q \in Request, RequestStep(q)
      PROVE  ReplacedGone'
    <2>1. pc[q] \notin {"new", "done"} /\ UNCHANGED cookie
        BY <1>4 DEF RequestStep, FindSession, CheckSession, DeleteUnhealthy, CallAcquireIdle,
            NotAssigned, Assigned, CheckNew, DeleteNew, FindToClose, DeleteToClose, LookupSession,
            Finish, requestVars
    <2>2. /\ \A p \in Request \ {q} : pc'[p] = pc[p]
          /\ \A p \in Request \ {q} : answer'[p] = answer[p] /\ created'[p] = created[p]
        <3>1. \A p \in Request \ {q} : answer'[p] = answer[p] /\ created'[p] = created[p]
            BY <1>4 DEF RequestStep, FindSession, CheckSession, DeleteUnhealthy, CallAcquireIdle,
                NotAssigned, Assigned, CheckNew, DeleteNew, FindToClose, DeleteToClose, LookupSession,
                Finish, requestVars
        <3> QED BY <1>4, <3>1, StepMovesOne
    <2>3. \A k \in Delivered : k \in Delivered' /\ answer'[k] = answer[k]
        BY <2>1, <2>2 DEF Delivered
    <2>4. \A x \in Runner : record[x] = Absent => record'[x] = Absent
        BY <1>4 DEF RequestStep, FindSession, CheckSession, DeleteUnhealthy, CallAcquireIdle,
            NotAssigned, Assigned, CheckNew, DeleteNew, FindToClose, DeleteToClose, LookupSession,
            NothingWritten, poolVars, DeleteRecord, Delete, Begin, Exhaust, Fail, Assign,
            AssignUnseen, Write
    <2>5. CASE reassigned' = reassigned
        <3>1. pc'[q] \in {"new", "find", "check", "delete"} => pc[q] \in {"find", "check"}
            BY <1>4 DEF RequestStep, FindSession, CheckSession, DeleteUnhealthy, CallAcquireIdle,
                NotAssigned, Assigned, CheckNew, DeleteNew, FindToClose, DeleteToClose, LookupSession,
                Goto, Finish, requestVars
        <3> QED BY <1>1, <2>1, <2>2, <2>3, <2>4, <2>5, <3>1 DEF ReplacedGone
    <2>6. CASE reassigned' # reassigned
        <3>1. /\ pc[q] = "delete" /\ pc'[q] = "acquire" /\ DeleteRecord(found[q])
              /\ reassigned' = [reassigned EXCEPT ![q] = TRUE]
            BY <1>4, <2>6 DEF RequestStep, FindSession, CheckSession, DeleteUnhealthy, CallAcquireIdle,
                NotAssigned, Assigned, CheckNew, DeleteNew, FindToClose, DeleteToClose, LookupSession,
                Goto, Finish, requestVars
        <3>2. cookie[q] \in Delivered /\ found[q] = answer[cookie[q]] /\ found[q] \in Runner
            BY <3>1 DEF MatchInv, RequestSound
        <3>3. record'[found[q]] = Absent
            BY <3>1, <3>2 DEF DeleteRecord, Delete, Write
        <3> QED BY <1>1, <2>1, <2>2, <2>3, <2>4, <3>1, <3>2, <3>3 DEF ReplacedGone
    <2> QED BY <2>5, <2>6
<1> QED BY <1>2, <1>3, <1>4 DEF Next

\* A client that is told its session was replaced can never meet the old one
\* again: no record says so, now or later (service.go, ResolveSession).
THEOREM ReplacedForGood ==
    ASSUME ~Lagging, "resend" \notin Faults
    PROVE  Spec => []ReassignedIsFinal
<1>1. Init => ReplacedGone
    BY DEF Init, ReplacedGone
<1>2. TypeOK /\ MatchInv /\ ReplacedGone /\ [Next]_vars => ReplacedGone'
    <2>1. CASE UNCHANGED vars
        BY <2>1 DEF vars, poolVars, brokerVars, ReplacedGone, Delivered
    <2> QED BY <2>1, ReplacedStep
<1>3. TypeOK /\ MatchInv /\ ReplacedGone => ReassignedIsFinal
    BY NamesAssumption DEF ReassignedIsFinal, ReplacedGone, MatchInv, BusyAccounted, Holds, Delivered,
        Request, TypeOK, BrokerTypeOK
<1> QED BY <1>1, <1>2, <1>3, TypeCorrect, Matched, PTL DEF Spec

-----------------------------------------------------------------------------
(* Trailing indexes and resent writes (DynamoDB).                          *)

\* Request q is sent to r for session s, or will be if a check succeeds.
Uses(q, r, s) ==
    \/ pc[q] = "check" /\ found[q] = r /\ cookie[q] = s
    \/ pc[q] = "checkNew" /\ found[q] = r /\ q = s
    \/ answer[q] = r /\ SessionOf(q) = s

\* Whatever still says that r is the runner of s: the table, the index, which
\* may be late, or a request.
Tied(r, s) == record[r] = s \/ sessionIndexed[r] = s \/ \E q \in Request : Uses(q, r, s)

\* A request has its session before it has a runner.
Settled ==
    \A q \in Request :
        /\ pc[q] # "done" => answer[q] = None /\ ~created[q]
        /\ pc[q] \in {"find", "check", "lookup"} => cookie[q] \in Session
        /\ answer[q] \in Runner => SessionOf(q) \in Session

\* The sessions tied to r, and the put of r that is not given away yet.
Ties(r) == {s \in Session : Tied(r, s)}
Unspent(r) == IF record[r] = Idle THEN 1 ELSE 0

\* Every session tied to a runner, now or by a late index entry, has used up
\* one put of its record, and the idle record will use up another one.
PutsCover ==
    /\ Settled
    /\ \A r \in Runner : IsFiniteSet(Ties(r)) /\ Cardinality(Ties(r)) + Unspent(r) <= puts[r]

\* A step that ties a runner to a session only by taking it while it is idle,
\* and makes it idle only by a put.
LEMMA TieStep ==
    ASSUME TypeOK, TypeOK', PutsCover, Settled',
           \A r \in Runner, s \in Session : record'[r] = s => record[r] \in {s, Idle},
           \A r \in Runner, s \in Session : sessionIndexed'[r] = s =>
               sessionIndexed[r] = s \/ record[r] = s \/ record'[r] = s,
           \A q \in Request, r \in Runner, s \in Session : Uses(q, r, s)' =>
               Uses(q, r, s) \/ sessionIndexed[r] = s \/ record'[r] = s,
           \A r \in Runner : puts'[r] >= puts[r],
           \A r \in Runner : record'[r] = Idle => record[r] = Idle \/ puts'[r] > puts[r]
    PROVE  PutsCover'
<1>1. ASSUME NEW r \in Runner, NEW s \in Session, Tied(r, s)'
      PROVE  Tied(r, s) \/ (record[r] = Idle /\ record'[r] = s)
    BY <1>1 DEF Tied
<1> SUFFICES ASSUME NEW r \in Runner
             PROVE  IsFiniteSet(Ties(r))' /\ (Cardinality(Ties(r)) + Unspent(r) <= puts[r])'
    BY DEF PutsCover
<1>2. IsFiniteSet(Ties(r)) /\ Cardinality(Ties(r)) \in Nat /\ Cardinality(Ties(r)) + Unspent(r) <= puts[r]
    BY FS_CardinalityType DEF PutsCover
<1>3. puts[r] \in Nat /\ puts'[r] \in Nat /\ puts'[r] >= puts[r]
    BY FaultsAssumption DEF TypeOK, BrokerTypeOK
<1>4. CASE record[r] = Idle /\ record'[r] \in Session
    <2>1. Ties(r)' \subseteq Ties(r) \cup {record'[r]}
        BY <1>1, <1>4 DEF Ties
    <2>2. /\ IsFiniteSet(Ties(r) \cup {record'[r]})
          /\ Cardinality(Ties(r) \cup {record'[r]}) \in Nat
          /\ Cardinality(Ties(r) \cup {record'[r]}) <= Cardinality(Ties(r)) + 1
        <3>1. IsFiniteSet(Ties(r) \cup {record'[r]})
            BY <1>2, FS_AddElement
        <3>2. Cardinality(Ties(r) \cup {record'[r]}) =
                IF record'[r] \in Ties(r) THEN Cardinality(Ties(r)) ELSE Cardinality(Ties(r)) + 1
            BY <1>2, FS_AddElement
        <3>3. Cardinality(Ties(r) \cup {record'[r]}) \in Nat
            BY <3>1, FS_CardinalityType
        <3> QED BY <1>2, <3>1, <3>2, <3>3
    <2>3. IsFiniteSet(Ties(r)') /\ Cardinality(Ties(r)') \in Nat /\ Cardinality(Ties(r)') <= Cardinality(Ties(r)) + 1
        BY <2>1, <2>2, FS_Subset, FS_CardinalityType
    <2>4. Unspent(r) = 1 /\ Unspent(r)' = 0
        BY <1>4, NamesAssumption DEF Unspent
    <2> QED BY <1>2, <1>3, <2>3, <2>4
<1>5. CASE ~(record[r] = Idle /\ record'[r] \in Session)
    <2>1. Ties(r)' \subseteq Ties(r)
        BY <1>1, <1>5 DEF Ties
    <2>2. IsFiniteSet(Ties(r)') /\ Cardinality(Ties(r)') \in Nat /\ Cardinality(Ties(r)') <= Cardinality(Ties(r))
        BY <1>2, <2>1, FS_Subset, FS_CardinalityType
    <2>3. Unspent(r) \in {0, 1} /\ Unspent(r)' \in {0, 1} /\ Unspent(r)' - Unspent(r) <= puts'[r] - puts[r]
        BY <1>3 DEF Unspent
    <2> QED BY <1>2, <1>3, <2>2, <2>3
<1> QED BY <1>4, <1>5

\* What the calls of the store do to a record and its place in the index.
LEMMA IndexTies ==
    ASSUME TypeOK, NEW r \in Runner, NEW s \in Session, sessionIndexed'[r] = s,
           SessionIndexFollows \/ NothingWritten
    PROVE  sessionIndexed[r] = s \/ record'[r] = s
BY NamesAssumption DEF SessionIndexFollows, NothingWritten, SessionIn, Returned, TypeOK, BrokerTypeOK

LEMMA DeletedTable ==
    ASSUME TypeOK, NEW x, DeleteRecord(x) \/ NothingWritten
    PROVE  /\ SessionIndexFollows \/ NothingWritten
           /\ \A r \in Runner : record'[r] \in {record[r], Absent}
           /\ puts' = puts
BY DEF DeleteRecord, Delete, Write, NothingWritten, poolVars, TypeOK, PoolTypeOK

\* A request that is answered keeps to the session and the runner it looked at.
LEMMA FinishTies ==
    ASSUME TypeOK, NEW q \in Request, NEW res,
           NEW p \in Request, NEW r \in Runner, NEW s \in Session, Uses(p, r, s)'
    PROVE  /\ Finish(q, res, FALSE) => Uses(p, r, s) \/ (p = q /\ res = r /\ s = cookie[q])
           /\ Finish(q, res, TRUE) => Uses(p, r, s) \/ (p = q /\ res = r /\ s = q)
<1> USE DEF TypeOK, BrokerTypeOK, Request, Finish, Goto, Uses, SessionOf
<1>1. CASE p # q
    BY <1>1
<1>2. CASE p = q
    BY <1>2
<1> QED BY <1>1, <1>2

\* The runner side: a record becomes idle by a put only.
LEMMA RunnerTies ==
    ASSUME TypeOK, TypeOK', PutsCover, NEW x \in Runner,
           RunnerStep(x) \/ ReindexState(x) \/ ReindexSession(x)
    PROVE  PutsCover'
<1> USE NamesAssumption, FaultsAssumption DEF TypeOK, BrokerTypeOK, PoolTypeOK
<1>1. UNCHANGED requestVars
    BY DEF RunnerStep, PostRegister, ReceiveReply, LoseReply, Terminate, Deregister, Crash,
        ReindexState, ReindexSession, brokerVars, requestVars
<1>2. Settled'
    BY <1>1 DEF PutsCover, Settled, SessionOf, requestVars
<1>3. \A q \in Request, r \in Runner, s \in Session : Uses(q, r, s)' => Uses(q, r, s)
    BY <1>1 DEF Uses, SessionOf, requestVars
<1>4. CASE PutRecord(x)
    <2>1. /\ record' = [record EXCEPT ![x] = Idle]
          /\ puts' = [puts EXCEPT ![x] = @ + 1] /\ SessionIndexFollows
        BY <1>4 DEF PutRecord, Register, Write
    <2>2. \A r \in Runner, s \in Session : record'[r] = s => record[r] = s
        BY <2>1
    <2>3. /\ \A r \in Runner : puts'[r] >= puts[r]
          /\ \A r \in Runner : record'[r] = Idle => record[r] = Idle \/ puts'[r] > puts[r]
        BY <2>1
    <2> QED BY <1>2, <1>3, <2>1, <2>2, <2>3, IndexTies, TieStep
<1>5. CASE ~PutRecord(x)
    <2>1. /\ \A r \in Runner : record'[r] \in {record[r], Absent}
          /\ \A r \in Runner, s \in Session : sessionIndexed'[r] = s =>
                sessionIndexed[r] = s \/ record[r] = s \/ record'[r] = s
          /\ puts' = puts
        <3>1. CASE PostRegister(x) \/ ReceiveReply(x) \/ LoseReply(x) \/ Terminate(x) \/ Crash(x)
            BY <1>5, <3>1 DEF PostRegister, ReceiveReply, LoseReply, Terminate, Crash, NothingWritten, poolVars
        <3>2. CASE Deregister(x)
            BY <3>2, DeletedTable, IndexTies DEF Deregister
        <3>3. CASE ReindexState(x)
            BY <3>3 DEF ReindexState, Reindex, brokerVars
        <3>4. CASE ReindexSession(x)
            BY <3>4 DEF ReindexSession, SessionIn, poolVars, Returned
        <3> QED BY <3>1, <3>2, <3>3, <3>4 DEF RunnerStep
    <2>2. \A r \in Runner : puts'[r] >= puts[r]
        BY <2>1
    <2> QED BY <1>2, <1>3, <2>1, <2>2, TieStep
<1> QED BY <1>4, <1>5

\* The request side: a runner that a request looks at came from the index or
\* from the update that took it.
LEMMA RequestTies ==
    ASSUME TypeOK, TypeOK', PutsCover, NEW q \in Request, RequestStep(q)
    PROVE  PutsCover'
<1> USE NamesAssumption DEF TypeOK, BrokerTypeOK, PoolTypeOK, Request
<1> DEFINE Ok(p) == /\ pc[p] # "done" => answer[p] = None /\ ~created[p]
                    /\ pc[p] \in {"find", "check", "lookup"} => cookie[p] \in Session
                    /\ answer[p] \in Runner => SessionOf(p) \in Session
<1>1. UNCHANGED <<phase, reply>> /\ cookie' = cookie /\ \A p \in Request : Ok(p)
    BY DEF RequestStep, FindSession, CheckSession, DeleteUnhealthy, CallAcquireIdle, NotAssigned,
        Assigned, CheckNew, DeleteNew, FindToClose, DeleteToClose, LookupSession, Finish, requestVars,
        PutsCover, Settled
<1>2. puts' = puts /\ \A r \in Runner : puts'[r] >= puts[r]
    <2>1. puts' = puts
        BY DEF RequestStep, FindSession, CheckSession, DeleteUnhealthy, CallAcquireIdle, NotAssigned,
            Assigned, CheckNew, DeleteNew, FindToClose, DeleteToClose, LookupSession, NothingWritten,
            DeleteRecord
    <2> QED BY <2>1, FaultsAssumption
<1>3. ASSUME NEW step \in {"check", "acquire", "delete", "acquiring", "checkNew", "deleteNew", "deleteToClose"},
             Goto(q, step), pc[q] # "done", step = "check" => pc[q] = "find", UNCHANGED <<created, answer>>
      PROVE  Settled'
    <2>1. pc' = [pc EXCEPT ![q] = step]
        BY <1>3 DEF Goto
    <2> QED BY <1>1, <1>3, <2>1 DEF Settled, SessionOf
<1>4. ASSUME NEW res PROVE /\ Finish(q, res, FALSE) /\ (res \in Runner => cookie[q] \in Session) => Settled'
                           /\ Finish(q, res, TRUE) => Settled'
    <2>1. CASE Finish(q, res, FALSE) /\ (res \in Runner => cookie[q] \in Session)
        BY <1>1, <2>1 DEF Finish, Goto, Settled, SessionOf
    <2>2. CASE Finish(q, res, TRUE)
        BY <1>1, <2>2 DEF Finish, Goto, Settled, SessionOf
    <2> QED BY <2>1, <2>2
<1>5. ASSUME NEW step, Goto(q, step), UNCHANGED <<created, answer>>,
             NEW p \in Request, NEW r \in Runner, NEW s \in Session, Uses(p, r, s)',
             p = q => step \notin {"check", "checkNew"},
             \A o \in Request \ {q} : found'[o] = found[o]
      PROVE  Uses(p, r, s)
    <2>1. pc' = [pc EXCEPT ![q] = step]
        BY <1>5 DEF Goto
    <2>2. CASE p # q
        BY <1>1, <1>5, <2>1, <2>2 DEF Uses, SessionOf
    <2>3. CASE p = q
        BY <1>1, <1>5, <2>1, <2>3 DEF Uses, SessionOf
    <2> QED BY <2>2, <2>3
<1>6. Settled'
    <2>1. /\ \A res \in {None, NoIdleRunner, StoreError} : Finish(q, res, FALSE) => Settled'
          /\ \A res : Finish(q, res, FALSE) /\ pc[q] \in {"check", "lookup"} => Settled'
          /\ \A res : Finish(q, res, TRUE) => Settled'
        BY <1>1, <1>4 DEF Returned
    <2>2. (\E step \in {"check", "acquire", "delete", "acquiring", "checkNew", "deleteNew", "deleteToClose"} :
              /\ Goto(q, step) /\ pc[q] # "done" /\ (step = "check" => pc[q] = "find")
              /\ UNCHANGED <<created, answer>>) => Settled'
        BY <1>3
    <2>3. UNCHANGED requestVars => Settled'
        BY DEF requestVars, PutsCover, Settled, SessionOf
    <2>4. CASE FindSession(q) \/ CheckSession(q) \/ CheckNew(q)
        BY <2>1, <2>2, <2>4 DEF FindSession, CheckSession, CheckNew
    <2>5. CASE DeleteUnhealthy(q) \/ DeleteNew(q) \/ DeleteToClose(q)
        BY <2>1, <2>2, <2>5 DEF DeleteUnhealthy, DeleteNew, DeleteToClose
    <2>6. CASE CallAcquireIdle(q) \/ NotAssigned(q) \/ \E r \in Runner : Assigned(q, r)
        BY <2>1, <2>2, <2>3, <2>6 DEF CallAcquireIdle, NotAssigned, Assigned
    <2>7. CASE FindToClose(q) \/ LookupSession(q)
        BY <2>1, <2>2, <2>7 DEF FindToClose, LookupSession
    <2> QED BY <2>4, <2>5, <2>6, <2>7 DEF RequestStep
<1>7. ASSUME NEW p \in Request, NEW r \in Runner, NEW s \in Session, Uses(p, r, s)'
      PROVE  Uses(p, r, s) \/ sessionIndexed[r] = s \/ record'[r] = s
    <2>11. ASSUME NEW res
           PROVE  /\ Finish(q, res, FALSE) => Uses(p, r, s) \/ (p = q /\ res = r /\ s = cookie[q])
                  /\ Finish(q, res, TRUE) => Uses(p, r, s) \/ (p = q /\ res = r /\ s = q)
        BY <1>7, FinishTies, ZenonT(60)
    <2>1. ASSUME NEW res \in {None, NoIdleRunner, StoreError}, Finish(q, res, FALSE)
          PROVE  Uses(p, r, s)
        <3>1. res \notin Runner
            BY DEF Returned
        <3>2. Uses(p, r, s) \/ (p = q /\ res = r /\ s = cookie[q])
            BY <2>1, <2>11, ZenonT(60)
        <3> QED BY <3>1, <3>2
    <2>2. ASSUME NEW step \in {"acquire", "delete", "acquiring", "deleteNew", "deleteToClose"},
                 Goto(q, step), UNCHANGED <<created, answer>>, \A o \in Request \ {q} : found'[o] = found[o]
          PROVE  Uses(p, r, s)
        BY <1>5, <1>7, <2>2
    <2>3. CASE FindSession(q)
        <3>1. ASSUME NEW x \in FoundFor(cookie[q]), found' = [found EXCEPT ![q] = x], Goto(q, "check"),
                     UNCHANGED <<created, answer>>
              PROVE  Uses(p, r, s) \/ sessionIndexed[r] = s
            <4>1. CASE p # q
                <5>1. \A o \in Request \ {q} : found'[o] = found[o]
                    BY <3>1
                <5> QED BY <1>5, <1>7, <3>1, <4>1, <5>1
            <4>2. CASE p = q
                <5>1. pc'[q] = "check" /\ found'[q] = x /\ sessionIndexed[x] = cookie[q]
                    BY <3>1 DEF Goto, FoundFor
                <5>2. answer'[q] = None
                    BY <1>1, <2>3, <3>1 DEF FindSession
                <5> QED BY <1>1, <1>7, <4>2, <5>1, <5>2 DEF Uses, Returned
            <4> QED BY <4>1, <4>2
        <3> QED BY <2>1, <2>2, <2>3, <3>1 DEF FindSession
    <2>4. CASE CheckSession(q)
        <3>1. ASSUME Finish(q, found[q], FALSE) PROVE Uses(p, r, s)
            BY <2>4, <2>11, <3>1 DEF CheckSession, Uses
        <3> QED BY <2>1, <2>2, <2>4, <3>1 DEF CheckSession
    <2>5. CASE CheckNew(q)
        <3>1. ASSUME Finish(q, found[q], TRUE) PROVE Uses(p, r, s)
            BY <2>5, <2>11, <3>1 DEF CheckNew, Uses
        <3> QED BY <2>1, <2>2, <2>5, <3>1 DEF CheckNew
    <2>6. CASE LookupSession(q)
        <3>1. ASSUME NEW x \in FoundFor(cookie[q]), Finish(q, x, FALSE)
              PROVE  Uses(p, r, s) \/ sessionIndexed[r] = s
            <4>1. sessionIndexed[x] = cookie[q]
                BY <3>1 DEF FoundFor
            <4>2. Uses(p, r, s) \/ (p = q /\ x = r /\ s = cookie[q])
                BY <2>11, <3>1, ZenonT(60)
            <4> QED BY <4>1, <4>2
        <3> QED BY <2>1, <2>6, <3>1 DEF LookupSession
    <2>7. CASE FindToClose(q)
        <3>1. \A x : found' = [found EXCEPT ![q] = x] => \A o \in Request \ {q} : found'[o] = found[o]
            OBVIOUS
        <3> QED BY <2>1, <2>2, <2>7, <3>1 DEF FindToClose
    <2>8. CASE DeleteUnhealthy(q) \/ DeleteNew(q) \/ DeleteToClose(q)
        BY <2>1, <2>2, <2>8 DEF DeleteUnhealthy, DeleteNew, DeleteToClose
    <2>9. CASE CallAcquireIdle(q) \/ NotAssigned(q)
        BY <2>1, <2>2, <2>9 DEF CallAcquireIdle, NotAssigned
    <2>10. ASSUME NEW x \in Runner, Assigned(q, x)
           PROVE  Uses(p, r, s) \/ record'[r] = s
        <3>1. record' = [record EXCEPT ![x] = q] /\ pc[q] = "acquiring"
            BY <2>10 DEF Assigned, Assign, AssignUnseen, Write
        <3>2. CASE found' = [found EXCEPT ![q] = x] /\ Goto(q, "checkNew") /\ UNCHANGED <<created, answer>>
            <4>1. CASE p # q
                <5>1. \A o \in Request \ {q} : found'[o] = found[o]
                    BY <3>2
                <5> QED BY <1>5, <1>7, <3>2, <4>1, <5>1
            <4>2. CASE p = q
                <5>1. pc'[q] = "checkNew" /\ found'[q] = x
                    BY <3>2 DEF Goto
                <5>2. answer'[q] = None
                    BY <1>1, <3>1, <3>2
                <5>3. record'[x] = q
                    BY <3>1
                <5> QED BY <1>7, <4>2, <5>1, <5>2, <5>3 DEF Uses, Returned
            <4> QED BY <4>1, <4>2
        <3>3. UNCHANGED requestVars => Uses(p, r, s)
            BY <1>7 DEF requestVars, Uses, SessionOf
        <3> QED BY <2>1, <2>10, <3>2, <3>3 DEF Assigned
    <2> QED BY <2>3, <2>4, <2>5, <2>6, <2>7, <2>8, <2>9, <2>10 DEF RequestStep
<1>8. /\ \A r \in Runner : record'[r] \in {record[r], Absent} \/ (record[r] = Idle /\ record'[r] = q)
      /\ SessionIndexFollows \/ NothingWritten \/ UNCHANGED sessionIndexed
    <2>1. CASE FindSession(q) \/ CheckSession(q) \/ CheckNew(q) \/ FindToClose(q) \/ LookupSession(q)
        BY <2>1 DEF FindSession, CheckSession, CheckNew, FindToClose, LookupSession, NothingWritten, poolVars
    <2>2. CASE DeleteUnhealthy(q) \/ DeleteNew(q) \/ DeleteToClose(q)
        <3>1. DeleteRecord(found[q]) \/ NothingWritten
            BY <2>2 DEF DeleteUnhealthy, DeleteNew, DeleteToClose
        <3> QED BY <3>1, DeletedTable
    <2>3. CASE CallAcquireIdle(q) \/ NotAssigned(q)
        BY <2>3 DEF CallAcquireIdle, NotAssigned, Begin, Exhaust, Fail
    <2>4. ASSUME NEW x \in Runner, Assigned(q, x)
          PROVE  /\ \A r \in Runner : record'[r] = record[r] \/ (record[r] = Idle /\ record'[r] = q)
                 /\ SessionIndexFollows
        BY <2>4 DEF Assigned, Assign, AssignUnseen, Write
    <2> QED BY <2>1, <2>2, <2>3, <2>4 DEF RequestStep
<1>9. \A r \in Runner, s \in Session : sessionIndexed'[r] = s => sessionIndexed[r] = s \/ record'[r] = s
    BY <1>8, IndexTies
<1> QED BY <1>2, <1>6, <1>7, <1>8, <1>9, TieStep

\* A request arrives, with a delivered session or none.
LEMMA ArriveTies ==
    ASSUME TypeOK, TypeOK', PutsCover, NEW q \in Request, NEW k \in Delivered \cup {None},
           ResolveSession(q, k) \/ CloseSession(q, k)
    PROVE  PutsCover'
<1> USE NamesAssumption DEF TypeOK, BrokerTypeOK, PoolTypeOK, Request
<1>1. /\ pc[q] = "new" /\ cookie' = [cookie EXCEPT ![q] = k] /\ NothingWritten
      /\ UNCHANGED <<phase, reply, found, created, answer>>
      /\ pc' \in {[pc EXCEPT ![q] = step] : step \in {"find", "acquire", "findToClose", "lookup"}}
      /\ pc'[q] # "acquire" => k \in Session
    BY DEF ResolveSession, CloseSession, Goto, Delivered
<1>2. answer[q] = None /\ ~created[q]
    BY <1>1 DEF PutsCover, Settled
<1>3. Settled'
    <2>1. ASSUME NEW p \in Request PROVE p # q => pc'[p] = pc[p] /\ cookie'[p] = cookie[p]
        BY <1>1
    <2>2. pc'[q] # "done" /\ cookie'[q] = k /\ (pc'[q] \in {"find", "check", "lookup"} => k \in Session)
        BY <1>1
    <2> QED BY <1>1, <1>2, <2>1, <2>2 DEF PutsCover, Settled, SessionOf, Returned
<1>4. ASSUME NEW p \in Request, NEW r \in Runner, NEW s \in Session, Uses(p, r, s)' PROVE Uses(p, r, s)
    BY <1>1, <1>2, <1>4 DEF Uses, SessionOf, Returned
<1>5. record' = record /\ sessionIndexed' = sessionIndexed /\ \A r \in Runner : puts'[r] >= puts[r]
    BY <1>1, FaultsAssumption DEF NothingWritten, poolVars
<1> QED BY <1>3, <1>4, <1>5, TieStep

\* On both backends, whatever fails: requests are sent to a runner for no more
\* sessions than its record was put, although indexes trail, writes are sent
\* again, and registrations are answered by errors after they took effect
\* (service.go, dynamo.go, handler.go, register.go).
THEOREM SessionsWithinPuts == Spec => []OneSessionPerPut
<1>1. Init => TypeOK /\ PutsCover
    <2> SUFFICES ASSUME Init PROVE TypeOK /\ PutsCover
        OBVIOUS
    <2> USE NamesAssumption DEF Init, PoolInit, Request, Returned
    <2>1. TypeOK
        BY MatchInit
    <2>2. Settled
        BY DEF Settled
    <2>3. \A r \in Runner, s \in Session : ~Tied(r, s)
        BY DEF Tied, Uses
    <2>4. \A r \in Runner : Ties(r) = {} /\ Unspent(r) = 0 /\ puts[r] = 0
        BY <2>3 DEF Ties, Unspent
    <2> QED BY <2>1, <2>2, <2>4, FS_EmptySet DEF PutsCover
<1>2. TypeOK /\ PutsCover /\ [Next]_vars => TypeOK' /\ PutsCover'
    <2> SUFFICES ASSUME TypeOK, PutsCover, [Next]_vars PROVE TypeOK' /\ PutsCover'
        OBVIOUS
    <2>1. TypeOK'
        BY TypeStep
    <2>2. ASSUME UNCHANGED vars PROVE PutsCover'
        <3>1. \A r \in Runner : Ties(r)' = Ties(r)
            BY <2>2 DEF vars, poolVars, brokerVars, Ties, Tied, Uses, SessionOf
        <3>2. Settled'
            BY <2>2 DEF vars, brokerVars, PutsCover, Settled, SessionOf
        <3>3. puts' = puts /\ \A r \in Runner : Unspent(r)' = Unspent(r)
            BY <2>2 DEF vars, poolVars, brokerVars, Unspent
        <3> QED BY <3>1, <3>2, <3>3 DEF PutsCover
    <2>3. ASSUME NEW r \in Runner, RunnerStep(r) \/ ReindexState(r) \/ ReindexSession(r) PROVE PutsCover'
        BY <2>1, <2>3, RunnerTies
    <2>4. ASSUME NEW q \in Request, RequestStep(q) PROVE PutsCover'
        BY <2>1, <2>4, RequestTies
    <2>5. ASSUME NEW q \in Request, NEW k \in Delivered \cup {None}, ResolveSession(q, k) \/ CloseSession(q, k)
          PROVE  PutsCover'
        BY <2>1, <2>5, ArriveTies
    <2> QED BY <2>1, <2>2, <2>3, <2>4, <2>5 DEF Next
<1>3. TypeOK /\ PutsCover => OneSessionPerPut
    <2> SUFFICES ASSUME TypeOK, PutsCover, NEW r \in Runner
                 PROVE  Cardinality(SessionsSentTo(r)) <= puts[r]
        BY DEF OneSessionPerPut
    <2>1. SessionsSentTo(r) \subseteq Ties(r)
        <3> SUFFICES ASSUME NEW q \in Request, answer[q] = r PROVE SessionOf(q) \in Ties(r)
            BY DEF SessionsSentTo
        <3> QED BY DEF PutsCover, Settled, Ties, Tied, Uses
    <2>2. /\ IsFiniteSet(Ties(r)) /\ Cardinality(Ties(r)) \in Nat
          /\ Cardinality(SessionsSentTo(r)) \in Nat
          /\ Cardinality(SessionsSentTo(r)) <= Cardinality(Ties(r))
        BY <2>1, FS_Subset, FS_CardinalityType DEF PutsCover
    <2>3. Cardinality(Ties(r)) + Unspent(r) <= puts[r] /\ puts[r] \in Nat /\ Unspent(r) \in {0, 1}
        BY FaultsAssumption DEF PutsCover, Unspent, TypeOK, BrokerTypeOK
    <2> QED BY <2>2, <2>3
<1> QED BY <1>1, <1>2, <1>3, PTL DEF Spec
=============================================================================
