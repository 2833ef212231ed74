------------------------------- MODULE Broker -------------------------------
(***************************************************************************)
(* The broker's service (broker/service/service.go) between its three      *)
(* parties: the store (RunnerPool), the runner processes that register,    *)
(* answer GET /health and deregister (runner/register.go, runner/main.go), *)
(* and the requests that resolve, close and look up sessions.              *)
(*                                                                         *)
(* Every call to the store and every health check is a step of its own:    *)
(* other requests, runners and broker replicas run between any two.        *)
(*                                                                         *)
(* A request that needs a session draws a fresh id (sessionFn), so the id  *)
(* is identified with the request that drew it: Request == Session.  A     *)
(* runner process draws a fresh id too and its address is its own, so a    *)
(* runner, its record's key and its privateHost are one value.             *)
(***************************************************************************)
EXTENDS RunnerPool, Naturals

CONSTANTS
    Faults,  \* what may go wrong in this instance
    MaxPuts  \* bound: how often the record of one runner process is put

FaultKinds == {
    "lostReply",   \* the response to POST register does not reach the runner
    "storeError",  \* a call to the store returns an error
    "resend",      \* a write is applied, its response lost, and sent again
    "cancel",      \* the caller (nginx) gives up: the context is cancelled
    "flaky",       \* a health check of an answering runner times out
    "crash"}       \* a runner process dies without deregistering

ASSUME FaultsAssumption == Faults \subseteq FaultKinds /\ MaxPuts \in Nat

Request == Session

VARIABLES
    phase,           \* phase[r]: the life of runner process r
    reply,           \* reply[r]: response to its POST register, on its way
    puts,            \* puts[r]: how often its record was put (a history variable)
    sessionIndexed,  \* sessionIndexed[r]: session the session-index has for r
    pc,              \* pc[q]: what request q waits for
    cookie,          \* cookie[q]: the session id it came with, or None
    found,           \* found[q]: the runner it is looking at, or None
    created,         \* created[q]: its session is the fresh one (Set-Cookie)
    reassigned,      \* reassigned[q]: X-Session-Reassigned
    answer           \* answer[q]: the runner it was sent to, or the failure

brokerVars == <<phase, reply, puts, sessionIndexed, pc, cookie, found, created, reassigned, answer>>
requestVars == <<pc, cookie, found, created, reassigned, answer>>
vars == <<poolVars, brokerVars>>

Phases == {"registering", "serving", "stopping", "stopped"}
ResolveSteps == {"find", "check", "delete", "acquire", "acquiring", "checkNew", "deleteNew"}
Steps == ResolveSteps \cup {"new", "findToClose", "deleteToClose", "lookup", "done"}

BrokerTypeOK ==
    /\ phase \in [Runner -> Phases]
    /\ reply \in [Runner -> {"none", "created", "conflict", "failed"}]
    /\ puts \in [Runner -> 0..MaxPuts]
    /\ sessionIndexed \in [Runner -> Session \cup {None}]
    /\ pc \in [Request -> Steps]
    /\ cookie \in [Request -> Session \cup {None}]
    /\ found \in [Request -> Runner \cup {None}]
    /\ created \in [Request -> BOOLEAN]
    /\ reassigned \in [Request -> BOOLEAN]
    /\ answer \in [Request -> Runner \cup {None, NoIdleRunner, StoreError}]

TypeOK == PoolTypeOK /\ BrokerTypeOK

Init ==
    /\ PoolInit
    /\ phase = [r \in Runner |-> "registering"]
    /\ reply = [r \in Runner |-> "none"]
    /\ puts = [r \in Runner |-> 0]
    /\ sessionIndexed = [r \in Runner |-> None]
    /\ pc = [q \in Request |-> "new"]
    /\ cookie = [q \in Request |-> None]
    /\ found = [q \in Request |-> None]
    /\ created = [q \in Request |-> FALSE]
    /\ reassigned = [q \in Request |-> FALSE]
    /\ answer = [q \in Request |-> None]

-----------------------------------------------------------------------------
(* The store, seen from the broker.                                        *)

\* The session a record belongs to, as the session-index would show it.
SessionIn(rec, r) == IF rec[r] \in Session THEN rec[r] ELSE None

\* A consistent session-index follows every write of the table.
SessionIndexFollows ==
    sessionIndexed' = IF Lagging THEN sessionIndexed
                      ELSE [r \in Runner |-> SessionIn(record', r)]

\* Repository.Delete as a request or a runner calls it.  It returns normally
\* or, with an error, may or may not have been applied.
DeleteRecord(r) == Delete(r) /\ SessionIndexFollows /\ UNCHANGED puts

NothingWritten == UNCHANGED <<poolVars, sessionIndexed, puts>>

\* Repository.Register succeeds in the table.
PutRecord(r) ==
    /\ puts[r] < MaxPuts
    /\ Register(r) /\ SessionIndexFollows
    /\ puts' = [puts EXCEPT ![r] = @ + 1]

\* DynamoDB brings an item of one of its two indexes up to date.
ReindexState(r) == Reindex(r) /\ UNCHANGED brokerVars

ReindexSession(r) ==
    /\ Lagging
    /\ sessionIndexed[r] # SessionIn(record, r)
    /\ sessionIndexed' = [sessionIndexed EXCEPT ![r] = SessionIn(record, r)]
    /\ UNCHANGED <<poolVars, phase, reply, puts, requestVars>>

\* FindBySessionID may return any runner the index has for the session.
FoundFor(s) == {r \in Runner : sessionIndexed[r] = s}

-----------------------------------------------------------------------------
(* Runner processes.                                                       *)

\* The HTTP server is started only after register returned; the socket is
\* open before, so a health check then is accepted and never answered.
Answering(r) == phase[r] \in {"serving", "stopping"}

Replies(r, status) == reply' = [reply EXCEPT ![r] = status]

\* POST /internal/runners/register reaches the broker: 201 if the record is
\* put, 409 if there is one, 500 if the store fails, before or after the put
\* was applied.  A put that is sent again by the client library meets what it
\* wrote itself, or whatever became of it by then: the call goes on.
PostRegister(r) ==
    /\ phase[r] = "registering" /\ reply[r] = "none"
    /\ \/ /\ PutRecord(r)
          /\ \/ Replies(r, "created")
             \/ "storeError" \in Faults /\ Replies(r, "failed")
             \/ "resend" \in Faults /\ UNCHANGED reply
       \/ /\ NothingWritten
          /\ \/ record[r] # Absent /\ Replies(r, "conflict")
             \/ "storeError" \in Faults /\ Replies(r, "failed")
    /\ UNCHANGED <<phase, requestVars>>

\* The runner serves on 201 and posts again, 3 s later, on anything else.
ReceiveReply(r) ==
    /\ phase[r] = "registering" /\ reply[r] # "none"
    /\ phase' = IF reply[r] = "created" THEN [phase EXCEPT ![r] = "serving"] ELSE phase
    /\ reply' = [reply EXCEPT ![r] = "none"]
    /\ NothingWritten /\ UNCHANGED requestVars

\* The connection breaks before the response: the runner posts again, 3 s later.
\* A put that was under way has landed by then.
LoseReply(r) ==
    /\ "lostReply" \in Faults
    /\ phase[r] = "registering" /\ reply[r] = "created"
    /\ reply' = [reply EXCEPT ![r] = "none"]
    /\ NothingWritten /\ UNCHANGED <<phase, requestVars>>

\* SIGTERM: a runner that is still registering leaves without a DELETE.
Terminate(r) ==
    /\ \/ phase[r] = "registering" /\ phase' = [phase EXCEPT ![r] = "stopped"]
       \/ phase[r] = "serving" /\ phase' = [phase EXCEPT ![r] = "stopping"]
    /\ NothingWritten /\ UNCHANGED <<reply, requestVars>>

\* run() deregisters, ignoring a failure, and then closes the server.
Deregister(r) ==
    /\ phase[r] = "stopping"
    /\ phase' = [phase EXCEPT ![r] = "stopped"]
    /\ DeleteRecord(r) \/ ("storeError" \in Faults /\ NothingWritten)
    /\ UNCHANGED <<reply, requestVars>>

Crash(r) ==
    /\ "crash" \in Faults
    /\ phase[r] \in {"registering", "serving", "stopping"}
    /\ phase' = [phase EXCEPT ![r] = "stopped"]
    /\ NothingWritten /\ UNCHANGED <<reply, requestVars>>

-----------------------------------------------------------------------------
(* Requests.                                                               *)

Goto(q, step) == pc' = [pc EXCEPT ![q] = step]

\* The request is answered: a runner and whose it is, or a failure.
Finish(q, res, fresh) ==
    /\ Goto(q, "done")
    /\ answer' = [answer EXCEPT ![q] = res]
    /\ created' = [created EXCEPT ![q] = fresh]
    /\ UNCHANGED <<cookie, found, reassigned>>

\* Session ids a browser can hold: those of Set-Cookie answers.
Delivered == {s \in Session : pc[s] = "done" /\ created[s]}

\* The session an answered request was answered for.
SessionOf(q) == IF created[q] THEN q ELSE cookie[q]

\* GET /resolve/session, with or without a session_id cookie.
ResolveSession(q, k) ==
    /\ pc[q] = "new"
    /\ cookie' = [cookie EXCEPT ![q] = k]
    /\ Goto(q, IF k = None THEN "acquire" ELSE "find")
    /\ NothingWritten
    /\ UNCHANGED <<phase, reply, found, created, reassigned, answer>>

\* DELETE /sessions/:sessionId, and GET /resolve/app for a preview host.
CloseSession(q, k) ==
    /\ pc[q] = "new" /\ k # None
    /\ cookie' = [cookie EXCEPT ![q] = k]
    /\ \E step \in {"findToClose", "lookup"} : Goto(q, step)
    /\ NothingWritten
    /\ UNCHANGED <<phase, reply, found, created, reassigned, answer>>

\* A slip: every error of the query is taken for ErrNotFound.
FindSessionAnyError(q) ==
    /\ pc[q] = "find"
    /\ \/ \E r \in FoundFor(cookie[q]) :
            /\ found' = [found EXCEPT ![q] = r]
            /\ Goto(q, "check")
            /\ UNCHANGED <<cookie, created, reassigned, answer>>
       \/ /\ FoundFor(cookie[q]) = {} \/ "storeError" \in Faults
          /\ Goto(q, "acquire")
          /\ UNCHANGED <<cookie, found, created, reassigned, answer>>
    /\ NothingWritten /\ UNCHANGED <<phase, reply>>

\* FindBySessionID: the session is found, is not (a new one is created, and
\* the caller is not told that it replaces another), or the query fails.
FindSession(q) ==
    /\ pc[q] = "find"
    /\ \/ \E r \in FoundFor(cookie[q]) :
            /\ found' = [found EXCEPT ![q] = r]
            /\ Goto(q, "check")
            /\ UNCHANGED <<cookie, created, reassigned, answer>>
       \/ /\ FoundFor(cookie[q]) = {}
          /\ Goto(q, "acquire")
          /\ UNCHANGED <<cookie, found, created, reassigned, answer>>
       \/ "storeError" \in Faults /\ Finish(q, StoreError, FALSE)
    /\ NothingWritten /\ UNCHANGED <<phase, reply>>

\* Outcomes of GET /health on the runner in hand.
Healthy(q) == Answering(found[q])
Unhealthy(q) == ~Answering(found[q]) \/ "flaky" \in Faults

\* The runner of the session is checked: keep it, give up, or replace it.
CheckSession(q) ==
    /\ pc[q] = "check"
    /\ \/ Healthy(q) /\ Finish(q, found[q], FALSE)
       \/ "cancel" \in Faults /\ Finish(q, StoreError, FALSE)
       \/ /\ Unhealthy(q)
          /\ Goto(q, "delete")
          /\ UNCHANGED <<cookie, found, created, reassigned, answer>>
    /\ NothingWritten /\ UNCHANGED <<phase, reply>>

\* A slip: a failed delete is ignored.
DeleteUnhealthyAnyway(q) ==
    /\ pc[q] = "delete"
    /\ DeleteRecord(found[q]) \/ ("storeError" \in Faults /\ NothingWritten)
    /\ reassigned' = [reassigned EXCEPT ![q] = TRUE]
    /\ Goto(q, "acquire")
    /\ UNCHANGED <<phase, reply, cookie, found, created, answer>>

\* Its record is deleted, by runner id and whatever it says by now.
DeleteUnhealthy(q) ==
    /\ pc[q] = "delete"
    /\ \/ /\ DeleteRecord(found[q])
          /\ reassigned' = [reassigned EXCEPT ![q] = TRUE]
          /\ Goto(q, "acquire")
          /\ UNCHANGED <<cookie, found, created, answer>>
       \/ /\ "storeError" \in Faults
          /\ DeleteRecord(found[q]) \/ NothingWritten
          /\ Finish(q, StoreError, FALSE)
    /\ UNCHANGED <<phase, reply>>

\* createSession asks the store for an idle runner ...
CallAcquireIdle(q) ==
    /\ pc[q] = "acquire"
    /\ Begin(q)
    /\ Goto(q, "acquiring")
    /\ UNCHANGED <<phase, reply, puts, sessionIndexed, cookie, found, created, reassigned, answer>>

\* ... which assigns one, unless its response is lost on the way back, ...
Assigned(q, r) ==
    /\ pc[q] = "acquiring"
    /\ \/ /\ Assign(q, r)
          /\ found' = [found EXCEPT ![q] = r]
          /\ Goto(q, "checkNew")
          /\ UNCHANGED <<cookie, created, reassigned, answer>>
       \/ /\ "resend" \in Faults
          /\ AssignUnseen(q, r, Pending)
          /\ UNCHANGED requestVars
       \/ /\ "storeError" \in Faults
          /\ AssignUnseen(q, r, StoreError)
          /\ Finish(q, StoreError, FALSE)
    /\ SessionIndexFollows
    /\ UNCHANGED <<phase, reply, puts>>

\* ... or has none, or fails.
NotAssigned(q) ==
    /\ pc[q] = "acquiring"
    /\ \/ Exhaust(q) /\ Finish(q, NoIdleRunner, FALSE)
       \/ "storeError" \in Faults /\ Fail(q) /\ Finish(q, StoreError, FALSE)
    /\ UNCHANGED <<phase, reply, puts, sessionIndexed>>

\* A slip: the next runner is acquired while the failed one stays assigned.
CheckNewKeepsFailed(q) ==
    /\ pc[q] = "checkNew"
    /\ \/ Healthy(q) /\ Finish(q, found[q], TRUE)
       \/ "cancel" \in Faults /\ Finish(q, StoreError, FALSE)
       \/ /\ Unhealthy(q)
          /\ Goto(q, "acquire")
          /\ UNCHANGED <<cookie, found, created, reassigned, answer>>
    /\ NothingWritten /\ UNCHANGED <<phase, reply>>

\* The new runner is checked.  A cancelled caller leaves it assigned.
CheckNew(q) ==
    /\ pc[q] = "checkNew"
    /\ \/ Healthy(q) /\ Finish(q, found[q], TRUE)
       \/ "cancel" \in Faults /\ Finish(q, StoreError, FALSE)
       \/ /\ Unhealthy(q)
          /\ Goto(q, "deleteNew")
          /\ UNCHANGED <<cookie, found, created, reassigned, answer>>
    /\ NothingWritten /\ UNCHANGED <<phase, reply>>

\* A slip: a failed delete is ignored and the next runner is acquired.
DeleteNewAnyway(q) ==
    /\ pc[q] = "deleteNew"
    /\ DeleteRecord(found[q]) \/ ("storeError" \in Faults /\ NothingWritten)
    /\ Goto(q, "acquire")
    /\ UNCHANGED <<phase, reply, cookie, found, created, reassigned, answer>>

\* A slip: the failed runner goes back to the pool instead of out of it.
ReleaseNew(q) ==
    /\ pc[q] = "deleteNew"
    /\ Write([record EXCEPT ![found[q]] = Idle], {})
    /\ SessionIndexFollows
    /\ Goto(q, "acquire")
    /\ UNCHANGED <<outcome, phase, reply, puts, cookie, found, created, reassigned, answer>>

\* An unhealthy one is deleted and the next one is acquired.
DeleteNew(q) ==
    /\ pc[q] = "deleteNew"
    /\ \/ /\ DeleteRecord(found[q])
          /\ Goto(q, "acquire")
          /\ UNCHANGED <<cookie, found, created, reassigned, answer>>
       \/ /\ "storeError" \in Faults
          /\ DeleteRecord(found[q]) \/ NothingWritten
          /\ Finish(q, StoreError, FALSE)
    /\ UNCHANGED <<phase, reply>>

\* CloseSession finds the runner (or answers 404) ...
FindToClose(q) ==
    /\ pc[q] = "findToClose"
    /\ \/ \E r \in FoundFor(cookie[q]) :
            /\ found' = [found EXCEPT ![q] = r]
            /\ Goto(q, "deleteToClose")
            /\ UNCHANGED <<cookie, created, reassigned, answer>>
       \/ FoundFor(cookie[q]) = {} /\ Finish(q, None, FALSE)
       \/ "storeError" \in Faults /\ Finish(q, StoreError, FALSE)
    /\ NothingWritten /\ UNCHANGED <<phase, reply>>

\* ... and deletes its record.
DeleteToClose(q) ==
    /\ pc[q] = "deleteToClose"
    /\ \/ DeleteRecord(found[q]) /\ Finish(q, None, FALSE)
       \/ /\ "storeError" \in Faults
          /\ DeleteRecord(found[q]) \/ NothingWritten
          /\ Finish(q, StoreError, FALSE)
    /\ UNCHANGED <<phase, reply>>

\* LookupSession: the runner the preview of the session is sent to, or 404.
LookupSession(q) ==
    /\ pc[q] = "lookup"
    /\ \/ \E r \in FoundFor(cookie[q]) : Finish(q, r, FALSE)
       \/ FoundFor(cookie[q]) = {} /\ Finish(q, None, FALSE)
       \/ "storeError" \in Faults /\ Finish(q, StoreError, FALSE)
    /\ NothingWritten /\ UNCHANGED <<phase, reply>>

-----------------------------------------------------------------------------
RunnerStep(r) ==
    \/ PostRegister(r) \/ ReceiveReply(r) \/ LoseReply(r)
    \/ Terminate(r) \/ Deregister(r) \/ Crash(r)

RequestStep(q) ==
    \/ FindSession(q) \/ CheckSession(q) \/ DeleteUnhealthy(q)
    \/ CallAcquireIdle(q) \/ NotAssigned(q) \/ (\E r \in Runner : Assigned(q, r))
    \/ CheckNew(q) \/ DeleteNew(q)
    \/ FindToClose(q) \/ DeleteToClose(q) \/ LookupSession(q)

Next ==
    \/ \E r \in Runner : RunnerStep(r) \/ ReindexState(r) \/ ReindexSession(r)
    \/ \E q \in Request :
        \/ RequestStep(q)
        \/ \E k \in Delivered \cup {None} : ResolveSession(q, k) \/ CloseSession(q, k)

Spec == Init /\ [][Next]_vars

\* A request's goroutine runs and each of its calls returns (the store and
\* the 3 s health-check timeout answer or fail it).
FairSpec == Spec /\ \A q \in Request : WF_vars(RequestStep(q))
-----------------------------------------------------------------------------
(* Properties.                                                             *)

\* A runner process serves one session in its life: requests that were sent
\* to the same runner were sent there for the same session.  The conditional
\* writes, the removal of a failed runner instead of its release, and serving
\* only after 201 are all needed for it.  It is claimed for consistent queries
\* only: with a trailing session-index a runner that is put again, since its
\* first registration was answered by 500 or 409 or not at all, can be shown
\* for its first session when it is given to a second one.
ExclusiveTenancy ==
    \A p, q \in Request :
        answer[p] \in Runner /\ answer[q] = answer[p] => SessionOf(p) = SessionOf(q)

\* The sessions that requests were sent to runner r for.
SessionsSentTo(r) == {SessionOf(q) : q \in {p \in Request : answer[p] = r}}

\* What is left of it where indexes trail and writes are sent again: requests
\* are sent to a runner for no more sessions than its record was put, so for
\* one if it was put once.  A put is given away once, by one conditional
\* update, and no late index entry, deleted record or late request brings it
\* back.
OneSessionPerPut == \A r \in Runner : Cardinality(SessionsSentTo(r)) <= puts[r]

\* A session stays with its runner: no later request of the same session is
\* sent to another one, where its shells do not exist.
SessionSticks ==
    \A p, q \in Request :
        /\ answer[p] \in Runner /\ answer[q] \in Runner
        /\ SessionOf(p) = SessionOf(q)
        => answer[p] = answer[q]

\* The fresh session of q is, or was, on runner r.
Holds(q, r) ==
    \/ pc[q] \in {"checkNew", "deleteNew"} /\ found[q] = r
    \/ created[q] /\ answer[q] = r

\* Runner r can be assigned to no session but s: its record says s, or it is
\* gone for good because the process is past registering.
BoundTo(r, s) == record[r] = s \/ (record[r] = Absent /\ phase[r] # "registering")

\* The session-index shows what the table says.
IndexExact == sessionIndexed = [r \in Runner |-> SessionIn(record, r)]

\* What request q may rely on at each of its steps: a session it looks at was
\* delivered, and the runner it looks at is the one that was delivered with it.
RequestSound(q) ==
    /\ pc[q] # "done" => answer[q] = None /\ ~created[q]
    /\ created[q] => answer[q] \in Runner /\ phase[answer[q]] # "registering"
    /\ pc[q] \in {"check", "delete", "deleteToClose", "checkNew", "deleteNew"}
         => found[q] \in Runner
    /\ pc[q] \in {"find", "check", "delete", "findToClose", "deleteToClose", "lookup"}
         => cookie[q] \in Delivered
    /\ pc[q] \in {"check", "delete", "deleteToClose"} => found[q] = answer[cookie[q]]
    /\ answer[q] \in Runner /\ ~created[q]
         => cookie[q] \in Delivered /\ answer[q] = answer[cookie[q]]

\* A runner is held by one request at most and can go to no other session.
HoldersMatched ==
    \A q \in Request, r \in Runner : Holds(q, r) =>
        /\ BoundTo(r, q)
        /\ \A p \in Request : Holds(p, r) => p = q

\* A busy record belongs to its holder or to a request that failed half-way.
BusyAccounted ==
    \A r \in Runner, s \in Session : record[r] = s =>
        Holds(s, r) \/ (pc[s] = "done" /\ ~created[s] /\ answer[s] = StoreError)

\* Why ExclusiveTenancy, SessionSticks and LeakOnlyAfterFailure hold where
\* queries are consistent and no update is sent twice: sessions and runners
\* are matched one to one, and requests only look at matched pairs.
MatchInv ==
    /\ IndexExact
    /\ \A q \in Request : RequestSound(q)
    /\ HoldersMatched
    /\ BusyAccounted

\* A busy record whose session no client got is left behind only by a request
\* that failed half-way; a request that succeeds or finds the pool empty
\* leaves no runner behind.
LeakOnlyAfterFailure ==
    \A r \in Runner, s \in Session :
        record[r] = s /\ pc[s] = "done" => answer[s] \in {r, StoreError}

\* When the client is told that its session was replaced, the old session is
\* gone from the pool, and no other request brings it back.
ReassignedIsFinal ==
    \A q \in Request :
        reassigned[q] /\ answer[q] \in Runner => \A r \in Runner : record[r] # cookie[q]

\* FindBySessionID finds a session that has a record: a request is given a
\* new session only if its own has no record any more.
FindSeesSession ==
    [][\A q \in Request :
        pc[q] = "find" /\ pc'[q] = "acquire" => \A r \in Runner : record[r] # cookie[q]]_vars

\* A runner is told that it conflicts with a registration only if that one
\* has other attributes.  A runner process posts one identity, under an id of
\* its own, so no conflict it meets can be of that kind.
ConflictMeansOtherAttributes == \A r \in Runner : reply[r] # "conflict"

\* Every request is answered: each round of createSession takes a runner out
\* of the pool for good, so the retries end.
EveryRequestAnswered == \A q \in Request : pc[q] # "new" ~> pc[q] = "done"
=============================================================================
