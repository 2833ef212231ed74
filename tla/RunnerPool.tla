----------------------------- MODULE RunnerPool -----------------------------
(***************************************************************************)
(* What broker/store.Repository promises to the broker, whichever backend  *)
(* serves it (DynamoDB in dynamo.go, Firestore in firestore.go): one       *)
(* record per runner process, moved by Register, AcquireIdle and Delete,   *)
(* each of which is one atomic conditional write.                          *)
(*                                                                         *)
(* A record is Absent, Idle, or the session it is assigned to (state       *)
(* "busy" with currentSessionId).  AcquireIdle is a call: it begins, other *)
(* writes happen, and it returns a runner, NoIdleRunner or StoreError.     *)
(* How it searches is the business of RunnerStore, which refines this      *)
(* module; Broker builds the service on top of it.                         *)
(***************************************************************************)
EXTENDS FiniteSets

CONSTANTS
    Runner,        \* runner ids; a runner process draws a fresh one at start
    Session,       \* session ids; createSession draws a fresh one per call
    Absent, Idle,  \* record states other than "busy with a session"
    None,          \* no call to AcquireIdle was made yet
    Pending,       \* AcquireIdle is running
    NoIdleRunner,  \* it returned ErrNoIdleRunner
    StoreError,    \* it returned another error of the store
    Lagging        \* TRUE: DynamoDB, whose indexes trail the table;
                   \* FALSE: Firestore, whose queries are consistent

Returned == {None, Pending, NoIdleRunner, StoreError}

ASSUME LaggingAssumption == Lagging \in BOOLEAN

\* Names of different things are different, and a session is not a runner.
ASSUME NamesAssumption ==
    /\ Absent # Idle
    /\ {Absent, Idle} \cap Session = {}
    /\ Returned \cap (Runner \cup Session) = {}
    /\ Runner \cap Session = {}
    /\ Pending \notin {None, NoIdleRunner, StoreError}
    /\ NoIdleRunner \notin {None, StoreError}
    /\ None # StoreError

VARIABLES
    record,     \* the table: record[r] is the record of runner r
    indexed,    \* runners the state-index shows as idle
    outcome,    \* outcome[s]: what AcquireIdle(s) returned last
    candidates  \* candidates[s]: runners that were idle, and shown as idle,
                \* at every moment since the running AcquireIdle(s) began

poolVars == <<record, indexed, outcome, candidates>>

IdleRecords == {r \in Runner : record[r] = Idle}

PoolTypeOK ==
    /\ record \in [Runner -> {Absent, Idle} \cup Session]
    /\ indexed \in SUBSET Runner
    /\ outcome \in [Session -> Runner \cup Returned]
    /\ candidates \in [Session -> SUBSET Runner]

PoolInit ==
    /\ record = [r \in Runner |-> Absent]
    /\ indexed = {}
    /\ outcome = [s \in Session |-> None]
    /\ candidates = [s \in Session |-> {}]

-----------------------------------------------------------------------------
\* The table changes to `rec`.  A consistent state-index follows; a lagging one
\* is moved by Reindex.  A runner that is not idle, or not shown as idle, any
\* more is no candidate of a running call; the calls in `returning` are over.
Write(rec, returning) ==
    LET idle == {r \in Runner : rec[r] = Idle}
        shown == IF Lagging THEN indexed ELSE idle
    IN  /\ record' = rec
        /\ indexed' = shown
        /\ candidates' = [s \in Session |->
               IF s \in returning THEN {} ELSE candidates[s] \cap idle \cap shown]

\* A slip the properties must notice: the put forgets the state attribute.
RegisterWithoutState(r) ==
    /\ record[r] = Absent
    /\ Write([record EXCEPT ![r] = None], {})
    /\ UNCHANGED outcome

\* Register: the conditional put succeeds only where no record exists.
Register(r) ==
    /\ record[r] = Absent
    /\ Write([record EXCEPT ![r] = Idle], {})
    /\ UNCHANGED outcome

\* Delete: unconditional, and idempotent on an absent record.
Delete(r) ==
    /\ Write([record EXCEPT ![r] = Absent], {})
    /\ UNCHANGED outcome

\* The state-index catches up with the table for runner r.
Reindex(r) ==
    LET shown == IF record[r] = Idle THEN indexed \cup {r} ELSE indexed \ {r}
    IN  /\ Lagging
        /\ (r \in indexed) # (record[r] = Idle)
        /\ indexed' = shown
        /\ candidates' = [s \in Session |-> candidates[s] \cap shown]
        /\ UNCHANGED <<record, outcome>>

\* AcquireIdle begins.
Begin(s) ==
    /\ outcome[s] # Pending
    /\ outcome' = [outcome EXCEPT ![s] = Pending]
    /\ candidates' = [candidates EXCEPT ![s] = IdleRecords \cap indexed]
    /\ UNCHANGED <<record, indexed>>

\* A slip the properties must notice: an update without its condition.
AssignAnyway(s, r) ==
    /\ outcome[s] = Pending
    /\ record[r] # s
    /\ Write([record EXCEPT ![r] = s], {s})
    /\ outcome' = [outcome EXCEPT ![s] = r]

\* The conditional update finds r idle, marks it busy, and the call returns r.
Assign(s, r) ==
    /\ outcome[s] = Pending
    /\ record[r] = Idle
    /\ Write([record EXCEPT ![r] = s], {s})
    /\ outcome' = [outcome EXCEPT ![s] = r]

\* The same update is applied but its response is lost: the call goes on
\* (the client library sends it again) or returns an error.
AssignUnseen(s, r, then) ==
    /\ outcome[s] = Pending
    /\ then \in {Pending, StoreError}
    /\ record[r] = Idle
    /\ Write([record EXCEPT ![r] = s], IF then = Pending THEN {} ELSE {s})
    /\ outcome' = [outcome EXCEPT ![s] = then]

\* ErrNoIdleRunner is returned only if no runner was idle all along.
Exhaust(s) ==
    /\ outcome[s] = Pending
    /\ candidates[s] = {}
    /\ outcome' = [outcome EXCEPT ![s] = NoIdleRunner]
    /\ UNCHANGED <<record, indexed, candidates>>

\* A query or an update fails without an effect.
Fail(s) ==
    /\ outcome[s] = Pending
    /\ outcome' = [outcome EXCEPT ![s] = StoreError]
    /\ candidates' = [candidates EXCEPT ![s] = {}]
    /\ UNCHANGED <<record, indexed>>

PoolNext ==
    \/ \E r \in Runner : Register(r) \/ Delete(r) \/ Reindex(r)
    \/ \E s \in Session :
        \/ Begin(s) \/ Exhaust(s) \/ Fail(s)
        \/ \E r \in Runner :
            \/ Assign(s, r)
            \/ \E then \in {Pending, StoreError} : AssignUnseen(s, r, then)

PoolSpec == PoolInit /\ [][PoolNext]_poolVars
=============================================================================
