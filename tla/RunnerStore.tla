----------------------------- MODULE RunnerStore -----------------------------
(***************************************************************************)
(* The search behind Repository.AcquireIdle, as dynamo.go and firestore.go *)
(* both write it: draw a random start, walk the idle runners above it and  *)
(* then those up to it, a page at a time, and try a conditional update on  *)
(* each until one succeeds.  Nothing is locked: other brokers assign,      *)
(* runners register and are deleted, and (DynamoDB) the index being walked *)
(* trails the table, between any two requests to the store.                *)
(*                                                                         *)
(* Runner ids are 1..N in their lexical order.  A start is the number of   *)
(* ids that are <= it, which is all the comparisons can tell.              *)
(***************************************************************************)
EXTENDS Integers, FiniteSets

CONSTANTS
    N,      \* number of runner ids
    Limit,  \* acquireQueryLimit, the page size
    Session, Absent, Idle, None, Pending, NoIdleRunner, StoreError, Lagging

ASSUME SizesAssumption == N \in Nat /\ Limit \in Nat \ {0}

Runner == 1..N

\* A running call is told from one that returned, an idle record from a busy one.
ASSUME NamesAssumption ==
    /\ Pending \notin Runner \cup {None, NoIdleRunner, StoreError}
    /\ Idle \notin Session \cup {Absent}

VARIABLES
    record, indexed, outcome, candidates,  \* as in RunnerPool
    pc,      \* pc[s]: where the call is, see Steps
    start,   \* start[s]: the drawn start
    segment, \* 1: ids above the start; 2: ids up to it
    cursor,  \* ids up to cursor[s] were already returned by a query
    page,    \* runners of the last page that are not tried yet
    more,    \* the last page was full, so another one may follow
    tried    \* runners whose conditional update failed in this call

scanVars == <<pc, start, segment, cursor, page, more, tried>>
vars == <<record, indexed, outcome, candidates, scanVars>>

Steps == {"ready", "query", "assign"}

\* What the search implements: the pool with the same records, and calls seen
\* from outside.
Pool == INSTANCE RunnerPool WITH
    Runner <- Runner, record <- record, indexed <- indexed, outcome <- outcome, candidates <- candidates

TypeOK ==
    /\ Pool!PoolTypeOK
    /\ pc \in [Session -> Steps]
    /\ start \in [Session -> 0..N]
    /\ segment \in [Session -> {1, 2}]
    /\ cursor \in [Session -> 0..N]
    /\ page \in [Session -> SUBSET Runner]
    /\ more \in [Session -> BOOLEAN]
    /\ tried \in [Session -> SUBSET Runner]

Init ==
    /\ Pool!PoolInit
    /\ pc = [s \in Session |-> "ready"]
    /\ start = [s \in Session |-> 0]
    /\ segment = [s \in Session |-> 1]
    /\ cursor = [s \in Session |-> 0]
    /\ page = [s \in Session |-> {}]
    /\ more = [s \in Session |-> FALSE]
    /\ tried = [s \in Session |-> {}]

-----------------------------------------------------------------------------
(* What other brokers, the runners and the indexes do meanwhile.           *)

Register(r) == Pool!Register(r) /\ UNCHANGED scanVars

Delete(r) == Pool!Delete(r) /\ UNCHANGED scanVars

Reindex(r) == Pool!Reindex(r) /\ UNCHANGED scanVars

-----------------------------------------------------------------------------
(* One call of AcquireIdle.                                                *)

\* The call is over: its local variables are gone.
Return(s, res) ==
    /\ outcome' = [outcome EXCEPT ![s] = res]
    /\ pc' = [pc EXCEPT ![s] = "ready"]
    /\ start' = [start EXCEPT ![s] = 0]
    /\ segment' = [segment EXCEPT ![s] = 1]
    /\ cursor' = [cursor EXCEPT ![s] = 0]
    /\ page' = [page EXCEPT ![s] = {}]
    /\ more' = [more EXCEPT ![s] = FALSE]
    /\ tried' = [tried EXCEPT ![s] = {}]

\* The first segment is the ids above the start: like a cursor left there.
AcquireIdle(s, k) ==
    /\ pc[s] = "ready"
    /\ outcome' = [outcome EXCEPT ![s] = Pending]
    /\ candidates' = [candidates EXCEPT ![s] = Pool!IdleRecords \cap indexed]
    /\ pc' = [pc EXCEPT ![s] = "query"]
    /\ start' = [start EXCEPT ![s] = k]
    /\ cursor' = [cursor EXCEPT ![s] = k]
    /\ UNCHANGED <<record, indexed, segment, page, more, tried>>

\* A slip: the second segment stops short of the start itself.
InRangeBelowStart(s) ==
    {r \in indexed : r > cursor[s] /\ (segment[s] = 2 => r < start[s])}

\* The idle runners the index shows in the part of the segment still ahead.
InRange(s) == {r \in indexed : r > cursor[s] /\ (segment[s] = 2 => r <= start[s])}

\* P is the next page of `items`: the first Limit of them, or all.
IsPage(P, items) ==
    /\ P \in SUBSET items
    /\ \A r \in P, q \in items \ P : r < q
    /\ Cardinality(P) <= Limit
    /\ Cardinality(P) < Limit => P = items

\* A slip: the next query starts again where this one did.
QuerySamePage(s) ==
    /\ pc[s] = "query"
    /\ \E P \in SUBSET InRange(s) :
        /\ IsPage(P, InRange(s))
        /\ page' = [page EXCEPT ![s] = P \ tried[s]]
        /\ more' = [more EXCEPT ![s] = Cardinality(P) = Limit]
    /\ pc' = [pc EXCEPT ![s] = "assign"]
    /\ UNCHANGED <<record, indexed, outcome, candidates, start, segment, cursor, tried>>

\* queryIdlePage / QueryIdleRange: the page comes back, and the cursor moves
\* behind its last item (LastEvaluatedKey, or the id of the last snapshot).
QueryPage(s) ==
    /\ pc[s] = "query"
    /\ \E P \in SUBSET InRange(s) :
        /\ IsPage(P, InRange(s))
        /\ page' = [page EXCEPT ![s] = P \ tried[s]]
        /\ more' = [more EXCEPT ![s] = Cardinality(P) = Limit]
        /\ \E last \in P \cup {cursor[s]} :
            /\ \A r \in P : r <= last
            /\ cursor' = [cursor EXCEPT ![s] = last]
    /\ pc' = [pc EXCEPT ![s] = "assign"]
    /\ UNCHANGED <<record, indexed, outcome, candidates, start, segment, tried>>

\* The candidate assignFirst looks at next.
IsNext(s, r) == pc[s] = "assign" /\ r \in page[s] /\ \A q \in page[s] : r <= q

\* A slip: the update has no condition.
AssignAnyRunner(s, r) ==
    /\ IsNext(s, r)
    /\ Pool!Write([record EXCEPT ![r] = s], {s})
    /\ Return(s, r)

\* assignSession's condition holds: the runner is busy with s and returned.
AssignSession(s, r) ==
    /\ IsNext(s, r)
    /\ record[r] = Idle
    /\ Pool!Write([record EXCEPT ![r] = s], {s})
    /\ Return(s, r)

\* ErrConditionFailed: remember the runner and go on with the next candidate.
Skip(s, r) ==
    /\ tried' = [tried EXCEPT ![s] = @ \cup {r}]
    /\ page' = [page EXCEPT ![s] = @ \ {r}]
    /\ UNCHANGED <<outcome, pc, start, segment, cursor, more>>

\* The update is applied, its response is lost, and the store's client
\* library sends it again: the second time the condition fails, because of
\* the first.  The runner is busy with s, and the call goes on without it.
AssignResent(s, r) ==
    /\ IsNext(s, r)
    /\ record[r] = Idle
    /\ Pool!Write([record EXCEPT ![r] = s], {})
    /\ Skip(s, r)

\* The update is applied, its response is lost, and the call returns an error.
AssignLost(s, r) ==
    /\ IsNext(s, r)
    /\ record[r] = Idle
    /\ Pool!Write([record EXCEPT ![r] = s], {s})
    /\ Return(s, StoreError)

\* The condition fails: the index was stale, or another call was faster.
ConditionFailed(s, r) ==
    /\ IsNext(s, r)
    /\ record[r] # Idle
    /\ Skip(s, r)
    /\ UNCHANGED <<record, indexed, candidates>>

\* A query or an update fails without an effect, and the call returns it.
Fail(s) ==
    /\ pc[s] = "query" \/ page[s] # {}
    /\ candidates' = [candidates EXCEPT ![s] = {}]
    /\ Return(s, StoreError)
    /\ UNCHANGED <<record, indexed>>

\* The page was full: ask for the next one from the cursor.
NextPage(s) ==
    /\ pc[s] = "assign" /\ page[s] = {} /\ more[s]
    /\ pc' = [pc EXCEPT ![s] = "query"]
    /\ UNCHANGED <<record, indexed, outcome, candidates, start, segment, cursor, page, more, tried>>

\* The first segment is exhausted: wrap to the smallest id.
NextSegment(s) ==
    /\ pc[s] = "assign" /\ page[s] = {} /\ ~more[s] /\ segment[s] = 1
    /\ segment' = [segment EXCEPT ![s] = 2]
    /\ cursor' = [cursor EXCEPT ![s] = 0]
    /\ pc' = [pc EXCEPT ![s] = "query"]
    /\ UNCHANGED <<record, indexed, outcome, candidates, start, page, more, tried>>

\* Both segments are exhausted: ErrNoIdleRunner.  (`candidates` is a history
\* variable: that it is empty here is what ScanCovers claims, not a guard.)
Exhausted(s) ==
    /\ pc[s] = "assign" /\ page[s] = {} /\ ~more[s] /\ segment[s] = 2
    /\ Return(s, NoIdleRunner)
    /\ candidates' = [candidates EXCEPT ![s] = {}]
    /\ UNCHANGED <<record, indexed>>

-----------------------------------------------------------------------------
CallStep(s) ==
    \/ QueryPage(s) \/ Fail(s) \/ NextPage(s) \/ NextSegment(s) \/ Exhausted(s)
    \/ \E r \in Runner :
        \/ AssignSession(s, r) \/ AssignResent(s, r) \/ AssignLost(s, r)
        \/ ConditionFailed(s, r)

Next ==
    \/ \E r \in Runner : Register(r) \/ Delete(r) \/ Reindex(r)
    \/ \E s \in Session : CallStep(s) \/ \E k \in 0..N : AcquireIdle(s, k)

Spec == Init /\ [][Next]_vars

\* The goroutine of a call is scheduled, and the store answers it or fails.
FairSpec == Spec /\ \A s \in Session : WF_vars(CallStep(s))

-----------------------------------------------------------------------------
(* Properties.                                                             *)

\* Whatever interleaves with the walk, a runner that has been idle and shown
\* by the index since AcquireIdle began is still ahead of it: in the page in
\* hand, beyond the cursor, or in the segment to come.  This is what makes
\* ErrNoIdleRunner (and the fallback to another stack) mean an empty pool.
ScanCovers ==
    \A s \in Session : \A r \in candidates[s] :
        /\ pc[s] # "ready"
        /\ r \notin tried[s]
        /\ \/ r \in page[s]
           \/ r > cursor[s] /\ (pc[s] = "query" \/ more[s])
                            /\ (segment[s] = 2 => r <= start[s])
           \/ segment[s] = 1 /\ r <= start[s]

\* The inductive form of ScanCovers: between calls the local variables are
\* reset, outside the candidate loop the page is used up, and a candidate is
\* idle and shown now.
ScanInv ==
    /\ TypeOK
    /\ \A s \in Session :
        /\ pc[s] = "ready" <=> outcome[s] # Pending
        /\ pc[s] = "ready" => segment[s] = 1 /\ tried[s] = {}
        /\ pc[s] # "assign" => page[s] = {}
        /\ candidates[s] \subseteq Pool!IdleRecords \cap indexed
    /\ ScanCovers

\* Every call is a behaviour the service can rely on: no runner is given to
\* two sessions, a deleted record is not brought back by a late update, and
\* ErrNoIdleRunner is returned only if no runner was idle all along.
RefinesPool == Pool!PoolSpec

\* AcquireIdle returns however the pool changes under the walk: the cursor
\* only moves forward, so no churn of stale items keeps it looping.
CallReturns == \A s \in Session : outcome[s] = Pending ~> outcome[s] # Pending
=============================================================================
