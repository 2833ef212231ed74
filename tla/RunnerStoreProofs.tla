-------------------------- MODULE RunnerStoreProofs --------------------------
(***************************************************************************)
(* What the search of AcquireIdle guarantees for any number of runners and *)
(* calls, any page size, and both kinds of index: the scan overlooks no    *)
(* runner, and the whole store behaves like RunnerPool.                    *)
(***************************************************************************)
EXTENDS RunnerStore, FiniteSetTheorems, TLAPS

\* The table write of RunnerPool keeps the types and only removes candidates.
LEMMA WriteLemma ==
    ASSUME Pool!PoolTypeOK, NEW rec \in [Runner -> {Absent, Idle} \cup Session],
           NEW returning, Pool!Write(rec, returning)
    PROVE  /\ record' \in [Runner -> {Absent, Idle} \cup Session]
           /\ indexed' \in SUBSET Runner
           /\ candidates' \in [Session -> SUBSET Runner]
           /\ \A s \in Session : s \notin returning => candidates'[s] \subseteq candidates[s]
           /\ \A s \in Session : s \in returning => candidates'[s] = {}
           /\ (\A s \in Session : candidates[s] \subseteq Pool!IdleRecords \cap indexed)
              => (\A s \in Session : candidates'[s] \subseteq (Pool!IdleRecords \cap indexed)')
BY DEF Pool!PoolTypeOK, Pool!Write, Pool!IdleRecords

LEMMA InitLemma == Init => ScanInv
BY SizesAssumption, NamesAssumption
DEF Init, ScanInv, TypeOK, ScanCovers, Pool!PoolInit, Pool!PoolTypeOK, Pool!IdleRecords,
    Pool!Returned, Steps, Runner

\* What the table, the indexes and the other brokers do keeps the invariant:
\* it changes no local variable of a call and adds no candidate.
LEMMA EnvironmentStep ==
    ASSUME ScanInv, NEW r \in Runner, Register(r) \/ Delete(r) \/ Reindex(r)
    PROVE  ScanInv'
<1> USE SizesAssumption, NamesAssumption
<1>1. UNCHANGED <<outcome, scanVars>>
    BY DEF Register, Delete, Reindex, Pool!Register, Pool!Delete, Pool!Reindex
<1>2. /\ Pool!PoolTypeOK'
      /\ \A s \in Session : candidates'[s] \subseteq candidates[s]
      /\ \A s \in Session : candidates'[s] \subseteq (Pool!IdleRecords \cap indexed)'
    <2>1. CASE Register(r)
        BY <2>1, WriteLemma, Zenon
        DEF Register, Pool!Register, ScanInv, TypeOK, Pool!PoolTypeOK
    <2>2. CASE Delete(r)
        BY <2>2 DEF Delete, Pool!Delete, Pool!Write, ScanInv, TypeOK, Pool!PoolTypeOK, Pool!IdleRecords
    <2>3. CASE Reindex(r)
        BY <2>3 DEF Reindex, Pool!Reindex, ScanInv, TypeOK, Pool!PoolTypeOK, Pool!IdleRecords
    <2> QED BY <2>1, <2>2, <2>3
<1>3. TypeOK'
    BY <1>1, <1>2 DEF ScanInv, TypeOK, scanVars
<1>4. ScanCovers'
    BY <1>1, <1>2 DEF ScanInv, ScanCovers, scanVars
<1> QED BY <1>1, <1>2, <1>3, <1>4 DEF ScanInv, scanVars

\* A call that returns leaves no candidate and resets its local variables.
LEMMA ReturnStep ==
    ASSUME ScanInv, NEW s \in Session, NEW res \in Runner \cup {NoIdleRunner, StoreError},
           Return(s, res), Pool!PoolTypeOK',
           candidates'[s] = {},
           \A t \in Session : candidates'[t] \subseteq candidates[t],
           \A t \in Session : candidates'[t] \subseteq (Pool!IdleRecords \cap indexed)'
    PROVE  ScanInv'
<1> USE SizesAssumption, NamesAssumption DEF ScanInv, TypeOK, Return, Steps
<1>1. TypeOK'
    OBVIOUS
<1>2. \A t \in Session :
        /\ pc'[t] = "ready" <=> outcome'[t] # Pending
        /\ pc'[t] = "ready" => segment'[t] = 1 /\ tried'[t] = {}
        /\ pc'[t] # "assign" => page'[t] = {}
    BY DEF Pool!PoolTypeOK
<1>3. ScanCovers'
    BY DEF ScanCovers
<1> QED BY <1>1, <1>2, <1>3

\* The page of a query leaves no candidate behind the cursor: what is not on
\* the page is beyond its last item, and then the page is full.
LEMMA QueryPageStep ==
    ASSUME ScanInv, NEW s \in Session, QueryPage(s)
    PROVE  ScanInv'
<1> USE SizesAssumption, NamesAssumption
<1>1. PICK P \in SUBSET InRange(s) :
        /\ IsPage(P, InRange(s))
        /\ page' = [page EXCEPT ![s] = P \ tried[s]]
        /\ more' = [more EXCEPT ![s] = Cardinality(P) = Limit]
        /\ \E last \in P \cup {cursor[s]} :
            /\ \A r \in P : r <= last
            /\ cursor' = [cursor EXCEPT ![s] = last]
    BY DEF QueryPage
<1>2. PICK last \in P \cup {cursor[s]} :
        (\A r \in P : r <= last) /\ cursor' = [cursor EXCEPT ![s] = last]
    BY <1>1
<1>3. P \subseteq Runner /\ last \in 0..N
    BY <1>2 DEF InRange, ScanInv, TypeOK, Pool!PoolTypeOK, Runner
<1>4. TypeOK'
    BY <1>1, <1>2, <1>3 DEF QueryPage, ScanInv, TypeOK, Pool!PoolTypeOK, Steps
<1>5. \A t \in Session :
        /\ pc'[t] = "ready" <=> outcome'[t] # Pending
        /\ pc'[t] = "ready" => segment'[t] = 1 /\ tried'[t] = {}
        /\ pc'[t] # "assign" => page'[t] = {}
        /\ candidates'[t] \subseteq (Pool!IdleRecords \cap indexed)'
    BY <1>1 DEF QueryPage, ScanInv, TypeOK, Steps, Pool!IdleRecords
<1>6. ScanCovers'
    <2> SUFFICES ASSUME NEW t \in Session, NEW r \in candidates'[t]
        PROVE /\ pc'[t] # "ready"
              /\ r \notin tried'[t]
              /\ \/ r \in page'[t]
                 \/ r > cursor'[t] /\ (pc'[t] = "query" \/ more'[t])
                                   /\ (segment'[t] = 2 => r <= start'[t])
                 \/ segment'[t] = 1 /\ r <= start'[t]
        BY DEF ScanCovers
    <2>1. CASE t # s
        BY <2>1, <1>1, <1>2 DEF QueryPage, ScanInv, ScanCovers, TypeOK
    <2>2. CASE t = s
        <3>1. /\ r \in indexed /\ r \in Runner /\ r \notin tried[s] /\ page[s] = {}
              /\ \/ r > cursor[s] /\ (segment[s] = 2 => r <= start[s])
                 \/ segment[s] = 1 /\ r <= start[s]
            BY <2>2 DEF QueryPage, ScanInv, ScanCovers, TypeOK, Pool!PoolTypeOK
        <3>2. CASE r \in P
            BY <3>1, <3>2, <2>2, <1>1 DEF QueryPage, ScanInv, TypeOK
        <3>3. CASE r \notin P /\ r \in InRange(s)
            <4>1. P # InRange(s) /\ \A q \in P : q < r
                BY <3>3, <1>1 DEF IsPage
            <4>2. Cardinality(P) = Limit
                <5>1. IsFiniteSet(P)
                    <6>1. IsFiniteSet(Runner)
                        BY FS_Interval DEF Runner
                    <6> QED BY <1>3, <6>1, FS_Subset, Zenon
                <5>2. Cardinality(P) \in Nat
                    BY <5>1, FS_CardinalityType
                <5> QED BY <5>2, <4>1, <1>1 DEF IsPage
            <4>3. r > last
                BY <4>1, <3>3, <1>2, <1>3 DEF InRange
            <4>4. more'[t]
                BY <4>2, <2>2, <1>1 DEF ScanInv, TypeOK
            <4>5. cursor'[t] = last /\ segment' = segment /\ start' = start
                BY <2>2, <1>2 DEF QueryPage, ScanInv, TypeOK
            <4>6. pc'[t] # "ready" /\ tried' = tried
                BY <2>2 DEF QueryPage, ScanInv, TypeOK
            <4> QED BY <4>3, <4>4, <4>5, <4>6, <3>1, <3>3, <2>2 DEF InRange
        <3>4. CASE r \notin InRange(s)
            BY <3>1, <3>4, <2>2 DEF QueryPage, InRange
        <3> QED BY <3>2, <3>3, <3>4
    <2> QED BY <2>1, <2>2
<1> QED BY <1>4, <1>5, <1>6 DEF ScanInv

\* A conditional update, applied or refused, takes its runner out of the page
\* and, if it was one, out of the candidates.
LEMMA UpdateStep ==
    ASSUME ScanInv, NEW s \in Session, NEW r \in Runner,
           \/ AssignSession(s, r) \/ AssignResent(s, r) \/ AssignLost(s, r)
           \/ ConditionFailed(s, r)
    PROVE  ScanInv'
<1> USE SizesAssumption, NamesAssumption
<1> DEFINE busy == [record EXCEPT ![r] = s]
<1>1. busy \in [Runner -> {Absent, Idle} \cup Session]
    BY DEF ScanInv, TypeOK, Pool!PoolTypeOK
<1>2. CASE AssignSession(s, r) \/ AssignLost(s, r)
    <2>1. Pool!Write(busy, {s}) /\ \E res \in Runner \cup {NoIdleRunner, StoreError} : Return(s, res)
        BY <1>2 DEF AssignSession, AssignLost
    <2>2. /\ candidates'[s] = {}
          /\ \A u \in Session : candidates'[u] \subseteq candidates[u]
          /\ \A u \in Session : candidates'[u] \subseteq (Pool!IdleRecords \cap indexed)'
          /\ Pool!PoolTypeOK'
        <3>1. Pool!PoolTypeOK /\ \A u \in Session : candidates[u] \subseteq Pool!IdleRecords \cap indexed
            BY DEF ScanInv, TypeOK
        <3>2. /\ record' \in [Runner -> {Absent, Idle} \cup Session]
              /\ indexed' \in SUBSET Runner
              /\ candidates' \in [Session -> SUBSET Runner]
              /\ candidates'[s] = {}
              /\ \A u \in Session : candidates'[u] \subseteq (Pool!IdleRecords \cap indexed)'
            BY <2>1, <1>1, <3>1, WriteLemma
        <3>3. \A u \in Session : candidates'[u] \subseteq candidates[u]
            BY <2>1, <1>1, <3>1, <3>2, WriteLemma
        <3>4. Pool!PoolTypeOK'
            BY <2>1, <3>1, <3>2 DEF Return, Pool!PoolTypeOK, Pool!Returned
        <3> QED BY <3>2, <3>3, <3>4
    <2> QED BY <2>1, <2>2, ReturnStep
<1>3. CASE AssignResent(s, r) \/ ConditionFailed(s, r)
    <2>1. Skip(s, r) /\ IsNext(s, r)
        BY <1>3 DEF AssignResent, ConditionFailed
    <2>2. /\ \A u \in Session : candidates'[u] \subseteq candidates[u]
          /\ \A u \in Session : candidates'[u] \subseteq (Pool!IdleRecords \cap indexed)'
          /\ Pool!PoolTypeOK'
        <3>1. CASE AssignResent(s, r)
            BY <3>1, <1>1, WriteLemma
            DEF AssignResent, Skip, ScanInv, TypeOK, Pool!PoolTypeOK, Pool!Returned
        <3>2. CASE ConditionFailed(s, r)
            BY <3>2 DEF ConditionFailed, Skip, ScanInv, TypeOK, Pool!PoolTypeOK, Pool!IdleRecords
        <3> QED BY <3>1, <3>2, <1>3
    <2>3. record'[r] # Idle
        BY <1>3, <1>1 DEF AssignResent, ConditionFailed, Pool!Write, ScanInv, TypeOK, Pool!PoolTypeOK
    <2>4. \A u \in Session : r \notin candidates'[u]
        BY <2>2, <2>3 DEF Pool!IdleRecords
    <2>5. TypeOK'
        BY <2>1, <2>2 DEF Skip, ScanInv, TypeOK
    <2>6. ScanCovers'
        BY <2>1, <2>2, <2>4 DEF Skip, ScanInv, ScanCovers, TypeOK
    <2> QED BY <2>1, <2>2, <2>5, <2>6 DEF Skip, IsNext, ScanInv, TypeOK
<1> QED BY <1>2, <1>3

\* Moving to the next page or segment, and starting a call, keep everything
\* that is still to be visited ahead of the cursor.
LEMMA MoveStep ==
    ASSUME ScanInv, NEW s \in Session, NEW k \in 0..N,
           NextPage(s) \/ NextSegment(s) \/ AcquireIdle(s, k)
    PROVE  ScanInv'
<1> USE SizesAssumption, NamesAssumption DEF ScanInv, TypeOK, Pool!PoolTypeOK
<1>1. CASE NextPage(s)
    BY <1>1 DEF NextPage, ScanCovers, Steps, Pool!IdleRecords
<1>2. CASE NextSegment(s)
    BY <1>2 DEF NextSegment, ScanCovers, Steps, Pool!IdleRecords, Runner
<1>3. CASE AcquireIdle(s, k)
    BY <1>3 DEF AcquireIdle, ScanCovers, Steps, Pool!IdleRecords, Runner, Pool!Returned
<1> QED BY <1>1, <1>2, <1>3

\* A call that ends with an error or with ErrNoIdleRunner.
LEMMA GiveUpStep ==
    ASSUME ScanInv, NEW s \in Session, Fail(s) \/ Exhausted(s)
    PROVE  ScanInv'
<1>1. \E res \in Runner \cup {NoIdleRunner, StoreError} : Return(s, res)
    BY DEF Fail, Exhausted
<1>2. /\ candidates'[s] = {}
      /\ \A t \in Session : candidates'[t] \subseteq candidates[t]
      /\ \A t \in Session : candidates'[t] \subseteq (Pool!IdleRecords \cap indexed)'
      /\ Pool!PoolTypeOK'
    BY <1>1 DEF Fail, Exhausted, Return, ScanInv, TypeOK, Pool!PoolTypeOK, Pool!Returned, Pool!IdleRecords
<1> QED BY <1>1, <1>2, ReturnStep

LEMMA StepLemma == ScanInv /\ [Next]_vars => ScanInv'
<1> SUFFICES ASSUME ScanInv, [Next]_vars PROVE ScanInv'
    OBVIOUS
<1>1. CASE \E r \in Runner : Register(r) \/ Delete(r) \/ Reindex(r)
    BY <1>1, EnvironmentStep
<1>2. ASSUME NEW s \in Session, CallStep(s) PROVE ScanInv'
    BY <1>2, QueryPageStep, UpdateStep, GiveUpStep, MoveStep, SizesAssumption DEF CallStep
<1>3. CASE \E s \in Session, k \in 0..N : AcquireIdle(s, k)
    BY <1>3, MoveStep
<1>4. CASE UNCHANGED vars
    BY <1>4 DEF vars, scanVars, ScanInv, TypeOK, ScanCovers, Pool!PoolTypeOK, Pool!IdleRecords
<1> QED BY <1>1, <1>2, <1>3, <1>4 DEF Next

\* The invariant behind everything else, for every number of runners, calls
\* and page size and for both kinds of index.
THEOREM InductiveInvariant == Spec => []ScanInv
BY InitLemma, StepLemma, PTL DEF Spec

\* The variables keep their types.
THEOREM TypeCorrect == Spec => []TypeOK
<1>1. ScanInv => TypeOK
    BY DEF ScanInv
<1> QED BY <1>1, InductiveInvariant, PTL

\* AcquireIdle overlooks no runner that stays idle and shown while it runs.
THEOREM ScanCoversAlways == Spec => []ScanCovers
<1>1. ScanInv => ScanCovers
    BY DEF ScanInv
<1> QED BY <1>1, InductiveInvariant, PTL

-----------------------------------------------------------------------------
(* The search implements the promise of RunnerPool.                        *)

\* The steps that write the table are the ones of RunnerPool.
LEMMA UpdateRefines ==
    ASSUME ScanInv, NEW s \in Session, NEW r \in Runner,
           \/ AssignSession(s, r) \/ AssignResent(s, r) \/ AssignLost(s, r)
    PROVE  Pool!PoolNext
<1>1. outcome[s] = Pending /\ record[r] = Idle
    BY DEF AssignSession, AssignResent, AssignLost, IsNext, ScanInv
<1>2. CASE AssignSession(s, r)
    <2>1. Pool!Assign(s, r)
        BY <1>1, <1>2 DEF AssignSession, Return, Pool!Assign
    <2> QED BY <2>1 DEF Pool!PoolNext
<1>3. CASE AssignResent(s, r)
    <2>1. Pool!Write([record EXCEPT ![r] = s], {}) /\ outcome' = outcome
        BY <1>3 DEF AssignResent, Skip
    <2>2. outcome' = [outcome EXCEPT ![s] = Pending]
        BY <1>1, <2>1 DEF ScanInv, TypeOK, Pool!PoolTypeOK
    <2>3. Pool!AssignUnseen(s, r, Pending)
        BY <1>1, <2>1, <2>2 DEF Pool!AssignUnseen
    <2> QED BY <2>3 DEF Pool!PoolNext
<1>4. CASE AssignLost(s, r)
    <2>1. Pool!AssignUnseen(s, r, StoreError)
        BY <1>1, <1>4, NamesAssumption DEF AssignLost, Return, Pool!AssignUnseen
    <2> QED BY <2>1 DEF Pool!PoolNext
<1> QED BY <1>2, <1>3, <1>4

\* Where the scan gives up, ScanCovers leaves no candidate: ErrNoIdleRunner is
\* returned exactly when RunnerPool allows it.
LEMMA ExhaustedRefines ==
    ASSUME ScanInv, NEW s \in Session, Exhausted(s)
    PROVE  Pool!Exhaust(s)
<1>1. outcome[s] = Pending
    BY DEF Exhausted, ScanInv
<1>2. candidates[s] = {}
    BY DEF Exhausted, ScanInv, ScanCovers
<1>3. candidates' = candidates
    BY <1>2 DEF Exhausted, ScanInv, TypeOK, Pool!PoolTypeOK
<1> QED BY <1>1, <1>2, <1>3 DEF Exhausted, Return, Pool!Exhaust

LEMMA StepRefines == ScanInv /\ [Next]_vars => [Pool!PoolNext]_(Pool!poolVars)
<1> SUFFICES ASSUME ScanInv, [Next]_vars PROVE Pool!PoolNext \/ UNCHANGED Pool!poolVars
    OBVIOUS
<1>1. CASE \E r \in Runner : Register(r) \/ Delete(r) \/ Reindex(r)
    BY <1>1 DEF Register, Delete, Reindex, Pool!PoolNext
<1>2. ASSUME NEW s \in Session, CallStep(s) PROVE Pool!PoolNext \/ UNCHANGED Pool!poolVars
    <2>1. CASE QueryPage(s) \/ NextPage(s) \/ NextSegment(s)
        BY <2>1 DEF QueryPage, NextPage, NextSegment, Pool!poolVars
    <2>2. CASE Fail(s)
        <3>1. outcome[s] = Pending
            BY <2>2 DEF Fail, ScanInv
        <3>2. Pool!Fail(s)
            BY <2>2, <3>1 DEF Fail, Return, Pool!Fail
        <3> QED BY <3>2 DEF Pool!PoolNext
    <2>3. CASE Exhausted(s)
        BY <2>3, ExhaustedRefines DEF Pool!PoolNext
    <2>4. ASSUME NEW r \in Runner, ConditionFailed(s, r) PROVE UNCHANGED Pool!poolVars
        BY <2>4 DEF ConditionFailed, Skip, Pool!poolVars
    <2>5. ASSUME NEW r \in Runner,
                 AssignSession(s, r) \/ AssignResent(s, r) \/ AssignLost(s, r)
          PROVE Pool!PoolNext
        BY <2>5, UpdateRefines
    <2> QED BY <1>2, <2>1, <2>2, <2>3, <2>4, <2>5 DEF CallStep
<1>3. ASSUME NEW s \in Session, NEW k \in 0..N, AcquireIdle(s, k) PROVE Pool!PoolNext
    <2>1. outcome[s] # Pending
        BY <1>3 DEF AcquireIdle, ScanInv
    <2>2. Pool!Begin(s)
        BY <1>3, <2>1 DEF AcquireIdle, Pool!Begin
    <2> QED BY <2>2 DEF Pool!PoolNext
<1>4. CASE UNCHANGED vars
    BY <1>4 DEF vars, Pool!poolVars
<1> QED BY <1>1, <1>2, <1>3, <1>4 DEF Next

\* Every behaviour of the two-segment walk is one of RunnerPool: no runner is
\* assigned twice, no deleted record comes back, and ErrNoIdleRunner means
\* that no runner was idle and shown all along.
THEOREM Refinement == Spec => RefinesPool
<1>1. Init => Pool!PoolInit
    BY DEF Init
<1> QED BY <1>1, StepRefines, InductiveInvariant, PTL DEF Spec, RefinesPool, Pool!PoolSpec
=============================================================================
