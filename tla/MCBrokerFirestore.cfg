\* Consistent queries (Firestore), and every fault but the resent update.
CONSTANTS
    r1 = r1  r2 = r2  r3 = r3
    q1 = q1  q2 = q2  q3 = q3
    Runner = {r1, r2}
    Session = {q1, q2, q3}
    Absent = Absent
    Idle = Idle
    None = None
    Pending = Pending
    NoIdleRunner = NoIdleRunner
    StoreError = StoreError
    Lagging = FALSE
    MaxPuts = 2
    Faults = {"lostReply", "storeError", "cancel", "flaky", "crash"}
SPECIFICATION Spec
SYMMETRY Symmetry
INVARIANTS TypeOK MatchInv ExclusiveTenancy SessionSticks LeakOnlyAfterFailure ReassignedIsFinal
PROPERTIES FindSeesSession
CHECK_DEADLOCK FALSE
