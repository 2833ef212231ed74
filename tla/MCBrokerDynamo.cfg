\* Trailing indexes (DynamoDB), every fault, and a runner put twice; with fairness.
CONSTANTS
    r1 = r1  r2 = r2  r3 = r3
    q1 = q1  q2 = q2  q3 = q3
    Runner = {r1}
    Session = {q1, q2, q3}
    Absent = Absent
    Idle = Idle
    None = None
    Pending = Pending
    NoIdleRunner = NoIdleRunner
    StoreError = StoreError
    Lagging = TRUE
    MaxPuts = 2
    Faults = {"lostReply", "storeError", "cancel", "resend", "flaky", "crash"}
SPECIFICATION FairSpec
INVARIANTS OneSessionPerPut
PROPERTIES EveryRequestAnswered
CHECK_DEADLOCK FALSE
