\* A session looked up before the session-index shows it (DynamoDB).
CONSTANTS
    r1 = r1  r2 = r2  r3 = r3
    q1 = q1  q2 = q2  q3 = q3
    Runner = {r1, r2}
    Session = {q1, q2}
    Absent = Absent
    Idle = Idle
    None = None
    Pending = Pending
    NoIdleRunner = NoIdleRunner
    StoreError = StoreError
    Lagging = TRUE
    MaxPuts = 2
    Faults = {}
SPECIFICATION FairSpec
PROPERTIES FindSeesSession
CHECK_DEADLOCK FALSE
