\* A retried registration whose first response was lost.
CONSTANTS
    r1 = r1  r2 = r2  r3 = r3
    q1 = q1  q2 = q2  q3 = q3
    Runner = {r1}
    Session = {q1}
    Absent = Absent
    Idle = Idle
    None = None
    Pending = Pending
    NoIdleRunner = NoIdleRunner
    StoreError = StoreError
    Lagging = FALSE
    MaxPuts = 2
    Faults = {"lostReply"}
SPECIFICATION Spec
INVARIANTS ConflictMeansOtherAttributes
CHECK_DEADLOCK FALSE
