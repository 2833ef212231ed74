\* DynamoDB: two calls race over an index that trails the table.
CONSTANTS
    N = 2
    Limit = 1
    s1 = s1
    s2 = s2
    Session = {s1, s2}
    Absent = Absent
    Idle = Idle
    None = None
    Pending = Pending
    NoIdleRunner = NoIdleRunner
    StoreError = StoreError
    Lagging = TRUE
SPECIFICATION FairSpec
INVARIANTS ScanInv ScanCovers
PROPERTIES RefinesPool CallReturns
