\* Three PUTs, of which one does not compile, and a connection.
CONSTANTS
    p = p  q = q  r = r  c = c
    Put = {p, q, r}
    Conn = {c}
    Shipped = Shipped
    Bad = {q}
    Part = Part
    None = None
SPECIFICATION FairSpec
INVARIANTS FileWhole PageIsCurrent NothingRuns
PROPERTIES PageAnswered
CHECK_DEADLOCK FALSE
