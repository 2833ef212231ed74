\* The owner of a lost session, tried again as a fallback.
CONSTANTS
    a = a  b = b  c = c  d = d
    u = u  v = v
    Order <- Three
    Client = {u}
    MaxIdle = 1
    None = None
    Retired = Retired
    Faults = {"down"}
SPECIFICATION Spec
INVARIANTS FallbackExcludesOwner
