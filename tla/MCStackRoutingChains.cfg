\* Three stacks, with every fault.
CONSTANTS
    a = a  b = b  c = c  d = d
    u = u  v = v
    Order <- Three
    Client = {u}
    MaxIdle = 1
    None = None
    Retired = Retired
    Faults = {"down", "broker", "runner"}
SPECIFICATION FairSpec
INVARIANTS TypeOK UnavailableMeansAllAsked ChainBounded SessionContinuity
PROPERTIES EveryRequestAnswered
