\* Two requests at a time and two shells, from the start of the process to its end.
CONSTANTS
    p = p  q = q  x = x  y = y
    Request = {p, q}
    Shell = {x, y}
    Main = Main
    None = None
    MaxSignals = 1
SPECIFICATION FairSpec
INVARIANTS OneOwner ExitLeavesNothing
PROPERTIES ShellsKeepPromise SignalHeeded AppComesBack
CHECK_DEADLOCK FALSE
