\* Two loads of the page; runners and shells are used again when nothing names
\* them.
CONSTANTS
    r1 = r1  r2 = r2  r3 = r3  i1 = i1  i2 = i2  i3 = i3
    Runner = {r1, r2, r3}
    Shell = {i1, i2, i3}
    None = None
    Expire = Expire
    MaxLoads = 2
SPECIFICATION FairSpec
INVARIANTS TypeOK InputHasShell OneAtATime
PROPERTIES InputComesBack
