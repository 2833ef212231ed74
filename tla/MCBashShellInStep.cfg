\* Commands that do everything, their own script included: the session is in step or broken.
CONSTANTS
    p = p  q = q  r = r
    Call = {p, q}
    Code = {0}
    MaxOut = 1
    MaxErr = 0
    PipeCap = 2
    None = None
    Closer = Closer
    Habits = {"reads", "exits", "mutes", "strays", "overlong"}
SPECIFICATION Spec
SYMMETRY Calls
INVARIANTS TypeOK InStepOrBroken AnswerComplete
PROPERTIES BrokenForGood RefinesSession
CHECK_DEADLOCK FALSE
