\* Commands that may end bash: every call and Close return, with fairness, and
\* an answer is the whole answer.
CONSTANTS
    p = p  q = q  r = r
    Call = {p, q}
    Code = {0, 1}
    MaxOut = 1
    MaxErr = 1
    PipeCap = 1
    None = None
    Closer = Closer
    Habits = {"exits"}
SPECIFICATION FairSpec
INVARIANTS AnswerComplete AnswerCode
PROPERTIES EveryCallReturns CloseReturns
CHECK_DEADLOCK FALSE
