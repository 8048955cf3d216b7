SPECIFICATION ReplaySpec
CONSTANTS
    c1 = c1
    None = None
    Callers = {c1}
    ReadSize = 1
    PipeSize = 2
    MaxWritten = 2
    Asked <- Wanted
    Environments <- SomeEnvironments
    Maximum = 7
    MaxDepth = 2
    AnswerSize = 2
    Longest = 8
INVARIANTS
    ReadersAreConfined
    SuccessIsEarned
CHECK_DEADLOCK TRUE
