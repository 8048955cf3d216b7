SPECIFICATION Spec
CONSTANTS
    t1 = t1
    t2 = t2
    paid1 = paid1
    paid2 = paid2
    own = own
    None = None
    Callers <- TwoThreads
    Providers <- ThreeProviders
    Metered <- PaidProviders
    ReadSize = 2
    PipeSize = 2
    MaxWritten = 3
    MaxCalls = 1
    ResponseLimit = 1
    Envelope = 1
    MaxInput = 1
    MaxOutput = 1
    InputPrice = 600000
    OutputPrice = 900000
    MaxReserved = 3
    Requests <- SomeRequests
    Uses <- SomeUses
SYMMETRY ThreadSymmetry
INVARIANTS
    AnswersAreWhole
    NothingLeftBehind
    BilledIsReserved
    CallsWithinBudget
PROPERTIES
    PlansAreEarned
CHECK_DEADLOCK TRUE
