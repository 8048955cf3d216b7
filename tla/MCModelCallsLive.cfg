SPECIFICATION FairSpec
CONSTANTS
    t1 = t1
    t2 = t2
    paid1 = paid1
    paid2 = paid2
    own = own
    None = None
    Callers <- TwoThreads
    Providers <- OneOfEach
    Metered <- OnePaid
    ReadSize = 2
    PipeSize = 1
    MaxWritten = 2
    MaxCalls = 1
    ResponseLimit = 1
    Envelope = 1
    MaxInput = 1
    MaxOutput = 1
    InputPrice = 600000
    OutputPrice = 900000
    MaxReserved = 2
    Requests = {1}
    Uses <- FewUses
PROPERTIES
    ProposalsReturn
CHECK_DEADLOCK TRUE
