SPECIFICATION Spec
CONSTANTS
    c1 = c1
    c2 = c2
    c3 = c3
    k1 = k1
    k2 = k2
    good = good
    false = false
    partial = partial
    None = None
    Commands <- ThreeCommands
    Paths <- FilePaths
    Torn <- TornData
    Keys <- TwoKeys
    Reports <- AllReports
    Eligible <- EligibleReports
    Reproducible = {good}
    Payloads <- SomePayloads
    Invocations <- SomeInvocations
    Given <- Others
    InitialFiles <- AtFirst
    MaxOutside = 2
SYMMETRY CommandSymmetry
INVARIANTS
    SatisfiedMeansEndorsed
    ExitsTellTheTruth
PROPERTIES
    NothingIsOverwritten
CHECK_DEADLOCK FALSE
