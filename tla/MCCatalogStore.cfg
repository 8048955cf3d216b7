\* Two connections retry and compete, readers and writers take turns.
SPECIFICATION FairSpec
CONSTANTS
    c1 = c1
    c2 = c2
    op1 = op1
    None = None
    Connections <- MCConnections
    Operations <- MCOperations
    Programs = {"program"}
    RowIds <- MCRowIds
    Pack <- MCPack
    Units <- MCUnits
    SeedRows <- MCSeedRows
    OutsideRow = "mugs"
    Plans <- MCPlans
    MaxInteger = 3
    TriggeredRows <- MCTriggered
    MaxRevision = 1
INVARIANTS
    LedgerAccountsForRevision
    NoLostUpdate
    AnswersMatchLedger
    OneFreshAnswer
    SnapshotsConsistent
PROPERTIES
    ImplementsAtomicCommit
    CallsReturn
CHECK_DEADLOCK TRUE
