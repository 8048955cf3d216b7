\* One run of up to two commits, its target replaced, its journal damaged.
SPECIFICATION FairSpec
CONSTANTS
    r1 = r1
    k1 = k1
    catalog1 = catalog1
    catalog2 = catalog2
    None = None
    Runs <- OneRun
    Databases <- TwoDatabases
    Reconcilers <- OneReconciler
    StopFirst = TRUE
    MaxEvidence = 5
    EventBytes = 1
    PayloadBytes = 1
    OutcomeBytes = 1
    Reserve = 1
    MaxCommits = 2
    MaxRevision = 1
    MaxDisturbances = 3
INVARIANTS
    RecordedOutcomeIsTrue
    IntentBeforeEffect
    SettledRunsAreDecided
    OnlyTheWorkerCompletes
PROPERTIES
    CompletionSticks
    EventuallySettled
CHECK_DEADLOCK FALSE
