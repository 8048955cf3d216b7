\* Decisions in five settings, see MCDecision.
SPECIFICATION Spec
CONSTANTS
    None = None
    Catalog = "catalog"
    Planner = "planner"
    Foreign = {}
    Reserved = {}
    Item = 0
    Metrics = {"m"}
    Limits = {2}
    Bodies <- SomeBodies
    KeepTypes = FALSE
    MaxStatements = 8
    Plans <- FivePlans
    Malformed = 6
    KnownRows <- RowsKnown
    KeepsSource <- Sources
    ValidUnits <- Arithmetic
    Unresolved <- LeftUnresolved
    Unpriced = 2
    Settings <- AllSettings
    MaxWrites = 1
    MaxDamage = 1
INVARIANTS
    AcceptedProgramsRun
    OnlyDeclaredEffects
    SelectionsAreSpentOnce
    CommitsAreJustified
    CompleteReportsTellAll
    CompleteReportsReproduce
    ReproducedReportsAreTrue
\* A decision that ended and was replayed is over.
CHECK_DEADLOCK FALSE
