SPECIFICATION Spec
CONSTANTS
    None = None
    Catalog = "catalog"
    Planner = "planner"
    Foreign = {"other"}
    Reserved <- Reserve
    Item = 0
    Metrics = {"m", "n"}
    Limits <- FewLimits
    Bodies <- MoreBodies
    KeepTypes = TRUE
    MaxStatements = 8
    MaxDiagnostics = 3
    Beginnings <- SomeBeginnings
    MaxReported = 4
INVARIANTS
    CompilersAgree
CHECK_DEADLOCK FALSE
