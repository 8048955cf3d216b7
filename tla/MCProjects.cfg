\* Up to three commands on one directory, which the user may change once.
SPECIFICATION Spec
CONSTANTS
    p1 = p1
    p2 = p2
    p3 = p3
    Processes = {p1, p2, p3}
    MaxEdits = 1
SYMMETRY Interchangeable
INVARIANTS
    ExitsMean
    FinishedProjectsOnly
    ReportsTellTheRun
PROPERTIES
    FilesAreKept
\* Every command ends, and none starts by itself.
CHECK_DEADLOCK FALSE
