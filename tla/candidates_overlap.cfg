SPECIFICATION Spec
CONSTANTS
    Producer = {p1, p2}
    Run = {r1}
    Counts = {0, 1}
    MaxJobs = 2
    Unknown = Unknown  NoRun = NoRun  NoSource = NoSource  NoRow = NoRow  NoReport = NoReport
SYMMETRY Symmetric
INVARIANTS CountsAgree
PROPERTIES ConfirmedStays ExportMovesForward
CHECK_DEADLOCK FALSE
