SPECIFICATION Spec
CONSTANTS
    Jobs = {j1, j2}
    NoJob = NoJob
    Legacy = Legacy
    Origins = {"uploaded"}
    Scans = {"many"}
    Events = {"sync", "approve", "retry", "sweep"}
    MaxCrashes = 1
    MaxErrors = 0
    MaxQueueErrors = 1
SYMMETRY Symmetry
PROPERTIES
    SweepVerdictHonest
CHECK_DEADLOCK FALSE
