SPECIFICATION Spec
CONSTANTS
    Jobs = {j1, j2}
    NoJob = NoJob
    Legacy = Legacy
    Origins = {"uploaded"}
    Scans = {"many"}
    Events = {"approve"}
    MaxCrashes = 0
    MaxErrors = 0
    MaxQueueErrors = 0
INVARIANTS
    ApprovedHasJob
CHECK_DEADLOCK FALSE
