SPECIFICATION Spec
CONSTANTS
    Jobs = {j1}
    NoJob = NoJob
    Legacy = Legacy
    Origins = {"indexed"}
    Scans = {"none"}
    Events = {"refresh", "sweep"}
    MaxCrashes = 1
    MaxErrors = 0
    MaxQueueErrors = 0
INVARIANTS
    SettledLeaseIsLive
