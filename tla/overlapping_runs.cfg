SPECIFICATION Spec
CONSTANTS
    Jobs = {j1, j2}
    NoJob = NoJob
    Legacy = Legacy
    Origins = {"indexed"}
    Scans = {"many"}
    Events = {"refresh", "sweep", "expire", "trash", "delete"}
    MaxCrashes = 0
    MaxErrors = 0
    MaxQueueErrors = 1
SYMMETRY Symmetry
INVARIANTS
    PublishedIsActive
    NoOrphanVectors
    SettledLeaseIsLive
PROPERTIES
    SearchNeverInterrupted
    PublishesOnlyRunning
    StaleRunsChangeNothing
CHECK_DEADLOCK FALSE
