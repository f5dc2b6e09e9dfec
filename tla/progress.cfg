SPECIFICATION FairSpec
CONSTANTS
    Jobs = {j1, j2}
    NoJob = NoJob
    Legacy = Legacy
    Origins = {"uploaded"}
    Scans = {"none"}
    Events = {"refresh", "sweep", "delete"}
    MaxCrashes = 1
    MaxErrors = 0
    MaxQueueErrors = 0
PROPERTIES
    ProcessingEnds
    DeletedVectorsGone
CHECK_DEADLOCK FALSE
