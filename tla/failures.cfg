SPECIFICATION Spec
CONSTANTS
    Jobs = {j1, j2}
    NoJob = NoJob
    Legacy = Legacy
    Origins = {"uploaded"}
    Scans = {"few", "many"}
    Events = {"refresh", "approve", "reparse", "expire", "delete"}
    MaxCrashes = 1
    MaxErrors = 1
    MaxQueueErrors = 0
SYMMETRY Symmetry
INVARIANTS
    ActiveIndexStored
    VectorsTraceable
    ProcessedIsSearchable
PROPERTIES
    ImplementsIndex
CHECK_DEADLOCK FALSE
