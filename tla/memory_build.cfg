SPECIFICATION Spec
CONSTANTS
    MaxRun = 2
    Says <- MCSays
    Keyed <- MCKeyed
    Orphans = {2}
    Start = 2
    MaxTurn = 3
    MaxEvents = 1
INVARIANTS
    TypeOK
    WrittenOnce
    HistoryInOrder
    SlotUnambiguous
    CompletedIsThorough
PROPERTIES
    StopHolds
    BuildEnds
    LiveTurnsLand
CHECK_DEADLOCK FALSE
