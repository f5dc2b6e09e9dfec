\* One turn and two things that happen to it, or two turns and one thing.
SPECIFICATION Spec
CONSTANTS
    MaxTurns = 2
    MaxRounds = 1
    MaxEvents = 3
CHECK_DEADLOCK FALSE
INVARIANTS
    PlaceholderFilled
    PaidOnce
    StopHeard
PROPERTIES
    DeletionKept
    StopStaysPossible
