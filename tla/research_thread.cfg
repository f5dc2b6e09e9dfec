SPECIFICATION FairSpec
CONSTANTS
  Scouts = {"s1", "s2"}
  Turns = {"t1", "t2"}
  Requests = {"q1", "q2"}
  Ends = {"completed"}
  Launches <- MCLaunches
  MaxEvents <- MCMaxEvents
INVARIANTS
    OutcomeStands
    StopNotLost
PROPERTIES
    FollowupComes
CHECK_DEADLOCK FALSE
