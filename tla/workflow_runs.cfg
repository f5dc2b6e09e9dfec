SPECIFICATION Spec
CONSTANTS
  Nodes = {1, 2, 3}
  Drawn <- MCDrawn
  Ensembles <- MCEnsembles
  MaxRun = 2
  MaxFiles <- MCFiles
  MaxExec = 2
  MaxEvents = 2
INVARIANTS
    TypeOK
    RestingRunIsSettled
    BatchVerdictHonest
    StoppedStaysFailed
PROPERTIES
    RouteObeyed
    DecisionStands
    BatchEnds
CHECK_DEADLOCK FALSE
