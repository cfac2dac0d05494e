\* Two prompts, one after the other or at the same time.
CONSTANTS
  Prompts = {p1, p2}
  Watcher = Watcher
  None = None
  Clients <- AnyClient
  MaxTurns = 2
  MaxRequests = 1
SPECIFICATION Spec
SYMMETRY Symmetry
INVARIANTS
  TypeOK
  StopMatchesTurn
  RequestsAccountedFor
  DrivesActiveTurn
PROPERTIES
  DrainsLeaveRunningTurn
\* Every prompt may have returned.
CHECK_DEADLOCK FALSE
