\* One prompt, the turn that implements its plan, and the watcher.
CONSTANTS
  Prompts = {p1}
  Watcher = Watcher
  None = None
  Clients <- Planning
  MaxTurns = 2
  MaxRequests = 2
SPECIFICATION FairSpec
PROPERTIES
  CancelEndsTurn
  PromptReturns
\* Every prompt may have returned.
CHECK_DEADLOCK FALSE
