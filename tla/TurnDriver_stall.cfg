\* A server that warns of reconnects and then says nothing more.
CONSTANTS
  Prompts = {p1}
  Watcher = Watcher
  None = None
  Clients <- Queueing
  MaxTurns = 1
  MaxRequests = 0
SPECIFICATION FairSpec
PROPERTIES
  StallWatchdogAborts
\* Every prompt may have returned.
CHECK_DEADLOCK FALSE
