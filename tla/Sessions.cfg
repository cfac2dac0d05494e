\* An active and an archived thread from the past; three calls of the client.
CONSTANTS
  MaxCalls = 3
  MaxThreads = 4
  OldActive = 1
  OldArchived = 1
  MaxRetries = 1
  AutoRestore = FALSE
SPECIFICATION FairSpec
INVARIANTS
  TypeOK
  OwnThreadUsable
  NoGhostSession
PROPERTIES
  SwitchKeepsHistory
  CallsReturn
\* Every call may have returned.
CHECK_DEADLOCK FALSE
