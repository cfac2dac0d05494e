\* The client waits for each prompt or rollback call before the next one.
CONSTANTS
  Prompts = {p1, p2, p3}
  Rollbacks = {r1, r2}
  Loaders = {l1, l2}
  Serial = TRUE
SPECIFICATION FairSpec
INVARIANTS
  ReplayFenced
  NoTurnDuringReplay
PROPERTIES
  FenceLifted
\* Every task may be done.
CHECK_DEADLOCK FALSE
