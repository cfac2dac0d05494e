\* An /undo and a rollback call at the same time.
CONSTANTS
  Prompts = {p1}
  Rollbacks = {r1}
  Loaders = {}
  Serial = FALSE
SPECIFICATION Spec
INVARIANTS
  ReplayFenced
\* Every task may be done.
CHECK_DEADLOCK FALSE
