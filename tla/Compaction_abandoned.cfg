\* A compaction the server begins inside the turn of a prompt.
CONSTANTS
  Starters = {}
  MaxTurns = 1
  MaxAuto = 1
SPECIFICATION FairSpec
PROPERTIES
  PromptsLetThrough
\* Every request may be done and the server silent.
CHECK_DEADLOCK FALSE
