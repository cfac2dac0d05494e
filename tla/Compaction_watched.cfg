\* Two requests, a prompt at a time and its turns, one of which compacts.
CONSTANTS
  Starters = {s1, s2}
  MaxTurns = 2
  MaxAuto = 1
SPECIFICATION FairSpec
INVARIANTS
  TypeOK
  CompactionWatched
PROPERTIES
  FlagLifted
  WatchersEnd
\* Every request may be done and the server silent.
CHECK_DEADLOCK FALSE
