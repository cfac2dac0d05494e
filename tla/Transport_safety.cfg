\* Two tasks, two requests, every kind of server message once.
CONSTANTS
  Tasks = {t1, t2}
  Reader = Reader
  None = None
  MaxRequests = 2
  MaxServerRequests = 1
  MaxNotifications = 1
  MaxUnreadable = 1
SPECIFICATION Spec
INVARIANTS
  TypeOK
  SlotBelongsToLockHolder
  NoSpuriousFailure
  AnsweredAtMostOnce
  LinesIntact
PROPERTIES
  ImplementsRpc
\* The child may exit and the callers may be done.
CHECK_DEADLOCK FALSE
