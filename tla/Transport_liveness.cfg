\* Liveness under fairness of the executor alone: the child may fall silent.
CONSTANTS
  Tasks = {t1, t2}
  Reader = Reader
  None = None
  MaxRequests = 2
  MaxServerRequests = 1
  MaxNotifications = 0
  MaxUnreadable = 0
SPECIFICATION FairSpec
PROPERTIES
  TimedRequestReturns
  RequestReturns
  RejectionCompletes
\* The child may exit and the callers may be done.
CHECK_DEADLOCK FALSE
