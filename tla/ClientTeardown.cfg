\* Two senders, and a connection that may lose calls or report them failed.
SPECIFICATION LifeSpec
CONSTANTS
  Senders = {t1, t2}
  MaxRequests = 3
  CallsMayFail = TRUE
  NoNumber = NoNumber
INVARIANTS
  OneCallAtATime
  AnswersInOrder
  NoStall
  QuietDestroyIsSafe
PROPERTIES
  NoRequestSkipped
  EveryRequestAnswered
\* the process may crash, a lost call leaves the queue behind it waiting for
\* ever, and the numbers of the instance run out
CHECK_DEADLOCK FALSE
