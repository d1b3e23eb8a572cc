\* Three handlers and an executor that may defer its answers; condition
\* variables may wake by themselves.
SPECIFICATION LifeSpec
CONSTANTS
  Handlers = {h1, h2, h3}
  MaxRequests = 3
  SpuriousWakeups = TRUE
  NoFrame = NoFrame
  Empty = Empty
  NoReply = NoReply
INVARIANTS
  NoSleeperForgotten
  OwnAnswer
  ReferencesAlive
PROPERTIES
  AnsweredUnlessHasty
  DestroyReturns
\* requests run out, a handler may miss its answer, and the process may crash
CHECK_DEADLOCK FALSE
