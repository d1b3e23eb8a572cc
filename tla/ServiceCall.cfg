\* Two senders, two handlers that may wake by themselves, a second server that
\* answers as well.
SPECIFICATION Spec
CONSTANTS
  Senders = {t1, t2}
  MaxRequests = 2
  MaxCalls = 2
  NoNumber = NoNumber
  Handlers = {h1, h2}
  SpuriousWakeups = TRUE
  NoFrame = NoFrame
  Empty = Empty
  NoReply = NoReply
  SecondServer = TRUE

  
  
PROPERTIES
  KeepsCallPromise
\* requests run out, and a process may crash
CHECK_DEADLOCK FALSE
