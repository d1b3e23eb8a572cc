\* One executor thread that waits and takes; the event counter cannot wrap.
SPECIFICATION Spec
CONSTANTS
  w1 = w1
  w2 = w2
  sub = sub
  guard = guard
  event = event
  Waiters = {w1}
  Notifiers = {n1, n2}
  Queues = {sub}
  Guards = {guard}
  Events = {event}
  Order <- OneWaiter
  Timed = {w1}
  EventModulus = 3
  ConcurrentTakes = FALSE
  NoWaitSet = NoWaitSet
  NoEntity = NoEntity
  MaxQueue = 2
  MaxEvents = 2
INVARIANTS
  ReportedCanBeTaken
PROPERTIES
  DataReported
