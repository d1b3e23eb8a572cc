\* Other threads take during a wait, the event counter wraps, and a second
\* executor shares the guard condition.
SPECIFICATION Spec
CONSTANTS
  w1 = w1
  w2 = w2
  sub = sub
  guard = guard
  event = event
  Waiters = {w1, w2}
  Notifiers = {n1, n2}
  Queues = {sub}
  Guards = {guard}
  Events = {event}
  Order <- TwoWaiters
  Timed = {w1}
  EventModulus = 2
  ConcurrentTakes = TRUE
  NoWaitSet = NoWaitSet
  NoEntity = NoEntity
  MaxQueue = 2
  MaxEvents = 2
INVARIANTS
  
  FlagTriggerSafe
  NothingLeftAttached
PROPERTIES
  TriggerReported
