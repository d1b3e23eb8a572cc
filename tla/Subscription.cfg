CONSTANTS
  Takers = {t1, t2}
  MaxMessages = 3
  MaxCount = 2
SPECIFICATION Spec
INVARIANTS OneHolder NothingLeaks CrashNeedsRace TakenInOrder
PROPERTIES KeepsQueuePromise
CHECK_DEADLOCK FALSE
