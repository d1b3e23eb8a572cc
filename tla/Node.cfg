CONSTANTS
  Nodes = {n1, n2}
  Entities = {e1, e2, e3}
  Kinds = {publisher, service}
  TopicKinds = {publisher}
  Queried = {n1}
  None = None
SPECIFICATION Spec
INVARIANTS  AnswerIsHonest FaultNeedsPull
PROPERTY QueryIsAnswered
CHECK_DEADLOCK FALSE
