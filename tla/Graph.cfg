\* Two nodes, three entities; see MCGraph.
SPECIFICATION Spec
CONSTANTS
  Segments <- MCSegments
  AfterPrefix <- MCAfterPrefix
  Nodes <- MCNodes
  Entities <- MCEntities
  Asked = {"publisher", "service"}
  None = None
  DefaultHistory = "keep_last_history_qos"
  DefaultReliability = "best_effort_reliability_qos"
  MaxInt = 1
\* When all has come and gone and the caller is in an undefined state, nothing
\* is left to do.
CHECK_DEADLOCK FALSE
INVARIANTS
  FaultNeedsLoss
  AnswerFromNodeAsked
  
PROPERTY EndpointsConverge
