\* Three contexts and a node, for two implementations in one process; eCAL is started twice.
SPECIFICATION ContextSpec
CONSTANTS
  Implementations = {dynamic, proto}
  Options = {o1}
  Contexts = {c1, c2, c3}
  NodeStructs = {n1}
  MaxEras = 2
  MaxReferences = 3
  Zero = Zero
INVARIANTS
  NodesKeepECal
  StopsWithTheLast
\* nodes and references of the instance run out
CHECK_DEADLOCK FALSE
