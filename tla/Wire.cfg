\* A C++ process and a C process, nine types, none of which has a char in
\* front of padding.
SPECIFICATION Spec
CONSTANTS
  Types <- MCTypes
  Members <- MCMembers
  Depth <- MCDepth
  Values <- MCValues
  Layout <- MCLayout
  Hosts <- MCHosts
  HostLang <- MCHostLang
  Samples <- MCSamples
  MaxMade = 3
INVARIANTS
  OneWireForm
  FreshTakeIsExact
  
  RefusedEarly
\* the bounded constructions run out
CHECK_DEADLOCK FALSE
