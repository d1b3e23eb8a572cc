\* A char in front of a float, as the C analysis counts it.
SPECIFICATION Spec
CONSTANTS
  Types <- MCCharTypes
  Members <- MCCharMembers
  Depth <- MCDepth
  Values <- MCValues
  Layout <- MCLayout
  Hosts <- MCHosts
  HostLang <- MCHostLang
  Samples <- MCCharSamples
  MaxMade = 3
INVARIANTS
  PaddingIsDetected
\* the bounded constructions run out
CHECK_DEADLOCK FALSE
