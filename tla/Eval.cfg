SPECIFICATION FairSpec
CONSTANTS
  MaxDepth = 2
  MaxStack = 4
  MaxElif = 1
  MaxBuiltIns = 2
  Kinds <- AllKinds
INVARIANTS TypeOK DepthOK MapsOK
PROPERTIES FailStop JumpsLand ErrorStops ImplementsJumps
