CONSTANTS
  r1 = r1
  r2 = r2
  s1 = s1
  s2 = s2
  w1 = w1
  w2 = w2
  NoResource = NoResource
  Resource <- TwoResources
  Store <- TwoStores
  Watcher <- TwoWatchers
  MaxId = 2
  MaxGeneration = 3
SPECIFICATION Spec
SYMMETRY Symmetry
INVARIANTS
  FreshState
  HandlesAreOwn
  ExitInReach
CHECK_DEADLOCK FALSE
