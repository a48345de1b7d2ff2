CONSTANTS
  r1 = r1
  r2 = r2
  i1 = i1
  i2 = i2
  c1 = c1
  c2 = c2
  c3 = c3
  NoResource = NoResource
  NoRef = NoRef
  Resource <- TwoResources
  Ref <- TwoRefs
  Callback <- ThreeCallbacks
  MaxBind = 3
  MaxGeneration = 3
SPECIFICATION Spec
SYMMETRY Symmetry
INVARIANTS
  CallRunsOwnFunction
  LiveCallbackWorks
  UnrefOnce
  SlotHasOwner
  ShutdownFreesAll
CHECK_DEADLOCK FALSE
