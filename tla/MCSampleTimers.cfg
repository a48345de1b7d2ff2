CONSTANTS
  r1 = r1
  i1 = i1
  i2 = i2
  NoResource = NoResource
  NoRef = NoRef
  Resource <- OneResource
  Ref <- TwoRefs
  LuaDelays <- WideDelays
  Counts <- OnceOrForEver
  IntBits = 3
  MaxTimer = 3
  MaxGeneration = 2
  MaxFired = 2
  MaxElapsed = 1
SPECIFICATION Spec
SYMMETRY RefSymmetry
INVARIANTS
  StoreIsFresh
  ScheduledTimerCanCall
  PinnedMeansScheduled
PROPERTIES
  StoppedRunsNothing
  ImplementsTimers
  ImplementsCallbacks
CHECK_DEADLOCK FALSE
