CONSTANTS
  r1 = r1
  w1 = w1
  w2 = w2
  NoResource = NoResource
  Worker <- TwoWorkers
  Resource <- OneResource
  MaxTask = 2
  MaxGeneration = 2
  InitialLimit = 1
  QueueLimits <- LimitsWithZero
SPECIFICATION Spec
INVARIANT
  CompletionDiesOnMain
