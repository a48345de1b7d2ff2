CONSTANTS
  r1 = r1
  r2 = r2
  body = body
  typed = typed
  w1 = w1
  Main = Main
  NoResource = NoResource
  NoFunction = NoFunction
  Resource <- TwoResources
  BodyFunction <- OneBody
  TypedFunction <- OneTyped
  Worker <- OneWorker
  Id <- OneId
  LongjmpUnwinds = TRUE
  MaxDepth = 5
SPECIFICATION Spec
INVARIANTS
  ContextIsCurrent
CHECK_DEADLOCK FALSE
