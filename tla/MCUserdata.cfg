CONSTANTS
  t1 = t1
  t2 = t2
  n1 = n1
  v1 = v1
  v2 = v2
  m1 = m1
  o1 = o1
  o2 = o2
  NoType = NoType
  NoName = NoName
  NoVM = NoVM
  Type <- TwoTypes
  Name <- OneName
  Method <- OneMethod
  VM <- TwoVMs
  Object <- TwoObjects
  SharedNames = FALSE
SPECIFICATION Spec
SYMMETRY Symmetry
INVARIANTS
  OwnTypeOnly
  FinalizedOnce
  MethodsComplete
CHECK_DEADLOCK FALSE
