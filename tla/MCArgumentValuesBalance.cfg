CONSTANTS
  MaxTableDepth = 2
  MinStack = 50
  Value <- AllValues
  Inputs <- Calls
SPECIFICATION Spec
INVARIANTS
  PushBalanced
CHECK_DEADLOCK FALSE
