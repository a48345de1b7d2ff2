CONSTANTS
  MaxTableDepth = 2
  MinStack = 50
  Value <- AllValues
  Inputs <- Calls
SPECIFICATION Spec
INVARIANTS
  RoundTrip
  ThreeSlotsPerLevel
CHECK_DEADLOCK FALSE
