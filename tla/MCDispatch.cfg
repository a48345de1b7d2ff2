CONSTANTS
  MaxArity = 3
  MaxArgs = 3
SPECIFICATION DSpec
INVARIANTS
  CalledWithItsArguments
  NothingDropped
  ErrorNamesTheFault
  SignatureIsHonest
CHECK_DEADLOCK FALSE
