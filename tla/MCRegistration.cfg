CONSTANTS
  Unit <- TwoUnits
  Source <- Lambdas
  Name <- FourNames
  Type <- Types
  VM = {"v1", "v2"}
SPECIFICATION RSpec
INVARIANT SignatureDescribesCallee
