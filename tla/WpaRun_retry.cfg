SPECIFICATION RetrySpec
CONSTANTS
  A = A
  B = B
  Souffle = Souffle
  Souffle2 = Souffle2
  Cpp = Cpp
  N = 3
  BatchSize = 2
  StateBatchSize = 2
  Succ <- MCSucc
  Run <- RevRun
  Production <- RevRun
  Oracle <- RevOracle
  Toolchain <- RevToolchain
  Context <- RevContext
  Local <- RevLocal
  Locals <- MCLocals
  FactSet <- MCFactSet
  Derive <- MCDerive
  Prove <- MCProve
  Ref <- RevRef
  MaxFaults = 2
PROPERTY
  RetriesRecover
