SPECIFICATION PowerSpec
CONSTANTS
  A = A
  B = B
  Souffle = Souffle
  Souffle2 = Souffle2
  Cpp = Cpp
  N = 2
  BatchSize = 2
  StateBatchSize = 2
  Succ <- OraSucc
  Run <- OraRun
  Production <- OraProduction
  Oracle <- OraOracle
  Toolchain <- OraToolchain
  Context <- OraContext
  Local <- OraLocal
  Locals <- MCLocals
  FactSet <- MCFactSet
  Derive <- MCDerive
  Prove <- MCProve
  Ref <- OraRef
INVARIANTS
  PublishedIsReference
  RepeatSchedulesNothing
