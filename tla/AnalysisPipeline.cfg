SPECIFICATION Spec
CONSTANTS
  Function <- MCFunction
  Declared <- MCDeclared
  Program <- MCProgram
  MaxFacts = 6
  MaxPairs = 2
  Clock = {0, 9}
  Engine = {"souffle", "emergency"}
INVARIANTS
  SccGraphExact
  
  ModularIsGlobal
  
