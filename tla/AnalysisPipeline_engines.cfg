SPECIFICATION Spec
CONSTANTS
  Function <- MCFunction
  Declared <- MCDeclared
  Program <- MCProgram
  MaxFacts = 6
  MaxPairs = 2
  Clock = {9}
  Engine = {"oracle"}
INVARIANT EnginesAgree
