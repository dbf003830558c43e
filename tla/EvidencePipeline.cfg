SPECIFICATION EvidenceSpec
CONSTANTS
  Function <- MCFunction
  Declared <- MCDeclared
  Program <- MCProgram
  Engine = {"souffle"}
  Clock = {0, 9}
  History <- MCHistory
  MaxFacts = 9
  MaxPairs = 4
  Memcpy = 3
  MaxWork = 20
  MaxBytes = 4
  MaxProbes = 12
  MaxExpressionDepth = 8
  Budget <- MCBudget
  Extra <- MCExtra
INVARIANTS
  CaseValidates
  
  TextRoundTrip
  
  GraphFaithful
