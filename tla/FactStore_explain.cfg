CONSTANTS
  r1 = r1
  b1 = b1
  b2 = b2
  Run <- MCRun
  Fact <- MCFact
  Witness <- MCWitness
  Batch <- MCBatch
  RunOf <- MCRunOf
  Proof <- MCProof
  Rooted <- MCRooted
  Legacy <- NoLegacy
  Size <- MCSize
  Selector <- OneSelector
  Request <- OneRequest
  Publisher = {p1}
  MaxFile = 1
SPECIFICATION Spec
INVARIANT SelectedIsCurrent
