CONSTANTS
  r1 = r1
  b1 = b1
  b2 = b2
  Run <- MCRun
  Fact <- MCFact
  Witness <- MCWitness
  Batch <- MCBatch
  RunOf <- MCRunOf
  Proof <- MCProof
  Rooted <- MCRooted
  Legacy <- MCLegacy
  Size <- MCSize
  Selector <- TwoSelectors
  Request <- PageRequests
  Publisher = {p1, p2}
  MaxFile = 2
SPECIFICATION Spec
INVARIANT TypeOK
INVARIANT ReadyIndexExact
INVARIANT HistoryIsReceipts
INVARIANT DeliveredIsStored
INVARIANT ReadExact
INVARIANT PageWithinAllowance
PROPERTY PageAdvances
SYMMETRY Alike
