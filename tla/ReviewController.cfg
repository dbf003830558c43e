SPECIFICATION Spec
CONSTANTS
  c1 = c1
  c2 = c2
  s1 = s1
  s2 = s2
  q1 = q1
  q2 = q2
  Ctx <- MCCtx
  Site <- MCSite
  CtxOf <- MCCtxOf
  SeedSites <- MCSite
  Kind <- MCKind
  FirstCtx = c1
  Request <- MCRequest
  Response <- MCResponse
  MaxRequests = 9
  MaxTurns = 2
  MaxCandidates = 1
  InputTokens = 4
  ContextBytes = 2
  PromptSizes = {1, 2}
  WallBudget = 8
  CallWall = 1
  Overshoot = 1
  AuditEvents = 24
  MaxCrashes = 1
INVARIANTS ActedOnce  AnswersStable SessionAgrees
PROPERTIES  InterruptedIsSettled
CHECK_DEADLOCK FALSE
