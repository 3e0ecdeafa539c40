CONSTANTS
  p1 = p1
  p2 = p2
  p3 = p3
  s1 = s1
  Process = {p1, p2}
  Session = {s1}
  SessionOf <- MCSessionOf
  Hops = FALSE
  Kinds = {"login", "clear"}
  MaxTokens = 2
  MaxLogins = 12
  MaxGens = 8
  MaxKeys = 20
  MaxAgings = 0
  MaxCrashes = 1
  MaxCLI = 1
  Faults = FALSE
  Suspends = FALSE
SPECIFICATION FairSpec
PROPERTY EveryInvocationEnds
