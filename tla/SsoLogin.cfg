CONSTANTS
  p1 = p1
  p2 = p2
  p3 = p3
  s1 = s1
  Process = {p1, p2, p3}
  Session = {s1}
  SessionOf <- MCSessionOf
  Hops = FALSE
  Kinds = {"login", "clearAll"}
  MaxTokens = 3
  MaxLogins = 12
  MaxGens = 12
  MaxKeys = 20
  MaxAgings = 0
  MaxCrashes = 1
  MaxCLI = 0
  Faults = FALSE
  Suspends = FALSE
SPECIFICATION Spec
INVARIANTS MutationsExclusive NoWaitCycle OneBrowser MarkerKept NoGiveUpOnSuccess
SYMMETRY Symmetry
VIEW View
