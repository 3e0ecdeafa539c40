CONSTANTS
  p1 = p1
  p2 = p2
  p3 = p3
  s1 = s1
  Process = {p1, p2}
  Session = {s1}
  SessionOf <- MCSessionOf
  Hops = FALSE
  Kinds = {"call", "clearAll"}
  MaxTokens = 2
  MaxLogins = 12
  MaxGens = 12
  MaxKeys = 20
  MaxAgings = 0
  MaxCrashes = 0
  MaxCLI = 0
  Faults = TRUE
  Suspends = TRUE
SPECIFICATION Spec
INVARIANTS NoResurrection
SYMMETRY Symmetry
VIEW View
