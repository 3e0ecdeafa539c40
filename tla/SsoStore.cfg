CONSTANTS
  p1 = p1
  p2 = p2
  p3 = p3
  s1 = s1
  Process = {p1, p2}
  Session = {s1}
  SessionOf <- MCSessionOf
  Hops = TRUE
  Kinds = {"call", "login", "clear"}
  MaxTokens = 2
  MaxLogins = 12
  MaxGens = 12
  MaxKeys = 20
  MaxAgings = 1
  MaxCrashes = 0
  MaxCLI = 0
  Faults = FALSE
  Suspends = FALSE
SPECIFICATION Spec
INVARIANTS TypeOK SameLogin OnlyCurrentRoles CheckedStillHolds NoReplay
SYMMETRY Symmetry
VIEW View
