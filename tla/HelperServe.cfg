CONSTANTS
  Call = {r1, r2}
  Real = Real
  Serving = TRUE
SPECIFICATION ServeSpec
INVARIANT Contained
