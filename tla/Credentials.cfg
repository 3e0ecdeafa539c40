CONSTANTS
  r1 = r1
  r2 = r2
  Call = {r1, r2}
  Real = Real
  Serving = FALSE
  Inputs <- MCInputs
SPECIFICATION Spec
INVARIANTS Contained PromptsReach SinksKept IdentityHeld NativeIsSDK ReportsTrue
PROPERTY QuietWrites
