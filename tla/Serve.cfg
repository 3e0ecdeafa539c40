CONSTANTS
  h1 = h1
  c1 = c1
  c2 = c2
  w1 = w1
  w2 = w2
  d1 = d1
  Hello = {h1}
  Call = {c1, c2}
  Widget = {w1, w2}
  Digest = {d1}
  ArgsOf <- MCArgsOf
  CallOf <- MCCallOf
  Renderable = {c1, c2}
SPECIFICATION ServeFair
INVARIANTS ServeTypeOK NoLostWaiter SendsNeverBlock NoStaleWaiter RepliesBeforeExit
PROPERTY DrawingReleases
