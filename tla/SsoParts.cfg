CONSTANTS
  Budget = 8
  SignIn = 4
  Lifetimes = {0, 4}
  MaxInterval = 3
  Client = {c1, c2}
  Token = t
  Role = {r1}
  Value = {a}
  Nothing = nothing
  Torn = torn
  MaxCalls = 3
SPECIFICATION Spec
PROPERTIES LoginImplements StoreImplements
