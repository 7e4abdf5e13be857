SPECIFICATION Spec
CONSTANTS
  a = a
  b = b
  c1 = c1
  c2 = c2
  c3 = c3
  SlowCalls = FALSE
  None = None
  Call = {a, b}
  Client = {c1, c2, c3}
INVARIANTS
  CreatedIsStored
