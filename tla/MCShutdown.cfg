SPECIFICATION ShutdownSpec
CONSTANTS
  c1 = c1
  c2 = c2
  r1 = r1
  r2 = r2
  c3 = c3
  None = None
  Callers = {c1, c2, c3}
  Resources = {r1, r2}
INVARIANTS
  ShutdownTypeOK
  ClosedInOrder
  ReturnTells
PROPERTY
  RunReturns
