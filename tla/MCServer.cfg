SPECIFICATION Spec
CONSTANTS
  c1 = c1
  c2 = c2
  b1 = b1
  b2 = b2
  b3 = b3
  Service = Service
  None = None
  Calls = {c1, c2}
  Buckets = {b1, b2, b3}
  Roles = {"USER", "ADMIN"}
  MaxBurst = 1
INVARIANT
  RoleLimitHolds
PROPERTY
  EveryRequestAnswered
CHECK_DEADLOCK FALSE
