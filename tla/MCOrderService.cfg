SPECIFICATION Spec
SYMMETRY Symmetry
CONSTANTS
  w1 = w1
  w2 = w2
  u1 = u1
  u2 = u2
  mOn = mOn
  mOff = mOff
  NoOrder = NoOrder
  Workers = {w1, w2}
  Users = {u1, u2}
  Markets = {mOn, mOff}
  ActiveMarkets = {mOn}
  OrderIds = {1, 2, 3}
  MaxOpenOrdersPerUser = 1
INVARIANTS
  TypeOK
  LimitOvershoot
  RefusedOnlyAtLimit
  AnswerMatchesStore
  ReadsSeeAcknowledged
PROPERTIES
  InactiveOnlyUnchecked
  StoredForGood
