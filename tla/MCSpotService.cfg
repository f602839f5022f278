SPECIFICATION Spec
SYMMETRY Symmetry
CONSTANTS
  w1 = w1
  w2 = w2
  None = None
  Workers = {w1, w2}
  Uuids <- MCUuids
  OtherIds = {"btc_usd"}
  Market <- MCMarket
  RoleNames = {"USER_ROLE_USER"}
  Keys <- MCKeys
  Values <- MCValues
  MaxSize = 2
INVARIANTS
  TypeOK
  MapMatchesList
  AnswersMatchRepo
PROPERTY
  ImplementsCache
