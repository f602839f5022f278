SPECIFICATION FairSpec
CONSTANTS
  c1 = c1
  c2 = c2
  c3 = c3
  mOn = mOn
  mGone = mGone
  Calls = {c1, c2, c3}
  MaxRequests = 2
  MinRequests = 3
  Markets = {mOn, mGone}
  KnownMarkets = {mOn}
  RequestBound = 4
INVARIANTS
  TypeOK
  EveryCallCounted
  HalfOpenNeverWedged
PROPERTIES
  ChangesOnCurrentResults
  Recovers
