SPECIFICATION Spec
SYMMETRY Symmetry
CONSTANTS
  w1 = w1
  w2 = w2
  k1 = k1
  k2 = k2
  NoKey = NoKey
  w3 = w3
  Workers = {w1, w2, w3}
  Keys = {k1, k2}
  MaxKeys = 1
INVARIANTS
  TypeOK
  ExecutedOnce
  DuplicateHasOriginal
