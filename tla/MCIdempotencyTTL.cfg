SPECIFICATION Spec
SYMMETRY Symmetry
CONSTANTS
  w1 = w1
  w2 = w2
  k1 = k1
  k2 = k2
  k3 = k3
  NoKey = NoKey
  Workers = {w1, w2}
  Keys = {k1, k2, k3}
  MaxKeys = 2
PROPERTY
  ExpiredKeyIsNew
