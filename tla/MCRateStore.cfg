\* Three requests race for one place.
CONSTANTS
  Key = {k1, k2}
  NoKey = NoKey
  Request = {r1, r2, r3}
  Dims = 1
  MaxKeys = 1
SYMMETRY Symmetry
SPECIFICATION Spec
INVARIANT StoreCapped
