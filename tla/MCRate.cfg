\* Two dimensions whose registries have one place, for which requests of
\* different keys race; every combination of the switches.
CONSTANTS
  Key = {k1, k2, k3}
  NoKey = NoKey
  Request = {r1, r2}
  Dims = 2
  MaxKeys = 1
SYMMETRY Symmetry
SPECIFICATION Spec
INVARIANT TypeOK
INVARIANT NoUnmeteredPass
INVARIANT RegistryCapped
INVARIANT NoGhostKeys
