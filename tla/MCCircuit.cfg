\* Two hosts compete for a map of one entry; two hops race over a few windows.
CONSTANTS
  Host = {h1, h2}
  NoHost = NoHost
  Hop = {p1, p2}
  FailureThreshold = 2
  Window = 1
  OpenDuration = 2
  HalfOpenMax = 1
  MaxHosts = 1
  MaxTime = 4
SYMMETRY Symmetry
SPECIFICATION Spec
INVARIANT TypeOK
INVARIANT CapExceededByProtectionOnly
INVARIANT WindowBudget
PROPERTY ProtectionKept
PROPERTY NoLockout
PROPERTY TripJustified
