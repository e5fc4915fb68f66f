\* Two connections, a grace period of two ticks, bodies around the limit.
CONSTANTS
  Conn = {c1, c2}
  Grace = 2
  BodyLimits <- MCBodyLimits
  FrameSizes = {1, 2}
  MaxU64 = 4
  MaxBytes = 5
SPECIFICATION FairSpec
INVARIANT ReadyFirst
INVARIANT GraceHonoured
INVARIANT LimitHeld
INVARIANT NoQuietTruncation
PROPERTY ShutdownEnds
CHECK_DEADLOCK FALSE
