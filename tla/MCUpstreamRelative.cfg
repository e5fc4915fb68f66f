\* A relative Location whose query holds a URL.
CONSTANTS
  a = a
  A = A
  b = b
  Request = {r1}
  Authority <- MCAuthority
  Fold <- MCFold
  HostOf <- MCHostOf
  FoldHost <- MCFold
  NoAuthority = NoAuthority
  NoRequest = NoRequest
  Incoming <- InitialRequests
  Configs <- MCConfigs
  Host <- MCAuthority
  NoHost = NoHost
  FailureThreshold = 1
  Window = 1
  OpenDuration = 1
  HalfOpenMax = 1
  MaxHosts = 2
  MaxTime = 0
SPECIFICATION Spec
INVARIANT RelativeLocationsFollowed
