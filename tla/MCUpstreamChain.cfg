\* One request, chains of up to three hops, every kind of configuration.
CONSTANTS
  a = a
  A = A
  b = b
  Request = {r1}
  Authority <- MCAuthority
  Fold <- MCFold
  HostOf <- MCHostOf
  FoldHost <- MCFold
  NoAuthority = NoAuthority
  NoRequest = NoRequest
  Incoming <- MCIncoming
  Configs <- MCConfigs
  Host <- MCAuthority
  NoHost = NoHost
  FailureThreshold = 1
  Window = 1
  OpenDuration = 1
  HalfOpenMax = 1
  MaxHosts = 2
  MaxTime = 1
SPECIFICATION FairSpec
INVARIANT TypeOK
INVARIANT CredentialsConfined
INVARIANT NoDowngrade
INVARIANT RedirectBudget
INVARIANT HopsWithinPolicy
INVARIANT NoEmptyReplay
INVARIANT OnlyFaultyHostsTrip
PROPERTY RequestsEnd
PROPERTY UsesBreaker
