\* Two requests, one slot, two reloads.
CONSTANTS
  Request = {r1, r2}
  NoRequest = NoRequest
  Incoming <- MCIncoming
  Configs <- MCConfigs
  MaxReloads = 2
  Limits = {0, 1}
SPECIFICATION FairSpec
INVARIANT TypeOK
INVARIANT DispatchAdmitted
INVARIANT SnapshotCoherent
INVARIANT StateRetained
INVARIANT InflightBounded
PROPERTY UsesLoadShed
PROPERTY RequestsAnswered
