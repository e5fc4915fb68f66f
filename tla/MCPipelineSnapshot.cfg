\* A reload between two loads of one request.
CONSTANTS
  Request = {r1}
  NoRequest = NoRequest
  Incoming <- MCIncoming
  Configs <- MCConfigs
  MaxReloads = 2
  Limits = {0, 1}
SPECIFICATION Spec
INVARIANT OneSnapshot

