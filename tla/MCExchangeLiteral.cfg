\* A host that is an address literal.
CONSTANTS
  TooLong = TooLong
  Punycode <- MCPunycode
  Literal <- MCLiteral
  NoHost = NoHost
  NoText = NoText
  Request = {r1}
  Incoming <- MCIncoming
  NoRequest = NoRequest
  Responses <- MCResponses
  Uris <- MCUris
  Address <- MCAddress
  NoAddress = NoAddress
  Files <- MCFiles
  MaxReloads = 2
  MaxKept = 1
SPECIFICATION Spec
INVARIANT LiteralsVetted
