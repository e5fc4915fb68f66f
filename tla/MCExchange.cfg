\* Requests one after another, redirects, kept connections and reloads.
CONSTANTS
  TooLong = TooLong
  Punycode <- MCPunycode
  Literal <- MCLiteral
  NoHost = NoHost
  NoText = NoText
  Request = {r1}
  Incoming <- MCIncoming
  NoRequest = NoRequest
  Responses <- MCResponses
  Uris <- MCUris
  Address <- MCAddress
  NoAddress = NoAddress
  Files <- MCFiles
  MaxReloads = 2
  MaxKept = 1
SPECIFICATION Spec
INVARIANT TypeOK
INVARIANT ConnectionsVetted
INVARIANT UpstreamSeesClient
INVARIANT HopHeadersConfined
INVARIANT CredentialsOnlyForListed
INVARIANT AnswersReadable
 
