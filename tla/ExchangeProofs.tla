--------------------------- MODULE ExchangeProofs ---------------------------
(***************************************************************************)
(* The wire with any number of requests, configurations, reloads, kept     *)
(* connections and redirects.  The exchange implements HotReload; from     *)
(* there come the coherence of snapshots, which makes a retained client    *)
(* check addresses and targets by the configuration of the request, and    *)
(* the validity of every configuration in force.  The rest is an invariant *)
(* about each request by itself, and lemmas on what the header functions   *)
(* do to the headers a property reads.                                     *)
(***************************************************************************)
EXTENDS Exchange, TLAPS

Reloads == INSTANCE HotReloadProofs WITH Configs <- Load(Files)

Acao == "access-control-allow-origin"
Acac == "access-control-allow-credentials"
Aceh == "access-control-expose-headers"
Xff == "x-forwarded-for"
-----------------------------------------------------------------------------
(* Header maps                                                             *)

(* insert sets one line of one name, and nothing else.                     *)
LEMMA InsertKeeps ==
  ASSUME NEW h, NEW name, NEW line, NEW n \in DOMAIN h, n # name
  PROVE  n \in DOMAIN Insert(h, name, line) /\ Insert(h, name, line)[n] = h[n]
BY DEF Insert

(* A readable first line is a sequence of tokens.                          *)
LEMMA FirstLine ==
  ASSUME NEW h, IsHeaderMap(h), NEW name, Contains(h, name)
  PROVE  First(h, name) \in Seq(STRING)
<1>1. h[name] \in Seq(Seq(STRING)) /\ Len(h[name]) > 0
  BY DEF IsHeaderMap, Contains
<1> QED
  BY <1>1 DEF First

(* remove leaves the lines of the other names as they are.                 *)
LEMMA RemoveKeeps ==
  ASSUME NEW h, NEW names
  PROVE  /\ DOMAIN Remove(h, names) = DOMAIN h \ names
         /\ \A n \in DOMAIN h \ names : Remove(h, names)[n] = h[n]
BY DEF Remove

LEMMA RemoveTyped ==
  ASSUME NEW h, IsHeaderMap(h), NEW names
  PROVE  IsHeaderMap(Remove(h, names))
<1> DEFINE k == Remove(h, names)
<1>1. DOMAIN k = DOMAIN h \ names /\ \A n \in DOMAIN h \ names : k[n] = h[n]
  BY RemoveKeeps
<1> HIDE DEF k
<1>2. ASSUME NEW n \in DOMAIN k PROVE k[n] \in Seq(Seq(STRING)) /\ Len(k[n]) > 0
  BY <1>1, <1>2 DEF IsHeaderMap
<1> QED
  BY <1>2 DEF IsHeaderMap, k

(* append_xff and replace_xff: one line that ends with the client.         *)
LEMMA ForwardedForEnds ==
  ASSUME NEW h, Contains(h, Xff) => First(h, Xff) \in Seq(STRING),
         NEW in, in.client \in STRING, NEW cfg
  PROVE  LET f == ForwardedFor(h, in, cfg) IN
         /\ Xff \in DOMAIN f
         /\ \E chain \in Seq(STRING) :
              /\ f[Xff] = <<chain>>
              /\ Len(chain) > 0
              /\ chain[Len(chain)] = in.client
              /\ ~cfg.trust_inbound_xff => chain = <<in.client>>
<1>1. CASE cfg.trust_inbound_xff /\ Readable(h, Xff)
  <2> DEFINE chain == Append(First(h, Xff), in.client)
  <2>1. First(h, Xff) \in Seq(STRING)
    BY <1>1 DEF Readable
  <2>2. chain \in Seq(STRING) /\ Len(chain) > 0 /\ chain[Len(chain)] = in.client
    BY <2>1
  <2>3. ForwardedFor(h, in, cfg) = Insert(h, Xff, chain)
    BY <1>1 DEF ForwardedFor, Extend, Xff
  <2> HIDE DEF chain
  <2>4. Xff \in DOMAIN Insert(h, Xff, chain) /\ Insert(h, Xff, chain)[Xff] = <<chain>>
    BY DEF Insert
  <2> QED
    BY <1>1, <2>2, <2>3, <2>4
<1>2. CASE ~(cfg.trust_inbound_xff /\ Readable(h, Xff))
  <2>1. ForwardedFor(h, in, cfg) = Insert(h, Xff, <<in.client>>)
    BY <1>2 DEF ForwardedFor, Extend, Xff
  <2>2. <<in.client>> \in Seq(STRING) /\ Len(<<in.client>>) > 0 /\ <<in.client>>[Len(<<in.client>>)] = in.client
    OBVIOUS
  <2>3. LET f == Insert(h, Xff, <<in.client>>) IN Xff \in DOMAIN f /\ f[Xff] = <<<<in.client>>>>
    BY DEF Insert
  <2> QED
    BY <2>1, <2>2, <2>3
<1> QED
  BY <1>1, <1>2

(* What follows the forwarding headers leaves X-Forwarded-For alone.       *)
LEMMA OutboundTells ==
  ASSUME NEW h, IsHeaderMap(h), NEW in, in.client \in STRING, NEW host, NEW authority,
         NEW deny, NEW cfg, NEW agent
  PROVE  LET out == Outbound(h, in, host, authority, deny, cfg, agent) IN
         /\ out["host"] = <<authority>>
         /\ cfg.inject =>
              /\ Xff \in DOMAIN out
              /\ \E chain \in Seq(STRING) :
                   /\ out[Xff] = <<chain>>
                   /\ Len(chain) > 0
                   /\ chain[Len(chain)] = in.client
                   /\ ~cfg.trust_inbound_xff => chain = <<in.client>>
<1> DEFINE kept == Apply(h, deny)
           named == IF cfg.inject_request_id THEN EnsureRequestId(kept) ELSE kept
           f == ForwardedFor(named, in, cfg)
           injected == Inject(kept, in, host, cfg)
           agented == DefaultUserAgent(injected, agent)
           out == Outbound(h, in, host, authority, deny, cfg, agent)
<1>1. out = Insert(agented, "host", authority)
  BY DEF Outbound, SetHost
<1>2. IsHeaderMap(kept)
  BY RemoveTyped DEF Apply
<1>3. Contains(named, Xff) => First(named, Xff) \in Seq(STRING)
  <2>1. named = kept \/ \E line : named = Insert(kept, "x-request-id", line)
    BY DEF EnsureRequestId, InsertIf
  <2> HIDE DEF kept, named
  <2>2. Contains(named, Xff) => Contains(kept, Xff) /\ named[Xff] = kept[Xff]
    BY <2>1 DEF Insert, Contains, Xff
  <2> QED
    BY <1>2, <2>2, FirstLine DEF First
<1>4. ASSUME cfg.inject PROVE Xff \in DOMAIN out /\ out[Xff] = f[Xff]
  <2> DEFINE proto == Insert(f, "x-forwarded-proto", <<in.scheme>>)
             hosted == InsertIf(in.host # <<>>, proto, "x-forwarded-host", in.host)
             ported == Insert(hosted, "x-forwarded-port", <<in.port>>)
  <2>1. injected = Insert(ported, "forwarded", BuildForwardedValue(in, host))
    BY <1>4 DEF Inject
  <2>2. agented = injected \/ agented = Insert(injected, "user-agent", <<agent>>)
    BY DEF DefaultUserAgent, InsertIf
  <2>3. hosted = proto \/ hosted = Insert(proto, "x-forwarded-host", in.host)
    BY DEF InsertIf
  <2>4. proto = Insert(f, "x-forwarded-proto", <<in.scheme>>)
    OBVIOUS
  <2>5. ported = Insert(hosted, "x-forwarded-port", <<in.port>>)
    OBVIOUS
  <2> HIDE DEF kept, named
  <2>6. Xff \in DOMAIN f
    BY <1>3, ForwardedForEnds
  <2> HIDE DEF f, proto, hosted, ported, injected, agented, out
  <2>7. Xff \in DOMAIN proto /\ proto[Xff] = f[Xff]
    BY <2>4, <2>6, InsertKeeps DEF Xff
  <2>8. Xff \in DOMAIN hosted /\ hosted[Xff] = f[Xff]
    BY <2>3, <2>7, InsertKeeps DEF Xff
  <2>9. Xff \in DOMAIN ported /\ ported[Xff] = f[Xff]
    BY <2>5, <2>8, InsertKeeps DEF Xff
  <2>10. Xff \in DOMAIN injected /\ injected[Xff] = f[Xff]
    BY <2>1, <2>9, InsertKeeps DEF Xff
  <2>11. Xff \in DOMAIN agented /\ agented[Xff] = f[Xff]
    BY <2>2, <2>10, InsertKeeps DEF Xff
  <2> QED
    BY <1>1, <2>11, InsertKeeps DEF Xff
<1> HIDE DEF kept, named
<1>5. \E chain \in Seq(STRING) :
        /\ f[Xff] = <<chain>>
        /\ Len(chain) > 0
        /\ chain[Len(chain)] = in.client
        /\ ~cfg.trust_inbound_xff => chain = <<in.client>>
  BY <1>3, ForwardedForEnds
<1> HIDE DEF f, injected, agented
<1>6. Insert(agented, "host", authority)["host"] = <<authority>>
  BY DEF Insert
<1> HIDE DEF out
<1>7. out["host"] = <<authority>>
  BY <1>1, <1>6
<1> QED
  BY <1>4, <1>5, <1>7 DEF out

-----------------------------------------------------------------------------
(* Policies                                                                *)

(* A configuration that loads has no error in its CORS section.            *)
LEMMA LoadedCors ==
  ASSUME NEW c \in Load(Files)
  PROVE  /\ ~(c.cors.policy = "wildcard" /\ c.cors.allow_credentials)
         /\ ~(c.cors.policy = "reflect" /\ c.cors.allow_any_origin /\ c.cors.allow_credentials)
<1>1. Errors(c) = {}
  BY DEF Load
<1>2. ValidateCors(c.cors) = {}
  BY <1>1 DEF Errors
<1>3. /\ ErrorIf(c.cors.policy = "wildcard" /\ c.cors.allow_credentials, "cors.allow_credentials") = {}
      /\ ErrorIf(c.cors.policy = "reflect" /\ c.cors.allow_any_origin /\ c.cors.allow_credentials,
                 "cors.allow_any_origin") = {}
  BY <1>2 DEF ValidateCors
<1> QED
  BY <1>3 DEF ErrorIf

(* Such a policy gives credentials to listed origins only.                 *)
LEMMA CredentialsListed ==
  ASSUME NEW c \in Load(Files), NEW q, Resolves(c.cors, q), c.cors.allow_credentials
  PROVE  Readable(q, "origin") /\ First(q, "origin") \in c.cors.origins
<1>1. c.cors.policy # "wildcard" /\ ~(c.cors.policy = "reflect" /\ c.cors.allow_any_origin)
  BY LoadedCors
<1> QED
  BY <1>1 DEF Resolves, Gate

(* append_vary touches no other header.                                    *)
LEMMA VaryOnly ==
  ASSUME NEW h, NEW name, NEW n, n # "vary"
  PROVE  n \in DOMAIN AppendVary(h, name) <=> n \in DOMAIN h
<1>1. AppendVary(h, name) = h \/ \E line : AppendVary(h, name) = Insert(h, "vary", line)
  BY DEF AppendVary, Extend
<1> QED
  BY <1>1 DEF Insert

(* Where an answer's leave for credentials comes from.                     *)
LEMMA BaseCredentials ==
  ASSUME NEW h, NEW q, NEW c, Acac \in DOMAIN ApplyCorsBase(h, q, c)
  PROVE  Acac \in DOMAIN h \/ (Resolves(c, q) /\ c.allow_credentials)
<1> DEFINE allowed == InsertIf(Resolves(c, q), h, Acao, ResolveAllowOrigin(c, q))
           granted == InsertIf(Resolves(c, q) /\ c.allow_credentials, allowed, Acac, <<"true">>)
<1>1. ApplyCorsBase(h, q, c) = AppendVary(granted, "origin")
  BY DEF ApplyCorsBase, Acao, Acac
<1>2. Acac \in DOMAIN granted
  <2> HIDE DEF granted
  <2>1. Acac # "vary"
    BY DEF Acac
  <2> QED
    BY <1>1, <2>1, VaryOnly
<1>3. CASE ~(Resolves(c, q) /\ c.allow_credentials)
  <2>1. Acac \in DOMAIN allowed
    BY <1>2, <1>3 DEF InsertIf
  <2>2. allowed = h \/ allowed = Insert(h, Acao, ResolveAllowOrigin(c, q))
    BY DEF InsertIf
  <2>3. Acac # Acao
    BY DEF Acac, Acao
  <2> QED
    BY <2>1, <2>2, <2>3 DEF Insert
<1> QED
  BY <1>3

LEMMA StampCredentials ==
  ASSUME NEW h, NEW q, NEW c, Acac \in DOMAIN ApplyToResponse(h, q, c)
  PROVE  Acac \in DOMAIN h \/ (Resolves(c, q) /\ c.allow_credentials)
<1>1. \/ ApplyToResponse(h, q, c) = ApplyCorsBase(h, q, c)
      \/ ApplyToResponse(h, q, c) = Insert(ApplyCorsBase(h, q, c), Aceh, c.exposed_headers)
  BY DEF ApplyToResponse, InsertIf, Aceh
<1>2. Acac # Aceh
  BY DEF Acac, Aceh
<1>3. Acac \in DOMAIN ApplyCorsBase(h, q, c)
  BY <1>1, <1>2 DEF Insert
<1> QED
  BY <1>3, BaseCredentials

LEMMA PreflightCredentials ==
  ASSUME NEW q, NEW c, Acac \in DOMAIN BuildPreflightResponse(q, c)
  PROVE  Resolves(c, q) /\ c.allow_credentials
<1> DEFINE base == ApplyCorsBase(Empty, q, c)
           methods == Advertise(base, "access-control-allow-methods", c.allowed_methods,
                                q, "access-control-request-method")
           headers == Advertise(methods, "access-control-allow-headers", c.allowed_headers,
                                q, "access-control-request-headers")
           aged == Insert(headers, "access-control-max-age", <<"max_age">>)
           private == InsertIf(c.allow_private_network /\ Contains(q, "access-control-request-private-network"),
                               aged, "access-control-allow-private-network", <<"true">>)
<1>1. BuildPreflightResponse(q, c) =
        AppendVary(AppendVary(private, "access-control-request-method"), "access-control-request-headers")
  BY DEF BuildPreflightResponse
<1>2. private = aged \/ \E line : private = Insert(aged, "access-control-allow-private-network", line)
  BY DEF InsertIf
<1>3. aged = Insert(headers, "access-control-max-age", <<"max_age">>)
  OBVIOUS
<1>4. headers = methods \/ \E line : headers = Insert(methods, "access-control-allow-headers", line)
  BY DEF Advertise, InsertIf
<1>5. methods = base \/ \E line : methods = Insert(base, "access-control-allow-methods", line)
  BY DEF Advertise, InsertIf
<1> HIDE DEF base, methods, headers, aged, private
<1>6. Acac \in DOMAIN private
  <2>1. Acac # "vary"
    BY DEF Acac
  <2> QED
    BY <1>1, <2>1, VaryOnly
<1>7. /\ Acac # "access-control-allow-private-network" /\ Acac # "access-control-max-age"
      /\ Acac # "access-control-allow-headers" /\ Acac # "access-control-allow-methods"
  BY DEF Acac
<1>8. Acac \in DOMAIN aged
  BY <1>2, <1>6, <1>7 DEF Insert
<1>9. Acac \in DOMAIN headers
  BY <1>3, <1>7, <1>8 DEF Insert
<1>10. Acac \in DOMAIN methods
  BY <1>4, <1>7, <1>9 DEF Insert
<1>11. Acac \in DOMAIN base
  BY <1>5, <1>7, <1>10 DEF Insert
<1>12. Acac \in DOMAIN Empty \/ (Resolves(c, q) /\ c.allow_credentials)
  BY <1>11, BaseCredentials DEF base
<1> QED
  BY <1>12 DEF Empty

(* shape_response adds no leave for credentials.                           *)
LEMMA ShapeCredentials ==
  ASSUME NEW h, NEW url, NEW deny, NEW rewrite, Acac \in DOMAIN Shape(h, url, deny, rewrite)
  PROVE  Acac \in DOMAIN h
<1> DEFINE kept == Apply(h, deny)
           told == Insert(kept, "x-corx-target-url", url)
           via == Extend(told, "via", "1.1 corx")
<1>1. Shape(h, url, deny, rewrite) = via \/ \E line : Shape(h, url, deny, rewrite) = Insert(via, "location", line)
  BY DEF Shape, RewriteLocation
<1>2. \E line : via = Insert(told, "via", line)
  BY DEF Extend
<1>3. told = Insert(kept, "x-corx-target-url", url)
  OBVIOUS
<1>4. DOMAIN kept \subseteq DOMAIN h
  BY DEF Apply, Remove
<1>5. Acac # "location" /\ Acac # "via" /\ Acac # "x-corx-target-url"
  BY DEF Acac
<1> HIDE DEF kept, told, via
<1>6. Acac \in DOMAIN via
  BY <1>1, <1>5 DEF Insert
<1>7. Acac \in DOMAIN told
  BY <1>2, <1>5, <1>6 DEF Insert
<1> QED
  BY <1>3, <1>4, <1>5, <1>7 DEF Insert
-----------------------------------------------------------------------------
(* The invariant                                                           *)

Statuses == {0, 200, 204, 404, 431, 500, 503, 504} \cup {Status(kind) : kind \in ErrorKinds}

(* What TypeOK says of one request; and one without an answer has none.    *)
Typed(r) ==
  /\ phase[r] \in Phases
  /\ req[r] \in Incoming \cup {NoRequest}
  /\ view[r] \in [Parts -> 0..Live]
  /\ target[r] \in Uris \cup {NoUri}
  /\ hop[r] \in Uris \cup {NoUri}
  /\ conn[r] \in Destinations \cup {NoAddress}
  /\ phase[r] # "idle" => req[r] \in Incoming
  /\ phase[r] \in {"served", "hop", "sent"} => target[r] \in Uris
  /\ phase[r] \in {"hop", "sent"} => hop[r] \in Uris /\ view[r].execute > 0
  /\ phase[r] = "sent" <=> conn[r] # NoAddress
  /\ phase[r] = "stamped" => view[r].stamp > 0
  /\ answer[r] = [status |-> answer[r].status, headers |-> answer[r].headers]
  /\ answer[r].status \in Statuses
  /\ phase[r] \notin {"answered", "stamped"} => answer[r] = NoAnswer

(* A request on its way was admitted by the target policy of its snapshot. *)
Dispatched(r) ==
  phase[r] \in {"hop", "sent"} => CheckAuthority(Config(view[r].execute).target, target[r])

(* An address that snapshot g lets a request to a host travel to.  A        *)
(* literal is taken as it stands.                                          *)
Admitted(g, host, ip) ==
  /\ ip \in Destinations
  /\ ~IsLiteral(host) => ip.family # "mapped" /\ CheckIp(Config(g).client.ssrf, ip)

Vetted(r) == phase[r] = "sent" => Admitted(view[r].execute, hop[r].host, conn[r])

(* The one X-Forwarded-For line of headers h ends with the client.         *)
Tells(h, cfg, client) ==
  /\ Xff \in DOMAIN h
  /\ \E chain \in Seq(STRING) :
       /\ h[Xff] = <<chain>>
       /\ Len(chain) > 0
       /\ chain[Len(chain)] = client
       /\ ~cfg.trust_inbound_xff => chain = <<client>>

Sees(r) ==
  phase[r] \in {"hop", "sent"} =>
    LET cfg == Config(view[r].execute).forwarded IN
    /\ cfg.inject => Tells(outbound[r], cfg, req[r].client)
    /\ "host" \in DOMAIN outbound[r] => outbound[r]["host"] = <<Authority(hop[r])>>

(* Credentials for q are what configuration c asks for.                    *)
Grants(c, q) ==
  c.cors.allow_credentials /\ Readable(q, "origin") /\ First(q, "origin") \in c.cors.origins

GrantedBy(r, part) == view[r][part] > 0 /\ Grants(Config(view[r][part]), req[r].headers)

Granted(r) ==
  /\ phase[r] \in {"answered", "stamped"}
  /\ Acac \in DOMAIN answer[r].headers
  /\ Acac \notin DOMAIN relayed[r]
  => GrantedBy(r, "serve") \/ (phase[r] = "stamped" /\ GrantedBy(r, "stamp"))

Blamed(r) ==
  answer[r].status \in {502, 504, 508} =>
    view[r].execute > 0 /\ CheckAuthority(Config(view[r].execute).target, target[r])

Sound(r) == Typed(r) /\ Dispatched(r) /\ Vetted(r) /\ Sees(r) /\ Granted(r) /\ Blamed(r)

(* A kept connection leads where the configuration its client was built    *)
(* for admits.                                                             *)
Kept(k) == k.client \in 1..Live /\ k.uri \in Uris /\ Admitted(k.client, k.uri.host, k.ip)

PoolVetted == \A k \in pool : Kept(k)

Domains ==
  /\ phase = [r \in Request |-> phase[r]]
  /\ req = [r \in Request |-> req[r]]
  /\ view = [r \in Request |-> view[r]]
  /\ target = [r \in Request |-> target[r]]
  /\ hop = [r \in Request |-> hop[r]]
  /\ outbound = [r \in Request |-> outbound[r]]
  /\ conn = [r \in Request |-> conn[r]]
  /\ answer = [r \in Request |-> answer[r]]
  /\ relayed = [r \in Request |-> relayed[r]]

Inv == Domains /\ PoolVetted /\ \A r \in Request : Sound(r)

(* What HotReload contributes.                                             *)
Coherent == Reloads!TypeOK /\ Reloads!SnapshotCoherent

LEMMA ImplementsReload == Spec => Reloads!Spec
<1>1. Init => Reloads!Init
  BY DEF Init, Reloading!Init, Reloads!Init, Reloading!Immutable, Reloads!Immutable
<1>2. [Next]_vars => [Reloads!Next]_(Reloads!vars)
  <2> SUFFICES ASSUME [Next]_vars PROVE [Reloads!Next]_(Reloads!vars)
    OBVIOUS
  <2>1. CASE Reload
    BY <2>1 DEF Reload, Reloading!Reload, Reloads!Reload, Reloads!Next, Reloading!Live, Reloads!Live,
         Reloading!AssertImmutable, Reloads!AssertImmutable, Reloading!BuildFrom, Reloads!BuildFrom,
         Reloading!UpstreamConfigEq, Reloads!UpstreamConfigEq
  <2>2. CASE CloseConnection
    BY <2>2 DEF CloseConnection, policies, Reloads!vars
  <2>3. CASE \E r \in Request : Step(r)
    BY <2>3 DEF Step, Arrive, Refuse, Usage, Preflight, Serve, Execute, Reuse, Connect, Connected,
         HopFails, Redirect, UpstreamAnswers, Timeout, Panic, Stamp, Leave, policies, Reloads!vars
  <2>4. CASE UNCHANGED vars
    BY <2>4 DEF vars, policies, Reloads!vars
  <2> QED
    BY <2>1, <2>2, <2>3, <2>4 DEF Next
<1> QED
  BY <1>1, <1>2, PTL DEF Spec, Reloads!Spec

LEMMA CoherentHere == Spec => []Coherent
<1>1. Reloads!Inv => Coherent
  BY DEF Reloads!Inv, Coherent
<1>2. Reloads!Spec => []Reloads!Inv
  BY Reloads!InvHolds
<1> QED
  BY <1>1, <1>2, ImplementsReload, PTL

(* Every snapshot has a valid configuration, and a client that works by it. *)
LEMMA SnapshotFacts ==
  ASSUME Coherent
  PROVE  /\ Live \in Nat /\ Live > 0
         /\ \A g \in 1..Live :
              /\ Config(g) \in Load(Files)
              /\ Client(g) \in 1..Live
              /\ Built(g).client = Config(g).client
              /\ Built(g).target = Config(g).target
<1>1. snapshots \in Seq(Reloads!LivePolicies) /\ Live \in Nat /\ Live > 0
  BY DEF Coherent, Reloads!TypeOK, Reloads!Live, Live
<1>2. ASSUME NEW g \in 1..Live
      PROVE  /\ Config(g) \in Load(Files)
             /\ Client(g) \in 1..Live
             /\ Built(g).client = Config(g).client
             /\ Built(g).target = Config(g).target
  <2>1. snapshots[g] \in Reloads!LivePolicies
    BY <1>1, <1>2 DEF Live
  <2>2. Config(g) \in Load(Files)
    BY <2>1 DEF Reloads!LivePolicies, Config
  <2>3. /\ Client(g) \in 1..g
        /\ Built(g).client = Config(g).client
        /\ Built(g).target = Config(g).target
    BY <1>2 DEF Coherent, Reloads!SnapshotCoherent, Reloads!Live, Live, Client, Built, Config
  <2> QED
    BY <1>1, <2>2, <2>3
<1> QED
  BY <1>1, <1>2

(* A request other than r is where it was.                                 *)
OthersKept(r) ==
  \A q \in Request \ {r} :
    /\ phase'[q] = phase[q] /\ req'[q] = req[q] /\ view'[q] = view[q]
    /\ target'[q] = target[q] /\ hop'[q] = hop[q] /\ outbound'[q] = outbound[q]
    /\ conn'[q] = conn[q] /\ answer'[q] = answer[q] /\ relayed'[q] = relayed[q]

(* What a step of r has to show is about r alone, and about the pool.      *)
LEMMA FrameKeeps ==
  ASSUME Inv, NEW r \in Request, UNCHANGED policies, Domains', OthersKept(r), Sound(r)', PoolVetted'
  PROVE  Inv'
<1>1. ASSUME NEW q \in Request \ {r} PROVE Sound(q)'
  <2>1. Sound(q)
    BY DEF Inv
  <2>2. /\ phase'[q] = phase[q] /\ req'[q] = req[q] /\ view'[q] = view[q]
        /\ target'[q] = target[q] /\ hop'[q] = hop[q] /\ outbound'[q] = outbound[q]
        /\ conn'[q] = conn[q] /\ answer'[q] = answer[q] /\ relayed'[q] = relayed[q]
    BY DEF OthersKept
  <2>3. snapshots' = snapshots
    BY DEF policies
  <2>4. Typed(q)'
    BY <2>1, <2>2, <2>3 DEF Sound, Typed, Live
  <2>5. Dispatched(q)' /\ Vetted(q)' /\ Blamed(q)'
    BY <2>1, <2>2, <2>3 DEF Sound, Dispatched, Vetted, Blamed, Admitted, Config
  <2>6. Sees(q)'
    BY <2>1, <2>2, <2>3 DEF Sound, Sees, Config
  <2>7. Granted(q)'
    BY <2>1, <2>2, <2>3 DEF Sound, Granted, GrantedBy, Config
  <2> QED
    BY <2>4, <2>5, <2>6, <2>7 DEF Sound
<1>2. \A q \in Request : Sound(q)'
  BY <1>1
<1> QED
  BY <1>2 DEF Inv

LEMMA InitInv == ASSUME Init, Coherent PROVE Inv
<1>1. Live \in Nat /\ Live > 0
  BY SnapshotFacts
<1>2. Domains /\ PoolVetted
  BY DEF Init, Domains, PoolVetted
<1>3. ASSUME NEW r \in Request PROVE Sound(r)
  <2>1. /\ phase[r] = "idle" /\ req[r] = NoRequest /\ view[r] = NoView /\ target[r] = NoUri
        /\ hop[r] = NoUri /\ conn[r] = NoAddress /\ answer[r] = NoAnswer
    BY <1>3 DEF Init
  <2>2. NoView \in [Parts -> 0..Live]
    BY <1>1 DEF NoView
  <2>3. Typed(r)
    BY <2>1, <2>2 DEF Typed, Phases, NoAnswer, Statuses
  <2> QED
    BY <2>1, <2>3 DEF Sound, Dispatched, Vetted, Sees, Granted, Blamed, NoAnswer
<1> QED
  BY <1>2, <1>3 DEF Inv

(* The snapshot that is live is a legal one to have loaded.                *)
LEMMA LoadTyped ==
  ASSUME Inv, Coherent, NEW r \in Request, NEW part \in Parts, LoadFor(r, part)
  PROVE  /\ view' = [view EXCEPT ![r] = view'[r]]
         /\ view'[r] \in [Parts -> 0..Live]
         /\ view'[r][part] = Live
         /\ \A other \in Parts \ {part} : view'[r][other] = view[r][other]
<1>1. view = [q \in Request |-> view[q]] /\ view[r] \in [Parts -> 0..Live]
  BY DEF Inv, Domains, Sound, Typed
<1>2. Live \in Nat /\ Live > 0
  BY SnapshotFacts
<1>3. view' = [view EXCEPT ![r] = [view[r] EXCEPT ![part] = Live]]
  BY DEF LoadFor
<1> QED
  BY <1>1, <1>2, <1>3

-----------------------------------------------------------------------------
(* Steps                                                                   *)

(* The snapshots r has loaded, and the upstream's headers, change for r    *)
(* only.                                                                   *)
HistoryOf(r) ==
  /\ view' = [view EXCEPT ![r] = view'[r]]
  /\ view'[r] \in [Parts -> 0..Live]
  /\ relayed' = [relayed EXCEPT ![r] = relayed'[r]]

(* A step that answers r owes its status and its leave for credentials.    *)
LEMMA RespondKeeps ==
  ASSUME Inv, NEW r \in Request, phase[r] # "idle", NEW status \in Statuses, NEW headers,
         Respond(r, status, headers), UNCHANGED policies, HistoryOf(r), PoolVetted',
         /\ Acac \in DOMAIN headers
         /\ Acac \notin DOMAIN relayed'[r]
         => view'[r].serve > 0 /\ Grants(Config(view'[r].serve), req[r].headers),
         status \in {502, 504, 508} =>
           view'[r].execute > 0 /\ CheckAuthority(Config(view'[r].execute).target, target[r])
  PROVE  Inv'
<1>1. Domains /\ Typed(r)
  BY DEF Inv, Sound
<1>2. Domains' /\ OthersKept(r)
  BY <1>1 DEF Domains, OthersKept, Respond, Goto, HistoryOf
<1>3. /\ phase'[r] = "answered" /\ req'[r] = req[r] /\ target'[r] = target[r] /\ hop'[r] = NoUri
      /\ conn'[r] = NoAddress /\ answer'[r] = [status |-> status, headers |-> headers]
      /\ snapshots' = snapshots
  BY <1>1 DEF Domains, Respond, Goto, policies
<1>4. answer'[r].status = status /\ answer'[r].headers = headers
  BY <1>3
<1>5. Typed(r)'
  BY <1>1, <1>3, <1>4 DEF Typed, Phases, Live, HistoryOf
<1>6. Dispatched(r)' /\ Vetted(r)' /\ Sees(r)'
  BY <1>3 DEF Dispatched, Vetted, Sees
<1>7. Granted(r)'
  BY <1>3, <1>4 DEF Granted, GrantedBy, Config
<1>8. Blamed(r)'
  BY <1>3, <1>4 DEF Blamed, Config
<1> QED
  BY <1>2, <1>5, <1>6, <1>7, <1>8, FrameKeeps DEF Sound

(* ... and an error that is not the upstream's owes neither.               *)
LEMMA FailKeeps ==
  ASSUME Inv, NEW r \in Request, phase[r] # "idle", NEW kind \in ErrorKinds, Fail(r, kind),
         UNCHANGED policies, HistoryOf(r), PoolVetted',
         Status(kind) \in {502, 504, 508} =>
           view'[r].execute > 0 /\ CheckAuthority(Config(view'[r].execute).target, target[r])
  PROVE  Inv'
<1> DEFINE headers == Insert(Empty, "x-corx-status", <<kind>>)
<1>1. Status(kind) \in Statuses
  BY DEF Statuses
<1>2. Acac \notin DOMAIN headers
  BY DEF Insert, Empty, Acac
<1>3. Respond(r, Status(kind), headers)
  BY DEF Fail
<1> HIDE DEF headers
<1> QED
  BY <1>1, <1>2, <1>3, RespondKeeps

(* Errors that policy, the parser or a guard raises.                       *)
LEMMA RefusalStatus ==
  ASSUME NEW kind \in {"unauthorized", "missing_required_header", "origin_not_allowed", "rate_limited",
                       "invalid_url", "target_not_allowed", "redirect_blocked", "circuit_open"}
  PROVE  kind \in ErrorKinds /\ Status(kind) \notin {502, 504, 508}
BY DEF ErrorKinds, Status, BadGateway

LEMMA PoolUnchanged ==
  ASSUME Inv, UNCHANGED <<pool, policies>> PROVE PoolVetted'
BY DEF Inv, PoolVetted, Kept, Admitted, Config, Live, policies

(* A step that leaves the histories alone.                                 *)
LEMMA HistoryUnchanged ==
  ASSUME Inv, NEW r \in Request, UNCHANGED <<view, relayed>> PROVE HistoryOf(r)
BY DEF Inv, Domains, Sound, Typed, HistoryOf

(* A step that loads the live snapshot for one part.                       *)
LEMMA HistoryLoaded ==
  ASSUME Inv, Coherent, NEW r \in Request, NEW part \in Parts, LoadFor(r, part), UNCHANGED relayed
  PROVE  HistoryOf(r)
<1>1. relayed = [q \in Request |-> relayed[q]]
  BY DEF Inv, Domains
<1> QED
  BY <1>1, LoadTyped DEF HistoryOf

LEMMA ArriveKeeps == ASSUME Inv, NEW r \in Request, Arrive(r) PROVE Inv'
<1>1. Domains /\ Typed(r) /\ phase[r] = "idle"
  BY DEF Inv, Sound, Arrive
<1>2. PICK q \in Incoming : req' = [req EXCEPT ![r] = q]
  BY DEF Arrive
<1>3. /\ phase' = [phase EXCEPT ![r] = "arrived"]
      /\ UNCHANGED <<view, wire, answer, relayed, pool, policies>>
  BY DEF Arrive, Goto
<1>4. Domains' /\ OthersKept(r)
  BY <1>1, <1>2, <1>3 DEF Domains, OthersKept, wire
<1>5. /\ phase'[r] = "arrived" /\ req'[r] = q /\ view'[r] = view[r] /\ target'[r] = target[r]
      /\ hop'[r] = hop[r] /\ conn'[r] = conn[r] /\ answer'[r] = answer[r] /\ snapshots' = snapshots
  BY <1>1, <1>2, <1>3 DEF Domains, wire, policies
<1>6. Typed(r)' /\ answer'[r].status = 0
  BY <1>1, <1>5 DEF Typed, Phases, Live, NoAnswer
<1>7. Sound(r)'
  BY <1>5, <1>6 DEF Sound, Dispatched, Vetted, Sees, Granted, Blamed
<1> QED
  BY <1>3, <1>4, <1>7, FrameKeeps, PoolUnchanged

LEMMA RefuseKeeps == ASSUME Inv, NEW r \in Request, Refuse(r) PROVE Inv'
<1>1. phase[r] # "idle" /\ UNCHANGED <<view, relayed, pool, policies>>
  BY DEF Refuse
<1>2. HistoryOf(r) /\ PoolVetted'
  BY <1>1, HistoryUnchanged, PoolUnchanged
<1>3. ASSUME NEW kind \in {"unauthorized", "missing_required_header", "origin_not_allowed", "rate_limited"},
             Fail(r, kind)
      PROVE  Inv'
  <2>1. kind \in ErrorKinds /\ Status(kind) \notin {502, 504, 508}
    BY <1>3, RefusalStatus
  <2> QED
    BY <1>1, <1>2, <1>3, <2>1, FailKeeps
<1>4. ASSUME NEW status \in {431, 503}, NEW headers, Acac \notin DOMAIN headers, Respond(r, status, headers)
      PROVE  Inv'
  <2>1. status \in Statuses /\ status \notin {502, 504, 508}
    BY <1>4 DEF Statuses
  <2> QED
    BY <1>1, <1>2, <1>4, <2>1, RespondKeeps
<1>5. Acac \notin DOMAIN Empty /\ Acac \notin DOMAIN Insert(Empty, "retry-after", <<"1">>)
  BY DEF Empty, Insert, Acac
<1> QED
  BY <1>3, <1>4, <1>5 DEF Refuse

LEMMA UsageKeeps == ASSUME Inv, NEW r \in Request, Usage(r) PROVE Inv'
<1>1. phase[r] # "idle" /\ UNCHANGED <<view, relayed, pool, policies>>
  BY DEF Usage
<1>2. HistoryOf(r) /\ PoolVetted'
  BY <1>1, HistoryUnchanged, PoolUnchanged
<1>3. PICK status \in {200, 404} : Respond(r, status, Empty)
  BY DEF Usage
<1>4. status \in Statuses /\ status \notin {502, 504, 508}
  BY <1>3 DEF Statuses
<1>5. Acac \notin DOMAIN Empty
  BY DEF Empty
<1> QED
  BY <1>1, <1>2, <1>3, <1>4, <1>5, RespondKeeps

(* A preflight answer allows credentials as the policy it was built by.    *)
LEMMA PreflightKeeps == ASSUME Inv, Coherent, NEW r \in Request, Preflight(r) PROVE Inv'
<1> DEFINE headers == BuildPreflightResponse(req[r].headers, Config(Live).cors)
<1>1. /\ phase[r] # "idle" /\ UNCHANGED <<relayed, pool, policies>> /\ LoadFor(r, "serve")
      /\ Respond(r, 204, headers)
  BY DEF Preflight
<1>2. "serve" \in Parts /\ 204 \in Statuses
  BY DEF Parts, Statuses
<1>3. HistoryOf(r) /\ PoolVetted' /\ view'[r].serve = Live
  BY <1>1, <1>2, HistoryLoaded, PoolUnchanged, LoadTyped
<1>4. Live \in Nat /\ Live > 0 /\ Config(Live) \in Load(Files)
  BY SnapshotFacts
<1>5. Acac \in DOMAIN headers => Grants(Config(Live), req[r].headers)
  BY <1>4, PreflightCredentials, CredentialsListed DEF Grants
<1> HIDE DEF headers
<1>6. Acac \in DOMAIN headers => view'[r].serve > 0 /\ Grants(Config(view'[r].serve), req[r].headers)
  BY <1>3, <1>4, <1>5
<1> QED
  BY <1>1, <1>2, <1>3, <1>6, RespondKeeps

LEMMA ServeKeeps == ASSUME Inv, Coherent, NEW r \in Request, Serve(r) PROVE Inv'
<1> DEFINE text == Candidate(req[r].param, req[r].path)
<1>1. /\ Domains /\ Typed(r) /\ phase[r] = "arrived"
      /\ UNCHANGED <<relayed, pool, policies>> /\ LoadFor(r, "serve")
  BY DEF Inv, Sound, Serve
<1>2. "serve" \in Parts
  BY DEF Parts
<1>3. HistoryOf(r) /\ PoolVetted' /\ view'[r] \in [Parts -> 0..Live]
  BY <1>1, <1>2, HistoryLoaded, PoolUnchanged, LoadTyped
<1>4. ASSUME NEW kind \in {"invalid_url", "target_not_allowed"}, Fail(r, kind) PROVE Inv'
  <2>1. kind \in ErrorKinds /\ Status(kind) \notin {502, 504, 508}
    BY <1>4, RefusalStatus
  <2> QED
    BY <1>1, <1>3, <1>4, <2>1, FailKeeps
<1>5. CASE /\ Valid(text)
           /\ target' = [target EXCEPT ![r] = Target(text)]
           /\ Goto(r, "served")
           /\ UNCHANGED <<req, hop, outbound, conn, answer>>
  <2>1. req[r] \in Incoming
    BY <1>1 DEF Typed
  <2>2. Target(text) \in Uris
    BY <1>5, <2>1, ExchangeAssumption
  <2> HIDE DEF text
  <2>3. Domains' /\ OthersKept(r)
    BY <1>1, <1>3, <1>5 DEF Domains, OthersKept, HistoryOf, Goto
  <2>4. /\ phase'[r] = "served" /\ req'[r] = req[r] /\ target'[r] = Target(text) /\ hop'[r] = hop[r]
        /\ conn'[r] = conn[r] /\ answer'[r] = answer[r] /\ snapshots' = snapshots
    BY <1>1, <1>5 DEF Domains, Goto, policies
  <2>5. Typed(r)' /\ answer'[r].status = 0
    BY <1>1, <1>3, <2>2, <2>4 DEF Typed, Phases, Live, NoAnswer
  <2>6. Sound(r)'
    BY <2>4, <2>5 DEF Sound, Dispatched, Vetted, Sees, Granted, Blamed
  <2> QED
    BY <1>1, <1>3, <2>3, <2>6, FrameKeeps
<1> QED
  BY <1>4, <1>5 DEF Serve

(* The first hop: the retained client checks the target by the snapshot's  *)
(* own policy, and the headers tell the upstream of the client.            *)
LEMMA ExecuteKeeps == ASSUME Inv, Coherent, NEW r \in Request, Execute(r) PROVE Inv'
<1>1. /\ Domains /\ Typed(r) /\ phase[r] = "served"
      /\ UNCHANGED <<relayed, pool, policies>> /\ LoadFor(r, "execute")
  BY DEF Inv, Sound, Execute
<1>2. "execute" \in Parts
  BY DEF Parts
<1>3. /\ HistoryOf(r) /\ PoolVetted'
      /\ view'[r] \in [Parts -> 0..Live] /\ view'[r].execute = Live
  BY <1>1, <1>2, HistoryLoaded, PoolUnchanged, LoadTyped
<1>4. ASSUME NEW kind \in {"invalid_url", "target_not_allowed"}, Fail(r, kind) PROVE Inv'
  <2>1. kind \in ErrorKinds /\ Status(kind) \notin {502, 504, 508}
    BY <1>4, RefusalStatus
  <2> QED
    BY <1>1, <1>3, <1>4, <2>1, FailKeeps
<1>5. CASE /\ CheckAuthority(Built(Live).target, target[r])
           /\ outbound' = [outbound EXCEPT ![r] = Forwarded(r, req[r].headers, Live)]
           /\ hop' = [hop EXCEPT ![r] = target[r]]
           /\ Goto(r, "hop")
           /\ UNCHANGED <<req, target, conn, answer>>
  <2>1. /\ Live \in Nat /\ Live > 0 /\ Built(Live).target = Config(Live).target
    BY SnapshotFacts
  <2>2. Domains' /\ OthersKept(r)
    BY <1>1, <1>3, <1>5 DEF Domains, OthersKept, HistoryOf, Goto
  <2>3. /\ phase'[r] = "hop" /\ req'[r] = req[r] /\ target'[r] = target[r] /\ hop'[r] = target[r]
        /\ conn'[r] = conn[r] /\ answer'[r] = answer[r] /\ snapshots' = snapshots
        /\ outbound'[r] = Forwarded(r, req[r].headers, Live)
    BY <1>1, <1>5 DEF Domains, Goto, policies
  <2>4. Typed(r)' /\ answer'[r].status = 0
    BY <1>1, <1>3, <2>1, <2>3 DEF Typed, Phases, Live, NoAnswer
  <2>5. Dispatched(r)'
    BY <1>3, <1>5, <2>1, <2>3 DEF Dispatched, Config
  <2>6. Sees(r)'
    <3> DEFINE in == Inbound(req[r])
               cfg == Config(Live).forwarded
               out == outbound'[r]
    <3>1. out = Outbound(req[r].headers, in, target[r].host, Authority(target[r]),
                         Config(Live).security.remove_request_headers, cfg, Built(Live).client.user_agent)
      BY <2>3 DEF Forwarded
    <3>2. IsHeaderMap(req[r].headers) /\ req[r].client \in STRING
      BY <1>1, ExchangeAssumption DEF Typed
    <3>3. in.client = req[r].client
      BY DEF Inbound
    <3> HIDE DEF in, cfg, out
    <3>4. out["host"] = <<Authority(target[r])>> /\ (cfg.inject => Tells(out, cfg, req[r].client))
      BY <3>1, <3>2, <3>3, OutboundTells DEF Tells
    <3>5. Config(view[r].execute)' = Config(Live)
      BY <1>3, <2>3 DEF Config
    <3> QED
      BY <2>3, <3>4, <3>5 DEF Sees, out, cfg
  <2>7. Vetted(r)' /\ Granted(r)' /\ Blamed(r)'
    BY <2>3, <2>4 DEF Vetted, Granted, Blamed
  <2> QED
    BY <1>1, <1>3, <2>2, <2>4, <2>5, <2>6, <2>7, FrameKeeps DEF Sound
<1> QED
  BY <1>4, <1>5 DEF Execute

(* A connection of r to an admitted address may be kept.                   *)
LEMMA KeepVetted ==
  ASSUME Inv, Coherent, NEW r \in Request, phase[r] \in {"hop", "sent"}, NEW ip,
         Admitted(view[r].execute, hop[r].host, ip), UNCHANGED policies, Keep(Connection(r, ip))
  PROVE  PoolVetted'
<1> DEFINE g == view[r].execute
           k == Connection(r, ip)
<1>1. g \in 1..Live /\ hop[r] \in Uris
  <2>1. "execute" \in Parts /\ Live \in Nat
    BY SnapshotFacts DEF Parts
  <2>2. Typed(r)
    BY DEF Inv, Sound
  <2>3. g \in 0..Live /\ g > 0 /\ hop[r] \in Uris
    BY <2>1, <2>2 DEF Typed
  <2> QED
    BY <2>1, <2>3
<1>2. Client(g) \in 1..Live /\ Config(Client(g)).client = Config(g).client
  BY <1>1, SnapshotFacts DEF Built
<1>3. k.client = Client(g) /\ k.uri = hop[r] /\ k.ip = ip
  BY DEF Connection
<1> HIDE DEF g, k
<1>4. Kept(k)
  BY <1>1, <1>2, <1>3 DEF Kept, Admitted, g
<1>5. \A c \in pool : Kept(c)
  BY DEF Inv, PoolVetted
<1>6. \A c \in pool' : Kept(c)
  BY <1>4, <1>5 DEF Keep, k
<1> QED
  BY <1>6 DEF PoolVetted, Kept, Admitted, Config, Live, policies

(* The request goes out on a connection to an admitted address.            *)
LEMMA ConnectedKeeps ==
  ASSUME Inv, NEW r \in Request, phase[r] = "hop", NEW ip, Connected(r, ip),
         Admitted(view[r].execute, hop[r].host, ip), PoolVetted'
  PROVE  Inv'
<1>1. Domains /\ Sound(r) /\ Typed(r)
  BY DEF Inv, Sound
<1>2. /\ phase' = [phase EXCEPT ![r] = "sent"] /\ conn' = [conn EXCEPT ![r] = ip]
      /\ UNCHANGED <<req, view, target, hop, outbound, answer, relayed, policies>>
  BY DEF Connected, Goto
<1>3. Domains' /\ OthersKept(r)
  BY <1>1, <1>2 DEF Domains, OthersKept
<1>4. phase'[r] = "sent" /\ conn'[r] = ip /\ snapshots' = snapshots
  BY <1>1, <1>2 DEF Domains, policies
<1>5. ip \in Destinations /\ ip # NoAddress
  BY ExchangeAssumption DEF Admitted
<1>6. Typed(r)' /\ answer'[r].status = 0
  BY <1>1, <1>2, <1>4, <1>5 DEF Typed, Phases, Live, NoAnswer
<1>7. Dispatched(r)' /\ Vetted(r)'
  BY <1>1, <1>2, <1>4 DEF Sound, Dispatched, Vetted, Admitted, Config
<1>8. Sees(r)'
  BY <1>1, <1>2, <1>4 DEF Sound, Sees, Config
<1>9. Granted(r)' /\ Blamed(r)'
  BY <1>4, <1>6 DEF Granted, Blamed
<1> QED
  BY <1>2, <1>3, <1>6, <1>7, <1>8, <1>9, FrameKeeps DEF Sound

(* Reuse: the client of the snapshot vetted the connection when it made    *)
(* it, by the same ssrf section.                                           *)
LEMMA ReuseKeeps == ASSUME Inv, Coherent, NEW r \in Request, Reuse(r) PROVE Inv'
<1>1. PICK ip : Connection(r, ip) \in pool /\ Connected(r, ip)
  BY DEF Reuse
<1>2. phase[r] = "hop" /\ UNCHANGED pool /\ UNCHANGED policies
  BY <1>1 DEF Reuse, Connected
<1>3. Kept(Connection(r, ip))
  BY <1>1 DEF Inv, PoolVetted
<1>4. view[r].execute \in 1..Live
  <2>1. "execute" \in Parts /\ Live \in Nat
    BY SnapshotFacts DEF Parts
  <2>2. Typed(r)
    BY DEF Inv, Sound
  <2>3. view[r].execute \in 0..Live /\ view[r].execute > 0
    BY <1>2, <2>1, <2>2 DEF Typed
  <2> QED
    BY <2>1, <2>3
<1>5. Config(Client(view[r].execute)).client = Config(view[r].execute).client
  BY <1>4, SnapshotFacts DEF Built
<1>6. Admitted(view[r].execute, hop[r].host, ip)
  BY <1>3, <1>5 DEF Kept, Admitted, Connection
<1> QED
  BY <1>1, <1>2, <1>6, ConnectedKeeps, PoolUnchanged

(* A name leads to what the guard admits, a literal to itself.             *)
LEMMA CandidatesAdmitted ==
  ASSUME NEW g, NEW host, NEW ip \in Candidates(Config(g).client.ssrf, host)
  PROVE  Admitted(g, host, ip)
<1> DEFINE ssrf == Config(g).client.ssrf
<1>1. CASE IsLiteral(host)
  <2>1. ip = Literal[host]
    BY <1>1 DEF Candidates
  <2>2. ip \in Destinations
    BY <1>1, <2>1, ExchangeAssumption DEF IsLiteral
  <2> QED
    BY <1>1, <2>2 DEF Admitted
<1>2. CASE ~IsLiteral(host)
  <2> HIDE DEF ssrf
  <2>1. ip \in UNION {Resolve(ssrf, host, answers) : answers \in SUBSET Address}
    BY <1>2 DEF Candidates, ssrf
  <2>2. PICK answers \in SUBSET Address : ip \in Resolve(ssrf, host, answers)
    BY <2>1
  <2>3. (\E raw \in answers : ip = Canonicalise(raw)) /\ CheckIp(ssrf, ip)
    BY <1>2, <2>2 DEF Resolve
  <2>4. PICK raw \in Address : ip = Canonicalise(raw)
    BY <2>2, <2>3
  <2>5. ip.family # "mapped" /\ ip \in Destinations
    BY <2>4, ExchangeAssumption DEF Canonicalise, Destinations
  <2> QED
    BY <2>3, <2>5 DEF Admitted, ssrf
<1> QED
  BY <1>1, <1>2

LEMMA ConnectKeeps == ASSUME Inv, Coherent, NEW r \in Request, Connect(r) PROVE Inv'
<1> DEFINE g == view[r].execute
           host == hop[r].host
<1>1. PICK ip \in Candidates(Built(g).client.ssrf, host) : Connected(r, ip) /\ Keep(Connection(r, ip))
  BY DEF Connect
<1>2. phase[r] = "hop" /\ UNCHANGED policies
  BY <1>1 DEF Connect, Connected
<1>3. g \in 1..Live
  <2>1. "execute" \in Parts /\ Live \in Nat
    BY SnapshotFacts DEF Parts
  <2>2. Typed(r)
    BY DEF Inv, Sound
  <2>3. g \in 0..Live /\ g > 0
    BY <1>2, <2>1, <2>2 DEF Typed
  <2> QED
    BY <2>1, <2>3
<1>4. Built(g).client = Config(g).client
  BY <1>3, SnapshotFacts
<1>5. Admitted(g, host, ip)
  BY <1>1, <1>4, CandidatesAdmitted
<1> QED
  BY <1>1, <1>2, <1>5, KeepVetted, ConnectedKeeps

(* A request on its way may be answered with a gateway's status.           *)
LEMMA OnItsWay ==
  ASSUME Inv, NEW r \in Request, phase[r] \in {"hop", "sent"}
  PROVE  view[r].execute > 0 /\ CheckAuthority(Config(view[r].execute).target, target[r])
BY DEF Inv, Sound, Typed, Dispatched

LEMMA HopFailsKeeps == ASSUME Inv, NEW r \in Request, HopFails(r) PROVE Inv'
<1>1. phase[r] \in {"hop", "sent"} /\ UNCHANGED <<view, relayed, pool, policies>>
  BY DEF HopFails
<1>2. HistoryOf(r) /\ PoolVetted'
  BY <1>1, HistoryUnchanged, PoolUnchanged
<1>3. view[r].execute > 0 /\ CheckAuthority(Config(view[r].execute).target, target[r])
  BY <1>1, OnItsWay
<1>4. PICK kind \in {"circuit_open", "upstream_unreachable"} : Fail(r, kind)
  BY DEF HopFails
<1>5. kind \in ErrorKinds
  BY <1>4 DEF ErrorKinds
<1> QED
  BY <1>1, <1>2, <1>3, <1>4, <1>5, FailKeeps

LEMMA TimeoutKeeps == ASSUME Inv, NEW r \in Request, Timeout(r) PROVE Inv'
<1>1. phase[r] \in {"hop", "sent"} /\ Respond(r, 504, Empty) /\ UNCHANGED <<view, relayed, pool, policies>>
  BY DEF Timeout
<1>2. HistoryOf(r) /\ PoolVetted'
  BY <1>1, HistoryUnchanged, PoolUnchanged
<1>3. view[r].execute > 0 /\ CheckAuthority(Config(view[r].execute).target, target[r])
  BY <1>1, OnItsWay
<1>4. Acac \notin DOMAIN Empty /\ 504 \in Statuses
  BY DEF Empty, Statuses
<1> QED
  BY <1>1, <1>2, <1>3, <1>4, RespondKeeps

LEMMA PanicKeeps == ASSUME Inv, NEW r \in Request, Panic(r) PROVE Inv'
<1>1. phase[r] # "idle" /\ Respond(r, 500, Empty) /\ UNCHANGED <<view, relayed, pool, policies>>
  BY DEF Panic
<1>2. HistoryOf(r) /\ PoolVetted'
  BY <1>1, HistoryUnchanged, PoolUnchanged
<1>3. Acac \notin DOMAIN Empty /\ 500 \in Statuses
  BY DEF Empty, Statuses
<1> QED
  BY <1>1, <1>2, <1>3, RespondKeeps

(* The connection of a request in flight may be kept.                      *)
LEMMA SentKeepVetted ==
  ASSUME Inv, Coherent, NEW r \in Request, phase[r] = "sent", UNCHANGED policies,
         Keep(Connection(r, conn[r]))
  PROVE  PoolVetted'
<1>1. Admitted(view[r].execute, hop[r].host, conn[r])
  BY DEF Inv, Sound, Vetted
<1> QED
  BY <1>1, KeepVetted

(* prepare_next leaves X-Forwarded-For alone, and either the authority or  *)
(* no Host header.                                                         *)
LEMMA NextHopSees ==
  ASSUME Inv, NEW r \in Request, phase[r] = "sent", NEW u, NEW out,
         out = IF Authority(u) = Authority(hop[r])
               THEN outbound[r] ELSE Remove(outbound[r], SensitiveHeaders \cup {"host"})
  PROVE  LET cfg == Config(view[r].execute).forwarded IN
         /\ cfg.inject => Tells(out, cfg, req[r].client)
         /\ "host" \in DOMAIN out => out["host"] = <<Authority(u)>>
<1> DEFINE cfg == Config(view[r].execute).forwarded
<1>1. /\ cfg.inject => Tells(outbound[r], cfg, req[r].client)
      /\ "host" \in DOMAIN outbound[r] => outbound[r]["host"] = <<Authority(hop[r])>>
  BY DEF Inv, Sound, Sees
<1> HIDE DEF cfg
<1>2. CASE Authority(u) = Authority(hop[r])
  BY <1>1, <1>2 DEF cfg
<1>3. CASE Authority(u) # Authority(hop[r])
  <2>1. out = Remove(outbound[r], SensitiveHeaders \cup {"host"})
    BY <1>3
  <2>2. "host" \notin DOMAIN out
    BY <2>1 DEF Remove
  <2>3. Xff \notin SensitiveHeaders \cup {"host"}
    BY DEF Xff, SensitiveHeaders
  <2>4. Xff \in DOMAIN outbound[r] => Xff \in DOMAIN out /\ out[Xff] = outbound[r][Xff]
    BY <2>1, <2>3 DEF Remove
  <2>5. Tells(outbound[r], cfg, req[r].client) => Tells(out, cfg, req[r].client)
    BY <2>4 DEF Tells
  <2> QED
    BY <1>1, <2>2, <2>5 DEF cfg
<1> QED
  BY <1>2, <1>3

LEMMA RedirectKeeps == ASSUME Inv, Coherent, NEW r \in Request, Redirect(r) PROVE Inv'
<1>1. /\ Domains /\ Sound(r) /\ Typed(r) /\ phase[r] = "sent"
      /\ UNCHANGED <<view, relayed, policies>> /\ Keep(Connection(r, conn[r]))
  BY DEF Inv, Sound, Redirect
<1>2. HistoryOf(r) /\ PoolVetted'
  BY <1>1, HistoryUnchanged, SentKeepVetted
<1>3. view[r].execute > 0 /\ CheckAuthority(Config(view[r].execute).target, target[r])
  BY <1>1, OnItsWay
<1>4. ASSUME NEW kind \in {"redirect_blocked", "too_many_redirects", "invalid_url", "target_not_allowed"},
             Fail(r, kind)
      PROVE  Inv'
  <2>1. kind \in ErrorKinds
    BY <1>4 DEF ErrorKinds
  <2> QED
    BY <1>1, <1>2, <1>3, <1>4, <2>1, FailKeeps
<1>5. ASSUME NEW u \in Uris,
             hop' = [hop EXCEPT ![r] = u],
             outbound' = [outbound EXCEPT ![r] =
               IF Authority(u) = Authority(hop[r])
               THEN outbound[r] ELSE Remove(outbound[r], SensitiveHeaders \cup {"host"})],
             conn' = [conn EXCEPT ![r] = NoAddress], Goto(r, "hop"), UNCHANGED <<req, target, answer>>
      PROVE  Inv'
  <2>1. Domains' /\ OthersKept(r)
    BY <1>1, <1>5 DEF Domains, OthersKept, Goto
  <2>2. /\ phase'[r] = "hop" /\ req'[r] = req[r] /\ target'[r] = target[r] /\ hop'[r] = u
        /\ conn'[r] = NoAddress /\ answer'[r] = answer[r] /\ snapshots' = snapshots
        /\ outbound'[r] = IF Authority(u) = Authority(hop[r])
               THEN outbound[r] ELSE Remove(outbound[r], SensitiveHeaders \cup {"host"})
    BY <1>1, <1>5 DEF Domains, Goto, policies
  <2>3. Typed(r)' /\ answer'[r].status = 0
    BY <1>1, <1>5, <2>2 DEF Typed, Phases, Live, NoAnswer
  <2>4. Dispatched(r)'
    BY <1>1, <1>3, <2>2 DEF Dispatched, Config
  <2>5. Sees(r)'
    <3>1. LET cfg == Config(view[r].execute).forwarded IN
          /\ cfg.inject => Tells(outbound'[r], cfg, req[r].client)
          /\ "host" \in DOMAIN outbound'[r] => outbound'[r]["host"] = <<Authority(u)>>
      BY <1>1, <2>2, NextHopSees
    <3> QED
      BY <1>1, <2>2, <3>1 DEF Sees, Config
  <2>6. Vetted(r)' /\ Granted(r)' /\ Blamed(r)'
    BY <2>2, <2>3 DEF Vetted, Granted, Blamed
  <2> QED
    BY <1>1, <1>2, <2>1, <2>3, <2>4, <2>5, <2>6, FrameKeeps DEF Sound
<1> QED
  BY <1>4, <1>5 DEF Redirect, Follow

(* The upstream's answer brings no leave for credentials but its own.      *)
LEMMA UpstreamAnswersKeeps == ASSUME Inv, Coherent, NEW r \in Request, UpstreamAnswers(r) PROVE Inv'
<1>1. /\ phase[r] = "sent" /\ LoadFor(r, "shape") /\ UNCHANGED policies
      /\ Keep(Connection(r, conn[r])) /\ Domains
  BY DEF UpstreamAnswers, Inv
<1>2. PICK h \in Responses :
        /\ relayed' = [relayed EXCEPT ![r] = h]
        /\ Respond(r, 200,
             Shape(h, Authority(target[r]), Config(Live).security.remove_response_headers,
                   Config(view[r].execute).client.redirect_policy = "rewrite"))
  BY DEF UpstreamAnswers
<1> DEFINE headers == Shape(h, Authority(target[r]), Config(Live).security.remove_response_headers,
                            Config(view[r].execute).client.redirect_policy = "rewrite")
<1>3. relayed'[r] = h /\ relayed' = [relayed EXCEPT ![r] = relayed'[r]]
  BY <1>1, <1>2 DEF Domains
<1>4. PoolVetted'
  BY <1>1, SentKeepVetted
<1>5. "shape" \in Parts
  BY DEF Parts
<1>6. HistoryOf(r)
  BY <1>1, <1>3, <1>5, LoadTyped DEF HistoryOf
<1>7. Acac \in DOMAIN headers => Acac \in DOMAIN relayed'[r]
  BY <1>3, ShapeCredentials
<1>8. Respond(r, 200, headers)
  BY <1>2
<1> HIDE DEF headers
<1>9. 200 \in Statuses
  BY DEF Statuses
<1> QED
  BY <1>1, <1>4, <1>6, <1>7, <1>8, <1>9, RespondKeeps

(* cors_layer adds leave for credentials only as the policy it stamps by.  *)
LEMMA StampKeeps == ASSUME Inv, Coherent, NEW r \in Request, Stamp(r) PROVE Inv'
<1> DEFINE stamped == ApplyToResponse(answer[r].headers, req[r].headers, Config(Live).cors)
<1>1. /\ Domains /\ Sound(r) /\ Typed(r) /\ phase[r] = "answered" /\ LoadFor(r, "stamp")
      /\ phase' = [phase EXCEPT ![r] = "stamped"]
      /\ UNCHANGED <<req, target, hop, outbound, conn, relayed, pool, policies>>
  BY DEF Inv, Sound, Stamp, Goto, wire
<1>2. answer' = [answer EXCEPT ![r] = [answer[r] EXCEPT !.headers = stamped]]
  BY DEF Stamp
<1>3. "stamp" \in Parts /\ "serve" \in Parts /\ "execute" \in Parts
  BY DEF Parts
<1>4. /\ HistoryOf(r) /\ PoolVetted' /\ view'[r] \in [Parts -> 0..Live] /\ view'[r].stamp = Live
      /\ view'[r].serve = view[r].serve /\ view'[r].execute = view[r].execute
  BY <1>1, <1>3, HistoryLoaded, PoolUnchanged, LoadTyped
<1>5. Live \in Nat /\ Live > 0 /\ Config(Live) \in Load(Files)
  BY SnapshotFacts
<1>6. Acac \in DOMAIN stamped =>
        Acac \in DOMAIN answer[r].headers \/ Grants(Config(Live), req[r].headers)
  BY <1>5, StampCredentials, CredentialsListed DEF Grants
<1> HIDE DEF stamped
<1>7. Domains' /\ OthersKept(r)
  BY <1>1, <1>2, <1>4 DEF Domains, OthersKept, HistoryOf
<1>8. /\ phase'[r] = "stamped" /\ snapshots' = snapshots
      /\ answer'[r] = [answer[r] EXCEPT !.headers = stamped]
  BY <1>1, <1>2 DEF Domains, policies
<1>9. /\ answer'[r].status = answer[r].status /\ answer'[r].headers = stamped
      /\ answer'[r] = [status |-> answer'[r].status, headers |-> answer'[r].headers]
  <2>1. answer[r] = [status |-> answer[r].status, headers |-> answer[r].headers]
    BY <1>1 DEF Typed
  <2> QED
    BY <1>8, <2>1
<1>10. Typed(r)'
  BY <1>1, <1>4, <1>5, <1>8, <1>9 DEF Typed, Phases, Live
<1>11. Dispatched(r)' /\ Vetted(r)' /\ Sees(r)'
  BY <1>8 DEF Dispatched, Vetted, Sees
<1>12. Blamed(r)'
  BY <1>1, <1>4, <1>8, <1>9 DEF Sound, Blamed, Config
<1>13. Granted(r)'
  <2>1. ASSUME Acac \in DOMAIN stamped, Acac \notin DOMAIN relayed[r]
        PROVE  GrantedBy(r, "serve")' \/ GrantedBy(r, "stamp")'
    <3>1. CASE Grants(Config(Live), req[r].headers)
      BY <1>1, <1>4, <1>5, <1>8, <3>1 DEF GrantedBy, Config
    <3>2. CASE Acac \in DOMAIN answer[r].headers
      <4>1. GrantedBy(r, "serve")
        BY <1>1, <2>1, <3>2 DEF Sound, Granted
      <4> QED
        BY <1>1, <1>4, <1>8, <4>1 DEF GrantedBy, Config
    <3> QED
      BY <1>6, <2>1, <3>1, <3>2
  <2> QED
    BY <1>1, <1>8, <1>9, <2>1 DEF Granted
<1> QED
  BY <1>1, <1>4, <1>7, <1>10, <1>11, <1>12, <1>13, FrameKeeps DEF Sound

LEMMA LeaveKeeps == ASSUME Inv, Coherent, NEW r \in Request, Leave(r) PROVE Inv'
<1>1. Domains /\ UNCHANGED <<pool, policies>>
  BY DEF Inv, Leave
<1>2. Domains' /\ OthersKept(r)
  BY <1>1 DEF Domains, OthersKept, Leave, Goto
<1>3. /\ phase'[r] = "idle" /\ req'[r] = NoRequest /\ view'[r] = NoView /\ target'[r] = NoUri
      /\ hop'[r] = NoUri /\ conn'[r] = NoAddress /\ answer'[r] = NoAnswer /\ snapshots' = snapshots
  BY <1>1 DEF Domains, Leave, Goto, policies
<1>4. NoView \in [Parts -> 0..Live]
  BY SnapshotFacts DEF NoView
<1>5. Typed(r)'
  BY <1>3, <1>4 DEF Typed, Phases, NoAnswer, Statuses, Live
<1>6. Sound(r)'
  BY <1>3, <1>5 DEF Sound, Dispatched, Vetted, Sees, Granted, Blamed, NoAnswer
<1> QED
  BY <1>1, <1>2, <1>6, FrameKeeps, PoolUnchanged

(* What touches no request and adds no connection.                         *)
LEMMA CloseKeeps ==
  ASSUME Inv, UNCHANGED <<phase, req, view, wire, answer, relayed, policies>>, pool' \subseteq pool
  PROVE  Inv'
<1>1. snapshots' = snapshots
  BY DEF policies
<1>2. Domains'
  BY DEF Inv, Domains, wire
<1>3. PoolVetted'
  BY <1>1 DEF Inv, PoolVetted, Kept, Admitted, Config, Live
<1>4. ASSUME NEW r \in Request PROVE Sound(r)'
  <2>1. Sound(r)
    BY DEF Inv
  <2>2. Typed(r)'
    BY <1>1, <2>1 DEF Sound, Typed, Live, wire
  <2>3. Dispatched(r)' /\ Vetted(r)' /\ Sees(r)'
    BY <1>1, <2>1 DEF Sound, Dispatched, Vetted, Sees, Admitted, Config, wire
  <2>4. Granted(r)' /\ Blamed(r)'
    BY <1>1, <2>1 DEF Sound, Granted, GrantedBy, Blamed, Config, wire
  <2> QED
    BY <2>2, <2>3, <2>4 DEF Sound
<1> QED
  BY <1>2, <1>3, <1>4 DEF Inv

(* A reload leaves the snapshots that requests and clients refer to as     *)
(* they are.                                                               *)
LEMMA ReloadKeeps == ASSUME Inv, Coherent, Reload PROVE Inv'
<1>1. /\ Live \in Nat /\ Live' = Live + 1
      /\ \A g \in 1..Live : snapshots'[g] = snapshots[g]
  <2>1. PICK s : snapshots' = Append(snapshots, s)
    BY DEF Reload, Reloading!Reload
  <2>2. snapshots \in Seq(Reloads!LivePolicies)
    BY DEF Coherent, Reloads!TypeOK
  <2> DEFINE S == Reloads!LivePolicies \cup {s}
  <2>3. snapshots \in Seq(S) /\ s \in S
    BY <2>2
  <2> HIDE DEF S
  <2> QED
    BY <2>1, <2>3 DEF Live
<1>2. UNCHANGED <<phase, req, view, target, hop, outbound, conn, answer, relayed, pool>>
  BY DEF Reload, wire
<1>3. \A g \in 1..Live : Config(g)' = Config(g)
  BY <1>1 DEF Config
<1>4. Domains'
  BY <1>2 DEF Inv, Domains
<1>5. PoolVetted'
  <2>1. ASSUME NEW k \in pool PROVE Kept(k)'
    <3>1. Kept(k)
      BY DEF Inv, PoolVetted
    <3>2. k.client \in 1..Live /\ k.client \in 1..Live'
      BY <1>1, <3>1 DEF Kept
    <3>3. Config(k.client)' = Config(k.client)
      BY <1>1, <3>2 DEF Config
    <3> QED
      BY <3>1, <3>2, <3>3 DEF Kept, Admitted
  <2> QED
    BY <1>2, <2>1 DEF PoolVetted
<1>6. ASSUME NEW r \in Request PROVE Sound(r)'
  <2>1. Sound(r) /\ Typed(r)
    BY DEF Inv, Sound
  <2>2. "execute" \in Parts /\ "serve" \in Parts /\ "stamp" \in Parts
    BY DEF Parts
  <2>3. \A part \in Parts : view[r][part] > 0 => Config(view[r][part])' = Config(view[r][part])
    BY <1>1, <1>2, <2>1 DEF Typed, Config
  <2>4. Typed(r)'
    <3>1. view[r] \in [Parts -> 0..Live']
      BY <1>1, <2>1 DEF Typed
    <3> QED
      BY <1>2, <2>1, <3>1 DEF Typed
  <2>5. Dispatched(r)'
    BY <1>2, <2>1, <2>2, <2>3 DEF Sound, Dispatched, Typed
  <2>6. Vetted(r)'
    BY <1>2, <2>1, <2>2, <2>3 DEF Sound, Vetted, Admitted, Typed
  <2>7. Sees(r)'
    BY <1>2, <2>1, <2>2, <2>3 DEF Sound, Sees, Typed
  <2>8. Granted(r)'
    BY <1>2, <2>1, <2>2, <2>3 DEF Sound, Granted, GrantedBy
  <2>9. Blamed(r)'
    BY <1>2, <2>1, <2>2, <2>3 DEF Sound, Blamed
  <2> QED
    BY <2>4, <2>5, <2>6, <2>7, <2>8, <2>9 DEF Sound
<1> QED
  BY <1>4, <1>5, <1>6 DEF Inv

LEMMA NextKeeps == ASSUME Inv, Coherent, [Next]_vars PROVE Inv'
<1>1. CASE Reload
  BY <1>1, ReloadKeeps
<1>2. CASE CloseConnection \/ UNCHANGED vars
  BY <1>2, CloseKeeps DEF CloseConnection, vars
<1>3. ASSUME NEW r \in Request, Step(r) PROVE Inv'
  <2>1. CASE Arrive(r) \/ Refuse(r) \/ Usage(r) \/ Preflight(r) \/ Serve(r)
    BY <2>1, ArriveKeeps, RefuseKeeps, UsageKeeps, PreflightKeeps, ServeKeeps
  <2>2. CASE Execute(r) \/ Reuse(r) \/ Connect(r) \/ HopFails(r) \/ Redirect(r)
    BY <2>2, ExecuteKeeps, ReuseKeeps, ConnectKeeps, HopFailsKeeps, RedirectKeeps
  <2>3. CASE UpstreamAnswers(r) \/ Timeout(r) \/ Panic(r) \/ Stamp(r) \/ Leave(r)
    BY <2>3, UpstreamAnswersKeeps, TimeoutKeeps, PanicKeeps, StampKeeps, LeaveKeeps
  <2> QED
    BY <1>3, <2>1, <2>2, <2>3 DEF Step
<1> QED
  BY <1>1, <1>2, <1>3 DEF Next

LEMMA InvHolds == Spec => []Inv
<1>1. Init /\ Coherent => Inv
  BY InitInv
<1>2. Inv /\ Coherent /\ [Next]_vars => Inv'
  BY NextKeeps
<1> QED
  BY <1>1, <1>2, CoherentHere, PTL DEF Spec
-----------------------------------------------------------------------------
(* The phases, histories and answers of every request fit together: only a *)
(* request that is sent has a connection, one on its way has a snapshot    *)
(* that dispatched it, and every status is one of the error table's or of  *)
(* the layers' own.                                                        *)
THEOREM TypeCorrect == Spec => []TypeOK
<1>1. ASSUME Inv PROVE TypeOK
  <2>1. Domains /\ \A r \in Request : Typed(r)
    BY <1>1 DEF Inv, Sound
  <2>2. /\ phase \in [Request -> Phases]
        /\ req \in [Request -> Incoming \cup {NoRequest}]
        /\ view \in [Request -> [Parts -> 0..Live]]
        /\ target \in [Request -> Uris \cup {NoUri}]
        /\ hop \in [Request -> Uris \cup {NoUri}]
        /\ conn \in [Request -> Destinations \cup {NoAddress}]
    BY <2>1 DEF Domains, Typed
  <2>3. \A k \in pool : k.client \in 1..Live /\ k.uri \in Uris
    BY <1>1 DEF Inv, PoolVetted, Kept
  <2>4. ASSUME NEW r \in Request
        PROVE  /\ phase[r] # "idle" => req[r] \in Incoming
               /\ phase[r] \in {"served", "hop", "sent"} => target[r] \in Uris
               /\ phase[r] \in {"hop", "sent"} => hop[r] \in Uris /\ view[r].execute > 0
               /\ phase[r] = "sent" <=> conn[r] # NoAddress
               /\ phase[r] = "stamped" => view[r].stamp > 0
               /\ answer[r].status \in Statuses
    <3>1. Typed(r)
      BY <2>1
    <3> QED
      BY <3>1 DEF Typed
  <2> QED
    BY <2>2, <2>3, <2>4 DEF TypeOK, Statuses
<1> QED
  BY <1>1, InvHolds, PTL

(* However long connections are kept and whatever a lookup returns by now, *)
(* a request to a host that is a name travels only to an address its own   *)
(* configuration admits.  So the guard is missed through address literals  *)
(* (LiteralsVetted) and in no other way.                                   *)
THEOREM AddressesVetted == Spec => []ConnectionsVetted
<1>1. Inv => ConnectionsVetted
  BY DEF Inv, Sound, Vetted, Admitted, ConnectionsVetted
<1> QED
  BY <1>1, InvHolds, PTL

(* Through any number of redirects the upstream is told of the client last, *)
(* and a Host header names the authority the request is sent to.            *)
THEOREM ClientTold == Spec => []UpstreamSeesClient
<1>1. ASSUME Inv, NEW r \in InFlight
      PROVE  LET forwarded == Config(view[r].execute).forwarded
                 chain == outbound[r]["x-forwarded-for"][1]
             IN
             /\ forwarded.inject =>
                  /\ Contains(outbound[r], "x-forwarded-for")
                  /\ Len(outbound[r]["x-forwarded-for"]) = 1
                  /\ chain[Len(chain)] = req[r].client
                  /\ ~forwarded.trust_inbound_xff => chain = <<req[r].client>>
             /\ Contains(outbound[r], "host") => outbound[r]["host"] = <<Authority(hop[r])>>
  <2> DEFINE cfg == Config(view[r].execute).forwarded
  <2>1. /\ cfg.inject => Tells(outbound[r], cfg, req[r].client)
        /\ "host" \in DOMAIN outbound[r] => outbound[r]["host"] = <<Authority(hop[r])>>
    BY <1>1 DEF Inv, Sound, Sees, InFlight
  <2>2. ASSUME cfg.inject
        PROVE  LET chain == outbound[r]["x-forwarded-for"][1] IN
               /\ Contains(outbound[r], "x-forwarded-for")
               /\ Len(outbound[r]["x-forwarded-for"]) = 1
               /\ chain[Len(chain)] = req[r].client
               /\ ~cfg.trust_inbound_xff => chain = <<req[r].client>>
    <3> HIDE DEF cfg
    <3>1. PICK line \in Seq(STRING) :
            /\ outbound[r][Xff] = <<line>>
            /\ line[Len(line)] = req[r].client
            /\ ~cfg.trust_inbound_xff => line = <<req[r].client>>
      BY <2>1, <2>2 DEF Tells
    <3>2. Len(<<line>>) = 1 /\ <<line>>[1] = line
      OBVIOUS
    <3> QED
      BY <2>1, <2>2, <3>1, <3>2 DEF Tells, Xff, Contains
  <2> QED
    BY <2>1, <2>2 DEF Contains
<1>2. Inv => UpstreamSeesClient
  BY <1>1 DEF UpstreamSeesClient
<1> QED
  BY <1>2, InvHolds, PTL

(* Validation and the stamping layer together: no sequence of reloads lets *)
(* the proxy allow credentials to an origin nobody listed.                 *)
THEOREM CredentialsConfined == Spec => []CredentialsOnlyForListed
<1>1. ASSUME Inv, NEW r \in Request, phase[r] = "stamped",
             Contains(answer[r].headers, "access-control-allow-credentials"),
             ~Contains(relayed[r], "access-control-allow-credentials")
      PROVE  \E part \in {"serve", "stamp"} :
               /\ view[r][part] > 0
               /\ Config(view[r][part]).cors.allow_credentials
               /\ Readable(req[r].headers, "origin")
               /\ First(req[r].headers, "origin") \in Config(view[r][part]).cors.origins
  <2>1. GrantedBy(r, "serve") \/ GrantedBy(r, "stamp")
    BY <1>1 DEF Inv, Sound, Granted, Contains, Acac
  <2> QED
    BY <2>1 DEF GrantedBy, Grants
<1>2. Inv => CredentialsOnlyForListed
  BY <1>1 DEF CredentialsOnlyForListed
<1> QED
  BY <1>2, InvHolds, PTL

(* A target that policy does not admit is never answered for with a        *)
(* gateway's status.  An address that the guard does not admit is.         *)
THEOREM BlameDeserved == Spec => []TargetAdmittedBeforeBlame
<1>1. Inv => TargetAdmittedBeforeBlame
  BY DEF Inv, Sound, Blamed, TargetAdmittedBeforeBlame
<1> QED
  BY <1>1, InvHolds, PTL
-----------------------------------------------------------------------------
(* What the header functions do to one name                                *)

(* Two maps have the same lines of a name, or both none.                    *)
Agree(f, g, n) == (n \in DOMAIN f <=> n \in DOMAIN g) /\ (n \in DOMAIN f => f[n] = g[n])

LEMMA InsertAgrees ==
  ASSUME NEW f, NEW g, NEW n, NEW m, NEW line, n # m => Agree(f, g, n)
  PROVE  Agree(Insert(f, m, line), Insert(g, m, line), n)
BY DEF Agree, Insert

LEMMA InsertIfAgrees ==
  ASSUME NEW f, NEW g, NEW n, NEW m, NEW line, NEW a \in BOOLEAN, NEW b \in BOOLEAN,
         Agree(f, g, n), n = m => (a <=> b)
  PROVE  Agree(InsertIf(a, f, m, line), InsertIf(b, g, m, line), n)
BY DEF Agree, Insert, InsertIf

LEMMA ExtendAgrees ==
  ASSUME NEW f, NEW g, NEW n, NEW m, NEW token, Agree(f, g, n)
  PROVE  Agree(Extend(f, m, token), Extend(g, m, token), n)
<1>1. CASE n = m
  <2>1. (Readable(f, m) <=> Readable(g, m)) /\ (Readable(f, m) => First(f, m) = First(g, m))
    BY <1>1 DEF Agree, Readable, Contains, First
  <2> DEFINE a == IF Readable(f, m) THEN Append(First(f, m), token) ELSE <<token>>
             b == IF Readable(g, m) THEN Append(First(g, m), token) ELSE <<token>>
  <2>2. a = b
    BY <2>1
  <2>3. Extend(f, m, token) = Insert(f, m, a) /\ Extend(g, m, token) = Insert(g, m, b)
    BY DEF Extend
  <2> HIDE DEF a, b
  <2> QED
    BY <1>1, <2>2, <2>3, InsertAgrees
<1>2. CASE n # m
  BY <1>2 DEF Extend, Insert, Agree
<1> QED
  BY <1>1, <1>2

(* What the filter takes out of the client's headers has no bearing on what *)
(* the upstream gets under that name.                                       *)
LEMMA OutboundIndependent ==
  ASSUME NEW h, NEW in, NEW host, NEW authority, NEW deny, NEW cfg, NEW agent,
         NEW n \in ConnectionListed(h) \cup HopByHop \cup deny
  PROVE  Agree(Outbound(h, in, host, authority, deny, cfg, agent),
               Outbound(Empty, in, host, authority, deny, cfg, agent), n)
<1> DEFINE named(k) == IF cfg.inject_request_id THEN EnsureRequestId(k) ELSE k
           f(k) == ForwardedFor(named(k), in, cfg)
           proto(k) == Insert(f(k), "x-forwarded-proto", <<in.scheme>>)
           hosted(k) == InsertIf(in.host # <<>>, proto(k), "x-forwarded-host", in.host)
           ported(k) == Insert(hosted(k), "x-forwarded-port", <<in.port>>)
           last(k) == Insert(ported(k), "forwarded", BuildForwardedValue(in, host))
           a == Apply(h, deny)
           b == Apply(Empty, deny)
<1>1. Agree(a, b, n)
  BY DEF Agree, Apply, Remove, Empty
<1> HIDE DEF a, b
<1>2. Agree(named(a), named(b), n)
  <2>1. n = "x-request-id" => (Contains(a, "x-request-id") <=> Contains(b, "x-request-id"))
    BY <1>1 DEF Agree, Contains
  <2>2. Agree(EnsureRequestId(a), EnsureRequestId(b), n)
    BY <1>1, <2>1, InsertIfAgrees DEF EnsureRequestId, Contains
  <2> QED
    BY <1>1, <2>2
<1>3. Agree(f(a), f(b), n)
  <2> HIDE DEF named
  <2>1. Agree(Extend(named(a), "x-forwarded-for", in.client), Extend(named(b), "x-forwarded-for", in.client), n)
    BY <1>2, ExtendAgrees
  <2>2. Agree(Insert(named(a), "x-forwarded-for", <<in.client>>), Insert(named(b), "x-forwarded-for", <<in.client>>), n)
    BY <1>2, InsertAgrees
  <2> QED
    BY <2>1, <2>2 DEF ForwardedFor
<1>4. Agree(proto(a), proto(b), n)
  <2> HIDE DEF f
  <2> QED
    BY <1>3, InsertAgrees
<1>5. Agree(hosted(a), hosted(b), n)
  <2> HIDE DEF proto
  <2> QED
    BY <1>4, InsertIfAgrees
<1>6. Agree(ported(a), ported(b), n)
  <2> HIDE DEF hosted
  <2> QED
    BY <1>5, InsertAgrees
<1>7. Agree(last(a), last(b), n)
  <2> HIDE DEF ported
  <2> QED
    BY <1>6, InsertAgrees
<1>8. Agree(Inject(a, in, host, cfg), Inject(b, in, host, cfg), n)
  <2>1. \A k : Inject(k, in, host, cfg) = IF cfg.inject THEN last(k) ELSE named(k)
    BY DEF Inject
  <2> HIDE DEF last, named
  <2> QED
    BY <1>2, <1>7, <2>1
<1> DEFINE x == Inject(a, in, host, cfg)
           y == Inject(b, in, host, cfg)
<1> HIDE DEF x, y
<1>9. Agree(DefaultUserAgent(x, agent), DefaultUserAgent(y, agent), n)
  <2>1. n = "user-agent" => (Contains(x, "user-agent") <=> Contains(y, "user-agent"))
    BY <1>8 DEF Agree, Contains, x, y
  <2> QED
    BY <1>8, <2>1, InsertIfAgrees DEF DefaultUserAgent, Contains, x, y
<1> QED
  BY <1>9, InsertAgrees DEF Outbound, SetHost, x, y, a, b

(* shape_response: the proxy's own headers, and Location, go past the filter. *)
LEMMA ShapeFiltered ==
  ASSUME NEW h, NEW url, NEW deny, NEW rewrite
  PROVE  /\ DOMAIN Shape(h, url, deny, rewrite) \cap (HopByHop \cup ConnectionListed(h) \cup deny)
              \subseteq {"x-corx-target-url", "via"}
         /\ "vary" \in DOMAIN Shape(h, url, deny, rewrite) =>
              "vary" \in DOMAIN h /\ Shape(h, url, deny, rewrite)["vary"] = h["vary"]
<1> DEFINE kept == Apply(h, deny)
           told == Insert(kept, "x-corx-target-url", url)
           via == Extend(told, "via", "1.1 corx")
           shaped == Shape(h, url, deny, rewrite)
<1>1. shaped = via \/ (Readable(via, "location") /\ \E line : shaped = Insert(via, "location", line))
  BY DEF Shape, RewriteLocation
<1>2. \E line : via = Insert(told, "via", line)
  BY DEF Extend
<1>3. told = Insert(kept, "x-corx-target-url", url)
  OBVIOUS
<1>4. /\ DOMAIN kept = DOMAIN h \ (ConnectionListed(h) \cup HopByHop \cup deny)
      /\ \A n \in DOMAIN kept : kept[n] = h[n]
  BY DEF Apply, Remove
<1> HIDE DEF kept, told, via, shaped
<1>5. /\ DOMAIN via = DOMAIN kept \cup {"x-corx-target-url", "via"}
      /\ \A n \in DOMAIN kept : n \notin {"x-corx-target-url", "via"} => via[n] = kept[n]
  BY <1>2, <1>3 DEF Insert
<1>6. DOMAIN shaped = DOMAIN via /\ \A n \in DOMAIN via : n # "location" => shaped[n] = via[n]
  BY <1>1 DEF Insert, Readable, Contains
<1>7. DOMAIN shaped \cap (HopByHop \cup ConnectionListed(h) \cup deny) \subseteq {"x-corx-target-url", "via"}
  BY <1>4, <1>5, <1>6
<1>8. "vary" \in DOMAIN shaped => "vary" \in DOMAIN h /\ shaped["vary"] = h["vary"]
  BY <1>4, <1>5, <1>6
<1> QED
  BY <1>7, <1>8 DEF shaped

(* Tokens, among them the names that append_vary adds.                      *)
Token ==
  STRING \cup {"origin", "access-control-request-method", "access-control-request-headers"}

(* A Vary line of an answer can be read unless it is the upstream's.        *)
VaryOwed(h, relay) ==
  "vary" \in DOMAIN h =>
    /\ First(h, "vary") \in Seq(Token)
    /\ First(h, "vary") = Unreadable => Contains(relay, "vary") /\ ~Readable(relay, "vary")

(* append_vary leaves a line that can be read and has the name.             *)
LEMMA VaryAppended ==
  ASSUME NEW h, NEW name \in Token, name # "unreadable",
         "vary" \in DOMAIN h => First(h, "vary") \in Seq(Token)
  PROVE  LET k == AppendVary(h, name) IN
         /\ "vary" \in DOMAIN k /\ First(k, "vary") \in Seq(Token)
         /\ Contains(h, "vary") /\ ~Readable(h, "vary") => k = h
         /\ ~(Contains(h, "vary") /\ ~Readable(h, "vary")) =>
              Readable(k, "vary") /\ name \in Tokens(k, "vary")
<1> DEFINE k == AppendVary(h, name)
           line == IF Readable(h, "vary") THEN Append(First(h, "vary"), name) ELSE <<name>>
<1>1. CASE Contains(h, "vary") /\ ~Readable(h, "vary")
  BY <1>1 DEF AppendVary, Contains
<1>2. CASE ~(Contains(h, "vary") /\ ~Readable(h, "vary")) /\ name \in Tokens(h, "vary")
  <2>1. Readable(h, "vary") /\ k = h
    BY <1>2 DEF Tokens, AppendVary
  <2> HIDE DEF k
  <2> QED
    BY <1>2, <2>1 DEF Readable, Contains, k
<1>3. CASE ~(Contains(h, "vary") /\ ~Readable(h, "vary")) /\ name \notin Tokens(h, "vary")
  <2>1. k = Insert(h, "vary", line)
    BY <1>3 DEF AppendVary, Extend
  <2>2. line \in Seq(Token) /\ Len(line) > 0 /\ line[Len(line)] = name
    <3>1. CASE Readable(h, "vary")
      <4> DEFINE first == First(h, "vary")
      <4>1. first \in Seq(Token)
        BY <3>1 DEF Readable, Contains
      <4>2. line = Append(first, name)
        BY <3>1
      <4> HIDE DEF first, line
      <4> QED
        BY <4>1, <4>2
    <3>2. CASE ~Readable(h, "vary")
      BY <3>2
    <3> QED
      BY <3>1, <3>2
  <2> HIDE DEF line, k
  <2>3. line # Unreadable
    BY <2>2 DEF Unreadable
  <2>4. "vary" \in DOMAIN k /\ First(k, "vary") = line
    BY <2>1 DEF Insert, First
  <2>5. Readable(k, "vary")
    BY <2>3, <2>4 DEF Readable, Contains
  <2>6. Len(line) \in DOMAIN line
    BY <2>2
  <2>7. name \in Tokens(k, "vary")
    BY <2>2, <2>4, <2>5, <2>6 DEF Tokens
  <2> QED
    BY <1>3, <2>2, <2>4, <2>5, <2>7 DEF k
<1> QED
  BY <1>1, <1>2, <1>3

(* The names the policy sets.                                              *)
LEMMA BaseReadable ==
  ASSUME NEW h, NEW q, NEW c, "vary" \in DOMAIN h => First(h, "vary") \in Seq(Token)
  PROVE  LET k == ApplyCorsBase(h, q, c) IN
         /\ Resolves(c, q) =>
              Acao \in DOMAIN k /\ First(k, Acao) \in {AnyOrigin, First(q, "origin")}
         /\ "vary" \in DOMAIN k /\ First(k, "vary") \in Seq(Token)
         /\ \/ Readable(k, "vary") /\ "origin" \in Tokens(k, "vary")
            \/ Contains(h, "vary") /\ ~Readable(h, "vary")
<1> DEFINE allowed == InsertIf(Resolves(c, q), h, Acao, ResolveAllowOrigin(c, q))
           granted == InsertIf(Resolves(c, q) /\ c.allow_credentials, allowed, Acac, <<"true">>)
           k == ApplyCorsBase(h, q, c)
<1>1. k = AppendVary(granted, "origin")
  BY DEF ApplyCorsBase, Acao, Acac
<1>2. Agree(granted, h, "vary")
  <2>1. Acao # "vary" /\ Acac # "vary"
    BY DEF Acao, Acac
  <2>2. Agree(allowed, h, "vary")
    BY <2>1 DEF Agree, InsertIf, Insert
  <2> HIDE DEF allowed
  <2> QED
    BY <2>1, <2>2 DEF Agree, InsertIf, Insert
<1>3. Resolves(c, q) => Acao \in DOMAIN granted /\ granted[Acao] = <<ResolveAllowOrigin(c, q)>>
  <2>1. Acao # Acac
    BY DEF Acao, Acac
  <2>2. Resolves(c, q) => Acao \in DOMAIN allowed /\ allowed[Acao] = <<ResolveAllowOrigin(c, q)>>
    BY DEF InsertIf, Insert
  <2> HIDE DEF allowed
  <2> QED
    BY <2>1, <2>2 DEF InsertIf, Insert
<1> HIDE DEF granted, k
<1>4. Resolves(c, q) => Acao \in DOMAIN k /\ k[Acao] = <<ResolveAllowOrigin(c, q)>>
  <2>1. k = granted \/ \E line : k = Insert(granted, "vary", line)
    BY <1>1 DEF AppendVary, Extend
  <2>2. Acao # "vary"
    BY DEF Acao
  <2> QED
    BY <1>3, <2>1, <2>2 DEF Insert
<1>5. Resolves(c, q) => Acao \in DOMAIN k /\ First(k, Acao) \in {AnyOrigin, First(q, "origin")}
  BY <1>4 DEF First, ResolveAllowOrigin
<1>6. /\ Contains(granted, "vary") <=> Contains(h, "vary")
      /\ Readable(granted, "vary") <=> Readable(h, "vary")
      /\ Contains(h, "vary") => First(granted, "vary") = First(h, "vary")
  BY <1>2 DEF Agree, Contains, Readable, First
<1>7. "vary" \in DOMAIN granted => First(granted, "vary") \in Seq(Token)
  BY <1>6 DEF Contains
<1>8. /\ "vary" \in DOMAIN k /\ First(k, "vary") \in Seq(Token)
      /\ ~(Contains(granted, "vary") /\ ~Readable(granted, "vary")) =>
           Readable(k, "vary") /\ "origin" \in Tokens(k, "vary")
  <2>1. "origin" \in Token /\ "origin" # "unreadable"
    BY DEF Token
  <2> QED
    BY <1>1, <1>7, <2>1, VaryAppended
<1> QED
  BY <1>5, <1>6, <1>8 DEF k

LEMMA StampReadable ==
  ASSUME NEW h, NEW q, NEW c, NEW relay, VaryOwed(h, relay)
  PROVE  LET k == ApplyToResponse(h, q, c) IN
         /\ Resolves(c, q) =>
              Acao \in DOMAIN k /\ First(k, Acao) \in {AnyOrigin, First(q, "origin")}
         /\ "origin" \in Tokens(k, "vary") \/ (Contains(relay, "vary") /\ ~Readable(relay, "vary"))
<1> DEFINE base == ApplyCorsBase(h, q, c)
           k == ApplyToResponse(h, q, c)
<1>1. /\ Resolves(c, q) =>
           Acao \in DOMAIN base /\ First(base, Acao) \in {AnyOrigin, First(q, "origin")}
      /\ \/ Readable(base, "vary") /\ "origin" \in Tokens(base, "vary")
         \/ Contains(h, "vary") /\ ~Readable(h, "vary")
  BY BaseReadable DEF VaryOwed
<1>2. k = base \/ k = Insert(base, Aceh, c.exposed_headers)
  BY DEF ApplyToResponse, InsertIf, Aceh
<1> HIDE DEF base, k
<1>3. Agree(k, base, "vary") /\ Agree(k, base, Acao)
  <2>1. Aceh # "vary" /\ Aceh # Acao
    BY DEF Aceh, Acao
  <2> QED
    BY <1>2, <2>1 DEF Agree, Insert
<1>4. Tokens(k, "vary") = Tokens(base, "vary")
  BY <1>3 DEF Agree, Tokens, Readable, Contains, First
<1>5. Contains(h, "vary") /\ ~Readable(h, "vary") => Contains(relay, "vary") /\ ~Readable(relay, "vary")
  BY DEF VaryOwed, Contains, Readable
<1> QED
  BY <1>1, <1>3, <1>4, <1>5 DEF Agree, First, k

LEMMA PreflightReadable ==
  ASSUME NEW q, NEW c, NEW relay
  PROVE  VaryOwed(BuildPreflightResponse(q, c), relay)
<1> DEFINE base == ApplyCorsBase(Empty, q, c)
           methods == Advertise(base, "access-control-allow-methods", c.allowed_methods,
                                q, "access-control-request-method")
           headers == Advertise(methods, "access-control-allow-headers", c.allowed_headers,
                                q, "access-control-request-headers")
           aged == Insert(headers, "access-control-max-age", <<"max_age">>)
           private == InsertIf(c.allow_private_network /\ Contains(q, "access-control-request-private-network"),
                               aged, "access-control-allow-private-network", <<"true">>)
           once == AppendVary(private, "access-control-request-method")
           twice == AppendVary(once, "access-control-request-headers")
<1>1. BuildPreflightResponse(q, c) = twice
  BY DEF BuildPreflightResponse
<1>2. Readable(base, "vary") /\ First(base, "vary") \in Seq(Token)
  <2>1. "vary" \notin DOMAIN Empty
    BY DEF Empty
  <2> QED
    BY <2>1, BaseReadable DEF Contains
<1>3. Agree(private, base, "vary")
  <2>1. Agree(methods, base, "vary")
    BY DEF Advertise, InsertIf, Insert, Agree
  <2>2. Agree(headers, methods, "vary")
    <3> HIDE DEF methods
    <3> QED
      BY DEF Advertise, InsertIf, Insert, Agree
  <2>3. Agree(aged, headers, "vary")
    <3> HIDE DEF headers
    <3> QED
      BY DEF Insert, Agree
  <2>4. Agree(private, aged, "vary")
    <3> HIDE DEF aged
    <3> QED
      BY DEF InsertIf, Insert, Agree
  <2> HIDE DEF private, aged, headers, methods, base
  <2> QED
    BY <2>1, <2>2, <2>3, <2>4 DEF Agree
<1> HIDE DEF private, base
<1>4. Readable(private, "vary") /\ First(private, "vary") \in Seq(Token)
  BY <1>2, <1>3 DEF Agree, Readable, Contains, First
<1>5. Readable(once, "vary") /\ First(once, "vary") \in Seq(Token)
  <2>1. "access-control-request-method" \in Token /\ "access-control-request-method" # "unreadable"
    BY DEF Token
  <2> QED
    BY <1>4, <2>1, VaryAppended
<1> HIDE DEF once
<1>6. Readable(twice, "vary") /\ First(twice, "vary") \in Seq(Token)
  <2>1. "access-control-request-headers" \in Token /\ "access-control-request-headers" # "unreadable"
    BY DEF Token
  <2> QED
    BY <1>5, <2>1, VaryAppended
<1> HIDE DEF twice
<1> QED
  BY <1>1, <1>6 DEF VaryOwed, Readable
-----------------------------------------------------------------------------
(* Headers on their way                                                    *)

Owned(r) == Forwarded(r, Empty, view[r].execute)

Barred(r) ==
  HopByHop \cup Tokens(req[r].headers, "connection")
    \cup Config(view[r].execute).security.remove_request_headers

Confined(r) ==
  phase[r] \in {"hop", "sent"} =>
    \A n \in DOMAIN outbound[r] \cap Barred(r) :
      n \in DOMAIN Owned(r) /\ outbound[r][n] = Owned(r)[n]

(* Only an answer of the upstream has been shaped.                         *)
Cleaned(r) ==
  view[r].shape > 0 =>
    /\ phase[r] \in {"answered", "stamped"}
    /\ phase[r] = "answered" =>
         DOMAIN answer[r].headers \cap
           (HopByHop \cup Tokens(relayed[r], "connection")
              \cup Config(view[r].shape).security.remove_response_headers)
         \subseteq {"x-corx-target-url", "via"}

Varies(r) ==
  /\ phase[r] = "answered" => VaryOwed(answer[r].headers, relayed[r])
  /\ phase[r] = "stamped" =>
       LET h == answer[r].headers
           c == Config(view[r].stamp).cors
       IN
       /\ Resolves(c, req[r].headers) =>
            Acao \in DOMAIN h /\ First(h, Acao) \in {AnyOrigin, First(req[r].headers, "origin")}
       /\ \/ "origin" \in Tokens(h, "vary")
          \/ Contains(relayed[r], "vary") /\ ~Readable(relayed[r], "vary")

Polite(r) == Confined(r) /\ Cleaned(r) /\ Varies(r)

LEMMA StepOthers ==
  ASSUME Inv, NEW r \in Request, Step(r)
  PROVE  OthersKept(r) /\ UNCHANGED policies
<1>0. Domains
  BY DEF Inv
<1>1. ASSUME NEW part, LoadFor(r, part)
      PROVE  \A q \in Request \ {r} : view'[q] = view[q]
  BY <1>0, <1>1 DEF LoadFor, Domains
<1>2. ASSUME NEW status, NEW headers, Respond(r, status, headers)
      PROVE  \A q \in Request \ {r} :
               /\ phase'[q] = phase[q] /\ req'[q] = req[q]
               /\ target'[q] = target[q] /\ hop'[q] = hop[q] /\ outbound'[q] = outbound[q]
               /\ conn'[q] = conn[q] /\ answer'[q] = answer[q]
  BY <1>0, <1>2 DEF Respond, Goto, Domains
<1> DEFINE Answered == \E status, headers : Respond(r, status, headers)
           Calm == \A q \in Request \ {r} :
                     /\ phase'[q] = phase[q] /\ req'[q] = req[q]
                     /\ target'[q] = target[q] /\ hop'[q] = hop[q] /\ outbound'[q] = outbound[q]
                     /\ conn'[q] = conn[q] /\ answer'[q] = answer[q]
<1>3. Answered => Calm
  BY <1>2
<1>4. \A kind : Fail(r, kind) => Answered
  BY DEF Fail
<1> HIDE DEF Answered, Calm
<1>5. CASE Arrive(r)
  BY <1>0, <1>5 DEF Arrive, Goto, wire, Domains, OthersKept
<1>6. CASE Refuse(r) \/ Usage(r) \/ HopFails(r) \/ Timeout(r) \/ Panic(r)
  <2>1. Answered /\ UNCHANGED <<view, relayed, pool, policies>>
    BY <1>4, <1>6 DEF Refuse, Usage, HopFails, Timeout, Panic, Answered
  <2> QED
    BY <1>3, <2>1 DEF Calm, OthersKept
<1>7. CASE Preflight(r)
  <2>1. Answered /\ UNCHANGED <<relayed, pool, policies>> /\ LoadFor(r, "serve")
    BY <1>7 DEF Preflight, Answered
  <2> QED
    BY <1>1, <1>3, <2>1 DEF Calm, OthersKept
<1>8. CASE Serve(r)
  <2>1. UNCHANGED <<relayed, pool, policies>> /\ LoadFor(r, "serve")
    BY <1>8 DEF Serve
  <2>2. \/ Answered
        \/ /\ \E t : target' = [target EXCEPT ![r] = t]
           /\ Goto(r, "served") /\ UNCHANGED <<req, hop, outbound, conn, answer>>
    BY <1>4, <1>8 DEF Serve
  <2>3. Calm
    BY <1>0, <1>3, <2>2 DEF Calm, Goto, Domains
  <2> QED
    BY <1>1, <2>1, <2>3 DEF Calm, OthersKept
<1>9. CASE Execute(r)
  <2>1. UNCHANGED <<relayed, pool, policies>> /\ LoadFor(r, "execute")
    BY <1>9 DEF Execute
  <2>2. \/ Answered
        \/ /\ \E t : outbound' = [outbound EXCEPT ![r] = t]
           /\ \E t : hop' = [hop EXCEPT ![r] = t]
           /\ Goto(r, "hop") /\ UNCHANGED <<req, target, conn, answer>>
    BY <1>4, <1>9 DEF Execute
  <2>3. Calm
    BY <1>0, <1>3, <2>2 DEF Calm, Goto, Domains
  <2> QED
    BY <1>1, <2>1, <2>3 DEF Calm, OthersKept
<1>10. CASE Reuse(r) \/ Connect(r)
  <2>1. PICK ip : Connected(r, ip)
    BY <1>10 DEF Reuse, Connect
  <2> QED
    BY <1>0, <2>1 DEF Connected, Goto, Domains, OthersKept
<1>11. CASE Redirect(r)
  <2>1. UNCHANGED <<view, relayed, policies>>
    BY <1>11 DEF Redirect
  <2>2. \/ Answered
        \/ /\ \E t : outbound' = [outbound EXCEPT ![r] = t]
           /\ \E t : hop' = [hop EXCEPT ![r] = t]
           /\ conn' = [conn EXCEPT ![r] = NoAddress]
           /\ Goto(r, "hop") /\ UNCHANGED <<req, target, answer>>
    BY <1>4, <1>11 DEF Redirect, Follow
  <2>3. Calm
    BY <1>0, <1>3, <2>2 DEF Calm, Goto, Domains
  <2> QED
    BY <2>1, <2>3 DEF Calm, OthersKept
<1>12. CASE UpstreamAnswers(r)
  <2>1. Answered /\ UNCHANGED policies /\ LoadFor(r, "shape") /\ \E h : relayed' = [relayed EXCEPT ![r] = h]
    BY <1>12 DEF UpstreamAnswers, Answered
  <2>2. \A q \in Request \ {r} : relayed'[q] = relayed[q]
    BY <1>0, <2>1 DEF Domains
  <2> QED
    BY <1>1, <1>3, <2>1, <2>2 DEF Calm, OthersKept
<1>13. CASE Stamp(r)
  <2>1. /\ LoadFor(r, "stamp") /\ Goto(r, "stamped") /\ UNCHANGED <<req, target, hop, outbound, conn, relayed, pool, policies>>
        /\ \E t : answer' = [answer EXCEPT ![r] = t]
    BY <1>13 DEF Stamp, wire
  <2> QED
    BY <1>0, <1>1, <2>1 DEF Goto, Domains, OthersKept
<1>14. CASE Leave(r)
  BY <1>0, <1>14 DEF Leave, Goto, Domains, OthersKept
<1> QED
  BY <1>5, <1>6, <1>7, <1>8, <1>9, <1>10, <1>11, <1>12, <1>13, <1>14 DEF Step

(* What is said of a request depends on nothing but its own state and on    *)
(* the snapshots it has loaded.                                             *)
LEMMA PoliteFrame ==
  ASSUME NEW q \in Request, Polite(q), UNCHANGED policies,
         phase'[q] = phase[q], req'[q] = req[q], view'[q] = view[q], target'[q] = target[q],
         outbound'[q] = outbound[q], answer'[q] = answer[q], relayed'[q] = relayed[q]
  PROVE  Polite(q)'
<1>1. snapshots' = snapshots /\ frozen' = frozen
  BY DEF policies
<1>2. Owned(q)' = Owned(q)
  BY <1>1 DEF Owned, Forwarded, Inbound, Config, Built, Client
<1>3. Barred(q)' = Barred(q)
  BY <1>1 DEF Barred, Config
<1>4. Confined(q)'
  BY <1>2, <1>3 DEF Polite, Confined
<1>5. Cleaned(q)'
  BY <1>1 DEF Polite, Cleaned, Config
<1>6. Varies(q)'
  BY <1>1 DEF Polite, Varies, Config
<1> QED
  BY <1>4, <1>5, <1>6 DEF Polite

(* A request that has not been shaped, still not, and not on its way.      *)
LEMMA PoliteBefore ==
  ASSUME NEW r \in Request, Polite(r), phase[r] \notin {"answered", "stamped"},
         phase'[r] \in {"idle", "arrived", "served"}, view'[r].shape = view[r].shape
  PROVE  Polite(r)'
BY DEF Polite, Confined, Cleaned, Varies

(* An answer of the proxy's own owes its Vary line.                        *)
LEMMA PoliteAnswer ==
  ASSUME Inv, NEW r \in Request, Polite(r), phase[r] \notin {"answered", "stamped"},
         NEW status, NEW headers, Respond(r, status, headers), view'[r].shape = view[r].shape,
         VaryOwed(headers, relayed'[r])
  PROVE  Polite(r)'
<1>1. phase'[r] = "answered" /\ answer'[r] = [status |-> status, headers |-> headers]
  BY DEF Respond, Goto, Inv, Domains
<1>2. answer'[r].headers = headers
  BY <1>1
<1>3. ~(view'[r].shape > 0)
  BY DEF Polite, Cleaned
<1> QED
  BY <1>1, <1>2, <1>3 DEF Polite, Confined, Cleaned, Varies

LEMMA PoliteFail ==
  ASSUME Inv, NEW r \in Request, Polite(r), phase[r] \notin {"answered", "stamped"},
         NEW kind, Fail(r, kind), view'[r].shape = view[r].shape
  PROVE  Polite(r)'
<1> DEFINE headers == Insert(Empty, "x-corx-status", <<kind>>)
<1>1. VaryOwed(headers, relayed'[r])
  BY DEF VaryOwed, Insert, Empty
<1>2. Respond(r, Status(kind), headers)
  BY DEF Fail
<1> HIDE DEF headers
<1> QED
  BY <1>1, <1>2, PoliteAnswer

LEMMA PoliteStep ==
  ASSUME Inv, Inv', Coherent, NEW r \in Request, Step(r), Polite(r)
  PROVE  Polite(r)'
<1>0. Domains /\ Typed(r) /\ Domains' /\ view[r] \in [Parts -> 0..Live] /\ Live \in Nat /\ Live > 0
  BY SnapshotFacts DEF Inv, Sound, Typed
<1>1. /\ "serve" \in Parts /\ "execute" \in Parts /\ "stamp" \in Parts /\ "shape" \in Parts
      /\ "shape" # "serve" /\ "shape" # "execute"
  BY DEF Parts
<1>2. UNCHANGED policies /\ snapshots' = snapshots /\ frozen' = frozen
  BY StepOthers DEF policies
<1>3. VaryOwed(Empty, relayed'[r])
  BY DEF VaryOwed, Empty
<1>4. CASE Arrive(r)
  BY <1>0, <1>4, PoliteBefore DEF Arrive, Goto, Domains
<1>5. CASE Refuse(r) \/ Usage(r) \/ HopFails(r) \/ Timeout(r) \/ Panic(r)
  <2>1. phase[r] \notin {"answered", "stamped"} /\ view' = view
    BY <1>5 DEF Refuse, Usage, HopFails, Timeout, Panic
  <2>2. \/ \E status : Respond(r, status, Empty)
        \/ Respond(r, 503, Insert(Empty, "retry-after", <<"1">>))
        \/ \E kind : Fail(r, kind)
    BY <1>5 DEF Refuse, Usage, HopFails, Timeout, Panic
  <2>3. VaryOwed(Insert(Empty, "retry-after", <<"1">>), relayed'[r])
    BY DEF VaryOwed, Insert, Empty
  <2> QED
    BY <1>3, <2>1, <2>2, <2>3, PoliteAnswer, PoliteFail
<1>6. CASE Preflight(r)
  <2> DEFINE headers == BuildPreflightResponse(req[r].headers, Config(Live).cors)
  <2>1. phase[r] = "arrived" /\ Respond(r, 204, headers) /\ LoadFor(r, "serve")
    BY <1>6 DEF Preflight
  <2>2. view'[r].shape = view[r].shape
    BY <1>1, <2>1, LoadTyped
  <2>3. VaryOwed(headers, relayed'[r])
    BY PreflightReadable
  <2> HIDE DEF headers
  <2> QED
    BY <2>1, <2>2, <2>3, PoliteAnswer
<1>7. CASE Serve(r)
  <2>1. phase[r] = "arrived" /\ LoadFor(r, "serve")
    BY <1>7 DEF Serve
  <2>2. view'[r].shape = view[r].shape
    BY <1>1, <2>1, LoadTyped
  <2>3. Goto(r, "served") \/ \E kind : Fail(r, kind)
    BY <1>7 DEF Serve
  <2>4. CASE Goto(r, "served")
    BY <1>0, <2>1, <2>2, <2>4, PoliteBefore DEF Goto, Domains
  <2> QED
    BY <2>1, <2>2, <2>3, <2>4, PoliteFail
<1>8. CASE Execute(r)
  <2>1. phase[r] = "served" /\ LoadFor(r, "execute")
    BY <1>8 DEF Execute
  <2>2. view'[r].shape = view[r].shape /\ view'[r].execute = Live
    BY <1>1, <2>1, LoadTyped
  <2>3. \/ \E kind : Fail(r, kind)
        \/ /\ outbound' = [outbound EXCEPT ![r] = Forwarded(r, req[r].headers, Live)]
           /\ Goto(r, "hop") /\ UNCHANGED <<req, target>>
    BY <1>8 DEF Execute
  <2>4. ASSUME outbound' = [outbound EXCEPT ![r] = Forwarded(r, req[r].headers, Live)],
               Goto(r, "hop"), UNCHANGED <<req, target>>
        PROVE  Polite(r)'
    <3>1. /\ phase'[r] = "hop" /\ outbound'[r] = Forwarded(r, req[r].headers, Live)
          /\ req'[r] = req[r] /\ target'[r] = target[r]
      BY <1>0, <2>4 DEF Goto, Domains
    <3>2. Owned(r)' = Forwarded(r, Empty, Live)
      BY <1>2, <2>2, <3>1 DEF Owned, Forwarded, Inbound, Config, Built, Client
    <3>3. Barred(r)' = HopByHop \cup Tokens(req[r].headers, "connection")
                         \cup Config(Live).security.remove_request_headers
      BY <1>2, <2>2, <3>1 DEF Barred, Config
    <3>4. ASSUME NEW n \in Barred(r)'
          PROVE  Agree(Forwarded(r, req[r].headers, Live), Forwarded(r, Empty, Live), n)
      <4>1. n \in ConnectionListed(req[r].headers) \cup HopByHop
                    \cup Config(Live).security.remove_request_headers
        BY <3>3, <3>4 DEF ConnectionListed
      <4> QED
        BY <4>1, OutboundIndependent DEF Forwarded
    <3>5. Confined(r)'
      BY <3>1, <3>2, <3>4 DEF Confined, Agree
    <3>6. Cleaned(r)' /\ Varies(r)'
      BY <2>1, <2>2, <3>1 DEF Polite, Cleaned, Varies
    <3> QED
      BY <3>5, <3>6 DEF Polite
  <2> QED
    BY <2>1, <2>2, <2>3, <2>4, PoliteFail
<1>9. CASE Reuse(r) \/ Connect(r)
  <2>1. PICK ip : Connected(r, ip)
    BY <1>9 DEF Reuse, Connect
  <2>2. /\ phase[r] = "hop" /\ phase'[r] = "sent" /\ view' = view
        /\ req' = req /\ target' = target /\ outbound' = outbound
    BY <1>0, <1>9, <2>1 DEF Reuse, Connect, Connected, Goto, Domains
  <2>3. Owned(r)' = Owned(r) /\ Barred(r)' = Barred(r)
    BY <1>2, <2>2 DEF Owned, Barred, Forwarded, Inbound, Config, Built, Client
  <2>4. Confined(r)'
    BY <2>2, <2>3 DEF Polite, Confined
  <2> QED
    BY <2>2, <2>4 DEF Polite, Cleaned, Varies
<1>10. CASE Redirect(r)
  <2>1. phase[r] = "sent" /\ view' = view
    BY <1>10 DEF Redirect
  <2>2. \/ \E kind : Fail(r, kind)
        \/ /\ \/ outbound' = [outbound EXCEPT ![r] = outbound[r]]
              \/ outbound' = [outbound EXCEPT ![r] = Remove(outbound[r], SensitiveHeaders \cup {"host"})]
           /\ Goto(r, "hop") /\ UNCHANGED <<req, target>>
    BY <1>10 DEF Redirect, Follow
  <2>3. ASSUME \/ outbound' = [outbound EXCEPT ![r] = outbound[r]]
               \/ outbound' = [outbound EXCEPT ![r] = Remove(outbound[r], SensitiveHeaders \cup {"host"})],
               Goto(r, "hop"), UNCHANGED <<req, target>>
        PROVE  Polite(r)'
    <3>1. /\ phase'[r] = "hop" /\ req' = req /\ target' = target
          /\ outbound'[r] = outbound[r] \/ outbound'[r] = Remove(outbound[r], SensitiveHeaders \cup {"host"})
      BY <1>0, <2>3 DEF Goto, Domains
    <3>2. /\ DOMAIN outbound'[r] \subseteq DOMAIN outbound[r]
          /\ \A n \in DOMAIN outbound'[r] : outbound'[r][n] = outbound[r][n]
      <4>1. CASE outbound'[r] = outbound[r]
        BY <4>1
      <4>2. CASE outbound'[r] = Remove(outbound[r], SensitiveHeaders \cup {"host"})
        BY <4>2 DEF Remove
      <4> QED
        BY <3>1, <4>1, <4>2
    <3>3. Owned(r)' = Owned(r) /\ Barred(r)' = Barred(r)
      BY <1>2, <2>1, <3>1 DEF Owned, Barred, Forwarded, Inbound, Config, Built, Client
    <3>4. Confined(r)'
      BY <2>1, <3>1, <3>2, <3>3 DEF Polite, Confined
    <3> QED
      BY <2>1, <3>1, <3>4 DEF Polite, Cleaned, Varies
  <2> QED
    BY <2>1, <2>2, <2>3, PoliteFail
<1>11. CASE UpstreamAnswers(r)
  <2>1. phase[r] = "sent" /\ LoadFor(r, "shape")
    BY <1>11 DEF UpstreamAnswers
  <2>2. view'[r].shape = Live
    BY <1>1, <2>1, LoadTyped
  <2>3. PICK h \in Responses :
          /\ relayed' = [relayed EXCEPT ![r] = h]
          /\ Respond(r, 200,
               Shape(h, Authority(target[r]), Config(Live).security.remove_response_headers,
                     Config(view[r].execute).client.redirect_policy = "rewrite"))
    BY <1>11 DEF UpstreamAnswers
  <2> DEFINE deny == Config(Live).security.remove_response_headers
             headers == Shape(h, Authority(target[r]), deny,
                              Config(view[r].execute).client.redirect_policy = "rewrite")
  <2>4. /\ DOMAIN headers \cap (HopByHop \cup ConnectionListed(h) \cup deny) \subseteq {"x-corx-target-url", "via"}
        /\ "vary" \in DOMAIN headers => "vary" \in DOMAIN h /\ headers["vary"] = h["vary"]
    BY ShapeFiltered
  <2>5. Respond(r, 200, headers)
    BY <2>3
  <2> HIDE DEF headers
  <2>6. /\ phase'[r] = "answered" /\ relayed'[r] = h
        /\ answer'[r] = [status |-> 200, headers |-> headers]
    BY <1>0, <2>3, <2>5 DEF Respond, Goto, Domains
  <2>7. answer'[r].headers = headers
    BY <2>6
  <2>8. VaryOwed(headers, h)
    <3>1. "vary" \in DOMAIN h => First(h, "vary") \in Seq(Token)
      <4>1. "vary" \in DOMAIN h => First(h, "vary") \in Seq(STRING)
        BY ExchangeAssumption, FirstLine DEF Contains
      <4> QED
        BY <4>1 DEF Token
    <3> QED
      BY <2>4, <3>1 DEF VaryOwed, First, Contains, Readable
  <2>9. Cleaned(r)'
    <3>1. Config(view[r].shape)' = Config(Live)
      BY <1>2, <2>2 DEF Config
    <3> QED
      BY <2>4, <2>6, <2>7, <3>1 DEF Cleaned, ConnectionListed
  <2> QED
    BY <2>6, <2>7, <2>8, <2>9 DEF Polite, Confined, Varies
<1>12. CASE Stamp(r)
  <2> DEFINE stamped == ApplyToResponse(answer[r].headers, req[r].headers, Config(Live).cors)
  <2>1. phase[r] = "answered" /\ LoadFor(r, "stamp") /\ Goto(r, "stamped") /\ UNCHANGED <<req, relayed>>
    BY <1>12 DEF Stamp
  <2>2. answer' = [answer EXCEPT ![r] = [answer[r] EXCEPT !.headers = stamped]]
    BY <1>12 DEF Stamp
  <2>3. view'[r].stamp = Live
    BY <1>1, <2>1, LoadTyped
  <2>4. /\ Resolves(Config(Live).cors, req[r].headers) =>
             Acao \in DOMAIN stamped
               /\ First(stamped, Acao) \in {AnyOrigin, First(req[r].headers, "origin")}
        /\ "origin" \in Tokens(stamped, "vary") \/ (Contains(relayed[r], "vary") /\ ~Readable(relayed[r], "vary"))
    BY <2>1, StampReadable DEF Polite, Varies
  <2> HIDE DEF stamped
  <2>5. phase'[r] = "stamped" /\ answer'[r] = [answer[r] EXCEPT !.headers = stamped]
    BY <1>0, <2>1, <2>2 DEF Goto, Domains
  <2>6. answer'[r].headers = stamped
    <3>1. answer[r] = [status |-> answer[r].status, headers |-> answer[r].headers]
      BY <1>0 DEF Typed
    <3> QED
      BY <2>5, <3>1
  <2>7. Config(view[r].stamp)' = Config(Live)
    BY <1>2, <2>3 DEF Config
  <2>8. Varies(r)'
    BY <2>1, <2>4, <2>5, <2>6, <2>7 DEF Varies
  <2> QED
    BY <2>5, <2>8 DEF Polite, Confined, Cleaned
<1>13. CASE Leave(r)
  <2>1. phase'[r] = "idle" /\ view'[r] = NoView
    BY <1>0, <1>13 DEF Leave, Goto, Domains
  <2>2. ~(view'[r].shape > 0)
    BY <1>1, <2>1 DEF NoView
  <2> QED
    BY <2>1, <2>2 DEF Polite, Confined, Cleaned, Varies
<1> QED
  BY <1>4, <1>5, <1>6, <1>7, <1>8, <1>9, <1>10, <1>11, <1>12, <1>13 DEF Step

LEMMA PoliteReload ==
  ASSUME Inv, Coherent, Reload, NEW r \in Request, Polite(r)
  PROVE  Polite(r)'
<1>1. /\ Live \in Nat /\ \A g \in 1..Live : snapshots'[g] = snapshots[g]
      /\ frozen' = frozen
  <2>1. PICK s : snapshots' = Append(snapshots, s)
    BY DEF Reload, Reloading!Reload
  <2>2. snapshots \in Seq(Reloads!LivePolicies)
    BY DEF Coherent, Reloads!TypeOK
  <2> DEFINE S == Reloads!LivePolicies \cup {s}
  <2>3. snapshots \in Seq(S) /\ s \in S
    BY <2>2
  <2> HIDE DEF S
  <2> QED
    BY <2>1, <2>3 DEF Live, Reload, Reloading!Reload
<1>2. UNCHANGED <<phase, req, view, target, outbound, answer, relayed>>
  BY DEF Reload, wire
<1>3. /\ view[r] \in [Parts -> 0..Live] /\ Typed(r)
      /\ "execute" \in Parts /\ "stamp" \in Parts /\ "shape" \in Parts
  BY DEF Inv, Sound, Typed, Parts
<1>4. \A g \in 1..Live : Config(g)' = Config(g) /\ Client(g)' = Client(g) /\ Built(g)' = Built(g)
  <2>1. \A g \in 1..Live : Client(g) \in 1..Live
    BY SnapshotFacts
  <2> QED
    BY <1>1, <2>1 DEF Config, Client, Built
<1>5. Confined(r)'
  <2>1. CASE phase[r] \in {"hop", "sent"}
    <3>1. view[r].execute \in 1..Live
      BY <1>1, <1>3, <2>1 DEF Typed
    <3>2. Owned(r)' = Owned(r)
      BY <1>1, <1>2, <1>4, <3>1 DEF Owned, Forwarded, Inbound
    <3>3. Barred(r)' = Barred(r)
      BY <1>2, <1>4, <3>1 DEF Barred
    <3> QED
      BY <1>2, <3>2, <3>3 DEF Polite, Confined
  <2> QED
    BY <1>2, <2>1 DEF Confined
<1>6. Cleaned(r)'
  <2>1. view[r].shape > 0 => view[r].shape \in 1..Live
    BY <1>1, <1>3
  <2> QED
    BY <1>2, <1>4, <2>1 DEF Polite, Cleaned
<1>7. Varies(r)'
  <2>1. phase[r] = "stamped" => view[r].stamp \in 1..Live
    BY <1>1, <1>3 DEF Typed
  <2> QED
    BY <1>2, <1>4, <2>1 DEF Polite, Varies
<1> QED
  BY <1>5, <1>6, <1>7 DEF Polite

LEMMA AllPolite == Spec => [](\A r \in Request : Polite(r))
<1> DEFINE All == \A r \in Request : Polite(r)
<1>1. Init => All
  <2> SUFFICES ASSUME Init, NEW r \in Request PROVE Polite(r)
    OBVIOUS
  <2>1. phase[r] = "idle" /\ view[r] = NoView
    BY DEF Init
  <2>2. ~(view[r].shape > 0)
    BY <2>1 DEF NoView, Parts
  <2> QED
    BY <2>1, <2>2 DEF Polite, Confined, Cleaned, Varies
<1>2. Inv /\ Inv' /\ Coherent /\ All /\ [Next]_vars => All'
  <2> SUFFICES ASSUME Inv, Inv', Coherent, All, [Next]_vars, NEW q \in Request PROVE Polite(q)'
    OBVIOUS
  <2>1. CASE Reload
    BY <2>1, PoliteReload
  <2>2. CASE CloseConnection \/ UNCHANGED vars
    BY <2>2, PoliteFrame DEF CloseConnection, vars, wire
  <2>3. ASSUME NEW r \in Request, Step(r) PROVE Polite(q)'
    <3>1. CASE q = r
      BY <2>3, <3>1, PoliteStep
    <3>2. CASE q # r
      <4>1. OthersKept(r) /\ UNCHANGED policies
        BY <2>3, StepOthers
      <4> QED
        BY <3>2, <4>1, PoliteFrame DEF OthersKept
    <3> QED
      BY <3>1, <3>2
  <2> QED
    BY <2>1, <2>2, <2>3 DEF Next
<1> HIDE DEF All
<1>3. Spec => []All
  BY <1>1, <1>2, InvHolds, CoherentHere, PTL DEF Spec
<1> QED
  BY <1>3 DEF All

(* The hop filter, whatever the client names in its first Connection line    *)
(* and however often the request is redirected or the configuration          *)
(* reloaded: what a filtered name carries to the upstream is the proxy's     *)
(* own, and the client gets none of them.  So ConnectionNamesStripped fails  *)
(* for names on further lines only.                                          *)
THEOREM HeadersConfined == Spec => []HopHeadersConfined
<1>1. (\A r \in Request : Polite(r)) => HopHeadersConfined
  <2> SUFFICES ASSUME NEW r \in Request, Polite(r)
               PROVE  /\ r \in InFlight =>
                           \A n \in DOMAIN outbound[r] \cap Barred(r) :
                             Contains(Owned(r), n) /\ outbound[r][n] = Owned(r)[n]
                      /\ phase[r] = "answered" /\ view[r].shape > 0 =>
                           DOMAIN answer[r].headers \cap
                             (HopByHop \cup Tokens(relayed[r], "connection")
                                \cup Config(view[r].shape).security.remove_response_headers)
                           \subseteq {"x-corx-target-url", "via"}
    BY DEF HopHeadersConfined, Barred, Owned
  <2> QED
    BY DEF Polite, Confined, Cleaned, InFlight, Contains
<1> QED
  BY <1>1, AllPolite, PTL

(* One owner of CORS on every response path: refusals, errors, timeouts and  *)
(* panics included, an admitted origin can read the answer, and caches are   *)
(* told that it varies on Origin.                                            *)
THEOREM EveryAnswerReadable == Spec => []AnswersReadable
<1>1. (\A r \in Request : Polite(r)) => AnswersReadable
  BY DEF Polite, Varies, AnswersReadable, Acao, Contains
<1> QED
  BY <1>1, AllPolite, PTL
-----------------------------------------------------------------------------
(* How far the upstream's CORS headers reach                               *)

(* The lines of n in h are those of source.                                *)
From(h, source, n) == n \in DOMAIN source /\ h[n] = source[n]

(* What can have brought CORS headers to an answer before it is stamped:    *)
(* the upstream, or the policy a preflight was answered under.             *)
Sources(r) ==
  {relayed[r]} \cup
    (IF IsPreflight(req[r].method, req[r].headers) /\ view[r].serve > 0
     THEN {BuildPreflightResponse(req[r].headers, Config(view[r].serve).cors)}
     ELSE {})

Sourced(h, sources, n) == \E source \in sources : From(h, source, n)

(* What the stamping policy has to say is what the client gets, on every    *)
(* path and whatever the upstream said; a CORS header the policy has no     *)
(* value for is the upstream's own, or the preflight's (apply_to_response). *)
CorsAccounted ==
  \A r \in Request :
    phase[r] = "stamped" =>
      LET h == answer[r].headers
          own == ApplyToResponse(Empty, req[r].headers, Config(view[r].stamp).cors)
      IN \A n \in CorsHeaders :
           IF n \in DOMAIN own THEN n \in DOMAIN h /\ h[n] = own[n]
                               ELSE n \in DOMAIN h => Sourced(h, Sources(r), n)

(* k is h with own laid over it, as far as n is concerned.                 *)
Over(k, own, h, n) ==
  IF n \in DOMAIN own THEN n \in DOMAIN k /\ k[n] = own[n]
  ELSE (n \in DOMAIN k <=> n \in DOMAIN h) /\ (n \in DOMAIN k => k[n] = h[n])

LEMMA InsertIfOver ==
  ASSUME NEW k, NEW own, NEW h, NEW n, Over(k, own, h, n), NEW a, NEW m, NEW line
  PROVE  Over(InsertIf(a, k, m, line), InsertIf(a, own, m, line), h, n)
<1>1. CASE a
  BY <1>1 DEF Over, InsertIf, Insert
<1>2. CASE ~a
  BY <1>2 DEF InsertIf
<1> QED
  BY <1>1, <1>2

LEMMA VaryOver ==
  ASSUME NEW k, NEW own, NEW h, NEW n, n # "vary", Over(k, own, h, n), NEW name
  PROVE  Over(AppendVary(k, name), AppendVary(own, name), h, n)
<1>1. ASSUME NEW f
      PROVE  /\ n \in DOMAIN AppendVary(f, name) <=> n \in DOMAIN f
             /\ n \in DOMAIN f => AppendVary(f, name)[n] = f[n]
  <2>1. CASE AppendVary(f, name) = f
    BY <2>1
  <2>2. ASSUME NEW line, AppendVary(f, name) = Insert(f, "vary", line)
        PROVE  /\ n \in DOMAIN AppendVary(f, name) <=> n \in DOMAIN f
               /\ n \in DOMAIN f => AppendVary(f, name)[n] = f[n]
    BY <2>2 DEF Insert
  <2> QED
    BY <2>1, <2>2 DEF AppendVary, Extend
<1> QED
  BY <1>1 DEF Over

LEMMA StampOver ==
  ASSUME NEW h, NEW q, NEW c, NEW n \in CorsHeaders
  PROVE  Over(ApplyToResponse(h, q, c), ApplyToResponse(Empty, q, c), h, n)
<1> DEFINE allowed(f) == InsertIf(Resolves(c, q), f, Acao, ResolveAllowOrigin(c, q))
           granted(f) == InsertIf(Resolves(c, q) /\ c.allow_credentials, allowed(f), Acac, <<"true">>)
           base(f) == AppendVary(granted(f), "origin")
<1>0. n # "vary"
  BY DEF CorsHeaders
<1>1. Over(h, Empty, h, n)
  BY DEF Over, Empty
<1>2. Over(allowed(h), allowed(Empty), h, n)
  BY <1>0, <1>1, InsertIfOver
<1>3. Over(granted(h), granted(Empty), h, n)
  <2> HIDE DEF allowed
  <2> QED
    BY <1>0, <1>2, InsertIfOver
<1>4. Over(base(h), base(Empty), h, n)
  <2> HIDE DEF granted
  <2> QED
    BY <1>0, <1>3, VaryOver
<1>5. \A f : ApplyToResponse(f, q, c) = InsertIf(c.exposed_headers # <<>>, base(f), Aceh, c.exposed_headers)
  BY DEF ApplyToResponse, ApplyCorsBase, Acao, Acac, Aceh
<1> HIDE DEF base
<1>6. Over(InsertIf(c.exposed_headers # <<>>, base(h), Aceh, c.exposed_headers),
           InsertIf(c.exposed_headers # <<>>, base(Empty), Aceh, c.exposed_headers), h, n)
  BY <1>0, <1>4, InsertIfOver
<1> QED
  BY <1>5, <1>6

(* shape_response leaves the CORS headers as the upstream sent them.       *)
LEMMA ShapeRelays ==
  ASSUME NEW h, NEW url, NEW deny, NEW rewrite, NEW n \in CorsHeaders,
         n \in DOMAIN Shape(h, url, deny, rewrite)
  PROVE  From(Shape(h, url, deny, rewrite), h, n)
<1> DEFINE kept == Apply(h, deny)
           told == Insert(kept, "x-corx-target-url", url)
           via == Extend(told, "via", "1.1 corx")
           shaped == Shape(h, url, deny, rewrite)
<1>0. n \notin {"x-corx-target-url", "via", "location"}
  BY DEF CorsHeaders
<1>1. shaped = via \/ \E line : shaped = Insert(via, "location", line)
  BY DEF Shape, RewriteLocation
<1>2. \E line : via = Insert(told, "via", line)
  BY DEF Extend
<1>3. told = Insert(kept, "x-corx-target-url", url)
  OBVIOUS
<1>4. DOMAIN kept \subseteq DOMAIN h /\ \A m \in DOMAIN kept : kept[m] = h[m]
  BY DEF Apply, Remove
<1> HIDE DEF kept, told, via
<1>5. n \in DOMAIN via => n \in DOMAIN kept /\ via[n] = kept[n]
  BY <1>0, <1>2, <1>3 DEF Insert
<1>6. (n \in DOMAIN shaped <=> n \in DOMAIN via) /\ (n \in DOMAIN via => shaped[n] = via[n])
  <2> HIDE DEF shaped
  <2> QED
    BY <1>0, <1>1 DEF Insert
<1> QED
  BY <1>4, <1>5, <1>6 DEF From

(* Where the CORS headers of an answer come from, before it is stamped and *)
(* after.                                                                  *)
Traced(r) ==
  LET h == answer[r].headers
      own == ApplyToResponse(Empty, req[r].headers, Config(view[r].stamp).cors)
  IN
  /\ phase[r] = "answered" => \A n \in CorsHeaders \cap DOMAIN h : Sourced(h, Sources(r), n)
  /\ phase[r] = "stamped" =>
       \A n \in CorsHeaders :
         IF n \in DOMAIN own THEN n \in DOMAIN h /\ h[n] = own[n]
                             ELSE n \in DOMAIN h => Sourced(h, Sources(r), n)

LEMMA TracedFrame ==
  ASSUME NEW q \in Request, Traced(q), UNCHANGED policies, phase'[q] = phase[q],
         req'[q] = req[q], view'[q] = view[q], answer'[q] = answer[q], relayed'[q] = relayed[q]
  PROVE  Traced(q)'
<1>1. \A g : Config(g)' = Config(g)
  BY DEF policies, Config
<1> QED
  BY <1>1 DEF Traced, Sources, Config, policies

LEMMA TracedAnswer ==
  ASSUME Inv, NEW r \in Request, NEW status, NEW headers, Respond(r, status, headers),
         \A n \in CorsHeaders \cap DOMAIN headers : Sourced(headers, Sources(r)', n)
  PROVE  Traced(r)'
<1>1. phase'[r] = "answered" /\ answer'[r] = [status |-> status, headers |-> headers]
  BY DEF Respond, Goto, Inv, Domains
<1>2. answer'[r].headers = headers
  BY <1>1
<1> QED
  BY <1>1, <1>2 DEF Traced

LEMMA TracedStep ==
  ASSUME Inv, Coherent, NEW r \in Request, Step(r), Traced(r)
  PROVE  Traced(r)'
<1>0. Domains /\ Typed(r) /\ view[r] \in [Parts -> 0..Live] /\ Live \in Nat /\ Live > 0
  BY SnapshotFacts DEF Inv, Sound, Typed
<1>1. "serve" \in Parts /\ "stamp" \in Parts /\ "serve" # "stamp"
  BY DEF Parts
<1>2. snapshots' = snapshots
  BY StepOthers DEF policies
<1>3. CASE phase'[r] \notin {"answered", "stamped"}
  BY <1>3 DEF Traced
<1>4. ASSUME NEW status, NEW headers, Respond(r, status, headers),
             CorsHeaders \cap DOMAIN headers = {}
      PROVE  Traced(r)'
  BY <1>4, TracedAnswer
<1>5. ASSUME NEW kind, Fail(r, kind)
      PROVE  Traced(r)'
  <2> DEFINE headers == Insert(Empty, "x-corx-status", <<kind>>)
  <2>1. CorsHeaders \cap DOMAIN headers = {}
    BY DEF Insert, Empty, CorsHeaders
  <2>2. Respond(r, Status(kind), headers)
    BY <1>5 DEF Fail
  <2> HIDE DEF headers
  <2> QED
    BY <1>4, <2>1, <2>2
<1>6. CASE Refuse(r) \/ Usage(r) \/ HopFails(r) \/ Timeout(r) \/ Panic(r)
  <2>1. \/ \E status : Respond(r, status, Empty)
        \/ Respond(r, 503, Insert(Empty, "retry-after", <<"1">>))
        \/ \E kind : Fail(r, kind)
    BY <1>6 DEF Refuse, Usage, HopFails, Timeout, Panic
  <2>2. /\ CorsHeaders \cap DOMAIN Empty = {}
        /\ CorsHeaders \cap DOMAIN Insert(Empty, "retry-after", <<"1">>) = {}
    BY DEF Insert, Empty, CorsHeaders
  <2> QED
    BY <1>4, <1>5, <2>1, <2>2
<1>7. CASE Preflight(r)
  <2> DEFINE headers == BuildPreflightResponse(req[r].headers, Config(Live).cors)
  <2>1. /\ IsPreflight(req[r].method, req[r].headers) /\ LoadFor(r, "serve")
        /\ Respond(r, 204, headers)
    BY <1>7 DEF Preflight
  <2>2. view'[r].serve = Live /\ req' = req
    BY <1>1, <2>1, LoadTyped DEF Respond
  <2>3. Config(view[r].serve)' = Config(Live)
    BY <1>2, <2>2 DEF Config
  <2>4. BuildPreflightResponse(req[r].headers, Config(view[r].serve).cors)' = headers
    BY <2>2, <2>3
  <2> HIDE DEF headers
  <2>5. \A n \in CorsHeaders \cap DOMAIN headers : Sourced(headers, Sources(r)', n)
    <3>1. headers \in Sources(r)'
      BY <1>0, <2>1, <2>2, <2>4 DEF Sources
    <3> QED
      BY <3>1 DEF Sourced, From
  <2> QED
    BY <2>1, <2>5, TracedAnswer
<1>8. CASE Arrive(r) \/ Serve(r) \/ Execute(r) \/ Reuse(r) \/ Connect(r) \/ Redirect(r) \/ Leave(r)
  <2>1. \/ \E kind : Fail(r, kind)
        \/ \E label \in {"arrived", "served", "hop", "sent", "idle"} : Goto(r, label)
    BY <1>8 DEF Arrive, Serve, Execute, Reuse, Connect, Connected, Redirect, Follow, Leave
  <2>2. ASSUME NEW label \in {"arrived", "served", "hop", "sent", "idle"}, Goto(r, label)
        PROVE  Traced(r)'
    BY <1>0, <1>3, <2>2 DEF Goto, Domains
  <2> QED
    BY <1>5, <2>1, <2>2
<1>9. CASE UpstreamAnswers(r)
  <2>1. PICK h \in Responses :
          /\ relayed' = [relayed EXCEPT ![r] = h]
          /\ Respond(r, 200,
               Shape(h, Authority(target[r]), Config(Live).security.remove_response_headers,
                     Config(view[r].execute).client.redirect_policy = "rewrite"))
    BY <1>9 DEF UpstreamAnswers
  <2> DEFINE headers == Shape(h, Authority(target[r]), Config(Live).security.remove_response_headers,
                              Config(view[r].execute).client.redirect_policy = "rewrite")
  <2>2. \A n \in CorsHeaders \cap DOMAIN headers : From(headers, h, n)
    BY ShapeRelays
  <2>3. Respond(r, 200, headers)
    BY <2>1
  <2> HIDE DEF headers
  <2>4. relayed'[r] = h
    BY <1>0, <2>1 DEF Domains
  <2>5. \A n \in CorsHeaders \cap DOMAIN headers : Sourced(headers, Sources(r)', n)
    BY <2>2, <2>4 DEF Sourced, Sources
  <2> QED
    BY <2>3, <2>5, TracedAnswer
<1>10. CASE Stamp(r)
  <2> DEFINE h == answer[r].headers
             c == Config(Live).cors
             own == ApplyToResponse(Empty, req[r].headers, c)
             stamped == ApplyToResponse(h, req[r].headers, c)
  <2>1. phase[r] = "answered" /\ LoadFor(r, "stamp") /\ Goto(r, "stamped") /\ UNCHANGED <<req, relayed>>
    BY <1>10 DEF Stamp
  <2>2. answer' = [answer EXCEPT ![r] = [answer[r] EXCEPT !.headers = stamped]]
    BY <1>10 DEF Stamp
  <2>3. view'[r].stamp = Live /\ view'[r].serve = view[r].serve
    BY <1>1, <2>1, LoadTyped
  <2>4. \A n \in CorsHeaders : Over(stamped, own, h, n)
    BY StampOver
  <2>5. Config(view[r].stamp)' = Config(Live) /\ Config(view[r].serve)' = Config(view[r].serve)
    BY <1>2, <2>3 DEF Config
  <2>6. ApplyToResponse(Empty, req[r].headers, Config(view[r].stamp).cors)' = own
    BY <2>1, <2>5
  <2>7. \A n \in CorsHeaders \cap DOMAIN h : Sourced(h, Sources(r), n)
    BY <2>1 DEF Traced
  <2> HIDE DEF own, stamped
  <2>8. phase'[r] = "stamped" /\ answer'[r].headers = stamped
    <3>1. answer[r] = [status |-> answer[r].status, headers |-> answer[r].headers]
      BY <1>0 DEF Typed
    <3>2. answer'[r] = [answer[r] EXCEPT !.headers = stamped] /\ phase'[r] = "stamped"
      BY <1>0, <2>1, <2>2 DEF Goto, Domains
    <3> QED
      BY <3>1, <3>2
  <2>9. ASSUME NEW n \in CorsHeaders, n \in DOMAIN h, stamped[n] = h[n]
        PROVE  Sourced(stamped, Sources(r)', n)
    <3>1. Sourced(h, Sources(r), n)
      BY <2>7, <2>9
    <3>2. Sources(r)' = Sources(r)
      BY <2>1, <2>3, <2>5 DEF Sources
    <3> QED
      BY <2>9, <3>1, <3>2 DEF Sourced, From
  <2>10. \A n \in CorsHeaders :
           IF n \in DOMAIN own THEN n \in DOMAIN stamped /\ stamped[n] = own[n]
                               ELSE n \in DOMAIN stamped => Sourced(stamped, Sources(r)', n)
    BY <2>4, <2>9 DEF Over
  <2> QED
    BY <2>6, <2>8, <2>10 DEF Traced
<1> QED
  BY <1>6, <1>7, <1>8, <1>9, <1>10 DEF Step

LEMMA TracedReload ==
  ASSUME Inv, Coherent, Reload, NEW r \in Request, Traced(r)
  PROVE  Traced(r)'
<1>1. Live \in Nat /\ \A g \in 1..Live : snapshots'[g] = snapshots[g]
  <2>1. PICK s : snapshots' = Append(snapshots, s)
    BY DEF Reload, Reloading!Reload
  <2>2. snapshots \in Seq(Reloads!LivePolicies)
    BY DEF Coherent, Reloads!TypeOK
  <2> DEFINE S == Reloads!LivePolicies \cup {s}
  <2>3. snapshots \in Seq(S) /\ s \in S
    BY <2>2
  <2> HIDE DEF S
  <2> QED
    BY <2>1, <2>3 DEF Live
<1>2. UNCHANGED <<phase, req, view, answer, relayed>>
  BY DEF Reload
<1>3. view[r] \in [Parts -> 0..Live] /\ "serve" \in Parts /\ "stamp" \in Parts
      /\ (phase[r] = "stamped" => view[r].stamp > 0)
  BY DEF Inv, Sound, Typed, Parts
<1>4. /\ view[r].serve > 0 => Config(view[r].serve)' = Config(view[r].serve)
      /\ phase[r] = "stamped" => Config(view[r].stamp)' = Config(view[r].stamp)
  BY <1>1, <1>2, <1>3 DEF Config
<1>5. Sources(r)' = Sources(r)
  BY <1>2, <1>4 DEF Sources
<1> QED
  BY <1>2, <1>4, <1>5 DEF Traced

(* Whatever the upstream's CORS headers say, the policy's word stands where *)
(* it has one: they reach the client only where it has none, on every path, *)
(* under any reloads.                                                       *)
THEOREM CorsConfined == Spec => []CorsAccounted
<1> DEFINE All == \A r \in Request : Traced(r)
<1>1. Init => All
  BY DEF Init, Traced
<1>2. Inv /\ Coherent /\ All /\ [Next]_vars => All'
  <2> SUFFICES ASSUME Inv, Coherent, All, [Next]_vars, NEW q \in Request PROVE Traced(q)'
    OBVIOUS
  <2>1. CASE Reload
    BY <2>1, TracedReload
  <2>2. CASE CloseConnection \/ UNCHANGED vars
    BY <2>2, TracedFrame DEF CloseConnection, vars, wire
  <2>3. ASSUME NEW r \in Request, Step(r) PROVE Traced(q)'
    <3>1. CASE q = r
      BY <2>3, <3>1, TracedStep
    <3>2. CASE q # r
      <4>1. OthersKept(r) /\ UNCHANGED policies
        BY <2>3, StepOthers
      <4> QED
        BY <3>2, <4>1, TracedFrame DEF OthersKept
    <3> QED
      BY <3>1, <3>2
  <2> QED
    BY <2>1, <2>2, <2>3 DEF Next
<1>3. All => CorsAccounted
  BY DEF Traced, CorsAccounted
<1> HIDE DEF All
<1> QED
  BY <1>1, <1>2, <1>3, InvHolds, CoherentHere, PTL DEF Spec
-----------------------------------------------------------------------------
(* Doing it twice                                                          *)

IsMap(h) == h = [n \in DOMAIN h |-> h[n]]

(* Inserting what is there already changes nothing.                        *)
LEMMA InsertSame ==
  ASSUME NEW h, IsMap(h), NEW name \in DOMAIN h, NEW line, h[name] = <<line>>
  PROVE  Insert(h, name, line) = h
BY DEF Insert, IsMap

LEMMA InsertMaps ==
  ASSUME NEW h, NEW name, NEW line
  PROVE  IsMap(Insert(h, name, line))
BY DEF Insert, IsMap

LEMMA InsertIfMaps ==
  ASSUME NEW h, IsMap(h), NEW a, NEW name, NEW line
  PROVE  IsMap(InsertIf(a, h, name, line))
<1>1. CASE a
  BY <1>1, InsertMaps DEF InsertIf
<1>2. CASE ~a
  BY <1>2 DEF InsertIf
<1> QED
  BY <1>1, <1>2

LEMMA InsertIfSame ==
  ASSUME NEW h, IsMap(h), NEW a, NEW name, NEW line, a => name \in DOMAIN h /\ h[name] = <<line>>
  PROVE  InsertIf(a, h, name, line) = h
<1>1. CASE a
  BY <1>1, InsertSame DEF InsertIf
<1>2. CASE ~a
  BY <1>2 DEF InsertIf
<1> QED
  BY <1>1, <1>2

(* A conditional insert touches the one name.                              *)
LEMMA InsertIfSays ==
  ASSUME NEW a, NEW h, IsMap(h), NEW name, NEW line
  PROVE  /\ IsMap(InsertIf(a, h, name, line))
         /\ a => name \in DOMAIN InsertIf(a, h, name, line) /\ InsertIf(a, h, name, line)[name] = <<line>>
         /\ \A n : n # name => Agree(InsertIf(a, h, name, line), h, n)
<1>1. CASE a
  <2>1. InsertIf(a, h, name, line) = Insert(h, name, line)
    BY <1>1 DEF InsertIf
  <2>2. /\ IsMap(Insert(h, name, line))
        /\ name \in DOMAIN Insert(h, name, line) /\ Insert(h, name, line)[name] = <<line>>
    BY InsertMaps DEF Insert
  <2>3. \A n : n # name => Agree(Insert(h, name, line), h, n)
    BY DEF Insert, Agree
  <2> QED
    BY <2>1, <2>2, <2>3, Zenon
<1>2. CASE ~a
  <2>1. InsertIf(a, h, name, line) = h
    BY <1>2 DEF InsertIf
  <2> QED
    BY <1>2, <2>1, Zenon DEF Agree
<1> QED
  BY <1>1, <1>2

(* append_vary takes no token away and touches no other name.              *)
LEMMA VaryKeeps ==
  ASSUME NEW h, IsMap(h), NEW name \in Token, name # "unreadable",
         "vary" \in DOMAIN h => First(h, "vary") \in Seq(Token)
  PROVE  LET k == AppendVary(h, name) IN
         /\ IsMap(k)
         /\ Readable(h, "vary") => Readable(k, "vary") /\ Tokens(h, "vary") \subseteq Tokens(k, "vary")
         /\ \A n \in DOMAIN h \ {"vary"} : n \in DOMAIN k /\ k[n] = h[n]
<1> DEFINE k == AppendVary(h, name)
<1>1. k = h \/ \E line : k = Insert(h, "vary", line)
  BY DEF AppendVary, Extend
<1>2. IsMap(k) /\ \A n \in DOMAIN h \ {"vary"} : n \in DOMAIN k /\ k[n] = h[n]
  <2>1. CASE k = h
    BY <2>1
  <2>2. ASSUME NEW line, k = Insert(h, "vary", line)
        PROVE  IsMap(k) /\ \A n \in DOMAIN h \ {"vary"} : n \in DOMAIN k /\ k[n] = h[n]
    <3> HIDE DEF k
    <3> QED
      BY <2>2, InsertMaps, InsertKeeps
  <2> QED
    BY <1>1, <2>1, <2>2
<1>3. ASSUME Readable(h, "vary")
      PROVE  Readable(k, "vary") /\ Tokens(h, "vary") \subseteq Tokens(k, "vary")
  <2>1. Readable(k, "vary")
    BY <1>3, VaryAppended
  <2>2. CASE name \in Tokens(h, "vary")
    BY <1>3, <2>2 DEF AppendVary
  <2>3. CASE name \notin Tokens(h, "vary")
    <3> DEFINE first == First(h, "vary")
    <3>1. first \in Seq(Token)
      BY <1>3 DEF Readable, Contains
    <3>2. k = Insert(h, "vary", Append(first, name))
      BY <1>3, <2>3 DEF AppendVary, Extend
    <3>3. Tokens(h, "vary") = {first[i] : i \in DOMAIN first}
      BY <1>3 DEF Tokens
    <3> HIDE DEF first, k
    <3>4. First(k, "vary") = Append(first, name)
      BY <3>2 DEF Insert, First
    <3>5. Tokens(k, "vary") = {Append(first, name)[i] : i \in DOMAIN Append(first, name)}
      BY <2>1, <3>4 DEF Tokens
    <3>6. \A i \in DOMAIN first : i \in DOMAIN Append(first, name) /\ Append(first, name)[i] = first[i]
      BY <3>1
    <3>7. Tokens(h, "vary") \subseteq Tokens(k, "vary")
      BY <3>3, <3>5, <3>6
    <3> QED
      BY <2>1, <3>7 DEF k
  <2> QED
    BY <2>2, <2>3, <2>1
<1> QED
  BY <1>2, <1>3

(* A map that already says what the policy says.                           *)
Stamped(k, q, c) ==
  /\ IsMap(k)
  /\ Resolves(c, q) => Acao \in DOMAIN k /\ k[Acao] = <<ResolveAllowOrigin(c, q)>>
  /\ Resolves(c, q) /\ c.allow_credentials => Acac \in DOMAIN k /\ k[Acac] = <<<<"true">>>>
  /\ "vary" \in DOMAIN k => First(k, "vary") \in Seq(Token)
  /\ (Contains(k, "vary") /\ ~Readable(k, "vary")) \/ "origin" \in Tokens(k, "vary")

LEMMA BaseUnchanged ==
  ASSUME NEW k, NEW q, NEW c, Stamped(k, q, c)
  PROVE  ApplyCorsBase(k, q, c) = k
<1>1. InsertIf(Resolves(c, q), k, Acao, ResolveAllowOrigin(c, q)) = k
  BY InsertIfSame, Zenon DEF Stamped
<1>2. InsertIf(Resolves(c, q) /\ c.allow_credentials, k, Acac, <<"true">>) = k
  BY InsertIfSame, Zenon DEF Stamped
<1>3. AppendVary(k, "origin") = k
  BY Zenon DEF AppendVary, Stamped
<1>4. ApplyCorsBase(k, q, c) =
        AppendVary(InsertIf(Resolves(c, q) /\ c.allow_credentials,
                            InsertIf(Resolves(c, q), k, Acao, ResolveAllowOrigin(c, q)), Acac, <<"true">>),
                   "origin")
  BY Zenon DEF ApplyCorsBase, Acao, Acac
<1> QED
  BY <1>1, <1>2, <1>3, <1>4, Zenon

(* It goes on saying so when another name is written,                      *)
LEMMA StampedKept ==
  ASSUME NEW k, NEW q, NEW c, Stamped(k, q, c),
         NEW a, NEW name, name \notin {Acao, Acac, "vary"}, NEW line
  PROVE  Stamped(InsertIf(a, k, name, line), q, c)
<1> DEFINE m == InsertIf(a, k, name, line)
<1>1. IsMap(m) /\ Agree(m, k, Acao) /\ Agree(m, k, Acac) /\ Agree(m, k, "vary")
  <2>1. IsMap(k)
    BY DEF Stamped
  <2>2. IsMap(m) /\ \A n : n # name => Agree(m, k, n)
    BY <2>1, InsertIfSays, Zenon
  <2> QED
    BY <2>2, Zenon
<1> HIDE DEF m
<1>2. /\ Contains(m, "vary") <=> Contains(k, "vary")
      /\ Contains(k, "vary") => First(m, "vary") = First(k, "vary")
  BY <1>1 DEF Agree, Contains, First
<1>3. /\ Readable(m, "vary") <=> Readable(k, "vary")
      /\ Tokens(m, "vary") = Tokens(k, "vary")
  BY <1>2 DEF Readable, Tokens
<1>4. Stamped(m, q, c)
  BY <1>1, <1>2, <1>3 DEF Stamped, Agree, Contains
<1> QED
  BY <1>4 DEF m

(* and when its Vary line is extended.                                     *)
LEMMA StampedExtended ==
  ASSUME NEW k, NEW q, NEW c, Stamped(k, q, c), NEW name \in Token, name # "unreadable"
  PROVE  Stamped(AppendVary(k, name), q, c)
<1> DEFINE m == AppendVary(k, name)
<1>0. Acao # "vary" /\ Acac # "vary"
  BY DEF Acao, Acac
<1>1. IsMap(k) /\ ("vary" \in DOMAIN k => First(k, "vary") \in Seq(Token))
  BY DEF Stamped
<1>2. /\ IsMap(m)
      /\ Readable(k, "vary") => Readable(m, "vary") /\ Tokens(k, "vary") \subseteq Tokens(m, "vary")
      /\ \A n \in DOMAIN k \ {"vary"} : n \in DOMAIN m /\ m[n] = k[n]
  BY <1>1, VaryKeeps
<1>3. /\ "vary" \in DOMAIN m /\ First(m, "vary") \in Seq(Token)
      /\ Contains(k, "vary") /\ ~Readable(k, "vary") => m = k
  BY <1>1, VaryAppended
<1>4. (Contains(m, "vary") /\ ~Readable(m, "vary")) \/ "origin" \in Tokens(m, "vary")
  <2>1. CASE Contains(k, "vary") /\ ~Readable(k, "vary")
    BY <1>3, <2>1, Zenon
  <2>2. CASE "origin" \in Tokens(k, "vary")
    <3>1. Readable(k, "vary")
      BY <2>2 DEF Tokens
    <3> QED
      BY <1>2, <2>2, <3>1
  <2> QED
    BY <2>1, <2>2 DEF Stamped
<1> HIDE DEF m
<1>5. Stamped(m, q, c)
  BY <1>0, <1>2, <1>3, <1>4 DEF Stamped
<1> QED
  BY <1>5 DEF m

(* ApplyCorsBase makes it so.                                              *)
LEMMA BaseStamps ==
  ASSUME NEW h, IsMap(h), "vary" \in DOMAIN h => First(h, "vary") \in Seq(Token), NEW q, NEW c
  PROVE  Stamped(ApplyCorsBase(h, q, c), q, c)
<1> DEFINE allowed == InsertIf(Resolves(c, q), h, Acao, ResolveAllowOrigin(c, q))
           granted == InsertIf(Resolves(c, q) /\ c.allow_credentials, allowed, Acac, <<"true">>)
<1>0. Acao # Acac /\ Acao # "vary" /\ Acac # "vary" /\ "origin" \in Token /\ "origin" # "unreadable"
  BY DEF Acao, Acac, Token
<1>1. ApplyCorsBase(h, q, c) = AppendVary(granted, "origin")
  BY Zenon DEF ApplyCorsBase, Acao, Acac
<1>2. /\ IsMap(allowed) /\ Agree(allowed, h, "vary")
      /\ Resolves(c, q) => Acao \in DOMAIN allowed /\ allowed[Acao] = <<ResolveAllowOrigin(c, q)>>
  <2>1. /\ IsMap(allowed)
        /\ Resolves(c, q) => Acao \in DOMAIN allowed /\ allowed[Acao] = <<ResolveAllowOrigin(c, q)>>
        /\ \A n : n # Acao => Agree(allowed, h, n)
    BY InsertIfSays, Zenon DEF allowed
  <2> QED
    BY <1>0, <2>1, Zenon
<1> HIDE DEF allowed
<1>3. /\ IsMap(granted) /\ Agree(granted, allowed, "vary") /\ Agree(granted, allowed, Acao)
      /\ Resolves(c, q) /\ c.allow_credentials =>
           Acac \in DOMAIN granted /\ granted[Acac] = <<<<"true">>>>
  <2> DEFINE grants == Resolves(c, q) /\ c.allow_credentials
             line == <<"true">>
  <2>1. granted = InsertIf(grants, allowed, Acac, line)
    OBVIOUS
  <2>2. line = <<"true">> /\ (grants <=> Resolves(c, q) /\ c.allow_credentials)
    OBVIOUS
  <2> HIDE DEF grants, line, granted
  <2>3. /\ IsMap(granted)
        /\ grants => Acac \in DOMAIN granted /\ granted[Acac] = <<line>>
        /\ \A n : n # Acac => Agree(granted, allowed, n)
    <3>1. IsMap(allowed)
      BY <1>2
    <3>2. /\ IsMap(InsertIf(grants, allowed, Acac, line))
          /\ grants => /\ Acac \in DOMAIN InsertIf(grants, allowed, Acac, line)
                       /\ InsertIf(grants, allowed, Acac, line)[Acac] = <<line>>
          /\ \A n : n # Acac => Agree(InsertIf(grants, allowed, Acac, line), allowed, n)
      BY <3>1, InsertIfSays, Zenon
    <3> QED
      BY <2>1, <3>2
  <2> QED
    BY <1>0, <2>2, <2>3, Zenon
<1> HIDE DEF granted
<1>4. "vary" \in DOMAIN granted => First(granted, "vary") \in Seq(Token)
  BY <1>2, <1>3 DEF Agree, First
<1>5. /\ IsMap(AppendVary(granted, "origin"))
      /\ \A n \in DOMAIN granted \ {"vary"} :
           n \in DOMAIN AppendVary(granted, "origin") /\ AppendVary(granted, "origin")[n] = granted[n]
  BY <1>0, <1>3, <1>4, VaryKeeps
<1>6. Resolves(c, q) => Acao \in DOMAIN granted /\ granted[Acao] = <<ResolveAllowOrigin(c, q)>>
  BY <1>2, <1>3, Zenon DEF Agree
<1>7. /\ First(AppendVary(granted, "origin"), "vary") \in Seq(Token)
      /\ \/ Contains(AppendVary(granted, "origin"), "vary") /\ ~Readable(AppendVary(granted, "origin"), "vary")
         \/ "origin" \in Tokens(AppendVary(granted, "origin"), "vary")
  <2>1. CASE Contains(granted, "vary") /\ ~Readable(granted, "vary")
    BY <1>0, <1>4, <2>1, VaryAppended
  <2>2. CASE ~(Contains(granted, "vary") /\ ~Readable(granted, "vary"))
    BY <1>0, <1>4, <2>2, VaryAppended
  <2> QED
    BY <2>1, <2>2
<1> QED
  BY <1>0, <1>1, <1>3, <1>5, <1>6, <1>7 DEF Stamped

(* What is stamped is exposed at most, when it is stamped again.           *)
LEMMA StampedAgain ==
  ASSUME NEW k, NEW q, NEW c, Stamped(k, q, c)
  PROVE  ApplyToResponse(k, q, c) = InsertIf(c.exposed_headers # <<>>, k, Aceh, c.exposed_headers)
BY BaseUnchanged, Zenon DEF ApplyToResponse, Aceh

(* Stamping an answer twice by one policy is stamping it once, whatever     *)
(* headers the upstream gave it (apply_to_response).                       *)
THEOREM StampIdempotent ==
  ASSUME NEW h, IsMap(h), IsHeaderMap(h), NEW q, NEW c
  PROVE  ApplyToResponse(ApplyToResponse(h, q, c), q, c) = ApplyToResponse(h, q, c)
<1> DEFINE base == ApplyCorsBase(h, q, c)
           exposes == c.exposed_headers # <<>>
           k == InsertIf(exposes, base, Aceh, c.exposed_headers)
<1>0. Aceh \notin {Acao, Acac, "vary"}
  BY DEF Aceh, Acao, Acac
<1>1. ApplyToResponse(h, q, c) = k
  BY Zenon DEF ApplyToResponse, Aceh
<1>2. Stamped(base, q, c)
  <2>1. "vary" \in DOMAIN h => First(h, "vary") \in Seq(STRING)
    BY FirstLine DEF Contains
  <2>2. "vary" \in DOMAIN h => First(h, "vary") \in Seq(Token)
    BY <2>1 DEF Token
  <2> QED
    BY <2>2, BaseStamps
<1> HIDE DEF base, exposes
<1>3. Stamped(k, q, c)
  BY <1>0, <1>2, StampedKept, Zenon
<1>4. exposes => Aceh \in DOMAIN k /\ k[Aceh] = <<c.exposed_headers>>
  <2> DEFINE line == c.exposed_headers
  <2>1. IsMap(base)
    BY <1>2 DEF Stamped
  <2>2. k = InsertIf(exposes, base, Aceh, line)
    OBVIOUS
  <2> HIDE DEF k, line
  <2>3. /\ IsMap(InsertIf(exposes, base, Aceh, line))
        /\ exposes => /\ Aceh \in DOMAIN InsertIf(exposes, base, Aceh, line)
                      /\ InsertIf(exposes, base, Aceh, line)[Aceh] = <<line>>
        /\ \A n : n # Aceh => Agree(InsertIf(exposes, base, Aceh, line), base, n)
    BY <2>1, InsertIfSays, Zenon
  <2> QED
    BY <2>2, <2>3 DEF line
<1>5. InsertIf(exposes, k, Aceh, c.exposed_headers) = k
  <2>1. IsMap(k)
    BY <1>3 DEF Stamped
  <2> HIDE DEF k
  <2> QED
    BY <1>4, <2>1, InsertIfSame, Zenon
<1> HIDE DEF k
<1>6. ApplyToResponse(k, q, c) = InsertIf(exposes, k, Aceh, c.exposed_headers)
  BY <1>3, StampedAgain, Zenon DEF exposes
<1> QED
  BY <1>1, <1>5, <1>6, Zenon

(* "build_preflight_response already emits CORS headers; this layer is      *)
(* idempotent so it overwrites them with the same values without harm"     *)
(* (middleware/cors.rs:11-13): under the policy it was built by, a         *)
(* preflight answer leaves the layer as it came, but for the list of       *)
(* exposed headers, which build_preflight_response does not write.         *)
THEOREM PreflightUnharmed ==
  ASSUME NEW q, NEW c
  PROVE  ApplyToResponse(BuildPreflightResponse(q, c), q, c) =
           InsertIf(c.exposed_headers # <<>>, BuildPreflightResponse(q, c), Aceh, c.exposed_headers)
<1> DEFINE base == ApplyCorsBase(Empty, q, c)
           m == "access-control-request-method"
           h == "access-control-request-headers"
           methods == Advertise(base, "access-control-allow-methods", c.allowed_methods, q, m)
           headers == Advertise(methods, "access-control-allow-headers", c.allowed_headers, q, h)
           aged == InsertIf(TRUE, headers, "access-control-max-age", <<"max_age">>)
           private == InsertIf(c.allow_private_network /\ Contains(q, "access-control-request-private-network"),
                               aged, "access-control-allow-private-network", <<"true">>)
<1>0. /\ "access-control-allow-methods" \notin {Acao, Acac, "vary"}
      /\ "access-control-allow-headers" \notin {Acao, Acac, "vary"}
      /\ "access-control-max-age" \notin {Acao, Acac, "vary"}
      /\ "access-control-allow-private-network" \notin {Acao, Acac, "vary"}
      /\ m \in Token /\ m # "unreadable" /\ h \in Token /\ h # "unreadable"
  BY DEF Acao, Acac, Token
<1>1. BuildPreflightResponse(q, c) = AppendVary(AppendVary(private, m), h)
  BY Zenon DEF BuildPreflightResponse, InsertIf
<1>2. Stamped(base, q, c)
  <2>1. IsMap(Empty) /\ "vary" \notin DOMAIN Empty
    BY DEF IsMap, Empty
  <2> QED
    BY <2>1, BaseStamps
<1> HIDE DEF base
<1>3. Stamped(methods, q, c)
  BY <1>0, <1>2, StampedKept, Zenon DEF Advertise
<1> HIDE DEF methods
<1>4. Stamped(headers, q, c)
  BY <1>0, <1>3, StampedKept, Zenon DEF Advertise
<1> HIDE DEF headers
<1>5. Stamped(aged, q, c)
  BY <1>0, <1>4, StampedKept, Zenon
<1> HIDE DEF aged
<1>6. Stamped(private, q, c)
  BY <1>0, <1>5, StampedKept, Zenon
<1> HIDE DEF private
<1>7. Stamped(AppendVary(AppendVary(private, m), h), q, c)
  BY <1>0, <1>6, StampedExtended, Zenon
<1> QED
  BY <1>1, <1>7, StampedAgain, Zenon
=============================================================================
