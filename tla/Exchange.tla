------------------------------ MODULE Exchange ------------------------------
(***************************************************************************)
(* What passes between client, proxy and upstream: the headers of requests *)
(* and answers and the connections they travel on.  This is the handler of *)
(* RequestPipeline seen from the wire: which headers reach the upstream,   *)
(* which address is connected to, which CORS headers reach the client,     *)
(* while hot reload (HotReload) replaces the configuration.  The guards'   *)
(* decisions are RequestPipeline's and RateLimiter's, the redirect loop    *)
(* and the breaker are Upstream's: here they may decide either way.        *)
(***************************************************************************)
EXTENDS CorsPolicy, Forwarding, SsrfGuard, TargetUrl, Validation, ErrorKind, FiniteSets

CONSTANTS
  Request,      \* tasks that serve requests, each one after another
  Incoming,     \* the requests clients may send
  NoRequest,    \* the request of a task that serves none
  Responses,    \* the headers upstreams may answer with
  Uris,         \* the URIs requests may be sent to, as Target gives them
  Address,      \* the addresses a lookup may return
  NoAddress,    \* not connected
  Files,        \* the configurations an operator may write
  MaxReloads,   \* HotReload's
  MaxKept       \* bound on the connections kept at a time

(* What a connection may lead to.                                          *)
Destinations == Address \cup {Canonicalise(ip) : ip \in Address}

(* A request: its method, whether its path is "/", the texts of its path    *)
(* and of its url parameter, its headers, the client's address, and the     *)
(* scheme of its request line ("" when it has none).                        *)
ASSUME ExchangeAssumption ==
  /\ NoRequest \notin Incoming
  /\ Address \subseteq [family: {"v4", "v6", "mapped"}, zone: Zones, n: Nat]
  /\ Literal \in [DOMAIN Literal -> Destinations]
  /\ NoAddress \notin Destinations
  /\ MaxKept \in Nat
  /\ \A h \in Responses : IsHeaderMap(h)
  /\ \A q \in Incoming :
       /\ IsHeaderMap(q.headers)
       /\ q.client \in STRING
       /\ q.root \in BOOLEAN /\ (q.root => q.path = NoText)
       /\ LET text == Candidate(q.param, q.path) IN Valid(text) => Target(text) \in Uris

VARIABLES
  phase,       \* how far each request has come
  req,         \* the request
  view,        \* history: the snapshot each part of the way has loaded
  target,      \* the target of the request
  hop,         \* the URI it is being sent to
  outbound,    \* the headers it is sent with
  conn,        \* the address it is connected to
  answer,      \* the answer to it, as far as there is one
  relayed,     \* history: the headers of the upstream's answer
  pool,        \* the connections each client keeps
  frozen, snapshots      \* HotReload's

policies == <<frozen, snapshots>>
wire == <<target, hop, outbound, conn>>
vars == <<phase, req, view, wire, answer, relayed, pool, policies>>

Reloading == INSTANCE HotReload WITH Configs <- Load(Files)

Live == Len(snapshots)
Config(g) == snapshots[g].config

(* The client of snapshot g works by the configuration it was built for.   *)
Client(g) == snapshots[g].upstream
Built(g) == Config(Client(g))
-----------------------------------------------------------------------------
Parts == {"serve", "execute", "shape", "stamp"}
NoView == [part \in Parts |-> 0]   \* 0: not loaded
LoadFor(r, part) == view' = [view EXCEPT ![r][part] = Live]

NoUri == [scheme |-> "", host |-> NoHost, port |-> 0]

NoAnswer == [status |-> 0, headers |-> Empty]

Phases == {"idle", "arrived", "served", "hop", "sent", "answered", "stamped"}

TypeOK ==
  /\ phase \in [Request -> Phases]
  /\ req \in [Request -> Incoming \cup {NoRequest}]
  /\ view \in [Request -> [Parts -> 0..Live]]
  /\ target \in [Request -> Uris \cup {NoUri}]
  /\ hop \in [Request -> Uris \cup {NoUri}]
  /\ conn \in [Request -> Destinations \cup {NoAddress}]
  /\ \A r \in Request :
       /\ phase[r] # "idle" => req[r] \in Incoming
       /\ phase[r] \in {"served", "hop", "sent"} => target[r] \in Uris
       /\ phase[r] \in {"hop", "sent"} => hop[r] \in Uris /\ view[r].execute > 0
       /\ phase[r] = "sent" <=> conn[r] # NoAddress
       /\ phase[r] = "stamped" => view[r].stamp > 0
       /\ answer[r].status \in {0, 200, 204, 404, 431, 500, 503, 504} \cup {Status(kind) : kind \in ErrorKinds}
  /\ \A k \in pool : k.client \in 1..Live /\ k.uri \in Uris

Init ==
  /\ Reloading!Init
  /\ phase = [r \in Request |-> "idle"]
  /\ req = [r \in Request |-> NoRequest]
  /\ view = [r \in Request |-> NoView]
  /\ target = [r \in Request |-> NoUri]
  /\ hop = [r \in Request |-> NoUri]
  /\ outbound = [r \in Request |-> Empty]
  /\ conn = [r \in Request |-> NoAddress]
  /\ answer = [r \in Request |-> NoAnswer]
  /\ relayed = [r \in Request |-> Empty]
  /\ pool = {}

Goto(r, label) == phase' = [phase EXCEPT ![r] = label]

(* The handler ends with an answer, its locals gone.                       *)
Respond(r, status, headers) ==
  /\ answer' = [answer EXCEPT ![r] = [status |-> status, headers |-> headers]]
  /\ hop' = [hop EXCEPT ![r] = NoUri]
  /\ outbound' = [outbound EXCEPT ![r] = Empty]
  /\ conn' = [conn EXCEPT ![r] = NoAddress]
  /\ Goto(r, "answered")
  /\ UNCHANGED <<req, target>>

(* ServerError::into_response.                                             *)
Fail(r, kind) == Respond(r, Status(kind), Insert(Empty, "x-corx-status", <<kind>>))

Arrive(r) ==
  /\ phase[r] = "idle"
  /\ \E q \in Incoming : req' = [req EXCEPT ![r] = q]
  /\ Goto(r, "arrived")
  /\ UNCHANGED <<view, wire, answer, relayed, pool, policies>>

(* A layer or a guard in front of the handler refuses: header_limit_layer, *)
(* load_shed_layer, auth_layer or RequestGuard.                            *)
Refuse(r) ==
  /\ phase[r] = "arrived"
  /\ \/ Respond(r, 431, Empty)
     \/ Respond(r, 503, Insert(Empty, "retry-after", <<"1">>))
     \/ \E kind \in {"unauthorized", "missing_required_header", "origin_not_allowed", "rate_limited"} :
          Fail(r, kind)
  /\ UNCHANGED <<view, relayed, pool, policies>>

(* The route "/" is the usage page, whatever the query.                    *)
Usage(r) ==
  /\ phase[r] = "arrived"
  /\ req[r].root
  /\ Respond(r, IF req[r].method \in {"GET", "HEAD"} THEN 200 ELSE 404, Empty)
  /\ UNCHANGED <<view, relayed, pool, policies>>

Preflight(r) ==
  /\ phase[r] = "arrived"
  /\ ~req[r].root
  /\ IsPreflight(req[r].method, req[r].headers)
  /\ LoadFor(r, "serve")
  /\ Respond(r, 204, BuildPreflightResponse(req[r].headers, Config(Live).cors))
  /\ UNCHANGED <<relayed, pool, policies>>

(* TargetPolicy::check_authority.                                          *)
CheckAuthority(p, u) ==
  /\ p.https_only => u.scheme = "https"
  /\ p.schemes # {} => u.scheme \in p.schemes
  /\ p.mode = "allowlist" => u.host \in p.hosts
  /\ p.mode = "denylist" => u.host \notin p.hosts

(* serve, for a request its guards let through.                            *)
Serve(r) ==
  LET q == req[r]
      text == Candidate(q.param, q.path)
  IN
  /\ phase[r] = "arrived"
  /\ ~q.root
  /\ ~IsPreflight(q.method, q.headers)
  /\ LoadFor(r, "serve")
  /\ \/ ~Valid(text) /\ Fail(r, "invalid_url")
     \/ Valid(text) /\ ~CheckAuthority(Config(Live).target, Target(text)) /\ Fail(r, "target_not_allowed")
     \/ /\ Valid(text)
        /\ CheckAuthority(Config(Live).target, Target(text))
        /\ target' = [target EXCEPT ![r] = Target(text)]
        /\ Goto(r, "served")
        /\ UNCHANGED <<req, hop, outbound, conn, answer>>
  /\ UNCHANGED <<relayed, pool, policies>>

(* The InboundContext of execute_proxy.                                    *)
Inbound(q) ==
  [client |-> q.client,
   scheme |-> IF q.scheme # "" THEN q.scheme ELSE IF frozen.server.tls = "off" THEN "http" ELSE "https",
   host |-> IF Readable(q.headers, "host") THEN First(q.headers, "host") ELSE <<>>,
   port |-> frozen.server.bind]

(* The outbound headers of a request with headers h, by snapshot g.        *)
Forwarded(r, h, g) ==
  Outbound(h, Inbound(req[r]), target[r].host, Authority(target[r]),
           Config(g).security.remove_request_headers, Config(g).forwarded, Built(g).client.user_agent)

(* execute_proxy up to the first hop: to_uri may fail, and the client      *)
(* checks the target again.                                                *)
Execute(r) ==
  /\ phase[r] = "served"
  /\ LoadFor(r, "execute")
  /\ \/ Fail(r, "invalid_url")
     \/ ~CheckAuthority(Built(Live).target, target[r]) /\ Fail(r, "target_not_allowed")
     \/ /\ CheckAuthority(Built(Live).target, target[r])
        /\ outbound' = [outbound EXCEPT ![r] = Forwarded(r, req[r].headers, Live)]
        /\ hop' = [hop EXCEPT ![r] = target[r]]
        /\ Goto(r, "hop")
        /\ UNCHANGED <<req, target, conn, answer>>
  /\ UNCHANGED <<relayed, pool, policies>>

Connected(r, ip) ==
  /\ conn' = [conn EXCEPT ![r] = ip]
  /\ Goto(r, "sent")
  /\ UNCHANGED <<req, view, target, hop, outbound, answer, relayed, policies>>

Connection(r, ip) == [client |-> Client(view[r].execute), uri |-> hop[r], ip |-> ip]

(* The client keeps the connection, or does not.                           *)
Keep(k) ==
  \/ UNCHANGED pool
  \/ Cardinality(pool \cup {k}) <= MaxKept /\ pool' = pool \cup {k}

(* The client has a connection to the hop's authority: no lookup.          *)
Reuse(r) ==
  /\ phase[r] = "hop"
  /\ \E ip \in {k.ip : k \in pool} :
       Connection(r, ip) \in pool /\ Connected(r, ip)
  /\ UNCHANGED pool

(* What HttpConnector may connect to.  It takes a host that is an address   *)
(* literal as it stands; GuardedResolver is asked for names only.           *)
Candidates(g, host) ==
  IF IsLiteral(host) THEN {Literal[host]}
  ELSE UNION {Resolve(g, host, answers) : answers \in SUBSET Address}

(* An HTTP/2 connection is shared from the start.                          *)
Connect(r) ==
  /\ phase[r] = "hop"
  /\ \E ip \in Candidates(Built(view[r].execute).client.ssrf, hop[r].host) :
       /\ Connected(r, ip)
       /\ Keep(Connection(r, ip))

(* The breaker is open; or the lookup, the guard, the connection or the    *)
(* exchange fails: whichever it was, and an SsrfBlocked of the guard, too, *)
(* arrives as an error of the client and becomes ProxyError::Upstream.     *)
HopFails(r) ==
  /\ phase[r] \in {"hop", "sent"}
  /\ \/ phase[r] = "hop" /\ Fail(r, "circuit_open")
     \/ Fail(r, "upstream_unreachable")
  /\ UNCHANGED <<view, relayed, pool, policies>>

SensitiveHeaders ==
  {"authorization", "cookie", "proxy-authorization", "authentication-info", "www-authenticate"}

(* Mutant of Follow: the next hop starts out on the connection of the last. *)
FollowConnected(r, u) ==
  /\ CheckAuthority(Built(view[r].execute).target, u)
  /\ hop' = [hop EXCEPT ![r] = u]
  /\ Goto(r, "hop")
  /\ UNCHANGED <<req, target, outbound, conn, answer>>

RedirectPolicy(r) == Built(view[r].execute).client.redirect_policy

(* prepare_next; and check_uri at the head of the next round.              *)
Follow(r, u) ==
  \/ ~CheckAuthority(Built(view[r].execute).target, u) /\ Fail(r, "target_not_allowed")
  \/ /\ CheckAuthority(Built(view[r].execute).target, u)
     /\ hop' = [hop EXCEPT ![r] = u]
     /\ outbound' = [outbound EXCEPT ![r] =
          IF Authority(u) = Authority(hop[r]) THEN @ ELSE Remove(@, SensitiveHeaders \cup {"host"})]
     /\ conn' = [conn EXCEPT ![r] = NoAddress]
     /\ Goto(r, "hop")
     /\ UNCHANGED <<req, target, answer>>

(* A redirect the client does not hand back; the connection may be kept.   *)
Redirect(r) ==
  /\ phase[r] = "sent"
  /\ \/ RedirectPolicy(r) = "block" /\ Fail(r, "redirect_blocked")
     \/ RedirectPolicy(r) = "follow" /\ \E kind \in {"too_many_redirects", "invalid_url"} : Fail(r, kind)
     \/ RedirectPolicy(r) = "follow" /\ \E u \in Uris : Follow(r, u)
  /\ Keep(Connection(r, conn[r]))
  /\ UNCHANGED <<view, relayed, policies>>

(* The upstream's answer, through shape_response; 200 is any status of its *)
(* own.                                                                    *)
UpstreamAnswers(r) ==
  /\ phase[r] = "sent"
  /\ LoadFor(r, "shape")
  /\ \E h \in Responses :
       /\ relayed' = [relayed EXCEPT ![r] = h]
       /\ Respond(r, 200,
            Shape(h, Authority(target[r]), Config(Live).security.remove_response_headers,
                  Config(view[r].execute).client.redirect_policy = "rewrite"))
  /\ Keep(Connection(r, conn[r]))
  /\ UNCHANGED policies

(* TimeoutLayer and CatchPanicLayer answer in the handler's place.         *)
Timeout(r) ==
  /\ phase[r] \in {"hop", "sent"}
  /\ Respond(r, 504, Empty)
  /\ UNCHANGED <<view, relayed, pool, policies>>

Panic(r) ==
  /\ phase[r] \in {"arrived", "served", "hop", "sent"}
  /\ Respond(r, 500, Empty)
  /\ UNCHANGED <<view, relayed, pool, policies>>

(* cors_layer, outside all of these: the headers of the request, and the   *)
(* policy that is live by now.                                             *)
Stamp(r) ==
  /\ phase[r] = "answered"
  /\ LoadFor(r, "stamp")
  /\ answer' = [answer EXCEPT ![r].headers = ApplyToResponse(@, req[r].headers, Config(Live).cors)]
  /\ Goto(r, "stamped")
  /\ UNCHANGED <<req, wire, relayed, pool, policies>>

(* The answer has left, or the client has.                                 *)
Leave(r) ==
  /\ phase[r] \in {"hop", "sent", "stamped"}
  /\ Goto(r, "idle")
  /\ req' = [req EXCEPT ![r] = NoRequest]
  /\ view' = [view EXCEPT ![r] = NoView]
  /\ target' = [target EXCEPT ![r] = NoUri]
  /\ hop' = [hop EXCEPT ![r] = NoUri]
  /\ outbound' = [outbound EXCEPT ![r] = Empty]
  /\ conn' = [conn EXCEPT ![r] = NoAddress]
  /\ answer' = [answer EXCEPT ![r] = NoAnswer]
  /\ relayed' = [relayed EXCEPT ![r] = Empty]
  /\ UNCHANGED <<pool, policies>>

(* A kept connection is closed, by either side.                            *)
CloseConnection ==
  /\ \E k \in pool : pool' = pool \ {k}
  /\ UNCHANGED <<phase, req, view, wire, answer, relayed, policies>>

Reload == Reloading!Reload /\ UNCHANGED <<phase, req, view, wire, answer, relayed, pool>>

Step(r) ==
  \/ Arrive(r)
  \/ Refuse(r)
  \/ Usage(r)
  \/ Preflight(r)
  \/ Serve(r)
  \/ Execute(r)
  \/ Reuse(r)
  \/ Connect(r)
  \/ HopFails(r)
  \/ Redirect(r)
  \/ UpstreamAnswers(r)
  \/ Timeout(r)
  \/ Panic(r)
  \/ Stamp(r)
  \/ Leave(r)

Next == Reload \/ CloseConnection \/ \E r \in Request : Step(r)

Spec == Init /\ [][Next]_vars
-----------------------------------------------------------------------------
(* Properties                                                              *)

InFlight == {r \in Request : phase[r] \in {"hop", "sent"}}

(* "no upstream connection is made to an address that violates SSRF         *)
(* policy": a request travels only on a connection to an address that the   *)
(* configuration it was dispatched under admits, though the connection may  *)
(* have been kept from earlier requests, the client through reloads, and    *)
(* the host's addresses may have changed since.  This is for hosts that are *)
(* names; LiteralsVetted is about the others.                               *)
ConnectionsVetted ==
  \A r \in Request :
    phase[r] = "sent" /\ ~IsLiteral(hop[r].host) =>
      conn[r].family # "mapped" /\ CheckIp(Config(view[r].execute).client.ssrf, conn[r])

(* "The guard sits between the URL parser and hyper's connector, so it is   *)
(* impossible to bypass by aiming the proxy at an IP literal": a request to *)
(* a literal travels to an address its configuration admits, as well.       *)
LiteralsVetted ==
  \A r \in Request :
    phase[r] = "sent" /\ IsLiteral(hop[r].host) =>
      CheckIp(Config(view[r].execute).client.ssrf, Canonicalise(conn[r]))

(* inject and set_host_from_target: whatever X-Forwarded-For, Connection    *)
(* and Host lines the client sends, and however often it is redirected, the *)
(* upstream is told the client's own address last, and alone unless inbound *)
(* chains are trusted; and a Host header names the authority it is sent to. *)
UpstreamSeesClient ==
  \A r \in InFlight :
    LET forwarded == Config(view[r].execute).forwarded
        chain == outbound[r]["x-forwarded-for"][1]
    IN
    /\ forwarded.inject =>
         /\ Contains(outbound[r], "x-forwarded-for")
         /\ Len(outbound[r]["x-forwarded-for"]) = 1
         /\ chain[Len(chain)] = req[r].client
         /\ ~forwarded.trust_inbound_xff => chain = <<req[r].client>>
    /\ Contains(outbound[r], "host") => outbound[r]["host"] = <<Authority(hop[r])>>

(* "Strip every header that must not survive a proxy hop": what the first   *)
(* Connection line, the hop-by-hop list or the operator's deny list names   *)
(* goes no further, in either direction and along redirects.  If the        *)
(* upstream gets a header of that name it is the one it would have got      *)
(* without the client's; and the client gets none but the proxy's own.      *)
(* Further Connection lines are the matter of ConnectionNamesStripped.      *)
HopHeadersConfined ==
  \A r \in Request :
    /\ r \in InFlight =>
         \A n \in DOMAIN outbound[r] \cap
              (HopByHop \cup Tokens(req[r].headers, "connection")
                 \cup Config(view[r].execute).security.remove_request_headers) :
           LET own == Forwarded(r, Empty, view[r].execute) IN
           Contains(own, n) /\ outbound[r][n] = own[n]
    /\ phase[r] = "answered" /\ view[r].shape > 0 =>
         DOMAIN answer[r].headers \cap
           (HopByHop \cup Tokens(relayed[r], "connection")
              \cup Config(view[r].shape).security.remove_response_headers)
         \subseteq {"x-corx-target-url", "via"}

(* "... the Connection-listed names (per RFC 7230 6.1)": the names in all   *)
(* Connection lines of a message, which make up one list, those that cannot *)
(* be read left aside.                                                      *)
ConnectionNames(h) ==
  IF Contains(h, "connection")
  THEN UNION {{line[i] : i \in DOMAIN line} :
                line \in {h["connection"][k] : k \in DOMAIN h["connection"]} \ {Unreadable}}
  ELSE {}

(* A header that the client's Connection names reaches the upstream only as *)
(* the one the proxy sets itself.                                           *)
ConnectionNamesStripped ==
  \A r \in InFlight :
    LET own == Forwarded(r, Empty, view[r].execute) IN
    \A n \in DOMAIN outbound[r] \cap ConnectionNames(req[r].headers) :
      Contains(own, n) /\ outbound[r][n] = own[n]

(* validate_cors calls credentials for any origin unsafe: unless the        *)
(* upstream says so itself, an answer allows credentials only to an origin  *)
(* that a configuration which asks for them lists, the one the preflight    *)
(* was answered under or the one the answer was stamped under.              *)
CredentialsOnlyForListed ==
  \A r \in Request :
    /\ phase[r] = "stamped"
    /\ Contains(answer[r].headers, "access-control-allow-credentials")
    /\ ~Contains(relayed[r], "access-control-allow-credentials")
    => \E part \in {"serve", "stamp"} :
         /\ view[r][part] > 0
         /\ Config(view[r][part]).cors.allow_credentials
         /\ Readable(req[r].headers, "origin")
         /\ First(req[r].headers, "origin") \in Config(view[r][part]).cors.origins

(* "every response path (errors, load-shed, success) shares one owner", and *)
(* "Always Vary on Origin so caches behave correctly": on every path an     *)
(* origin the policy admits may read the answer, and the answer varies on   *)
(* Origin unless the upstream's own Vary cannot be read.                    *)
AnswersReadable ==
  \A r \in Request :
    phase[r] = "stamped" =>
      LET h == answer[r].headers
          c == Config(view[r].stamp).cors
      IN
      /\ Resolves(c, req[r].headers) =>
           Contains(h, "access-control-allow-origin")
             /\ First(h, "access-control-allow-origin") \in {AnyOrigin, First(req[r].headers, "origin")}
      /\ \/ "origin" \in Tokens(h, "vary")
         \/ Contains(relayed[r], "vary") /\ ~Readable(relayed[r], "vary")

(* "TargetPolicy and the per-host CircuitBreaker run on every hop": a       *)
(* gateway's status (502, 504, 508) of the proxy's own is given only to a   *)
(* request whose target the target policy had admitted.  What that policy   *)
(* refuses is never blamed on the upstream, by serve, client or redirect;   *)
(* a refusal by the SSRF guard, which comes out of the connector as any     *)
(* other failure of a hop, is.                                              *)
TargetAdmittedBeforeBlame ==
  \A r \in Request :
    answer[r].status \in {502, 504, 508} =>
      view[r].execute > 0 /\ CheckAuthority(Config(view[r].execute).target, target[r])
=============================================================================
