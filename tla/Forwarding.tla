----------------------------- MODULE Forwarding -----------------------------
(***************************************************************************)
(* What the proxy does to the headers of a message it passes on: the hop   *)
(* filter (proxy/headers.rs), the forwarding headers (proxy/forwarded.rs)  *)
(* and the helpers of handlers/outbound.rs.  Pure functions over HeaderMap. *)
(***************************************************************************)
EXTENDS HeaderMap

HopByHop ==
  {"connection", "keep-alive", "proxy-authenticate", "proxy-authorization", "te", "trailer",
   "transfer-encoding", "upgrade", "proxy-connection"}

(* Mutant of ConnectionListed: the names in Connection are ignored.         *)
ConnectionIgnored(h) == {}

(* strip_connection_listed: of several Connection lines only the first.    *)
ConnectionListed(h) == Tokens(h, "connection")

(* HeaderFilter::apply.                                                    *)
Apply(h, deny) == Remove(h, ConnectionListed(h) \cup HopByHop \cup deny)

(* The parts of a Forwarded value, that there is no host included.         *)
BuildForwardedValue(in, host) == <<in.client, in.scheme>> \o in.host \o <<host>>

EnsureRequestId(h) == InsertIf(~Contains(h, "x-request-id"), h, "x-request-id", <<"uuid">>)

(* append_xff and replace_xff.                                             *)
ForwardedFor(h, in, cfg) ==
  IF cfg.trust_inbound_xff
  THEN Extend(h, "x-forwarded-for", in.client)
  ELSE Insert(h, "x-forwarded-for", <<in.client>>)

(* inject, for the inbound context in (its host a line, or <<>>) and the   *)
(* host of the target.                                                     *)
Inject(h, in, host, cfg) ==
  LET named == IF cfg.inject_request_id THEN EnsureRequestId(h) ELSE h
      proto == Insert(ForwardedFor(named, in, cfg), "x-forwarded-proto", <<in.scheme>>)
      hosted == InsertIf(in.host # <<>>, proto, "x-forwarded-host", in.host)
      ported == Insert(hosted, "x-forwarded-port", <<in.port>>)
  IN IF cfg.inject
     THEN Insert(ported, "forwarded", BuildForwardedValue(in, host))
     ELSE named

DefaultUserAgent(h, agent) == InsertIf(~Contains(h, "user-agent"), h, "user-agent", <<agent>>)

SetHost(h, authority) == Insert(h, "host", authority)

(* Mutant of Outbound: the forwarding headers go through the filter too.    *)
OutboundFilteredLast(h, in, host, authority, deny, cfg, agent) ==
  SetHost(DefaultUserAgent(Apply(Inject(h, in, host, cfg), deny), agent), authority)

(* The headers execute_proxy hands to the client.                          *)
Outbound(h, in, host, authority, deny, cfg, agent) ==
  SetHost(DefaultUserAgent(Inject(Apply(h, deny), in, host, cfg), agent), authority)

(* rewrite_location_header: an absolute URL, of which the first token is    *)
(* the scheme, becomes a path of the proxy.                                 *)
RewriteLocation(h) ==
  IF Readable(h, "location") /\ First(h, "location")[1] \in {"http", "https"}
  THEN Insert(h, "location", <<"/">> \o First(h, "location"))
  ELSE h

(* shape_response: the headers of the upstream's answer.                   *)
Shape(h, url, deny, rewrite) ==
  LET via == Extend(Insert(Apply(h, deny), "x-corx-target-url", url), "via", "1.1 corx") IN
  IF rewrite THEN RewriteLocation(via) ELSE via
=============================================================================
