----------------------------- MODULE MCExchange -----------------------------
(* One task, requests that use what the filters and policies tell apart,   *)
(* and configurations that differ in what each section tells apart.        *)
EXTENDS Exchange, TLC

CONSTANTS TooLong

(* The host "ip" is a literal.                                             *)
MCPunycode ==
  ("a" :> "a") @@ ("b" :> "b") @@ ("A" :> "a") @@ ("ip" :> "ip") @@ (TooLong :> NoHost)

MCLiteral == "ip" :> [family |-> "v4", zone |-> "private", n |-> 2]

Text ==
  [decodes |-> TRUE, scheme |-> "http", nested |-> FALSE, userinfo |-> FALSE, fragment |-> FALSE,
   host |-> "a", port |-> 0]

Plain ==
  [method |-> "GET", root |-> FALSE, path |-> Text, param |-> NoText, client |-> "client",
   scheme |-> "", headers |-> ("origin" :> <<<<"o1">>>>) @@ ("host" :> <<<<"proxy">>>>)]

(* Texts the parser completes, normalises or refuses.                      *)
Texts ==
  {Text,
   [Text EXCEPT !.scheme = "", !.host = "A", !.port = 443],
   [Text EXCEPT !.scheme = "", !.port = 80],
   [Text EXCEPT !.host = "ip"],
   [Text EXCEPT !.scheme = "", !.nested = TRUE],
   [Text EXCEPT !.scheme = "ftp"],
   [Text EXCEPT !.host = TooLong],
   [Text EXCEPT !.userinfo = TRUE],
   [Text EXCEPT !.decodes = FALSE]}

(* Forged and malformed forwarding headers, and Connection lines that name *)
(* headers the proxy sets itself and headers nobody else removes.          *)
Forged ==
  ("x-forwarded-for" :> <<<<"forged">>, <<"second">>>>) @@ ("origin" :> <<<<"o2">>>>)
    @@ ("connection" :> <<<<"x-forwarded-for", "host", "x-first">>, <<"x-second">>>>)
    @@ ("x-first" :> <<<<"1">>>>) @@ ("x-second" :> <<<<"2">>>>) @@ ("cookie" :> <<<<"c">>>>) @@ ("te" :> <<<<"trailers">>>>)

Chained ==
  ("x-forwarded-for" :> <<<<"earlier">>>>) @@ ("authorization" :> <<<<"t">>>>)
    @@ ("origin" :> <<<<"o2">>>>) @@ ("user-agent" :> <<<<"ua">>>>) @@ ("x-request-id" :> <<<<"id">>>>)

Garbled ==
  ("x-forwarded-for" :> <<Unreadable>>) @@ ("connection" :> <<Unreadable>>)
    @@ ("origin" :> <<Unreadable>>) @@ ("host" :> <<Unreadable>>)

Asking ==
  ("origin" :> <<<<"o1">>>>) @@ ("access-control-request-method" :> <<<<"PUT">>>>)
    @@ ("access-control-request-private-network" :> <<<<"true">>>>)

MCIncoming ==
  {[Plain EXCEPT !.path = t] : t \in Texts}
  \cup {[Plain EXCEPT !.headers = h] : h \in {Forged, Chained, Garbled}}
  \cup {[Plain EXCEPT !.path = NoText],
        [Plain EXCEPT !.path = NoText, !.root = TRUE, !.param = Text],
        [Plain EXCEPT !.param = [Text EXCEPT !.host = "b"], !.scheme = "https"],
        [Plain EXCEPT !.method = "OPTIONS", !.headers = Asking],
        [Plain EXCEPT !.method = "OPTIONS", !.headers = ("origin" :> <<<<"o2">>>>) @@ Asking]}

MCUris ==
  {[scheme |-> "http", host |-> "a", port |-> 0], [scheme |-> "https", host |-> "a", port |-> 0],
   [scheme |-> "http", host |-> "b", port |-> 0], [scheme |-> "http", host |-> "ip", port |-> 0]}

MCResponses ==
  {Empty,
   ("vary" :> <<<<"accept">>, <<"cookie">>>>) @@ ("via" :> <<<<"1.0 cdn">>>>)
     @@ ("connection" :> <<<<"via", "x-hop">>>>) @@ ("x-hop" :> <<<<"h">>>>)
     @@ ("location" :> <<<<"http", "b">>>>),
   ("vary" :> <<Unreadable>>) @@ ("set-cookie" :> <<<<"s">>>>)
     @@ ("access-control-allow-origin" :> <<<<"*">>>>)
     @@ ("access-control-allow-credentials" :> <<<<"true">>>>)}

(* A public address, a private one written as IPv6, a reserved IPv6 one.   *)
MCAddress ==
  {[family |-> "v4", zone |-> "public", n |-> 1],
   [family |-> "mapped", zone |-> "private", n |-> 2],
   [family |-> "v6", zone |-> "reserved", n |-> 3]}

Base ==
  [server |-> [bind |-> "8080", http2 |-> TRUE, tls |-> "off", graceful_shutdown |-> 30],
   limits |-> [max_request_body_bytes |-> 1],
   metrics |-> "/metrics",
   rate |-> [enabled |-> FALSE, max_keys |-> 0, dims |-> {}],
   circuit |-> [enabled |-> FALSE, failure_threshold |-> 0],
   target |-> [mode |-> "any_public", hosts |-> {}, schemes |-> {}, https_only |-> FALSE],
   client |-> [pool_max_idle_per_host |-> 1, user_agent |-> "corx", redirect_policy |-> "follow",
               ssrf |-> [mode |-> "strict", allow_private |-> FALSE, allow_ipv6 |-> TRUE,
                         extra_blocked_cidrs |-> {}, extra_allowed_cidrs |-> {}]],
   cors |-> [policy |-> "explicit", origins |-> {<<"o1">>}, allow_any_origin |-> FALSE,
             allow_credentials |-> TRUE, allow_private_network |-> TRUE, allowed_methods |-> <<>>,
             allowed_headers |-> <<"accept">>, exposed_headers |-> <<>>],
   security |-> [bearer |-> FALSE, tokens |-> {}, require_client_binding |-> FALSE,
                 origin_whitelist |-> {}, remove_request_headers |-> {"cookie"},
                 remove_response_headers |-> {"set-cookie"}],
   forwarded |-> [inject |-> TRUE, trust_inbound_xff |-> FALSE, inject_request_id |-> TRUE]]

(* What load accepts, and one file for every error it knows.               *)
Accepted ==
  {Base,
   [Base EXCEPT !.cors.policy = "reflect", !.cors.origins = {}, !.cors.allow_any_origin = TRUE,
                !.cors.allow_credentials = FALSE, !.cors.exposed_headers = <<"x-request-id">>],
   [Base EXCEPT !.cors.policy = "wildcard", !.cors.allow_credentials = FALSE,
                !.forwarded.trust_inbound_xff = TRUE, !.client.ssrf.mode = "permissive",
                !.target.mode = "denylist", !.target.hosts = {"b"}, !.target.schemes = {"http"}],
   [Base EXCEPT !.client.ssrf.extra_allowed_cidrs = {[family |-> "v4", zone |-> "private", n |-> 2]},
                !.client.ssrf.allow_ipv6 = FALSE, !.forwarded.inject = FALSE],
   [Base EXCEPT !.client.redirect_policy = "rewrite", !.server.tls = "on"],
   [Base EXCEPT !.client.redirect_policy = "block", !.target.https_only = TRUE, !.server.tls = "on",
                !.server.graceful_shutdown = 5]}

Rejected ==
  {[Base EXCEPT !.cors.policy = "reflect", !.cors.origins = {}, !.cors.allow_any_origin = TRUE],
   [Base EXCEPT !.cors.policy = "wildcard"],
   [Base EXCEPT !.cors.origins = {}],
   [Base EXCEPT !.target.mode = "allowlist"],
   [Base EXCEPT !.security.bearer = TRUE],
   [Base EXCEPT !.security.require_client_binding = TRUE],
   [Base EXCEPT !.circuit.enabled = TRUE],
   [Base EXCEPT !.limits.max_request_body_bytes = 0],
   [Base EXCEPT !.rate = [enabled |-> TRUE, max_keys |-> 1, dims |-> {}]],
   [Base EXCEPT !.client.pool_max_idle_per_host = 0],
   [Base EXCEPT !.server.tls = "missing"]}

MCFiles == Accepted \cup Rejected
=============================================================================
