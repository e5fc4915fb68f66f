------------------------- MODULE MCRequestPipeline -------------------------
(* Requests racing with reloads.                                           *)
EXTENDS RequestPipeline

Guard ==
  [blocked |-> {"CONNECT"}, blacklist |-> {"bad"}, whitelist |-> {},
   required |-> {"origin", "x-requested-with"}]

Base ==
  [server |-> [bind |-> 1, http2 |-> TRUE, tls |-> "off", graceful_shutdown |-> 30],
   limits |-> [inflight_max |-> 1], metrics |-> 1,
   bearer |-> TRUE, tokens |-> {"old"}, guard |-> Guard,
   target |-> {"a", "b"}, client |-> 1, rate |-> 1, circuit |-> 1]

(* One changes a field of server that a reload may change, two what it may  *)
(* not.                                                                     *)
MCConfigs ==
  {Base,
   [Base EXCEPT !.bearer = FALSE, !.circuit = 2, !.guard.blocked = {"OPTIONS"}],
   [Base EXCEPT !.tokens = {"new"}, !.rate = 2, !.guard.whitelist = {"o"}],
   [Base EXCEPT !.target = {"b"}, !.guard.blacklist = {"o"}, !.server.graceful_shutdown = 5],
   [Base EXCEPT !.limits.inflight_max = 0],
   [Base EXCEPT !.server.bind = 2]}

Ordinary ==
  [ops |-> FALSE, method |-> "GET", preflight |-> FALSE, oversized |-> FALSE,
   token |-> "old", origin |-> "o", headers |-> {"origin"}, target |-> "a"]

MCIncoming ==
  {Ordinary,
   [Ordinary EXCEPT !.token = "new", !.target = "b",
                    !.origin = "none", !.headers = {"x-requested-with"}],
   [Ordinary EXCEPT !.method = "OPTIONS", !.token = "none"],
   [Ordinary EXCEPT !.method = "OPTIONS", !.preflight = TRUE, !.token = "none"],
   [Ordinary EXCEPT !.ops = TRUE, !.token = "none"],
   [Ordinary EXCEPT !.oversized = TRUE]}
=============================================================================
