----------------------------- MODULE ErrorKind -----------------------------
(***************************************************************************)
(* The error table of corx-core (error.rs): what a ProxyError is called in *)
(* x-corx-status and the status a client gets for it.  A ProxyError is     *)
(* named by its kind.                                                      *)
(***************************************************************************)
EXTENDS Integers

ErrorKinds ==
  {"invalid_url", "missing_required_header", "origin_not_allowed", "ssrf_blocked", "dns_failure",
   "upstream_unreachable", "upstream_timeout", "too_many_redirects", "tls_failure",
   "payload_too_large", "rate_limited", "target_not_allowed", "unauthorized", "circuit_open",
   "redirect_blocked", "io", "internal"}

(* Mutant of BadGateway: a target refused by policy looks like one.         *)
BadGatewayOrRefused == {"dns_failure", "upstream_unreachable", "tls_failure", "target_not_allowed"}

BadGateway == {"dns_failure", "upstream_unreachable", "tls_failure"}

Status(kind) ==
  CASE kind \in BadGateway -> 502
    [] kind \in {"invalid_url", "missing_required_header"} -> 400
    [] kind \in {"origin_not_allowed", "ssrf_blocked", "target_not_allowed", "redirect_blocked"} -> 403
    [] kind = "upstream_timeout" -> 504
    [] kind = "too_many_redirects" -> 508
    [] kind = "payload_too_large" -> 413
    [] kind = "rate_limited" -> 429
    [] kind = "unauthorized" -> 401
    [] kind = "circuit_open" -> 503
    [] kind \in {"io", "internal"} -> 500
=============================================================================
