----------------------------- MODULE MCUpstream -----------------------------
(* The redirect loop on three authorities: a, the same host spelled in     *)
(* capitals (A), and another host (b).                                     *)
EXTENDS Upstream, TLC

CONSTANTS a, A, b

MCAuthority == {a, A, b}
MCFold == (a :> a) @@ (A :> a) @@ (b :> b)
MCHostOf == (a :> a) @@ (A :> A) @@ (b :> b)

(* Requests that have something to lose on the way.                        *)
MCIncoming == {q \in InitialRequests : q.creds /\ q.length = q.body}

Open ==
  [redirect_policy |-> "follow", max_redirects |-> 2, allow_downgrade |-> FALSE,
   count_5xx |-> TRUE, mode |-> "any_public", hosts |-> {}, schemes |-> {},
   https_only |-> FALSE]

(* One setting changed at a time, and the settings that exclude each other. *)
MCConfigs ==
  {Open,
   [Open EXCEPT !.redirect_policy = "rewrite"],
   [Open EXCEPT !.redirect_policy = "block"],
   [Open EXCEPT !.max_redirects = 0],
   [Open EXCEPT !.allow_downgrade = TRUE, !.count_5xx = FALSE],
   [Open EXCEPT !.mode = "allowlist", !.hosts = {a}],
   [Open EXCEPT !.mode = "denylist", !.hosts = {a}],
   [Open EXCEPT !.allow_downgrade = TRUE, !.https_only = TRUE],
   [Open EXCEPT !.allow_downgrade = TRUE, !.schemes = {"https"}]}
=============================================================================
