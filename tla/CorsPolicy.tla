----------------------------- MODULE CorsPolicy -----------------------------
(***************************************************************************)
(* The CORS policy of corx-core (proxy/cors.rs): pure functions from a     *)
(* configuration c (config/cors.rs), the headers q of a request and the    *)
(* headers h of its answer to the headers that leave the proxy.  Origins,  *)
(* like every header value, are lines; a list that is empty is <<>>.       *)
(***************************************************************************)
EXTENDS HeaderMap

CorsHeaders ==
  {"access-control-allow-origin", "access-control-allow-credentials", "access-control-expose-headers"}

(* PolicyMode: the origins that reflect and explicit admit.  Without a list *)
(* reflect admits every origin, or none.                                    *)
Gate(c, origin) ==
  \/ c.policy = "reflect" /\ c.origins = {} /\ c.allow_any_origin
  \/ origin \in c.origins

AnyOrigin == <<"*">>

(* The request has an origin the policy has an answer for.                 *)
Resolves(c, q) ==
  \/ c.policy = "wildcard" /\ ~c.allow_credentials
  \/ /\ Readable(q, "origin")
     /\ c.policy # "wildcard" => Gate(c, First(q, "origin"))

ResolveAllowOrigin(c, q) ==
  IF c.policy = "wildcard" /\ ~c.allow_credentials THEN AnyOrigin ELSE First(q, "origin")

(* Nothing is added to a line that cannot be read, or has the name already. *)
AppendVary(h, name) ==
  IF (Contains(h, "vary") /\ ~Readable(h, "vary")) \/ name \in Tokens(h, "vary")
  THEN h
  ELSE Extend(h, "vary", name)

(* Mutant of ApplyCorsBase: no Vary unless the origin is admitted.          *)
ApplyCorsBaseEarly(h, q, c) ==
  IF Resolves(c, q)
  THEN LET allowed == Insert(h, "access-control-allow-origin", ResolveAllowOrigin(c, q)) IN
       AppendVary(InsertIf(c.allow_credentials, allowed, "access-control-allow-credentials", <<"true">>),
                  "origin")
  ELSE h

(* What the upstream said stays where the policy says nothing.             *)
ApplyCorsBase(h, q, c) ==
  LET allowed == InsertIf(Resolves(c, q), h, "access-control-allow-origin", ResolveAllowOrigin(c, q)) IN
  AppendVary(InsertIf(Resolves(c, q) /\ c.allow_credentials, allowed,
                      "access-control-allow-credentials", <<"true">>),
             "origin")

(* apply_to_response, and apply_to_error_response.                         *)
ApplyToResponse(h, q, c) ==
  InsertIf(c.exposed_headers # <<>>, ApplyCorsBase(h, q, c),
           "access-control-expose-headers", c.exposed_headers)

(* The configured list, or else an echo of the request's line.             *)
Advertise(h, name, list, q, asked) ==
  InsertIf(list # <<>> \/ Contains(q, asked), h, name, IF list # <<>> THEN list ELSE First(q, asked))

(* build_preflight_response: all but the origin is granted to whoever asks. *)
BuildPreflightResponse(q, c) ==
  LET base == ApplyCorsBase(Empty, q, c)
      methods == Advertise(base, "access-control-allow-methods", c.allowed_methods,
                           q, "access-control-request-method")
      headers == Advertise(methods, "access-control-allow-headers", c.allowed_headers,
                           q, "access-control-request-headers")
      aged == Insert(headers, "access-control-max-age", <<"max_age">>)
      private == InsertIf(c.allow_private_network /\ Contains(q, "access-control-request-private-network"),
                          aged, "access-control-allow-private-network", <<"true">>)
  IN AppendVary(AppendVary(private, "access-control-request-method"), "access-control-request-headers")

IsPreflight(method, q) ==
  method = "OPTIONS" /\ Contains(q, "origin") /\ Contains(q, "access-control-request-method")
=============================================================================
