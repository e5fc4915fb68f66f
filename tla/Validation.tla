----------------------------- MODULE Validation -----------------------------
(***************************************************************************)
(* Config::validate_full (config/validate.rs) and config_loader::load: the *)
(* errors a configuration is refused for, each named by its path.          *)
(* Warnings refuse nothing and are left out.                               *)
(***************************************************************************)
EXTENDS Integers

ErrorIf(cond, path) == IF cond THEN {path} ELSE {}

(* Mutant of ValidateCors: credentials for any origin.                      *)
ValidateCorsButReflect(cors) ==
  ErrorIf(cors.policy = "wildcard" /\ cors.allow_credentials, "cors.allow_credentials")
  \cup ErrorIf(cors.policy = "explicit" /\ cors.origins = {}, "cors.origins")

ValidateCors(cors) ==
  ErrorIf(cors.policy = "wildcard" /\ cors.allow_credentials, "cors.allow_credentials")
  \cup ErrorIf(cors.policy = "explicit" /\ cors.origins = {}, "cors.origins")
  \cup ErrorIf(cors.policy = "reflect" /\ cors.allow_any_origin /\ cors.allow_credentials,
               "cors.allow_any_origin")

ValidateTarget(target) ==
  ErrorIf(target.mode = "allowlist" /\ target.hosts = {}, "target.hosts")

ValidateAuth(security, tls) ==
  LET bearer == security.bearer /\ security.tokens # {} IN
  ErrorIf(security.bearer /\ security.tokens = {}, "security.auth.bearer_tokens")
  \cup ErrorIf(security.require_client_binding
                 /\ security.origin_whitelist = {} /\ ~bearer /\ tls # "mutual",
               "security.require_client_binding")

ValidateCircuit(circuit) ==
  ErrorIf(circuit.enabled /\ circuit.failure_threshold = 0, "circuit_breaker.failure_threshold")

ValidateLimits(limits) ==
  ErrorIf(limits.max_request_body_bytes = 0, "limits.max_request_body_bytes")

(* dims: the dimensions, each with its rps and burst.                      *)
ValidateRateLimit(rate) ==
  LET metered == {d \in rate.dims : d.rps > 0} IN
  IF ~rate.enabled THEN {} ELSE
  ErrorIf(rate.max_keys = 0, "rate_limit.max_keys")
  \cup ErrorIf(metered = {}, "rate_limit")
  \cup ErrorIf(\E d \in metered : d.burst = 0, "burst")

ValidateUpstream(client) ==
  ErrorIf(client.pool_max_idle_per_host = 0, "upstream.pool_max_idle_per_host")
  \cup ErrorIf(client.user_agent = "", "upstream.user_agent")

(* tls: "off", "on", "mutual", or "missing" files.                         *)
ValidateTls(tls) == ErrorIf(tls = "missing", "server.tls")

Errors(c) ==
  UNION {ValidateCors(c.cors), ValidateLimits(c.limits), ValidateRateLimit(c.rate),
         ValidateUpstream(c.client), ValidateTls(c.server.tls), ValidateTarget(c.target),
         ValidateAuth(c.security, c.server.tls), ValidateCircuit(c.circuit)}

(* load: what startup and reload ever see.                                 *)
Load(files) == {c \in files : Errors(c) = {}}
=============================================================================
