----------------------------- MODULE SsrfGuard -----------------------------
(***************************************************************************)
(* The address policy of corx-core (proxy/ssrf.rs).  An address is told by *)
(* its family, the zone it lies in and a number; "mapped" is an IPv4       *)
(* address written as an IPv6 one.  A list of ranges is the set of the     *)
(* addresses in them.  A guard g is the ssrf section of a configuration.   *)
(***************************************************************************)
EXTENDS Integers

(* The hosts that are address literals, each with the address it spells;    *)
(* all other hosts are names.                                               *)
CONSTANT Literal

IsLiteral(host) == host \in DOMAIN Literal

(* Zones: in PRIVATE_RANGES; otherwise in DEFAULT_BLOCKED_CIDRS; neither.  *)
Zones == {"private", "reserved", "public"}

DefaultBlocked(ip) == ip.zone \in {"private", "reserved"} \/ ip.family = "mapped"

Private(ip) == ip.zone = "private" /\ ip.family # "mapped"

Canonicalise(ip) == IF ip.family = "mapped" THEN [ip EXCEPT !.family = "v4"] ELSE ip

(* The allowlist wins; permissive reads no other list.                     *)
Evaluate(g, ip) ==
  \/ ip \in g.extra_allowed_cidrs
  \/ g.mode = "strict" /\ ~DefaultBlocked(ip) /\ ip \notin g.extra_blocked_cidrs
  \/ g.mode = "permissive" /\ (g.allow_private \/ ~Private(ip))

(* check_ip, of the canonical form; and the body of resolve's loop.        *)
CheckIp(g, ip) == (g.allow_ipv6 \/ ip.family # "v6") /\ Evaluate(g, ip)

(* resolve: a literal stands for itself, a name for what a lookup answers;  *)
(* of these, the addresses the connector may use; none is an error.         *)
Resolve(g, host, answers) ==
  LET found == IF IsLiteral(host) THEN {Literal[host]} ELSE answers IN
  {ip \in {Canonicalise(raw) : raw \in found} : CheckIp(g, ip)}
=============================================================================
