----------------------------- MODULE TargetUrl -----------------------------
(***************************************************************************)
(* The target parser of corx-core (proxy/url_parser.rs).  A text is told   *)
(* by what the parser looks at: whether it decodes (percent-encoding, then *)
(* UTF-8), its scheme ("" when it has none), whether a text without one    *)
(* has "://" further on, user info, a fragment, its host and its port (0   *)
(* when it names none).                                                    *)
(***************************************************************************)
EXTENDS Integers

CONSTANTS
  Punycode,    \* what the url and idna crates make of host names
  NoHost,      \* ... when they refuse: no host, not an IDN, or too long
  NoText       \* no text

Schemes == {"http", "https"}

KnownPort(scheme) == IF scheme = "https" THEN 443 ELSE 80

(* candidate_from_uri: the url parameter wins over the path.               *)
Candidate(param, path) == IF param # NoText THEN param ELSE path

(* What normalize_scheme can complete.  A text without a scheme but with   *)
(* "://" in it is taken to have an unknown scheme.                         *)
Normalizable(t) == t.scheme \in Schemes \/ (t.scheme = "" /\ ~t.nested)

NormalizeScheme(t) ==
  CASE t.scheme # "" -> t.scheme
    [] t.port = 443 -> "https"
    [] OTHER -> "http"

(* A TargetUrl; its url keeps no port that is the scheme's own.            *)
Target(t) ==
  [scheme |-> NormalizeScheme(t), host |-> Punycode[t.host],
   port |-> IF t.port = KnownPort(NormalizeScheme(t)) THEN 0 ELSE t.port]

(* extract_target and validate.                                            *)
Valid(t) ==
  /\ t # NoText
  /\ t.decodes
  /\ Normalizable(t)
  /\ ~t.userinfo /\ ~t.fragment
  /\ Punycode[t.host] # NoHost

(* The authority of to_uri, and of the Host header, as a line.             *)
Authority(u) == IF u.port = 0 THEN <<u.host>> ELSE <<u.host, u.port>>
=============================================================================
