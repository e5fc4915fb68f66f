------------------------------ MODULE Upstream ------------------------------
(***************************************************************************)
(* Upstream::execute of corx-core (proxy/upstream.rs) with the redirect    *)
(* machinery (proxy/redirect.rs) and the target admission policy           *)
(* (policy/target.rs), composed with the circuit breaker: every turn of    *)
(* the loop is one hop of CircuitBreaker, for the host of that turn's URI. *)
(*                                                                         *)
(* execute awaits in one place only, the answer of the client; there the   *)
(* request timeout or a gone client may drop it.  Everything between two   *)
(* accesses to the breaker's shared map is local and belongs to the step   *)
(* of the access.                                                          *)
(***************************************************************************)
EXTENDS Integers, FiniteSets

CONSTANTS
  Request,    \* tasks that run execute
  Authority,  \* URI authorities, as spelled
  Fold,       \* Fold[a]: the authority a with its case folded
  HostOf,     \* HostOf[a]: the host part of a, as spelled
  FoldHost,   \* FoldHost[h]: the host name h with its case folded
  NoAuthority,
  NoRequest,  \* the request of a task that is not in execute
  Incoming,   \* the requests handed to execute
  Configs,    \* the client configurations to consider
  Host, NoHost, FailureThreshold, Window, OpenDuration, HalfOpenMax, MaxHosts,
  MaxTime     \* the breaker's

Schemes == {"http", "https"}

(* ClientConfig and TargetPolicy.  hosts stands for the hosts its patterns *)
(* match (host_matches).                                                   *)
ClientConfig ==
  [redirect_policy: {"follow", "rewrite", "block"},
   max_redirects: 0..255,
   allow_downgrade: BOOLEAN,
   count_5xx: BOOLEAN,
   mode: {"any_public", "allowlist", "denylist"},
   hosts: SUBSET Host,
   schemes: SUBSET Schemes,
   https_only: BOOLEAN]

VARIABLES
  cfg,      \* the configuration of this client
  phase,    \* where each task is in execute
  req,      \* RedirectState and the request built from it
  hops,     \* redirects followed
  outcome,  \* what execute returned, and the Location that led to it
  seen,     \* history: the URIs the task dispatched requests to
  sent,     \* history: how many requests the task dispatched
  faulty,   \* history: hosts a failure was reported for
  enabled, now, hosts, pc, target, at, evict, touched, role, log, rescued

breaker ==
  <<enabled, now, hosts, pc, target, at, evict, touched, role, log, rescued>>
requests == <<phase, req, hops, outcome, seen, sent>>
vars == <<cfg, requests, faulty, breaker>>

Breaker == INSTANCE CircuitBreaker WITH Hop <- Request
-----------------------------------------------------------------------------
(* Requests                                                                *)

Uri == [scheme: Schemes \cup {"other"}, authority: Authority]

Methods == {"GET", "POST"}
BodyBearing(method) == method = "POST"

(* creds: the SENSITIVE_HEADERS; host: the Host header; length: a nonzero   *)
(* Content-Length; body: the body of the incoming request, not an empty one. *)
HopRequest ==
  [method: Methods, uri: Uri, creds: BOOLEAN,
   host: Authority \cup {NoAuthority}, length: BOOLEAN, body: BOOLEAN]

(* What the handler hands over: the target parser has lowercased the host, *)
(* set_host_from_target has put it in the Host header.                     *)
InitialRequests ==
  {q \in HopRequest :
     /\ q.uri.scheme \in Schemes
     /\ q.uri.authority = Fold[q.uri.authority]
     /\ q.host = q.uri.authority
     /\ q.length => q.body}

(* A Location header: missing or not text, not a URI, a relative reference, *)
(* one with "://" in its query, or an absolute URI.                         *)
Forms == {"none", "malformed", "relative", "embedded", "absolute"}

Kinds ==
  {"none", "ok", "upstream", "target_not_allowed", "circuit_open",
   "redirect_blocked", "too_many_redirects", "invalid_url", "cancelled"}

Outcomes == [kind: Kinds, location: Forms]

NoOutcome == [kind |-> "none", location |-> "none"]

ASSUME UpstreamAssumption ==
  /\ Fold \in [Authority -> Authority]
  /\ \A a \in Authority : Fold[Fold[a]] = Fold[a]
  /\ HostOf \in [Authority -> Host]
  /\ FoldHost \in [Host -> Host]
  /\ NoAuthority \notin Authority
  /\ Incoming \subseteq InitialRequests
  /\ Configs \subseteq ClientConfig

(* CircuitAssumption of the breaker's constants.                           *)
ASSUME BreakerAssumption ==
  /\ {FailureThreshold, HalfOpenMax, MaxHosts} \subseteq Nat \ {0}
  /\ {Window, OpenDuration, MaxTime} \subseteq Nat
  /\ IsFiniteSet(Host) /\ NoHost \notin Host
  /\ IsFiniteSet(Request)
-----------------------------------------------------------------------------
(* TargetPolicy                                                            *)

AllowedSchemes == IF cfg.schemes = {} THEN Schemes ELSE cfg.schemes

CheckAuthority(scheme, host) ==
  /\ cfg.https_only => scheme = "https"
  /\ scheme \in AllowedSchemes
  /\ cfg.mode = "allowlist" => FoldHost[host] \in cfg.hosts
  /\ cfg.mode = "denylist" => FoldHost[host] \notin cfg.hosts

CheckUri(uri) == CheckAuthority(uri.scheme, HostOf[uri.authority])
-----------------------------------------------------------------------------
(* redirect.rs                                                             *)

(* Mutant of Resolved: require_safe_scheme forgotten.                       *)
ResolvedAnyScheme(base, form, uri) ==
  {u \in {base, uri} :
     \/ form = "relative" /\ u.scheme = base.scheme
     \/ form = "absolute" /\ u = uri}

(* resolve_location and require_safe_scheme: the URIs a Location of this     *)
(* form leads to, none when it is refused.  A relative reference names a     *)
(* path, or another authority under the same scheme.  Anything with "://" in *)
(* it is parsed as it stands, and a relative reference so has no scheme.     *)
Resolved(base, form, uri) ==
  {u \in {base, uri} :
     \/ form = "relative" /\ u.scheme = base.scheme
     \/ form = "absolute" /\ u = uri /\ u.scheme \in Schemes}

IsDowngrade(from, to) == from.scheme = "https" /\ to.scheme = "http"

AuthorityDiffers(a, b) == Fold[a] # Fold[b]

(* 301, 302 and 303 turn a body-bearing method into GET and drop the body;  *)
(* 307 and 308 keep the method.                                             *)
DropsBody(method, status) == status = "found" /\ BodyBearing(method)
NextMethod(method, status) == IF DropsBody(method, status) THEN "GET" ELSE method

(* Mutant of CannotReplay: 307 and 308 followed whatever the method.        *)
ReplaysAll(q, status) == FALSE

CannotReplay(q, status) ==
  ~DropsBody(q.method, status) /\ BodyBearing(NextMethod(q.method, status))

(* Mutant of PrepareNext: the headers are inherited across authorities.     *)
PrepareNextKeepsHeaders(q, status, uri) ==
  [method |-> NextMethod(q.method, status), uri |-> uri,
   creds |-> q.creds, host |-> q.host, length |-> q.length, body |-> FALSE]

(* The request prepare_next builds when it continues: headers inherited but *)
(* for the sensitive ones and Host across authorities, and an empty body.   *)
PrepareNext(q, status, uri) ==
  LET cross == AuthorityDiffers(q.uri.authority, uri.authority) IN
  [method |-> NextMethod(q.method, status), uri |-> uri,
   creds |-> q.creds /\ ~cross,
   host |-> IF cross THEN NoAuthority ELSE q.host,
   length |-> q.length, body |-> FALSE]

(* Mutant of InvalidLocation: the downgrade gate left out.                  *)
InvalidWithoutGate(q, form, uri) ==
  form # "none" /\ Resolved(q.uri, form, uri) = {}

InvalidLocation(q, form, uri) ==
  /\ form # "none"
  /\ \A u \in Resolved(q.uri, form, uri) :
       ~cfg.allow_downgrade /\ IsDowngrade(q.uri, u)

(* NextHop::Stop: no usable Location, or a body that cannot be sent again.  *)
StopsAt(q, status, form, uri) ==
  \/ form = "none"
  \/ ~InvalidLocation(q, form, uri) /\ CannotReplay(q, status)
-----------------------------------------------------------------------------
Active == {r \in Request : phase[r] # "idle"}

TypeOK ==
  /\ cfg \in Configs
  /\ phase \in [Request -> {"idle", "loop", "hop"}]
  /\ req \in [Request -> HopRequest \cup {NoRequest}]
  /\ \A r \in Active : req[r] \in HopRequest /\ req[r].uri.scheme \in Schemes
  /\ hops \in [Request -> 0..255]
  /\ outcome \in [Request -> Outcomes]
  /\ seen \in [Request -> SUBSET Uri]
  /\ sent \in [Request -> Nat]
  /\ faulty \in SUBSET Host

Init ==
  /\ Breaker!Init
  /\ cfg \in Configs
  /\ phase = [r \in Request |-> "idle"]
  /\ req = [r \in Request |-> NoRequest]
  /\ hops = [r \in Request |-> 0]
  /\ outcome = [r \in Request |-> NoOutcome]
  /\ seen = [r \in Request |-> {}]
  /\ sent = [r \in Request |-> 0]
  /\ faulty = {}

(* split_initial, and the variables before the loop.                       *)
Start(r) ==
  /\ phase[r] = "idle" /\ pc[r] = "idle"
  /\ \E q \in Incoming : req' = [req EXCEPT ![r] = q]
  /\ phase' = [phase EXCEPT ![r] = "loop"]
  /\ outcome' = [outcome EXCEPT ![r] = NoOutcome]
  /\ UNCHANGED <<cfg, hops, seen, sent, faulty, breaker>>

(* execute returns, its locals gone.                                       *)
Return(r, kind, location) ==
  /\ phase' = [phase EXCEPT ![r] = "idle"]
  /\ outcome' = [outcome EXCEPT ![r] = [kind |-> kind, location |-> location]]
  /\ req' = [req EXCEPT ![r] = NoRequest]
  /\ hops' = [hops EXCEPT ![r] = 0]
  /\ seen' = [seen EXCEPT ![r] = {}]
  /\ sent' = [sent EXCEPT ![r] = 0]
  /\ UNCHANGED cfg

(* Mutant of Permitted: only the first hop is checked.                      *)
PermittedAtFirst(r) == hops[r] = 0 => CheckUri(req[r].uri)

(* The head of the loop: check_uri on the request about to be sent.        *)
Permitted(r) == CheckUri(req[r].uri)

Reject(r) ==
  /\ phase[r] = "loop"
  /\ ~Permitted(r)
  /\ Return(r, "target_not_allowed", "none")
  /\ UNCHANGED <<faulty, breaker>>

(* check_uri passed: CircuitHop::admit.                                    *)
Dispatch(r) ==
  /\ phase[r] = "loop"
  /\ Permitted(r)
  /\ Breaker!Admit(r, HostOf[req[r].uri.authority])
  /\ phase' = [phase EXCEPT ![r] = "hop"]
  /\ seen' = [seen EXCEPT ![r] = @ \cup {req[r].uri}]
  /\ sent' = [sent EXCEPT ![r] = @ + 1]
  /\ UNCHANGED <<cfg, req, hops, outcome, faulty>>

(* Mutant of CheckHop: the breaker is not asked, the hop just flies.        *)
CheckHopUnasked(r) ==
  /\ pc[r] = "check"
  /\ pc' = [pc EXCEPT ![r] = "flight"]
  /\ UNCHANGED <<cfg, requests, faulty, enabled, now, hosts, target, at, evict, touched, role, log, rescued>>

(* The breaker's check, whose refusal ends the request.                    *)
CheckHop(r) ==
  /\ Breaker!Check(r)
  /\ \/ pc'[r] = "idle" /\ Return(r, "circuit_open", "none")
     \/ pc'[r] # "idle" /\ UNCHANGED <<cfg, requests>>
  /\ UNCHANGED faulty

(* The rest of check and of record_failure.                                *)
Settle(r) ==
  /\ \/ Breaker!RecordFailure(r)
     \/ Breaker!EvictGuard(r)
     \/ Breaker!EvictMeasure(r)
     \/ Breaker!EvictSweep(r)
  /\ UNCHANGED <<cfg, requests, faulty>>

Blame(r) == faulty' = faulty \cup {HostOf[req[r].uri.authority]}

(* hop.failure(): the client failed, or redirects ran out.                 *)
Fail(r, kind) == Breaker!Failure(r) /\ Blame(r) /\ Return(r, kind, "none")

ClientError(r) == phase[r] = "hop" /\ Fail(r, "upstream")

(* The future is dropped while it awaits the answer: CircuitHop::drop.     *)
Cancel(r) == phase[r] = "hop" /\ Fail(r, "cancelled")

(* Mutant of SettleTerminal: every 5xx counts, configured or not.           *)
SettleEvery5xx(r, server_error) ==
  \/ /\ server_error /\ Breaker!Failure(r)
     /\ (cfg.count_5xx /\ Blame(r)) \/ (~cfg.count_5xx /\ UNCHANGED faulty)
  \/ ~server_error /\ Breaker!Success(r) /\ UNCHANGED faulty

SettleTerminal(r, server_error) ==
  \/ cfg.count_5xx /\ server_error /\ Breaker!Failure(r) /\ Blame(r)
  \/ ~(cfg.count_5xx /\ server_error) /\ Breaker!Success(r) /\ UNCHANGED faulty

(* A status that is not a redirect of the five execute knows.              *)
Answer(r) ==
  /\ phase[r] = "hop"
  /\ \E server_error \in BOOLEAN : SettleTerminal(r, server_error)
  /\ Return(r, "ok", "none")

(* A redirect under the policies block and rewrite.                        *)
Unfollowed(r) ==
  /\ phase[r] = "hop"
  /\ cfg.redirect_policy # "follow"
  /\ Breaker!Success(r)
  /\ Return(r, IF cfg.redirect_policy = "block" THEN "redirect_blocked" ELSE "ok", "none")
  /\ UNCHANGED faulty

(* Mutant of BudgetLeft: one redirect too many.                             *)
BudgetLeftInclusive(r) == hops[r] <= cfg.max_redirects

BudgetLeft(r) == hops[r] < cfg.max_redirects

TooManyRedirects(r) ==
  /\ phase[r] = "hop"
  /\ cfg.redirect_policy = "follow"
  /\ ~BudgetLeft(r)
  /\ Fail(r, "too_many_redirects")

(* hops.saturating_add(1), of a u8.                                        *)
SaturatingInc(n) == IF n < 255 THEN n + 1 ELSE 255

(* The hop is settled before the Location is looked at.                    *)
Follow(r) ==
  /\ phase[r] = "hop"
  /\ cfg.redirect_policy = "follow"
  /\ BudgetLeft(r)
  /\ Breaker!Success(r)
  /\ UNCHANGED faulty
  /\ \E status \in {"found", "temporary"}, form \in Forms, uri \in Uri :
       \/ /\ InvalidLocation(req[r], form, uri)
          /\ Return(r, "invalid_url", form)
       \/ /\ StopsAt(req[r], status, form, uri)
          /\ Return(r, "ok", form)
       \/ /\ ~InvalidLocation(req[r], form, uri)
          /\ ~StopsAt(req[r], status, form, uri)
          /\ \E u \in Resolved(req[r].uri, form, uri) :
               req' = [req EXCEPT ![r] = PrepareNext(req[r], status, u)]
          /\ hops' = [hops EXCEPT ![r] = SaturatingInc(hops[r])]
          /\ phase' = [phase EXCEPT ![r] = "loop"]
          /\ UNCHANGED <<cfg, outcome, seen, sent>>

Tick == Breaker!Tick /\ UNCHANGED <<cfg, requests, faulty>>

Proceed(r) ==
  \/ Reject(r)
  \/ Dispatch(r)
  \/ CheckHop(r)
  \/ Settle(r)
  \/ ClientError(r)
  \/ Cancel(r)
  \/ Answer(r)
  \/ Unfollowed(r)
  \/ TooManyRedirects(r)
  \/ Follow(r)

Next == Tick \/ \E r \in Request : Start(r) \/ Proceed(r)

Spec == Init /\ [][Next]_vars

(* Local work is never starved by the runtime, and the client's answer, or *)
(* the request timeout that drops the call, comes in the end.              *)
FairSpec == Spec /\ \A r \in Request : WF_vars(Proceed(r))
-----------------------------------------------------------------------------
(* Properties                                                              *)

(* The loop uses the breaker only as a hop may: every behaviour of execute  *)
(* is a behaviour of CircuitBreaker, so what holds there holds here.        *)
UsesBreaker == Breaker!Spec

(* "reset sensitive per-origin state (cookies, authorization) on cross-host *)
(* hops": a request that still carries the caller's credentials goes to the *)
(* authority they were meant for, and the chain has been nowhere else; and  *)
(* a Host header it still carries names the authority it goes to.           *)
CredentialsConfined ==
  \A r \in Active :
    /\ req[r].creds =>
         \A u \in seen[r] : ~AuthorityDiffers(u.authority, req[r].uri.authority)
    /\ req[r].host # NoAuthority =>
         ~AuthorityDiffers(req[r].host, req[r].uri.authority)

(* allow_https_to_http_downgrade: unless allowed, a chain that has used     *)
(* https sends nothing over http afterwards, whatever hops lie between.     *)
NoDowngrade ==
  \A r \in Active :
    ~cfg.allow_downgrade /\ req[r].uri.scheme = "http"
      => \A u \in seen[r] : u.scheme = "http"

(* limits.max_redirects: a request causes at most max_redirects + 1 upstream *)
(* requests, one only unless redirects are followed.                         *)
RedirectBudget ==
  \A r \in Active :
    sent[r] <= 1 + (IF cfg.redirect_policy = "follow" THEN cfg.max_redirects ELSE 0)

(* "allowlists / denylists / https_only cannot be bypassed via 3xx": every   *)
(* URI a chain dispatched to passes the policy.                              *)
HopsWithinPolicy == \A r \in Active : \A u \in seen[r] : CheckUri(u)

(* prepare_next: a hop after the first, whose body is gone, never uses a     *)
(* method that promises one.                                                 *)
NoEmptyReplay ==
  \A r \in Active : hops[r] > 0 => ~req[r].body /\ ~BodyBearing(req[r].method)

(* "Settle before prepare_next so a Location parse/policy error cannot leave *)
(* half-open unaccounted": only a host that failed a hop is ever counted     *)
(* against, tripped or probed; one that answers, however badly, is not.      *)
OnlyFaultyHostsTrip ==
  \A h \in Host :
    hosts[h].state \in {"open", "half_open"} \/ hosts[h].failures # {} => h \in faulty

(* Every request comes to an end, its hop settled, however the upstreams     *)
(* redirect it.                                                              *)
RequestsEnd ==
  \A r \in Request : phase[r] # "idle" ~> phase[r] = "idle" /\ pc[r] = "idle"

(* prepare_next "Returns an error when the `Location` header resolves to a   *)
(* malformed URI or specifies a non-HTTP(S) scheme": a relative reference is *)
(* never refused as an invalid URL.                                          *)
RelativeLocationsFollowed ==
  \A r \in Request :
    outcome[r].kind = "invalid_url" => outcome[r].location \notin {"relative", "embedded"}
=============================================================================
