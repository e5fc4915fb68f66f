-------------------------- MODULE RequestPipeline --------------------------
(***************************************************************************)
(* The way of a request through corx-server: the layers of router.rs       *)
(* (cors, timeout, catch_panic, header_limit, load_shed, auth) and the     *)
(* proxy handler (handlers/proxy.rs), composed with the load-shedding      *)
(* counter (LoadShed) and with hot reload (HotReload).                     *)
(*                                                                         *)
(* Each of auth_layer, serve, execute_proxy, shape_response and cors_layer *)
(* loads the live snapshot for itself.  What a layer does between two      *)
(* loads is local and belongs to the step of the first one; a reload, or   *)
(* any other request, may come between two steps.                          *)
(***************************************************************************)
EXTENDS Integers, Sequences, FiniteSets

CONSTANTS
  Request,    \* tasks that serve requests, each one after another
  Incoming,   \* the requests clients may send
  NoRequest,  \* the request of a task that serves none
  Configs, MaxReloads,   \* HotReload's
  Limits                 \* LoadShed's

(* A request: whether its path is operational, its method, whether it is a  *)
(* preflight, whether its headers are too long, the names of its headers,   *)
(* and the token, origin and target it names ("none" is on no list).  Of a  *)
(* configuration the pipeline reads the bearer tokens, the lists of the     *)
(* origin guard and the targets its policy admits.                          *)
ASSUME PipelineAssumption ==
  /\ IsFiniteSet(Request)
  /\ NoRequest \notin Incoming
  /\ \A q \in Incoming :
       /\ {q.ops, q.preflight, q.oversized} \subseteq BOOLEAN
       /\ q.preflight => q.method = "OPTIONS"
  /\ \A c \in Configs : c.limits.inflight_max \in Limits /\ c.bearer \in BOOLEAN
  /\ Limits \subseteq Nat

VARIABLES
  phase,      \* how far each request has come
  req,        \* the request
  view,       \* history: the snapshot each part of the way has loaded
  max, counter, pc,      \* LoadShed's
  frozen, snapshots      \* HotReload's

policies == <<frozen, snapshots>>
slots == <<max, counter, pc>>
vars == <<phase, req, view, slots, policies>>

Shedding == INSTANCE LoadShed WITH Task <- Request
Reloading == INSTANCE HotReload

Live == Len(snapshots)
Config(g) == snapshots[g].config
-----------------------------------------------------------------------------
(* The TargetPolicy inside the client that snapshot g uses.                *)
UpstreamTargets(g) == Config(snapshots[g].upstream).target

Parts == {"auth", "serve", "execute", "shape"}

(* 0: not loaded.                                                          *)
NoView == [part \in Parts |-> 0]

Load(r, part) == view' = [view EXCEPT ![r][part] = Live]

Phases == {"idle", "arrived", "entered", "admitted", "served", "upstream", "answered"}

TypeOK ==
  /\ phase \in [Request -> Phases]
  /\ req \in [Request -> Incoming \cup {NoRequest}]
  /\ view \in [Request -> [Parts -> 0..Live]]
  /\ \A r \in Request :
       /\ phase[r] # "idle" => req[r] \in Incoming
       /\ pc[r] = "idle" <=> phase[r] \in {"idle", "arrived", "answered"}
       /\ pc[r] = "over" => phase[r] = "entered"
       /\ phase[r] \in {"served", "upstream"} => view[r].serve > 0
       /\ phase[r] = "upstream" => view[r].execute > 0

Init ==
  /\ Shedding!Init
  /\ Reloading!Init
  /\ max = frozen.limits.inflight_max
  /\ phase = [r \in Request |-> "idle"]
  /\ req = [r \in Request |-> NoRequest]
  /\ view = [r \in Request |-> NoView]

Goto(r, label) == phase' = [phase EXCEPT ![r] = label]

(* Through Trace, access_log, cors (which keeps the headers), Timeout and  *)
(* the layers inside it, up to header_limit.                               *)
Arrive(r) ==
  /\ phase[r] = "idle"
  /\ \E q \in Incoming : req' = [req EXCEPT ![r] = q]
  /\ Goto(r, "arrived")
  /\ UNCHANGED <<view, slots, policies>>

HeaderLimit(r) ==
  /\ phase[r] = "arrived"
  /\ \/ /\ req[r].oversized
        /\ Goto(r, "answered")
        /\ UNCHANGED slots
     \/ /\ ~req[r].oversized
        /\ Shedding!Enter(r)
        /\ Goto(r, "entered")
  /\ UNCHANGED <<req, view, policies>>

(* The handler, or a layer inside load_shed, has an answer: the permit is  *)
(* dropped on the way out.                                                 *)
Respond(r) == Shedding!Leave(r) /\ Goto(r, "answered")

ShedRequest(r) ==
  /\ phase[r] = "entered"
  /\ Shedding!Shed(r)
  /\ Goto(r, "answered")
  /\ UNCHANGED <<req, view, policies>>

AuthSkips(q) == q.method = "OPTIONS" \/ q.ops

CheckBearer(q, c) == c.bearer => q.token \in c.tokens

Auth(r) ==
  /\ phase[r] = "entered"
  /\ pc[r] # "over"
  /\ \/ AuthSkips(req[r]) /\ Goto(r, "admitted") /\ UNCHANGED <<view, slots>>
     \/ /\ ~AuthSkips(req[r])
        /\ Load(r, "auth")
        /\ \/ CheckBearer(req[r], Config(Live)) /\ Goto(r, "admitted") /\ UNCHANGED slots
           \/ ~CheckBearer(req[r], Config(Live)) /\ Respond(r)
  /\ UNCHANGED <<req, policies>>

(* The operational endpoints.                                              *)
Ops(r) ==
  /\ phase[r] = "admitted"
  /\ req[r].ops
  /\ Respond(r)
  /\ UNCHANGED <<req, view, policies>>

(* serve for a preflight: guarded when so configured, answered here in any *)
(* case.                                                                   *)
Preflight(r) ==
  /\ phase[r] = "admitted"
  /\ req[r].preflight /\ ~req[r].ops
  /\ Load(r, "serve")
  /\ Respond(r)
  /\ UNCHANGED <<req, policies>>

(* OriginPolicy::evaluate.  An empty whitelist, and an empty list of        *)
(* required headers, ask for nothing; one header of the list is enough.     *)
CheckOrigin(q, g) ==
  /\ q.method \notin g.blocked
  /\ q.origin \notin g.blacklist
  /\ g.whitelist # {} => q.origin \in g.whitelist
  /\ g.required # {} => q.headers \cap g.required # {}

(* serve: origin guard, target, target policy, rate limiter, all of one    *)
(* snapshot.  A request that passes the others may still be refused: the   *)
(* limiter's verdict is any verdict (RateLimiter).                         *)
Serve(r) ==
  /\ phase[r] = "admitted"
  /\ ~req[r].preflight /\ ~req[r].ops
  /\ Load(r, "serve")
  /\ \/ /\ CheckOrigin(req[r], Config(Live).guard)
        /\ req[r].target \in Config(Live).target
        /\ Goto(r, "served")
        /\ UNCHANGED slots
     \/ Respond(r)
  /\ UNCHANGED <<req, policies>>

(* Mutant of Execute: the first hop is not checked again.                   *)
ExecuteTrusting(r) ==
  /\ phase[r] = "served"
  /\ Load(r, "execute")
  /\ Goto(r, "upstream")
  /\ UNCHANGED <<req, slots, policies>>

(* execute_proxy up to the first await: filters and headers of a snapshot  *)
(* loaded again, then Upstream::execute, whose client checks the target.   *)
(* The URI may be refused and the breaker may be open (Upstream) too.      *)
Execute(r) ==
  /\ phase[r] = "served"
  /\ Load(r, "execute")
  /\ \/ /\ req[r].target \in UpstreamTargets(Live)
        /\ Goto(r, "upstream")
        /\ UNCHANGED slots
     \/ Respond(r)
  /\ UNCHANGED <<req, policies>>

(* Upstream::execute fails, or answers and shape_response follows.         *)
UpstreamReturns(r) ==
  /\ phase[r] = "upstream"
  /\ UNCHANGED view \/ Load(r, "shape")
  /\ Respond(r)
  /\ UNCHANGED <<req, policies>>

(* Mutants of Timeout: no permit whose drop would give the slot back; a     *)
(* timer that does not run while the upstream is awaited.                   *)
TimeoutKeepsSlot(r) ==
  /\ phase[r] = "upstream"
  /\ pc' = [pc EXCEPT ![r] = "idle"]
  /\ Goto(r, "answered")
  /\ UNCHANGED <<req, view, max, counter, policies>>

TimeoutTooEarly(r) ==
  /\ phase[r] = "served"
  /\ Respond(r)
  /\ UNCHANGED <<req, view, policies>>

(* request_timeout drops the handler at its await: 504.                    *)
Timeout(r) ==
  /\ phase[r] = "upstream"
  /\ Respond(r)
  /\ UNCHANGED <<req, view, policies>>

(* A panic inside the layers is caught outside them: 500.                  *)
Panic(r) ==
  /\ phase[r] \in {"entered", "admitted", "served", "upstream"}
  /\ pc[r] # "over"
  /\ Respond(r)
  /\ UNCHANGED <<req, view, policies>>

(* The answer has left.                                                    *)
Forget(r) ==
  /\ Goto(r, "idle")
  /\ req' = [req EXCEPT ![r] = NoRequest]
  /\ view' = [view EXCEPT ![r] = NoView]

(* cors_layer stamps whatever answer there is, with the policy of the      *)
(* snapshot that is live by then.                                          *)
Stamp(r) ==
  /\ phase[r] = "answered"
  /\ Forget(r)
  /\ UNCHANGED <<slots, policies>>

(* Mutant of Disconnect: no permit whose drop would give the slot back.     *)
DisconnectKeepsPermit(r) ==
  /\ phase[r] = "upstream"
  /\ Forget(r)
  /\ UNCHANGED <<slots, policies>>

(* The client is gone: the whole chain is dropped at the handler's await.  *)
Disconnect(r) ==
  /\ phase[r] = "upstream"
  /\ Shedding!Leave(r)
  /\ Forget(r)
  /\ UNCHANGED policies

Reload == Reloading!Reload /\ UNCHANGED <<phase, req, view, slots>>

(* What the task and its timer do by themselves.                           *)
Proceed(r) ==
  \/ HeaderLimit(r)
  \/ ShedRequest(r)
  \/ Auth(r)
  \/ Ops(r)
  \/ Preflight(r)
  \/ Serve(r)
  \/ Execute(r)
  \/ Timeout(r)
  \/ Stamp(r)

(* What may happen to it.                                                  *)
Event(r) == Arrive(r) \/ UpstreamReturns(r) \/ Panic(r) \/ Disconnect(r)

Next == Reload \/ \E r \in Request : Proceed(r) \/ Event(r)

Spec == Init /\ [][Next]_vars

(* The runtime polls every task and its timers fire; that an upstream ever *)
(* answers is not assumed.                                                 *)
FairSpec == Spec /\ \A r \in Request : WF_vars(Proceed(r))
-----------------------------------------------------------------------------
(* Properties                                                              *)

(* A request is sent upstream only if the target policy of the snapshot it  *)
(* is sent under admits its target, and the snapshots that guarded it let   *)
(* it through, whatever reloads came in between (OPTIONS needs no token).   *)
DispatchAdmitted ==
  \A r \in Request :
    phase[r] = "upstream" =>
      /\ req[r].target \in Config(view[r].execute).target
      /\ req[r].target \in Config(view[r].serve).target
      /\ CheckOrigin(req[r], Config(view[r].serve).guard)
      /\ req[r].method # "OPTIONS" => view[r].auth > 0 /\ CheckBearer(req[r], Config(view[r].auth))

(* The chain uses the load-shedding counter as LoadShed prescribes: every   *)
(* way out of it (answer, refusal, timeout, panic, disconnect) gives back   *)
(* the slot it took, once.                                                  *)
UsesLoadShed == Shedding!Spec

(* See HotReload: what holds of the snapshots holds with requests running.  *)
SnapshotCoherent == Reloading!SnapshotCoherent
StateRetained == Reloading!StateRetained

(* The requests past the layers.                                            *)
Handled == {r \in Request : phase[r] \in {"admitted", "served", "upstream"}}

(* "limits.inflight_max cannot be changed by reload": load_shed_layer works *)
(* by the cap of startup; still, whatever is refused, times out, panics or  *)
(* disconnects while reloads are stored, the requests past the layers never *)
(* outnumber the cap any of the stored configurations names (0: no cap).    *)
InflightBounded ==
  \A i \in 1..Live :
    Config(i).limits.inflight_max # 0 => Cardinality(Handled) <= Config(i).limits.inflight_max

(* Every request is answered or dropped, and its slot is free again.        *)
RequestsAnswered ==
  \A r \in Request : phase[r] # "idle" ~> phase[r] = "idle" /\ pc[r] = "idle"

(* "Each request loads a single snapshot so the policy view is consistent   *)
(* for the whole handler chain even if a reload races in mid-request."      *)
OneSnapshot ==
  \A r \in Request : \A p, q \in Parts :
    view[r][p] > 0 /\ view[r][q] > 0 => view[r][p] = view[r][q]
=============================================================================
