----------------------- MODULE RequestPipelineProofs -----------------------
(***************************************************************************)
(* The pipeline with any number of requests, configurations and reloads.   *)
(* It implements LoadShed and HotReload, so what is proved of them holds   *)
(* here; that a request is sent upstream under a policy that admits it     *)
(* rests on the coherence of snapshots: the client retained through        *)
(* reloads checks targets by the live configuration.                       *)
(***************************************************************************)
EXTENDS RequestPipeline, FiniteSetTheorems, TLAPS

Reloads == INSTANCE HotReloadProofs

(* The request is past auth_layer; past serve; sent upstream.              *)
PastAuth(r) ==
  phase[r] \in {"admitted", "served", "upstream"} /\ ~AuthSkips(req[r]) =>
    view[r].auth > 0 /\ CheckBearer(req[r], Config(view[r].auth))

PastServe(r) ==
  phase[r] \in {"served", "upstream"} =>
    /\ ~req[r].ops
    /\ req[r].target \in Config(view[r].serve).target
    /\ CheckOrigin(req[r], Config(view[r].serve).guard)

Sent(r) ==
  phase[r] = "upstream" => req[r].target \in Config(view[r].execute).target

Guarded == \A r \in Request : PastAuth(r) /\ PastServe(r) /\ Sent(r)

Inv == TypeOK /\ pc \in [Request -> Shedding!Pcs] /\ Guarded

(* Every step of the pipeline is a step of HotReload, or leaves it alone.  *)
LEMMA ImplementsReload == Spec => Reloads!Spec
<1>1. Init => Reloads!Init
  BY DEF Init, Reloading!Init, Reloads!Init, Reloading!Immutable, Reloads!Immutable
<1>2. [Next]_vars => [Reloads!Next]_(Reloads!vars)
  <2> SUFFICES ASSUME [Next]_vars PROVE [Reloads!Next]_(Reloads!vars)
    OBVIOUS
  <2>1. CASE Reload
    BY <2>1 DEF Reload, Reloading!Reload, Reloads!Reload, Reloads!Next, Reloading!Live, Reloads!Live,
         Reloading!AssertImmutable, Reloads!AssertImmutable, Reloading!BuildFrom, Reloads!BuildFrom,
         Reloading!UpstreamConfigEq, Reloads!UpstreamConfigEq
  <2>2. CASE \E r \in Request : Proceed(r) \/ Event(r)
    BY <2>2 DEF Proceed, Event, HeaderLimit, ShedRequest, Auth, Ops, Preflight, Serve, Execute, Timeout,
         Stamp, Arrive, UpstreamReturns, Panic, Disconnect, policies, Reloads!vars
  <2>3. CASE UNCHANGED vars
    BY <2>3 DEF vars, policies, Reloads!vars
  <2> QED
    BY <2>1, <2>2, <2>3 DEF Next
<1> QED
  BY <1>1, <1>2, PTL DEF Spec, Reloads!Spec

(* What is proved of HotReload, in the words of this module.               *)
LEMMA ReloadsHere ==
  Spec => [](Reloads!TypeOK /\ SnapshotCoherent /\ StateRetained /\ Reloads!ComparedKept)
<1>1. Reloads!Inv => Reloads!TypeOK /\ SnapshotCoherent
  BY DEF Reloads!Inv, Reloads!SnapshotCoherent, SnapshotCoherent, Reloading!SnapshotCoherent,
     Reloads!Live, Reloading!Live
<1>2. Reloads!Inv => StateRetained
  BY DEF Reloads!Inv, Reloads!StateRetained, StateRetained, Reloading!StateRetained,
     Reloads!Live, Reloading!Live
<1>3. Reloads!Inv => Reloads!ComparedKept
  BY DEF Reloads!Inv
<1>4. Reloads!Spec => []Reloads!Inv
  BY Reloads!InvHolds
<1> QED
  BY <1>1, <1>2, <1>3, <1>4, ImplementsReload, PTL

(* Every way through the pipeline takes and gives back slots as LoadShed   *)
(* does.                                                                   *)
THEOREM SlotsUsedCorrectly == Spec => UsesLoadShed
<1>1. Init => Shedding!Init
  BY DEF Init
<1>2. [Next]_vars => [Shedding!Next]_(Shedding!vars)
  <2> SUFFICES ASSUME [Next]_vars PROVE [Shedding!Next]_(Shedding!vars)
    OBVIOUS
  <2>1. CASE Reload \/ UNCHANGED vars
    BY <2>1 DEF Reload, vars, slots, Shedding!vars
  <2>2. ASSUME NEW r \in Request, Proceed(r) \/ Event(r)
        PROVE  [Shedding!Next]_(Shedding!vars)
    <3>1. \/ Shedding!Enter(r) \/ Shedding!Shed(r) \/ Shedding!Leave(r)
          \/ UNCHANGED slots
      BY <2>2 DEF Proceed, Event, HeaderLimit, ShedRequest, Auth, Ops, Preflight, Serve, Execute,
         Timeout, Stamp, Arrive, UpstreamReturns, Panic, Disconnect, Respond
    <3> QED
      BY <3>1 DEF Shedding!Next, Shedding!vars, slots
  <2> QED
    BY <2>1, <2>2 DEF Next
<1> QED
  BY <1>1, <1>2, PTL DEF Spec, UsesLoadShed, Shedding!Spec

-----------------------------------------------------------------------------
(* A request other than r is where it was.                                 *)
OthersKept(r) ==
  \A q \in Request \ {r} :
    phase'[q] = phase[q] /\ req'[q] = req[q] /\ view'[q] = view[q] /\ pc'[q] = pc[q]

(* The part of TypeOK about one request.                                   *)
Typed(r) ==
  /\ phase[r] \in Phases
  /\ req[r] \in Incoming \cup {NoRequest}
  /\ view[r] \in [Parts -> 0..Live]
  /\ pc[r] \in Shedding!Pcs
  /\ phase[r] # "idle" => req[r] \in Incoming
  /\ pc[r] = "idle" <=> phase[r] \in {"idle", "arrived", "answered"}
  /\ pc[r] = "over" => phase[r] = "entered"
  /\ phase[r] \in {"served", "upstream"} => view[r].serve > 0
  /\ phase[r] = "upstream" => view[r].execute > 0

Domains ==
  /\ phase = [r \in Request |-> phase[r]]
  /\ req = [r \in Request |-> req[r]]
  /\ view = [r \in Request |-> view[r]]
  /\ pc = [r \in Request |-> pc[r]]

(* Inv speaks of each request by itself.                                   *)
LEMMA InvByRequest ==
  Inv <=> Domains /\ \A r \in Request : Typed(r) /\ PastAuth(r) /\ PastServe(r) /\ Sent(r)
<1>1. ASSUME Inv PROVE Domains /\ \A r \in Request : Typed(r) /\ PastAuth(r) /\ PastServe(r) /\ Sent(r)
  BY <1>1 DEF Inv, TypeOK, Domains, Typed, Guarded
<1>2. ASSUME Domains, \A r \in Request : Typed(r) /\ PastAuth(r) /\ PastServe(r) /\ Sent(r)
      PROVE  Inv
  <2>1. /\ phase \in [Request -> Phases]
        /\ req \in [Request -> Incoming \cup {NoRequest}]
        /\ view \in [Request -> [Parts -> 0..Live]]
        /\ pc \in [Request -> Shedding!Pcs]
    BY <1>2 DEF Domains, Typed
  <2> QED
    BY <1>2, <2>1 DEF Inv, TypeOK, Typed, Guarded
<1> QED
  BY <1>1, <1>2

LEMMA InvByRequestPrimed ==
  Domains' /\ (\A r \in Request : Typed(r)' /\ PastAuth(r)' /\ PastServe(r)' /\ Sent(r)') => Inv'
<1>1. (Inv <=> Domains /\ \A r \in Request : Typed(r) /\ PastAuth(r) /\ PastServe(r) /\ Sent(r))'
  BY InvByRequest, PTL
<1> QED
  BY <1>1

LEMMA InitInv == ASSUME Init, Reloads!TypeOK PROVE Inv
<1>1. Live \in Nat /\ Live > 0
  BY DEF Reloads!TypeOK, Reloads!Live, Live
<1>2. pc = [r \in Request |-> "idle"]
  BY DEF Init, Shedding!Init
<1>3. \A r \in Request : view[r] = NoView /\ NoView \in [Parts -> 0..Live]
  BY <1>1 DEF Init, NoView
<1>4. Domains
  BY <1>2 DEF Init, Domains
<1>5. \A r \in Request : Typed(r) /\ PastAuth(r) /\ PastServe(r) /\ Sent(r)
  BY <1>2, <1>3 DEF Init, Typed, Phases, Shedding!Pcs, PastAuth, PastServe, Sent
<1> QED
  BY <1>4, <1>5, InvByRequest

(* A reload leaves the snapshots that requests have loaded as they are.    *)
LEMMA ReloadKeeps == ASSUME Inv, Reloads!TypeOK, Reload PROVE Inv'
<1>1. /\ Live \in Nat /\ Live' = Live + 1
      /\ \A g \in 1..Live : snapshots'[g] = snapshots[g]
  <2>1. PICK s : snapshots' = Append(snapshots, s)
    BY DEF Reload, Reloading!Reload
  <2>2. snapshots \in Seq(Reloads!LivePolicies)
    BY DEF Reloads!TypeOK
  <2> DEFINE S == Reloads!LivePolicies \cup {s}
  <2>3. snapshots \in Seq(S) /\ s \in S
    BY <2>2
  <2> HIDE DEF S
  <2> QED
    BY <2>1, <2>3 DEF Live
<1>2. UNCHANGED <<phase, req, view, pc>>
  BY DEF Reload, slots
<1>3. Domains'
  BY <1>2, InvByRequest DEF Domains
<1>4. ASSUME NEW r \in Request
      PROVE  Typed(r)' /\ PastAuth(r)' /\ PastServe(r)' /\ Sent(r)'
  <2>1. Typed(r) /\ PastAuth(r) /\ PastServe(r) /\ Sent(r)
    BY InvByRequest
  <2>2. \A part \in Parts : view[r][part] > 0 => Config(view[r][part])' = Config(view[r][part])
    BY <1>1, <1>2, <2>1 DEF Typed, Config
  <2>3. "auth" \in Parts /\ "serve" \in Parts /\ "execute" \in Parts
    BY DEF Parts
  <2>4. Typed(r)'
    BY <1>1, <1>2, <2>1 DEF Typed
  <2>5. PastAuth(r)'
    BY <1>2, <2>1, <2>2, <2>3 DEF PastAuth, AuthSkips, CheckBearer
  <2>6. PastServe(r)'
    BY <1>2, <2>1, <2>2, <2>3 DEF PastServe, Typed
  <2>7. Sent(r)'
    BY <1>2, <2>1, <2>2, <2>3 DEF Sent, Typed
  <2> QED
    BY <2>4, <2>5, <2>6, <2>7
<1> QED
  BY <1>3, <1>4, InvByRequestPrimed

(* What a step of r has to show is about r alone.                          *)
LEMMA FrameKeeps ==
  ASSUME Inv, NEW r \in Request, UNCHANGED policies, Domains', OthersKept(r),
         Typed(r)', PastAuth(r)', PastServe(r)', Sent(r)'
  PROVE  Inv'
<1>1. ASSUME NEW q \in Request \ {r}
      PROVE  Typed(q)' /\ PastAuth(q)' /\ PastServe(q)' /\ Sent(q)'
  <2>1. Typed(q) /\ PastAuth(q) /\ PastServe(q) /\ Sent(q)
    BY InvByRequest
  <2>2. phase'[q] = phase[q] /\ req'[q] = req[q] /\ view'[q] = view[q] /\ pc'[q] = pc[q]
    BY DEF OthersKept
  <2>3. snapshots' = snapshots
    BY DEF policies
  <2> QED
    BY <2>1, <2>2, <2>3 DEF Typed, PastAuth, PastServe, Sent, AuthSkips, CheckBearer, Config, Live
<1> QED
  BY <1>1, InvByRequestPrimed

(* The snapshot that is live is a legal one to have loaded.                *)
LEMMA LoadTyped ==
  ASSUME Inv, Reloads!TypeOK, NEW r \in Request, NEW part \in Parts, Load(r, part)
  PROVE  /\ view' = [view EXCEPT ![r] = [view[r] EXCEPT ![part] = Live]]
         /\ view'[r] \in [Parts -> 0..Live]
         /\ view'[r][part] = Live
         /\ \A other \in Parts \ {part} : view'[r][other] = view[r][other]
<1>1. view \in [Request -> [Parts -> 0..Live]]
  BY DEF Inv, TypeOK
<1>2. Live \in Nat /\ Live > 0
  BY DEF Reloads!TypeOK, Reloads!Live, Live
<1> QED
  BY <1>1, <1>2 DEF Load

(* A request that is answered, or gone, carries no obligation but to have  *)
(* given its slot back.                                                    *)
LEMMA LeavesClean ==
  ASSUME Inv, NEW r \in Request, UNCHANGED policies,
         phase' = [phase EXCEPT ![r] = "answered"], req' = req,
         view' = view \/ (/\ view' = [view EXCEPT ![r] = view'[r]]
                          /\ view'[r] \in [Parts -> 0..Live]),
         pc' = [pc EXCEPT ![r] = "idle"], phase[r] # "idle"
  PROVE  Inv'
<1>1. Domains /\ Typed(r)
  BY InvByRequest
<1>2. Domains' /\ OthersKept(r)
  BY <1>1 DEF Domains, OthersKept
<1>3. phase'[r] = "answered" /\ pc'[r] = "idle" /\ req'[r] = req[r] /\ view'[r] \in [Parts -> 0..Live]
  BY <1>1 DEF Domains, Typed
<1>4. Typed(r)'
  BY <1>1, <1>3 DEF Typed, Phases, Shedding!Pcs, policies, Live
<1>5. PastAuth(r)' /\ PastServe(r)' /\ Sent(r)'
  BY <1>3 DEF PastAuth, PastServe, Sent
<1> QED
  BY <1>2, <1>4, <1>5, FrameKeeps

LEMMA RespondKeeps ==
  ASSUME Inv, Reloads!TypeOK, NEW r \in Request, UNCHANGED <<req, policies>>, Respond(r),
         view' = view \/ \E part \in Parts : Load(r, part), phase[r] # "idle"
  PROVE  Inv'
<1>1. phase' = [phase EXCEPT ![r] = "answered"] /\ pc' = [pc EXCEPT ![r] = "idle"]
  BY DEF Respond, Goto, Shedding!Leave
<1>2. view' = view \/ (/\ view' = [view EXCEPT ![r] = view'[r]]
                       /\ view'[r] \in [Parts -> 0..Live])
  <2>1. ASSUME NEW part \in Parts, Load(r, part)
        PROVE  /\ view' = [view EXCEPT ![r] = view'[r]]
               /\ view'[r] \in [Parts -> 0..Live]
    <3>1. view \in [Request -> [Parts -> 0..Live]]
      BY DEF Inv, TypeOK
    <3> QED
      BY <2>1, <3>1, LoadTyped
  <2> QED
    BY <2>1
<1> QED
  BY <1>1, <1>2, LeavesClean

LEMMA ArriveKeeps == ASSUME Inv, NEW r \in Request, Arrive(r) PROVE Inv'
<1>1. Domains /\ Typed(r)
  BY InvByRequest
<1>2. PICK q \in Incoming : req' = [req EXCEPT ![r] = q]
  BY DEF Arrive
<1>3. /\ phase' = [phase EXCEPT ![r] = "arrived"] /\ view' = view /\ pc' = pc
      /\ UNCHANGED policies /\ phase[r] = "idle"
  BY DEF Arrive, Goto, slots
<1>4. Domains' /\ OthersKept(r)
  BY <1>1, <1>2, <1>3 DEF Domains, OthersKept
<1>5. phase'[r] = "arrived" /\ req'[r] = q
  BY <1>1, <1>2, <1>3 DEF Domains
<1>6. Typed(r)' /\ PastAuth(r)' /\ PastServe(r)' /\ Sent(r)'
  BY <1>1, <1>3, <1>5 DEF Typed, Phases, PastAuth, PastServe, Sent, policies, Live
<1> QED
  BY <1>3, <1>4, <1>6, FrameKeeps

(* header_limit and load_shed.                                             *)
LEMMA HeaderLimitKeeps == ASSUME Inv, NEW r \in Request, HeaderLimit(r) PROVE Inv'
<1>1. Domains /\ Typed(r) /\ phase[r] = "arrived"
  BY InvByRequest DEF HeaderLimit
<1>2. CASE req[r].oversized
  <2>1. phase' = [phase EXCEPT ![r] = "answered"] /\ pc' = pc
    BY <1>2 DEF HeaderLimit, Goto, slots
  <2>2. pc' = [pc EXCEPT ![r] = "idle"]
    BY <1>1, <2>1 DEF Domains, Typed
  <2> QED
    BY <1>1, <2>1, <2>2, LeavesClean DEF HeaderLimit
<1>3. CASE ~req[r].oversized
  <2>1. /\ phase' = [phase EXCEPT ![r] = "entered"]
        /\ req' = req /\ view' = view /\ UNCHANGED policies /\ Shedding!Enter(r)
    BY <1>3 DEF HeaderLimit, Goto
  <2>2. \E label \in {"inner", "over", "permit"} : pc' = [pc EXCEPT ![r] = label]
    BY <2>1 DEF Shedding!Enter
  <2>3. Domains' /\ OthersKept(r)
    BY <1>1, <2>1, <2>2 DEF Domains, OthersKept
  <2>4. phase'[r] = "entered" /\ pc'[r] \in Shedding!Pcs /\ pc'[r] # "idle"
    BY <1>1, <2>1, <2>2 DEF Domains, Shedding!Pcs
  <2>5. Typed(r)' /\ PastAuth(r)' /\ PastServe(r)' /\ Sent(r)'
    BY <1>1, <2>1, <2>4 DEF Typed, Phases, PastAuth, PastServe, Sent, policies, Live
  <2> QED
    BY <2>1, <2>3, <2>5, FrameKeeps
<1> QED
  BY <1>2, <1>3

LEMMA ShedKeeps == ASSUME Inv, NEW r \in Request, ShedRequest(r) PROVE Inv'
<1>1. /\ phase' = [phase EXCEPT ![r] = "answered"] /\ pc' = [pc EXCEPT ![r] = "idle"]
      /\ req' = req /\ view' = view /\ UNCHANGED policies /\ phase[r] # "idle"
  BY DEF ShedRequest, Goto, Shedding!Shed
<1> QED
  BY <1>1, LeavesClean

(* auth_layer: skipped, passed or refused.                                 *)
LEMMA AuthKeeps == ASSUME Inv, Reloads!TypeOK, NEW r \in Request, Auth(r) PROVE Inv'
<1>1. /\ Domains /\ Typed(r) /\ phase[r] = "entered" /\ pc[r] # "over"
      /\ UNCHANGED <<req, policies>> /\ pc[r] \in Shedding!Pcs
  BY InvByRequest DEF Auth, Typed
<1>2. Live \in Nat /\ Live > 0 /\ "auth" \in Parts
  BY DEF Reloads!TypeOK, Reloads!Live, Live, Parts
<1>3. CASE Respond(r)
  <2>1. view' = view \/ \E part \in Parts : Load(r, part)
    BY <1>2 DEF Auth
  <2> QED
    BY <1>1, <1>3, <2>1, RespondKeeps
<1>4. CASE ~Respond(r)
  <2>1. phase' = [phase EXCEPT ![r] = "admitted"] /\ pc' = pc
    BY <1>4 DEF Auth, Goto, slots
  <2>2. /\ view' = [view EXCEPT ![r] = view'[r]]
        /\ view'[r] \in [Parts -> 0..Live]
        /\ AuthSkips(req[r]) \/ (view'[r].auth > 0 /\ CheckBearer(req[r], Config(view'[r].auth)))
    <3>1. CASE AuthSkips(req[r])
      BY <1>1, <3>1 DEF Auth, Domains, Typed
    <3>2. CASE ~AuthSkips(req[r])
      <4>1. Load(r, "auth") /\ CheckBearer(req[r], Config(Live))
        BY <1>4, <3>2 DEF Auth
      <4>2. /\ view' = [view EXCEPT ![r] = [view[r] EXCEPT !["auth"] = Live]]
            /\ view'[r] \in [Parts -> 0..Live]
            /\ view'[r].auth = Live
        BY <1>2, <4>1, LoadTyped
      <4> QED
        BY <1>1, <1>2, <4>1, <4>2 DEF Domains
    <3> QED
      BY <3>1, <3>2
  <2>3. Domains' /\ OthersKept(r)
    BY <1>1, <2>1, <2>2 DEF Domains, OthersKept
  <2>4. phase'[r] = "admitted" /\ pc'[r] \in {"permit", "inner"}
    BY <1>1, <2>1 DEF Domains, Typed, Shedding!Pcs
  <2>5. Typed(r)'
    BY <1>1, <2>2, <2>4 DEF Typed, Phases, Shedding!Pcs, policies, Live
  <2>6. PastAuth(r)' /\ PastServe(r)' /\ Sent(r)'
    BY <1>1, <2>2, <2>4 DEF PastAuth, PastServe, Sent, AuthSkips, CheckBearer, Config, policies
  <2> QED
    BY <1>1, <2>3, <2>5, <2>6, FrameKeeps
<1> QED
  BY <1>3, <1>4

(* The steps whose only outcome is an answer.                              *)
LEMMA AnswersKeep ==
  ASSUME Inv, Reloads!TypeOK, NEW r \in Request,
         Ops(r) \/ Preflight(r) \/ UpstreamReturns(r) \/ Timeout(r) \/ Panic(r)
  PROVE  Inv'
<1>1. UNCHANGED <<req, policies>> /\ Respond(r) /\ phase[r] # "idle"
  BY DEF Ops, Preflight, UpstreamReturns, Timeout, Panic
<1>2. view' = view \/ \E part \in Parts : Load(r, part)
  BY DEF Ops, Preflight, UpstreamReturns, Timeout, Panic, Parts
<1> QED
  BY <1>1, <1>2, RespondKeeps

(* serve: passed or refused.                                               *)
LEMMA ServeKeeps == ASSUME Inv, Reloads!TypeOK, NEW r \in Request, Serve(r) PROVE Inv'
<1>1. /\ Domains /\ Typed(r) /\ PastAuth(r) /\ phase[r] = "admitted"
      /\ UNCHANGED <<req, policies>> /\ Load(r, "serve") /\ ~req[r].ops
  BY InvByRequest DEF Serve
<1>2. Live \in Nat /\ Live > 0 /\ "serve" \in Parts /\ "auth" \in Parts
  BY DEF Reloads!TypeOK, Reloads!Live, Live, Parts
<1>3. CASE Respond(r)
  BY <1>1, <1>2, <1>3, RespondKeeps
<1>4. CASE ~Respond(r)
  <2>1. /\ phase' = [phase EXCEPT ![r] = "served"] /\ pc' = pc
        /\ CheckOrigin(req[r], Config(Live).guard)
        /\ req[r].target \in Config(Live).target
    BY <1>4 DEF Serve, Goto, slots
  <2>2. /\ view' = [view EXCEPT ![r] = [view[r] EXCEPT !["serve"] = Live]]
        /\ view'[r] \in [Parts -> 0..Live]
        /\ view'[r].serve = Live /\ view'[r].auth = view[r].auth
    BY <1>1, <1>2, LoadTyped
  <2>3. Domains' /\ OthersKept(r)
    BY <1>1, <2>1, <2>2 DEF Domains, OthersKept
  <2>4. phase'[r] = "served" /\ pc'[r] = pc[r] /\ req'[r] = req[r] /\ snapshots' = snapshots
    BY <1>1, <2>1 DEF Domains, policies
  <2>5. Typed(r)'
    BY <1>1, <1>2, <2>2, <2>4 DEF Typed, Phases, Live
  <2>6. PastAuth(r)'
    BY <1>1, <2>2, <2>4 DEF PastAuth, AuthSkips, CheckBearer, Config
  <2>7. PastServe(r)' /\ Sent(r)'
    BY <1>1, <2>1, <2>2, <2>4 DEF PastServe, Sent, Config
  <2> QED
    BY <1>1, <2>3, <2>5, <2>6, <2>7, FrameKeeps
<1> QED
  BY <1>3, <1>4

(* execute_proxy: the client of the live snapshot, however old, checks by  *)
(* the target section of the live configuration.                           *)
LEMMA ExecuteKeeps ==
  ASSUME Inv, Reloads!TypeOK, SnapshotCoherent, NEW r \in Request, Execute(r) PROVE Inv'
<1>1. /\ Domains /\ Typed(r) /\ PastAuth(r) /\ PastServe(r) /\ phase[r] = "served"
      /\ UNCHANGED <<req, policies>> /\ Load(r, "execute")
  BY InvByRequest DEF Execute
<1>2. /\ Live \in Nat /\ Live > 0
      /\ "execute" \in Parts /\ "serve" \in Parts /\ "auth" \in Parts
  BY DEF Reloads!TypeOK, Reloads!Live, Live, Parts
<1>3. CASE Respond(r)
  BY <1>1, <1>2, <1>3, RespondKeeps
<1>4. CASE ~Respond(r)
  <2>1. /\ phase' = [phase EXCEPT ![r] = "upstream"] /\ pc' = pc
        /\ req[r].target \in UpstreamTargets(Live)
    BY <1>4 DEF Execute, Goto, slots
  <2>2. UpstreamTargets(Live) = Config(Live).target
    <3>1. Live \in 1..Reloading!Live
      BY <1>2 DEF Live, Reloading!Live
    <3> QED
      BY <3>1 DEF SnapshotCoherent, Reloading!SnapshotCoherent, UpstreamTargets, Config
  <2>3. /\ view' = [view EXCEPT ![r] = [view[r] EXCEPT !["execute"] = Live]]
        /\ view'[r] \in [Parts -> 0..Live]
        /\ view'[r].execute = Live
        /\ view'[r].auth = view[r].auth /\ view'[r].serve = view[r].serve
    BY <1>1, <1>2, LoadTyped
  <2>4. Domains' /\ OthersKept(r)
    BY <1>1, <2>1, <2>3 DEF Domains, OthersKept
  <2>5. phase'[r] = "upstream" /\ pc'[r] = pc[r] /\ req'[r] = req[r] /\ snapshots' = snapshots
    BY <1>1, <2>1 DEF Domains, policies
  <2>6. Typed(r)'
    BY <1>1, <1>2, <2>3, <2>5 DEF Typed, Phases, Live
  <2>7. PastAuth(r)'
    BY <1>1, <2>3, <2>5 DEF PastAuth, AuthSkips, CheckBearer, Config
  <2>8. PastServe(r)'
    BY <1>1, <2>3, <2>5 DEF PastServe, Config
  <2>9. Sent(r)'
    BY <2>1, <2>2, <2>3, <2>5 DEF Sent, Config
  <2> QED
    BY <1>1, <2>4, <2>6, <2>7, <2>8, <2>9, FrameKeeps
<1> QED
  BY <1>3, <1>4

(* The answer leaves, or the client does.                                  *)
LEMMA ForgetKeeps ==
  ASSUME Inv, Reloads!TypeOK, NEW r \in Request, Stamp(r) \/ Disconnect(r) PROVE Inv'
<1>1. Domains /\ Typed(r) /\ UNCHANGED policies
  BY InvByRequest DEF Stamp, Disconnect
<1>2. /\ phase' = [phase EXCEPT ![r] = "idle"]
      /\ req' = [req EXCEPT ![r] = NoRequest]
      /\ view' = [view EXCEPT ![r] = NoView]
  BY DEF Stamp, Disconnect, Forget, Goto
<1>3. pc' = [pc EXCEPT ![r] = "idle"]
  <2>1. CASE Stamp(r)
    BY <1>1, <2>1 DEF Stamp, slots, Domains, Typed
  <2>2. CASE Disconnect(r)
    BY <2>2 DEF Disconnect, Shedding!Leave
  <2> QED
    BY <2>1, <2>2
<1>4. Domains' /\ OthersKept(r)
  BY <1>1, <1>2, <1>3 DEF Domains, OthersKept
<1>5. phase'[r] = "idle" /\ req'[r] = NoRequest /\ view'[r] = NoView /\ pc'[r] = "idle"
  BY <1>1, <1>2, <1>3 DEF Domains
<1>6. NoView \in [Parts -> 0..Live] /\ Live' = Live
  BY <1>1 DEF NoView, Reloads!TypeOK, Reloads!Live, Live, policies
<1>7. Typed(r)' /\ PastAuth(r)' /\ PastServe(r)' /\ Sent(r)'
  BY <1>5, <1>6 DEF Typed, Phases, Shedding!Pcs, PastAuth, PastServe, Sent
<1> QED
  BY <1>1, <1>4, <1>7, FrameKeeps

(* Nothing moves.                                                          *)
LEMMA StutterKeeps == ASSUME Inv, UNCHANGED vars PROVE Inv'
  BY DEF Inv, TypeOK, Guarded, PastAuth, PastServe, Sent, AuthSkips, CheckBearer, Config, Live,
     vars, slots, policies

LEMMA InvHolds == Spec => []Inv
<1>1. Init /\ Reloads!TypeOK => Inv
  BY InitInv
<1>2. Inv /\ Reloads!TypeOK /\ SnapshotCoherent /\ [Next]_vars => Inv'
  <2> SUFFICES ASSUME Inv, Reloads!TypeOK, SnapshotCoherent, [Next]_vars PROVE Inv'
    OBVIOUS
  <2>1. CASE Reload
    BY <2>1, ReloadKeeps
  <2>2. ASSUME NEW r \in Request, Proceed(r) PROVE Inv'
    BY <2>2, HeaderLimitKeeps, ShedKeeps, AuthKeeps, AnswersKeep, ServeKeeps, ExecuteKeeps,
       ForgetKeeps DEF Proceed
  <2>3. ASSUME NEW r \in Request, Event(r) PROVE Inv'
    BY <2>3, ArriveKeeps, AnswersKeep, ForgetKeeps DEF Event
  <2>4. CASE UNCHANGED vars
    BY <2>4, StutterKeeps
  <2> QED
    BY <2>1, <2>2, <2>3, <2>4 DEF Next
<1> QED
  BY <1>1, <1>2, ReloadsHere, PTL DEF Spec

-----------------------------------------------------------------------------
(* The phases of a request, its slot and what it has loaded agree.         *)
THEOREM TypeCorrect == Spec => []TypeOK
  BY InvHolds, PTL DEF Inv

(* No request is sent upstream but under snapshots that let it through.    *)
THEOREM AdmittedDispatch == Spec => []DispatchAdmitted
<1>1. Inv => DispatchAdmitted
  BY DEF Inv, Guarded, PastAuth, PastServe, Sent, AuthSkips, DispatchAdmitted
<1> QED
  BY <1>1, InvHolds, PTL

(* The snapshots are coherent with requests running: whatever a reload     *)
(* retains works by the configuration it is used under.                    *)
THEOREM CoherentThroughout == Spec => []SnapshotCoherent
  BY ReloadsHere, PTL

(* A section that no reload of a run changes keeps its memory through all  *)
(* of them, whatever requests do meanwhile.                                *)
THEOREM RetainedThroughout == Spec => []StateRetained
  BY ReloadsHere, PTL

(* The cap of the load-shedding layer is among what assert_immutable        *)
(* compares: every snapshot's configuration names the same one.             *)
CapKept == \A i \in 1..Live : Config(i).limits.inflight_max = max

LEMMA CapThroughout == Spec => []CapKept
<1>1. Init => max = frozen.limits.inflight_max
  BY DEF Init
<1>2. max = frozen.limits.inflight_max /\ [Next]_vars => (max = frozen.limits.inflight_max)'
  <2> SUFFICES ASSUME [Next]_vars PROVE UNCHANGED <<max, frozen>>
    OBVIOUS
  <2>1. CASE Reload \/ UNCHANGED vars
    BY <2>1 DEF Reload, Reloading!Reload, vars, slots, policies
  <2>2. ASSUME NEW r \in Request, Proceed(r) \/ Event(r) PROVE UNCHANGED <<max, frozen>>
    BY <2>2 DEF Proceed, Event, HeaderLimit, ShedRequest, Auth, Ops, Preflight, Serve, Execute,
       Timeout, Stamp, Arrive, UpstreamReturns, Panic, Disconnect, Respond, Shedding!Enter,
       Shedding!Shed, Shedding!Leave, slots, policies
  <2> QED
    BY <2>1, <2>2 DEF Next
<1>3. Reloads!ComparedKept /\ max = frozen.limits.inflight_max => CapKept
  <2> SUFFICES ASSUME Reloads!ComparedKept, max = frozen.limits.inflight_max, NEW i \in 1..Live
               PROVE  Config(i).limits.inflight_max = max
    BY DEF CapKept
  <2>1. Reloads!AssertImmutable(snapshots[i].config)
    BY DEF Reloads!ComparedKept, Reloads!Live, Live
  <2> QED
    BY <2>1 DEF Reloads!AssertImmutable, Config
<1> QED
  BY <1>1, <1>2, <1>3, ReloadsHere, PTL DEF Spec
-----------------------------------------------------------------------------
(* The chain is used as LoadShed is: what is proved of it holds here.       *)
Sheds == INSTANCE LoadShedProofs WITH Task <- Request

LEMMA ImplementsShed == Spec => Sheds!Spec
<1>1. Init => Sheds!Init
  BY DEF Init, Shedding!Init, Sheds!Init
<1>2. [Next]_vars => [Sheds!Next]_(Sheds!vars)
  <2> SUFFICES ASSUME [Next]_vars PROVE [Sheds!Next]_(Sheds!vars)
    OBVIOUS
  <2>1. CASE Reload \/ UNCHANGED vars
    BY <2>1 DEF Reload, vars, slots, Sheds!vars
  <2>2. ASSUME NEW r \in Request, Proceed(r) \/ Event(r)
        PROVE  [Sheds!Next]_(Sheds!vars)
    <3>1. \/ Shedding!Enter(r) \/ Shedding!Shed(r) \/ Shedding!Leave(r)
          \/ UNCHANGED slots
      BY <2>2 DEF Proceed, Event, HeaderLimit, ShedRequest, Auth, Ops, Preflight, Serve, Execute,
         Timeout, Stamp, Arrive, UpstreamReturns, Panic, Disconnect, Respond
    <3>2. \/ Sheds!Enter(r) \/ Sheds!Shed(r) \/ Sheds!Leave(r)
          \/ UNCHANGED slots
      BY <3>1 DEF Shedding!Enter, Shedding!Shed, Shedding!Leave, Sheds!Enter, Sheds!Shed, Sheds!Leave
    <3> QED
      BY <3>2 DEF Sheds!Next, Sheds!vars, slots
  <2> QED
    BY <2>1, <2>2 DEF Next
<1> QED
  BY <1>1, <1>2, PTL DEF Spec, Sheds!Spec

LEMMA ShedsAssumed ==
  /\ Sheds!IsFiniteSet(Request) /\ Limits \subseteq Nat
  /\ \A S : Sheds!Cardinality(S) = Cardinality(S)
<1>1. Sheds!IsFiniteSet(Request) /\ Limits \subseteq Nat
  BY PipelineAssumption DEF IsFiniteSet, Sheds!IsFiniteSet
<1>2. ASSUME NEW S PROVE Sheds!Cardinality(S) = Cardinality(S)
  BY DEF Cardinality, Sheds!Cardinality
<1> QED
  BY <1>1, <1>2

(* inflight_max end to end: a request past the layers holds a permit if    *)
(* there is a cap, and the cap is the one every stored configuration names. *)
THEOREM InflightCap == Spec => []InflightBounded
<1>1. Sheds!Spec => []Sheds!Inv
  BY Sheds!InvHolds, ShedsAssumed
<1>2. Sheds!Spec => [](Sheds!Uncounted)
  BY Sheds!CappedOrNot, ShedsAssumed
<1>3. Inv /\ CapKept /\ Sheds!Inv /\ Sheds!Uncounted
        => InflightBounded
  <2> SUFFICES ASSUME Inv, CapKept, Sheds!Inv, \A t \in Request : pc[t] # "inner",
                      NEW i \in 1..Live, max # 0
               PROVE  Cardinality(Handled) <= max
    BY DEF CapKept, InflightBounded, Sheds!Uncounted
  <2>1. Handled \in SUBSET Sheds!Holding
    BY DEF Inv, TypeOK, Shedding!Pcs, Handled, Sheds!Holding
  <2>2. IsFiniteSet(Sheds!Holding)
    BY PipelineAssumption, FS_Subset DEF Sheds!Holding
  <2>3. /\ Cardinality(Handled) <= Cardinality(Sheds!Holding)
        /\ Cardinality(Handled) \in Nat /\ Cardinality(Sheds!Holding) \in Nat
    BY <2>1, <2>2, FS_Subset, FS_CardinalityType
  <2>4. max \in Nat
    BY DEF Sheds!Inv, Sheds!TypeOK
  <2> QED
    BY <2>3, <2>4, ShedsAssumed DEF Sheds!Inv, Sheds!CapHolds
<1> QED
  BY <1>1, <1>2, <1>3, ImplementsShed, InvHolds, CapThroughout, PTL
-----------------------------------------------------------------------------
(* The steps a request may still take.                                     *)
StepsLeft(r) ==
  CASE phase[r] = "idle" -> 0
    [] phase[r] = "answered" -> 1
    [] phase[r] = "upstream" -> 2
    [] phase[r] = "served" -> 3
    [] phase[r] = "admitted" -> 4
    [] phase[r] = "entered" -> 5
    [] OTHER -> 6

(* No layer sends a request back: its own steps and whatever happens to it  *)
(* (timeout, panic, disconnect) bring it nearer its end, and neither a     *)
(* reload nor another request, at the cap or not, sets it back.            *)
PipelineWaitFree ==
  [][\A r \in Request :
       IF Proceed(r) \/ Event(r) THEN phase[r] = "idle" \/ StepsLeft(r)' < StepsLeft(r)
                                 ELSE StepsLeft(r)' = StepsLeft(r)]_vars

(* Only r moves when r moves.                                              *)
LEMMA MovesAlone ==
  ASSUME Inv, NEW q \in Request, Proceed(q) \/ Event(q), NEW r \in Request, r # q
  PROVE  phase'[r] = phase[r]
<1>1. phase' = phase \/ \E label : Goto(q, label)
  BY DEF Proceed, Event, HeaderLimit, ShedRequest, Auth, Ops, Preflight, Serve, Execute, Timeout,
     Stamp, Forget, Arrive, UpstreamReturns, Panic, Disconnect, Respond
<1> QED
  BY <1>1 DEF Goto, Inv, TypeOK

LEMMA MovesOn ==
  ASSUME Inv, NEW r \in Request, Proceed(r) \/ Event(r), phase[r] # "idle"
  PROVE  StepsLeft(r)' < StepsLeft(r)
<1>1. phase[r] \in Phases
  BY DEF Inv, TypeOK
<1>2. CASE Arrive(r)
  BY <1>2 DEF Arrive
<1>3. CASE HeaderLimit(r) \/ ShedRequest(r)
  <2>1. \/ phase[r] = "arrived" /\ phase'[r] \in {"answered", "entered"}
        \/ phase[r] = "entered" /\ phase'[r] = "answered"
    BY <1>3 DEF HeaderLimit, ShedRequest, Goto, Inv, TypeOK
  <2> QED
    BY <2>1 DEF StepsLeft
<1>4. CASE Auth(r)
  <2>1. phase[r] = "entered" /\ phase'[r] \in {"answered", "admitted"}
    BY <1>4 DEF Auth, Respond, Goto, Inv, TypeOK
  <2> QED
    BY <2>1 DEF StepsLeft
<1>5. CASE Serve(r) \/ Execute(r)
  <2>1. \/ phase[r] = "admitted" /\ phase'[r] \in {"answered", "served"}
        \/ phase[r] = "served" /\ phase'[r] \in {"answered", "upstream"}
    BY <1>5 DEF Serve, Execute, Respond, Goto, Inv, TypeOK
  <2> QED
    BY <2>1 DEF StepsLeft
<1>6. CASE Ops(r) \/ Preflight(r) \/ UpstreamReturns(r) \/ Timeout(r) \/ Panic(r)
  <2>1. phase[r] \in {"entered", "admitted", "served", "upstream"} /\ phase'[r] = "answered"
    BY <1>6 DEF Ops, Preflight, UpstreamReturns, Timeout, Panic, Respond, Goto, Inv, TypeOK
  <2> QED
    BY <2>1 DEF StepsLeft
<1>7. CASE Stamp(r) \/ Disconnect(r)
  <2>1. phase[r] \in {"answered", "upstream"} /\ phase'[r] = "idle"
    BY <1>7 DEF Stamp, Disconnect, Forget, Goto, Inv, TypeOK
  <2> QED
    BY <2>1 DEF StepsLeft
<1> QED
  BY <1>2, <1>3, <1>4, <1>5, <1>6, <1>7 DEF Proceed, Event

(* A request is over six steps after it arrives, for any number of them and *)
(* any reloads.  That it takes them rests on fairness (RequestsAnswered).   *)
THEOREM PipelineEnds == Spec => PipelineWaitFree
<1>1. ASSUME Inv, [Next]_vars, NEW r \in Request, ~(Proceed(r) \/ Event(r))
      PROVE  StepsLeft(r)' = StepsLeft(r)
  <2>1. phase'[r] = phase[r]
    <3>1. CASE Reload \/ UNCHANGED vars
      BY <3>1 DEF Reload, vars
    <3>2. ASSUME NEW q \in Request, Proceed(q) \/ Event(q) PROVE phase'[r] = phase[r]
      BY <1>1, <3>2, MovesAlone
    <3> QED
      BY <1>1, <3>1, <3>2 DEF Next
  <2> QED
    BY <2>1 DEF StepsLeft
<1>2. Inv /\ [Next]_vars =>
        [\A r \in Request :
           IF Proceed(r) \/ Event(r) THEN phase[r] = "idle" \/ StepsLeft(r)' < StepsLeft(r)
                                     ELSE StepsLeft(r)' = StepsLeft(r)]_vars
  BY <1>1, MovesOn
<1> QED
  BY <1>2, InvHolds, PTL DEF Spec, PipelineWaitFree
-----------------------------------------------------------------------------
(* How far the claim of OneSnapshot misses                                 *)

Forward(r) ==
  /\ \A p \in Parts : view[r][p] <= Live
  /\ view[r]["serve"] > 0 => view[r]["auth"] <= view[r]["serve"]
  /\ view[r]["execute"] > 0 => view[r]["serve"] <= view[r]["execute"]
  /\ view[r]["shape"] > 0 => view[r]["execute"] <= view[r]["shape"]

(* A part of the way never goes by an older snapshot than a part before it: *)
(* what a reload forbids while a request is on its way is forbidden by     *)
(* every part that loads a snapshot after it.                              *)
SnapshotsForward == \A r \in Request : Forward(r)

(* The order in which the parts load, and that a request starts afresh.    *)
LoadOrder(r) ==
  /\ phase[r] \in {"idle", "arrived"} => view[r] = NoView
  /\ phase[r] \in {"entered", "admitted"} =>
       view[r]["serve"] = 0 /\ view[r]["execute"] = 0 /\ view[r]["shape"] = 0
  /\ phase[r] = "served" => view[r]["execute"] = 0 /\ view[r]["shape"] = 0
  /\ phase[r] = "upstream" => view[r]["shape"] = 0

(* Only r loads when r moves.                                              *)
LEMMA LoadsAlone ==
  ASSUME Inv, NEW q \in Request, Proceed(q) \/ Event(q)
  PROVE  snapshots' = snapshots /\ \A r \in Request : r # q => view'[r] = view[r]
<1>1. snapshots' = snapshots
  BY DEF Proceed, Event, HeaderLimit, ShedRequest, Auth, Ops, Preflight, Serve, Execute, Timeout,
     Stamp, Arrive, UpstreamReturns, Panic, Disconnect, policies
<1>2. view' = view \/ (\E part \in Parts : Load(q, part)) \/ Forget(q)
  BY DEF Proceed, Event, HeaderLimit, ShedRequest, Auth, Ops, Preflight, Serve, Execute, Timeout,
     Stamp, Arrive, UpstreamReturns, Panic, Disconnect, Parts
<1> QED
  BY <1>1, <1>2 DEF Load, Forget, Inv, TypeOK

(* What a step of r loads, and where it leaves r.                          *)
LEMMA LoadsInOrder ==
  ASSUME Inv, NEW r \in Request, Proceed(r) \/ Event(r)
  PROVE  \/ phase'[r] = "idle" /\ view'[r] = NoView
         \/ view'[r] = view[r] /\ phase[r] = "idle" /\ phase'[r] = "arrived"
         \/ view'[r] = view[r] /\ phase[r] = "arrived" /\ phase'[r] = "entered"
         \/ view'[r] = view[r] /\ phase[r] = "entered" /\ phase'[r] = "admitted"
         \/ view'[r] = view[r] /\ phase'[r] = "answered"
         \/ phase[r] = "entered" /\ phase'[r] \in {"admitted", "answered"} /\ Load(r, "auth")
         \/ phase[r] = "admitted" /\ phase'[r] \in {"served", "answered"} /\ Load(r, "serve")
         \/ phase[r] = "served" /\ phase'[r] \in {"upstream", "answered"} /\ Load(r, "execute")
         \/ phase[r] = "upstream" /\ phase'[r] = "answered" /\ Load(r, "shape")
<1>1. CASE Arrive(r) \/ HeaderLimit(r) \/ ShedRequest(r)
  BY <1>1 DEF Arrive, HeaderLimit, ShedRequest, Goto, Inv, TypeOK
<1>2. CASE Auth(r)
  BY <1>2 DEF Auth, Respond, Goto, Inv, TypeOK
<1>3. CASE Serve(r) \/ Preflight(r)
  BY <1>3 DEF Serve, Preflight, Respond, Goto, Inv, TypeOK
<1>4. CASE Execute(r)
  BY <1>4 DEF Execute, Respond, Goto, Inv, TypeOK
<1>5. CASE Ops(r) \/ UpstreamReturns(r) \/ Timeout(r) \/ Panic(r)
  BY <1>5 DEF Ops, UpstreamReturns, Timeout, Panic, Respond, Goto, Inv, TypeOK
<1>6. CASE Stamp(r) \/ Disconnect(r)
  BY <1>6 DEF Stamp, Disconnect, Forget, Goto, Inv, TypeOK
<1> QED
  BY <1>1, <1>2, <1>3, <1>4, <1>5, <1>6 DEF Proceed, Event

(* Snapshots are only added.                                               *)
LEMMA LiveGrows ==
  ASSUME Reloads!TypeOK, Reload
  PROVE  Live' \in Nat /\ Live' >= Live /\ UNCHANGED <<view, phase>>
<1>1. Live \in Nat /\ snapshots \in Seq(Reloads!LivePolicies)
  BY DEF Reloads!TypeOK, Reloads!Live, Live
<1>2. \E s : snapshots' = Append(snapshots, s)
  BY DEF Reload, Reloading!Reload
<1> QED
  BY <1>1, <1>2 DEF Reload, Live

LEMMA OwnStep ==
  ASSUME Inv, Reloads!TypeOK, NEW r \in Request, Proceed(r) \/ Event(r), LoadOrder(r), Forward(r)
  PROVE  LoadOrder(r)' /\ Forward(r)'
<1>1. Live \in Nat /\ Live > 0 /\ Live' = Live
  BY LoadsAlone DEF Reloads!TypeOK, Reloads!Live, Live
<1>2. view[r] \in [Parts -> 0..Live] /\ phase[r] \in Phases
  BY DEF Inv, TypeOK
<1>3. CASE phase'[r] = "idle" /\ view'[r] = NoView
  BY <1>1, <1>3 DEF NoView, Parts, LoadOrder, Forward
<1>4. CASE \/ view'[r] = view[r] /\ phase[r] = "idle" /\ phase'[r] = "arrived"
           \/ view'[r] = view[r] /\ phase[r] = "arrived" /\ phase'[r] = "entered"
           \/ view'[r] = view[r] /\ phase[r] = "entered" /\ phase'[r] = "admitted"
           \/ view'[r] = view[r] /\ phase'[r] = "answered"
  BY <1>1, <1>4 DEF NoView, Parts, LoadOrder, Forward
<1>5. ASSUME NEW part \in Parts, Load(r, part),
             \/ phase[r] = "entered" /\ phase'[r] \in {"admitted", "answered"} /\ part = "auth"
             \/ phase[r] = "admitted" /\ phase'[r] \in {"served", "answered"} /\ part = "serve"
             \/ phase[r] = "served" /\ phase'[r] \in {"upstream", "answered"} /\ part = "execute"
             \/ phase[r] = "upstream" /\ phase'[r] = "answered" /\ part = "shape"
      PROVE  LoadOrder(r)' /\ Forward(r)'
  <2>1. /\ view'[r][part] = Live
        /\ \A other \in Parts \ {part} : view'[r][other] = view[r][other]
    BY <1>5, LoadTyped
  <2> QED
    BY <1>1, <1>2, <1>5, <2>1 DEF Parts, LoadOrder, Forward
<1> QED
  BY <1>3, <1>4, <1>5, LoadsInOrder DEF Parts

Orderly == \A r \in Request : LoadOrder(r) /\ Forward(r)

(* Parts load in order, each the live snapshot.                            *)
LEMMA OrderlyHolds == Spec => []Orderly
<1>1. Init /\ Reloads!TypeOK => Orderly
  BY DEF Orderly, Init, NoView, Parts, LoadOrder, Forward, Reloads!TypeOK, Reloads!Live, Live
<1>2. Inv /\ Reloads!TypeOK /\ Orderly /\ [Next]_vars => Orderly'
  <2> SUFFICES ASSUME Inv, Reloads!TypeOK, Orderly, [Next]_vars, NEW r \in Request
               PROVE  LoadOrder(r)' /\ Forward(r)'
    BY DEF Orderly
  <2>0. LoadOrder(r) /\ Forward(r)
    BY DEF Orderly
  <2>1. CASE Reload
    <3>1. /\ Live' \in Nat /\ Live' >= Live /\ view'[r] = view[r] /\ phase'[r] = phase[r]
          /\ view[r] \in [Parts -> 0..Live] /\ Live \in Nat
      BY <2>1, LiveGrows DEF Inv, TypeOK, Reloads!TypeOK, Reloads!Live, Live
    <3> QED
      BY <2>0, <3>1 DEF LoadOrder, Forward
  <2>2. ASSUME NEW q \in Request, Proceed(q) \/ Event(q)
        PROVE  LoadOrder(r)' /\ Forward(r)'
    <3>1. CASE q = r
      BY <2>0, <2>2, <3>1, OwnStep
    <3>2. CASE q # r
      <4>1. view'[r] = view[r] /\ phase'[r] = phase[r] /\ Live' = Live
        BY <2>2, <3>2, LoadsAlone, MovesAlone DEF Live
      <4> QED
        BY <2>0, <4>1 DEF LoadOrder, Forward
    <3> QED
      BY <3>1, <3>2
  <2>3. CASE UNCHANGED vars
    BY <2>0, <2>3 DEF vars, policies, LoadOrder, Forward, Live
  <2> QED
    BY <2>1, <2>2, <2>3 DEF Next
<1> QED
  BY <1>1, <1>2, InvHolds, ReloadsHere, PTL DEF Spec

(* Reloads may race with a request as they like: it never goes back to an   *)
(* older configuration.                                                    *)
THEOREM NeverOlder == Spec => []SnapshotsForward
<1>1. Orderly => SnapshotsForward
  BY DEF Orderly, SnapshotsForward
<1> QED
  BY <1>1, OrderlyHolds, PTL

(* Reloads come only between requests.                                     *)
ReloadsBetween == [][Reload => \A r \in Request : phase[r] = "idle"]_vars

AllLive == \A r \in Request : \A p \in Parts : view[r][p] \in {0, Live}

LEMMA StepStaysLive ==
  ASSUME Inv, Reloads!TypeOK, AllLive, NEW q \in Request, Proceed(q) \/ Event(q)
  PROVE  AllLive'
<1>1. Live' = Live
  BY LoadsAlone DEF Live
<1>2. ASSUME NEW p \in Parts PROVE view'[q][p] \in {0, Live}
  <2>1. CASE view'[q] = NoView \/ view'[q] = view[q]
    BY <2>1 DEF NoView, AllLive
  <2>2. ASSUME NEW part \in Parts, Load(q, part) PROVE view'[q][p] \in {0, Live}
    BY <2>2, LoadTyped DEF AllLive
  <2> QED
    BY <2>1, <2>2, LoadsInOrder DEF Parts
<1>3. ASSUME NEW r \in Request, NEW p \in Parts PROVE view'[r][p] \in {0, Live}
  <2>1. CASE r = q
    BY <1>2, <2>1
  <2>2. CASE r # q
    BY <2>2, LoadsAlone DEF AllLive
  <2> QED
    BY <2>1, <2>2
<1> QED
  BY <1>1, <1>3 DEF AllLive

(* "Each request loads a single snapshot so the policy view is consistent   *)
(* for the whole handler chain even if a reload races in mid-request"      *)
(* (state.rs:10-12): it is when none races in.  With every reload between   *)
(* two requests, all parts of a request's way go by one snapshot.          *)
THEOREM OneSnapshotBetween == Spec /\ ReloadsBetween => []OneSnapshot
<1>1. Init /\ Reloads!TypeOK => AllLive
  BY DEF Init, NoView, AllLive
<1>2. /\ Inv /\ Reloads!TypeOK /\ Orderly /\ AllLive
      /\ [Next]_vars /\ [Reload => \A r \in Request : phase[r] = "idle"]_vars
      => AllLive'
  <2> SUFFICES ASSUME Inv, Reloads!TypeOK, Orderly, AllLive, [Next]_vars,
                      [Reload => \A r \in Request : phase[r] = "idle"]_vars
               PROVE  AllLive'
    OBVIOUS
  <2>1. CASE UNCHANGED vars
    BY <2>1 DEF vars, policies, AllLive, Live
  <2>2. CASE Reload /\ ~UNCHANGED vars
    <3>1. \A r \in Request : view[r] = NoView
      BY <2>2 DEF Orderly, LoadOrder
    <3>2. view' = view
      BY <2>2 DEF Reload
    <3> QED
      BY <3>1, <3>2 DEF AllLive, NoView
  <2>3. ASSUME NEW q \in Request, Proceed(q) \/ Event(q) PROVE AllLive'
    BY <2>3, StepStaysLive
  <2> QED
    BY <2>1, <2>2, <2>3 DEF Next
<1>3. AllLive => OneSnapshot
  BY DEF AllLive, OneSnapshot
<1> QED
  BY <1>1, <1>2, <1>3, InvHolds, OrderlyHolds, ReloadsHere, PTL DEF Spec, ReloadsBetween
-----------------------------------------------------------------------------
(* Requests read the snapshots and never write them: with any number of     *)
(* them running, snapshots are stored as HotReload prescribes.             *)
THEOREM ReloadUsedCorrectly == Spec => Reloading!Spec
<1>1. Init => Reloading!Init
  BY DEF Init
<1>2. [Next]_vars => [Reloading!Next]_(Reloading!vars)
  <2> SUFFICES ASSUME [Next]_vars PROVE [Reloading!Next]_(Reloading!vars)
    OBVIOUS
  <2>1. CASE Reload
    BY <2>1 DEF Reload, Reloading!Next
  <2>2. CASE \E r \in Request : Proceed(r) \/ Event(r)
    BY <2>2 DEF Proceed, Event, HeaderLimit, ShedRequest, Auth, Ops, Preflight, Serve, Execute, Timeout,
         Stamp, Arrive, UpstreamReturns, Panic, Disconnect, policies, Reloading!vars
  <2>3. CASE UNCHANGED vars
    BY <2>3 DEF vars, policies, Reloading!vars
  <2> QED
    BY <2>1, <2>2, <2>3 DEF Next
<1> QED
  BY <1>1, <1>2, PTL DEF Spec, Reloading!Spec
=============================================================================
