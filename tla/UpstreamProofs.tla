--------------------------- MODULE UpstreamProofs ---------------------------
(***************************************************************************)
(* The redirect loop, for every set of authorities, requests and           *)
(* configurations and any breaker limits.                                  *)
(***************************************************************************)
EXTENDS Upstream, TLAPS

(* What Follow does when it continues.                                     *)
Continues(r) ==
  \E status \in {"found", "temporary"}, form \in Forms, uri \in Uri :
    /\ ~InvalidLocation(req[r], form, uri)
    /\ ~StopsAt(req[r], status, form, uri)
    /\ \E u \in Resolved(req[r].uri, form, uri) :
         req' = [req EXCEPT ![r] = PrepareNext(req[r], status, u)]
    /\ hops' = [hops EXCEPT ![r] = SaturatingInc(hops[r])]
    /\ phase' = [phase EXCEPT ![r] = "loop"]
    /\ UNCHANGED <<cfg, outcome, seen, sent>>

Returns(r) ==
  \E kind \in Kinds, location \in Forms : Return(r, kind, location)

Continuing(r) ==
  /\ phase[r] = "hop"
  /\ cfg.redirect_policy = "follow"
  /\ hops[r] < cfg.max_redirects
  /\ Continues(r)

Dispatching(r) ==
  /\ phase[r] = "loop"
  /\ CheckUri(req[r].uri)
  /\ phase' = [phase EXCEPT ![r] = "hop"]
  /\ seen' = [seen EXCEPT ![r] = @ \cup {req[r].uri}]
  /\ sent' = [sent EXCEPT ![r] = @ + 1]
  /\ UNCHANGED <<cfg, req, hops, outcome>>

(* What a step does to the state of execute, the breaker left aside: it     *)
(* starts a request, dispatches, continues, returns or changes nothing.     *)
LEMMA TaskShapes ==
  ASSUME NEW r \in Request, Start(r) \/ Proceed(r)
  PROVE  UNCHANGED <<cfg, requests>> \/ Start(r) \/ Dispatching(r) \/ Continuing(r) \/ Returns(r)
<1>1. CASE Start(r)
  BY <1>1
<1>2. CASE Reject(r)
  BY <1>2 DEF Reject, Returns, Kinds, Forms
<1>3. CASE Dispatch(r)
  BY <1>3 DEF Dispatch, Permitted, Dispatching
<1>4. CASE CheckHop(r)
  BY <1>4 DEF CheckHop, Returns, Kinds, Forms
<1>5. CASE Settle(r)
  BY <1>5 DEF Settle
<1>6. CASE ClientError(r) \/ Cancel(r) \/ TooManyRedirects(r)
  BY <1>6 DEF ClientError, Cancel, TooManyRedirects, Fail, Returns, Kinds, Forms
<1>7. CASE Answer(r)
  BY <1>7 DEF Answer, SettleTerminal, Returns, Kinds, Forms
<1>8. CASE Unfollowed(r)
  BY <1>8 DEF Unfollowed, Returns, Kinds, Forms
<1>9. CASE Follow(r)
  BY <1>9 DEF Follow, BudgetLeft, Continuing, Continues, Returns, Kinds
<1> QED
  BY <1>1, <1>2, <1>3, <1>4, <1>5, <1>6, <1>7, <1>8, <1>9 DEF Proceed

LEMMA StepShapes ==
  ASSUME Next
  PROVE  \/ UNCHANGED <<cfg, requests>>
         \/ \E r \in Request : Start(r) \/ Dispatching(r) \/ Continuing(r) \/ Returns(r)
BY TaskShapes DEF Next, Tick
-----------------------------------------------------------------------------
(* The accounting of the loop: what a task has dispatched, how often and    *)
(* to where, follows from where it is in the loop and how many redirects it *)
(* has followed.                                                            *)
LoopInv ==
  /\ TypeOK
  /\ \A r \in Request :
       /\ phase[r] = "idle" => sent[r] = 0 /\ seen[r] = {} /\ hops[r] = 0
       /\ phase[r] = "loop" => sent[r] = hops[r]
       /\ phase[r] = "hop" => sent[r] = hops[r] + 1
       /\ hops[r] > 0 => cfg.redirect_policy = "follow"
       /\ hops[r] <= cfg.max_redirects
  /\ CredentialsConfined
  /\ NoDowngrade
  /\ HopsWithinPolicy
  /\ NoEmptyReplay

LEMMA LoopInit == Init => LoopInv
<1> SUFFICES ASSUME Init PROVE LoopInv
  OBVIOUS
<1>1. Active = {}
  BY DEF Init, Active
<1>2. cfg \in Configs /\ cfg \in ClientConfig
  BY UpstreamAssumption DEF Init
<1>3. TypeOK
  BY <1>1 DEF Init, TypeOK, Outcomes, NoOutcome, Kinds, Forms
<1>4. CredentialsConfined /\ NoDowngrade /\ HopsWithinPolicy /\ NoEmptyReplay
  BY <1>1 DEF CredentialsConfined, NoDowngrade, HopsWithinPolicy, NoEmptyReplay
<1> QED
  BY <1>2, <1>3, <1>4 DEF Init, LoopInv, ClientConfig

(* split_initial hands over a request of the handler, which has gone nowhere. *)
LEMMA StartKeeps ==
  ASSUME LoopInv, NEW r \in Request, Start(r), faulty' \in SUBSET Host
  PROVE  LoopInv'
<1>1. PICK q \in Incoming : req' = [req EXCEPT ![r] = q]
  BY DEF Start
<1>2. q \in HopRequest /\ q.uri.scheme \in Schemes /\ q.host = q.uri.authority
  BY UpstreamAssumption DEF InitialRequests
<1>3. Active' = Active \cup {r}
  BY DEF Start, Active, LoopInv, TypeOK
<1>4. TypeOK'
  BY <1>1, <1>2, <1>3 DEF Start, LoopInv, TypeOK, Outcomes, NoOutcome, Kinds, Forms, Active
<1>5. CredentialsConfined' /\ NoDowngrade' /\ HopsWithinPolicy' /\ NoEmptyReplay'
  BY <1>1, <1>2, <1>3
     DEF Start, LoopInv, TypeOK, Active, CredentialsConfined, NoDowngrade, HopsWithinPolicy,
         NoEmptyReplay, AuthorityDiffers, CheckUri, CheckAuthority, AllowedSchemes
<1> QED
  BY <1>1, <1>2, <1>3, <1>4, <1>5 DEF Start, LoopInv, TypeOK

LEMMA DispatchKeeps ==
  ASSUME LoopInv, NEW r \in Request, Dispatching(r), faulty' \in SUBSET Host
  PROVE  LoopInv'
<1>1. Active' = Active /\ r \in Active
  BY DEF Dispatching, Active, LoopInv, TypeOK
<1>2. req[r] \in HopRequest
  BY <1>1 DEF LoopInv, TypeOK
<1>3. TypeOK'
  BY <1>1, <1>2 DEF Dispatching, LoopInv, TypeOK, HopRequest
<1>4. CredentialsConfined' /\ NoDowngrade' /\ NoEmptyReplay'
  BY <1>1, <1>2
     DEF Dispatching, LoopInv, TypeOK, CredentialsConfined, NoDowngrade, NoEmptyReplay,
         AuthorityDiffers
<1>5. HopsWithinPolicy'
  BY <1>1, <1>2
     DEF Dispatching, LoopInv, TypeOK, HopsWithinPolicy, CheckUri, CheckAuthority, AllowedSchemes
<1> QED
  BY <1>1, <1>2, <1>3, <1>4, <1>5 DEF Dispatching, LoopInv, TypeOK

(* The body of the loop: a redirect that is followed.                      *)
LEMMA ContinueKeeps ==
  ASSUME LoopInv, NEW r \in Request, Continuing(r), faulty' \in SUBSET Host
  PROVE  LoopInv'
<1>1. PICK status \in {"found", "temporary"}, form \in Forms, uri \in Uri :
        /\ ~InvalidLocation(req[r], form, uri)
        /\ ~StopsAt(req[r], status, form, uri)
        /\ \E u \in Resolved(req[r].uri, form, uri) :
             req' = [req EXCEPT ![r] = PrepareNext(req[r], status, u)]
        /\ hops' = [hops EXCEPT ![r] = SaturatingInc(hops[r])]
        /\ phase' = [phase EXCEPT ![r] = "loop"]
        /\ UNCHANGED <<cfg, outcome, seen, sent>>
  BY DEF Continuing, Continues
<1>2. PICK u \in Resolved(req[r].uri, form, uri) :
        req' = [req EXCEPT ![r] = PrepareNext(req[r], status, u)]
  BY <1>1
<1> DEFINE q == PrepareNext(req[r], status, u)
<1>3. Active' = Active /\ r \in Active
  BY <1>1 DEF Continuing, Active, LoopInv, TypeOK
<1>4. req[r] \in HopRequest /\ req[r].uri.scheme \in Schemes
  BY <1>3 DEF LoopInv, TypeOK
<1>5. u \in Uri /\ u.scheme \in Schemes
  BY <1>2, <1>4 DEF Resolved, HopRequest
<1>6. ~cfg.allow_downgrade => ~IsDowngrade(req[r].uri, u)
  <2>1. PICK v \in Resolved(req[r].uri, form, uri) :
          ~(~cfg.allow_downgrade /\ IsDowngrade(req[r].uri, v))
    BY <1>1 DEF InvalidLocation, StopsAt
  <2>2. u = v \/ u.scheme = req[r].uri.scheme
    BY <1>2, <2>1 DEF Resolved
  <2> QED
    BY <2>1, <2>2 DEF IsDowngrade
<1>7. ~BodyBearing(NextMethod(req[r].method, status))
  BY <1>1 DEF StopsAt, CannotReplay, NextMethod, DropsBody, BodyBearing
<1>8. q \in HopRequest
  <2> DEFINE cross == AuthorityDiffers(req[r].uri.authority, u.authority)
  <2>1. NextMethod(req[r].method, status) \in Methods
    BY <1>4 DEF HopRequest, NextMethod, Methods
  <2>2. (req[r].creds /\ ~cross) \in BOOLEAN
    OBVIOUS
  <2>3. (IF cross THEN NoAuthority ELSE req[r].host) \in Authority \cup {NoAuthority}
    BY <1>4 DEF HopRequest
  <2>4. req[r].length \in BOOLEAN
    BY <1>4 DEF HopRequest
  <2>5. q = [method |-> NextMethod(req[r].method, status), uri |-> u,
             creds |-> req[r].creds /\ ~cross,
             host |-> IF cross THEN NoAuthority ELSE req[r].host,
             length |-> req[r].length, body |-> FALSE]
    BY DEF PrepareNext
  <2> HIDE DEF cross, q
  <2> QED
    BY <1>5, <2>1, <2>2, <2>3, <2>4, <2>5 DEF HopRequest
<1>9. /\ q.uri = u /\ ~q.body /\ ~BodyBearing(q.method)
      /\ q.creds => req[r].creds /\ ~AuthorityDiffers(req[r].uri.authority, u.authority)
      /\ q.host # NoAuthority =>
           q.host = req[r].host /\ ~AuthorityDiffers(req[r].uri.authority, u.authority)
  BY <1>7 DEF PrepareNext
<1>10. req' = [req EXCEPT ![r] = q]
  BY <1>2
<1> HIDE DEF q
<1>11. cfg \in ClientConfig
  BY UpstreamAssumption DEF LoopInv, TypeOK
<1>12. /\ SaturatingInc(hops[r]) = hops[r] + 1
       /\ hops[r] + 1 \in 0..255 /\ hops[r] + 1 <= cfg.max_redirects
  <2>1. cfg.max_redirects \in 0..255
    BY <1>11 DEF ClientConfig
  <2>2. hops[r] \in 0..255 /\ hops[r] < cfg.max_redirects
    BY DEF Continuing, LoopInv, TypeOK
  <2>3. \A h, m \in 0..255 :
          h < m => SaturatingInc(h) = h + 1 /\ h + 1 \in 0..255 /\ h + 1 <= m
    BY DEF SaturatingInc
  <2> QED
    BY <2>1, <2>2, <2>3
<1>13. TypeOK'
  BY <1>1, <1>3, <1>5, <1>8, <1>9, <1>10, <1>12 DEF LoopInv, TypeOK
<1>14. CredentialsConfined'
  BY <1>1, <1>3, <1>9, <1>10 DEF LoopInv, TypeOK, CredentialsConfined, AuthorityDiffers
<1>15. NoDowngrade'
  BY <1>1, <1>3, <1>4, <1>6, <1>9, <1>10
     DEF LoopInv, TypeOK, NoDowngrade, IsDowngrade, Schemes
<1>16. HopsWithinPolicy'
  BY <1>1, <1>3
     DEF LoopInv, TypeOK, HopsWithinPolicy, CheckUri, CheckAuthority, AllowedSchemes
<1>17. NoEmptyReplay'
  BY <1>1, <1>3, <1>9, <1>10 DEF LoopInv, TypeOK, NoEmptyReplay
<1> QED
  BY <1>1, <1>12, <1>13, <1>14, <1>15, <1>16, <1>17
     DEF Continuing, LoopInv, TypeOK

LEMMA ReturnKeeps ==
  ASSUME LoopInv, NEW r \in Request, Returns(r), faulty' \in SUBSET Host
  PROVE  LoopInv'
<1>1. PICK kind \in Kinds, location \in Forms : Return(r, kind, location)
  BY DEF Returns
<1>2. Active' = Active \ {r}
  BY <1>1 DEF Return, Active, LoopInv, TypeOK
<1>3. [kind |-> kind, location |-> location] \in Outcomes
  BY DEF Outcomes
<1>4. TypeOK'
  BY <1>1, <1>2, <1>3 DEF Return, LoopInv, TypeOK
<1>5. CredentialsConfined' /\ NoDowngrade' /\ HopsWithinPolicy' /\ NoEmptyReplay'
  BY <1>1, <1>2
     DEF Return, LoopInv, TypeOK, CredentialsConfined, NoDowngrade, HopsWithinPolicy,
         NoEmptyReplay, AuthorityDiffers, CheckUri, CheckAuthority, AllowedSchemes
<1> QED
  <2>1. cfg \in ClientConfig
    BY UpstreamAssumption DEF LoopInv, TypeOK
  <2> QED
    BY <1>1, <1>2, <1>4, <1>5, <2>1 DEF Return, LoopInv, TypeOK, ClientConfig

LEMMA QuietKeeps ==
  ASSUME LoopInv, UNCHANGED <<cfg, requests>>, faulty' \in SUBSET Host
  PROVE  LoopInv'
BY DEF requests, LoopInv, TypeOK, Active, CredentialsConfined, NoDowngrade, HopsWithinPolicy,
       NoEmptyReplay, AuthorityDiffers, CheckUri, CheckAuthority, AllowedSchemes

LEMMA FaultyTyped ==
  ASSUME LoopInv, [Next]_vars
  PROVE  faulty' \in SUBSET Host
<1>1. ASSUME NEW r \in Request, phase[r] = "hop", Blame(r)
      PROVE  faulty' \in SUBSET Host
  <2>1. req[r] \in HopRequest
    BY <1>1 DEF LoopInv, TypeOK, Active
  <2> QED
    BY <1>1, <2>1, UpstreamAssumption DEF Blame, LoopInv, TypeOK, HopRequest, Uri
<1>2. ASSUME NEW r \in Request, Start(r) \/ Proceed(r)
      PROVE  faulty' \in SUBSET Host
  <2>1. CASE Answer(r)
    BY <1>1, <2>1 DEF Answer, SettleTerminal, LoopInv, TypeOK
  <2>2. CASE ClientError(r) \/ Cancel(r) \/ TooManyRedirects(r)
    BY <1>1, <2>2 DEF ClientError, Cancel, TooManyRedirects, Fail
  <2>3. CASE Start(r) \/ Reject(r) \/ Dispatch(r) \/ CheckHop(r) \/ Settle(r)
             \/ Unfollowed(r) \/ Follow(r)
    BY <2>3 DEF Start, Reject, Dispatch, CheckHop, Settle, Unfollowed, Follow, LoopInv, TypeOK
  <2> QED
    BY <1>2, <2>1, <2>2, <2>3 DEF Proceed
<1> QED
  BY <1>2 DEF Next, Tick, vars, LoopInv, TypeOK

LEMMA LoopStep ==
  ASSUME LoopInv, [Next]_vars
  PROVE  LoopInv'
<1>1. faulty' \in SUBSET Host
  BY FaultyTyped
<1>2. CASE UNCHANGED <<cfg, requests>>
  BY <1>1, <1>2, QuietKeeps
<1>3. ASSUME NEW r \in Request, Start(r) \/ Dispatching(r) \/ Continuing(r) \/ Returns(r)
      PROVE  LoopInv'
  BY <1>1, <1>3, StartKeeps, DispatchKeeps, ContinueKeeps, ReturnKeeps
<1>4. CASE UNCHANGED vars
  BY <1>2, <1>4 DEF vars
<1> QED
  BY <1>2, <1>3, <1>4, StepShapes
-----------------------------------------------------------------------------
(* The types of the loop's state: among them, that hops never leaves u8.    *)
THEOREM TypeCorrect == Spec => []TypeOK
<1>1. LoopInv => TypeOK
  BY DEF LoopInv
<1> QED
  BY LoopInit, LoopStep, <1>1, PTL DEF Spec

(* Credentials and the Host header never reach a foreign authority, along   *)
(* chains of any length (prepare_next).                                     *)
THEOREM CredentialsStay == Spec => []CredentialsConfined
<1>1. LoopInv => CredentialsConfined
  BY DEF LoopInv
<1> QED
  BY LoopInit, LoopStep, <1>1, PTL DEF Spec

(* A chain that has used https does not fall back to http.                  *)
THEOREM DowngradeRefused == Spec => []NoDowngrade
<1>1. LoopInv => NoDowngrade
  BY DEF LoopInv
<1> QED
  BY LoopInit, LoopStep, <1>1, PTL DEF Spec

(* max_redirects bounds the requests a request causes.                      *)
THEOREM BudgetRespected == Spec => []RedirectBudget
<1>1. LoopInv => RedirectBudget
  <2> SUFFICES ASSUME LoopInv, NEW r \in Active
               PROVE  sent[r] <= 1 + (IF cfg.redirect_policy = "follow" THEN cfg.max_redirects
                                                                     ELSE 0)
    BY DEF RedirectBudget
  <2>1. cfg \in ClientConfig
    BY UpstreamAssumption DEF LoopInv, TypeOK
  <2>2. cfg.max_redirects \in 0..255 /\ hops[r] \in 0..255
    BY <2>1 DEF LoopInv, TypeOK, ClientConfig, Active
  <2>3. sent[r] <= hops[r] + 1
    BY <2>2 DEF LoopInv, TypeOK, Active
  <2>4. hops[r] <= IF cfg.redirect_policy = "follow" THEN cfg.max_redirects ELSE 0
    BY <2>2 DEF LoopInv, Active
  <2>5. sent[r] \in Nat
    BY DEF LoopInv, TypeOK, Active
  <2>6. \A s, h, m \in Nat : s <= h + 1 /\ h <= m => s <= 1 + m
    OBVIOUS
  <2> QED
    <3>1. CASE cfg.redirect_policy = "follow"
      <4>1. cfg.max_redirects \in Nat /\ hops[r] \in Nat
        BY <2>2
      <4>2. hops[r] <= cfg.max_redirects
        BY <3>1, <2>4
      <4>3. sent[r] <= 1 + cfg.max_redirects
        BY <4>1, <4>2, <2>3, <2>5, <2>6
      <4> QED
        BY <3>1, <4>3
    <3>2. CASE cfg.redirect_policy # "follow"
      BY <3>2, <2>2, <2>3, <2>4, <2>5
    <3> QED
      BY <3>1, <3>2
<1> QED
  BY LoopInit, LoopStep, <1>1, PTL DEF Spec

(* No hop, the redirected ones included, leaves the target policy.          *)
THEOREM PolicyOnEveryHop == Spec => []HopsWithinPolicy
<1>1. LoopInv => HopsWithinPolicy
  BY DEF LoopInv
<1> QED
  BY LoopInit, LoopStep, <1>1, PTL DEF Spec

(* No request without its body is sent under a method that promises one.    *)
THEOREM ReplayRefused == Spec => []NoEmptyReplay
<1>1. LoopInv => NoEmptyReplay
  BY DEF LoopInv
<1> QED
  BY LoopInit, LoopStep, <1>1, PTL DEF Spec
-----------------------------------------------------------------------------
(* execute implements the protocol of a hop: the loop composed with the     *)
(* breaker makes no step that CircuitBreaker does not allow, so that the    *)
(* breaker's own theorems hold of the composition.                          *)
THEOREM BreakerUsedCorrectly == Spec => UsesBreaker
<1>1. Init => Breaker!Init
  BY DEF Init
<1>2. ASSUME LoopInv, [Next]_vars
      PROVE  [Breaker!Next]_(Breaker!vars)
  <2>1. ASSUME NEW r \in Request, Proceed(r)
        PROVE  [Breaker!Next]_(Breaker!vars)
    <3>1. CASE Dispatch(r)
      <4>1. req[r] \in HopRequest
        BY <1>2, <3>1 DEF Dispatch, LoopInv, TypeOK, Active
      <4>2. HostOf[req[r].uri.authority] \in Host
        BY <4>1, UpstreamAssumption DEF HopRequest, Uri
      <4> QED
        BY <3>1, <4>2 DEF Dispatch, Breaker!Next, Breaker!Step
    <3>2. CASE Reject(r)
      BY <3>2 DEF Reject, breaker, Breaker!vars
    <3>3. CASE CheckHop(r)
      BY <3>3 DEF CheckHop, Breaker!Next, Breaker!Step
    <3>4. CASE Settle(r)
      BY <3>4 DEF Settle, Breaker!Next, Breaker!Step
    <3>5. CASE ClientError(r) \/ Cancel(r) \/ TooManyRedirects(r)
      BY <3>5 DEF ClientError, Cancel, TooManyRedirects, Fail, Breaker!Next, Breaker!Step
    <3>6. CASE Answer(r)
      BY <3>6 DEF Answer, SettleTerminal, Breaker!Next, Breaker!Step
    <3>7. CASE Unfollowed(r) \/ Follow(r)
      BY <3>7 DEF Unfollowed, Follow, Breaker!Next, Breaker!Step
    <3> QED
      BY <2>1, <3>1, <3>2, <3>3, <3>4, <3>5, <3>6, <3>7 DEF Proceed
  <2>2. CASE Tick
    BY <2>2 DEF Tick, Breaker!Next
  <2>3. ASSUME NEW r \in Request, Start(r)
        PROVE  UNCHANGED Breaker!vars
    BY <2>3 DEF Start, breaker, Breaker!vars
  <2>4. CASE UNCHANGED vars
    BY <2>4 DEF vars, breaker, Breaker!vars
  <2> QED
    BY <1>2, <2>1, <2>2, <2>3, <2>4 DEF Next
<1> QED
  BY <1>1, <1>2, LoopInit, LoopStep, PTL DEF Spec, UsesBreaker, Breaker!Spec
-----------------------------------------------------------------------------
(* Which hosts the breaker holds something against                         *)

(* The shape of the breaker's state, of which no value matters here.       *)
Circuit(c) ==
  c = [state |-> c.state, until |-> c.until, probes |-> c.probes, since |-> c.since,
       failures |-> c.failures]

Pass(e) == e = [stage |-> e.stage, excess |-> e.excess, resume |-> e.resume]

Shaped ==
  /\ hosts = [h \in Host |-> hosts[h]] /\ \A h \in Host : Circuit(hosts[h])
  /\ pc = [r \in Request |-> pc[r]]
  /\ target = [r \in Request |-> target[r]]
  /\ evict = [r \in Request |-> evict[r]] /\ \A r \in Request : Pass(evict[r])

Marked(c) == c.state \in {"open", "half_open"} \/ c.failures # {}

(* A failure about to be recorded is against a host that was blamed; while *)
(* a task is in a hop, the breaker has it under the host it is sent to and *)
(* will give it back to the loop.                                          *)
HopInv(r) ==
  /\ pc[r] = "fail" => target[r] \in faulty
  /\ phase[r] = "hop" =>
       /\ pc[r] # "fail"
       /\ target[r] = HostOf[req[r].uri.authority]
       /\ pc[r] \in {"guard", "measure", "sweep"} => evict[r].resume = "flight"

LEMMA TransitionMarks ==
  ASSUME NEW c, Circuit(c), NEW t
  PROVE  LET d == Breaker!TransitionOnCheck(c, t) IN
         Circuit(d) /\ (Marked(d) => Marked(c))
<1> DEFINE d == Breaker!TransitionOnCheck(c, t)
<1>1. CASE Breaker!StartsWindow(c, t)
  <2>1. Marked(c)
    BY <1>1 DEF Breaker!StartsWindow, Breaker!IsExpiredOpen, Marked
  <2>2. Circuit(d)
    BY <1>1 DEF Breaker!TransitionOnCheck, Circuit
  <2> QED
    BY <2>1, <2>2
<1>2. CASE ~Breaker!StartsWindow(c, t)
  BY <1>2 DEF Breaker!TransitionOnCheck, Circuit, Marked
<1> QED
  BY <1>1, <1>2

LEMMA EntryShaped ==
  ASSUME Shaped, NEW h
  PROVE  /\ Circuit(Breaker!Entry(h))
         /\ h \in Host => (Marked(Breaker!Entry(h)) => Marked(hosts[h]))
<1>1. CASE h \in Breaker!Tracked
  BY <1>1 DEF Breaker!Tracked, Breaker!Entry, Shaped
<1>2. CASE h \notin Breaker!Tracked
  BY <1>2 DEF Breaker!Entry, Breaker!NewCircuit, Breaker!Absent, Circuit, Marked
<1> QED
  BY <1>1, <1>2

LEMMA EmptyCircuits ==
  /\ Circuit(Breaker!Absent) /\ ~Marked(Breaker!Absent)
  /\ Circuit(Breaker!NewCircuit) /\ ~Marked(Breaker!NewCircuit)
BY DEF Breaker!Absent, Breaker!NewCircuit, Circuit, Marked

(* What a step of a hop does to the map: it marks no host but, recording a *)
(* failure, the hop's own.                                                 *)
LEMMA MapStep ==
  ASSUME Shaped, NEW r \in Request, Breaker!Step(r)
  PROVE  /\ hosts' = [h \in Host |-> hosts'[h]]
         /\ \A h \in Host : Circuit(hosts'[h])
         /\ \A h \in Host : Marked(hosts'[h]) =>
              Marked(hosts[h]) \/ (pc[r] = "fail" /\ h = target[r])
<1> DEFINE Goal == /\ hosts' = [h \in Host |-> hosts'[h]]
                   /\ \A h \in Host : Circuit(hosts'[h])
                   /\ \A h \in Host : Marked(hosts'[h]) =>
                        Marked(hosts[h]) \/ (pc[r] = "fail" /\ h = target[r])
<1>0. ASSUME hosts' = hosts PROVE Goal
  BY <1>0 DEF Shaped
<1>1. ASSUME hosts' = [h \in Host |-> hosts'[h]],
             \A h \in Host \ {target[r]} : hosts'[h] = hosts[h],
             target[r] \in Host =>
               /\ Circuit(hosts'[target[r]])
               /\ Marked(hosts'[target[r]]) => Marked(hosts[target[r]]) \/ pc[r] = "fail"
      PROVE  Goal
  BY <1>1 DEF Shaped
<1>2. CASE (\E h \in Host : Breaker!Admit(r, h)) \/ Breaker!Failure(r)
           \/ Breaker!EvictGuard(r) \/ Breaker!EvictMeasure(r)
  BY <1>0, <1>2 DEF Breaker!Admit, Breaker!Failure, Breaker!EvictGuard, Breaker!EvictMeasure
<1>3. CASE Breaker!Check(r)
  <2> DEFINE d == Breaker!TransitionOnCheck(Breaker!Entry(target[r]), at[r])
  <2>1. hosts' = [hosts EXCEPT ![target[r]] = d]
    BY <1>3 DEF Breaker!Check
  <2>2. Circuit(d) /\ (Marked(d) => Marked(Breaker!Entry(target[r])))
    BY EntryShaped, TransitionMarks
  <2>3. target[r] \in Host => (Marked(d) => Marked(hosts[target[r]]))
    BY <2>2, EntryShaped
  <2> HIDE DEF d
  <2>4. /\ hosts' = [h \in Host |-> hosts'[h]]
        /\ \A h \in Host \ {target[r]} : hosts'[h] = hosts[h]
        /\ target[r] \in Host => hosts'[target[r]] = d
    BY <2>1 DEF Shaped
  <2> QED
    BY <1>1, <2>2, <2>3, <2>4
<1>4. CASE Breaker!Success(r)
  <2>1. hosts' = hosts \/ hosts' = [hosts EXCEPT ![target[r]] = Breaker!NewCircuit]
    BY <1>4 DEF Breaker!Success
  <2>2. CASE hosts' = hosts
    BY <1>0, <2>2
  <2>3. CASE hosts' = [hosts EXCEPT ![target[r]] = Breaker!NewCircuit]
    <3>1. /\ hosts' = [h \in Host |-> hosts'[h]]
          /\ \A h \in Host \ {target[r]} : hosts'[h] = hosts[h]
          /\ target[r] \in Host => hosts'[target[r]] = Breaker!NewCircuit
      BY <2>3 DEF Shaped
    <3> QED
      BY <1>1, <3>1, EmptyCircuits
  <2> QED
    BY <2>1, <2>2, <2>3
<1>5. CASE Breaker!RecordFailure(r)
  <2> DEFINE c == Breaker!Entry(target[r])
             d == Breaker!RecordFailureOn(c, at[r])
  <2>1. hosts' = [hosts EXCEPT ![target[r]] = d] /\ pc[r] = "fail"
    BY <1>5 DEF Breaker!RecordFailure
  <2>2. Circuit(c)
    BY EntryShaped
  <2>3. Circuit(d)
    <3> HIDE DEF c
    <3> QED
      BY <2>2 DEF Breaker!RecordFailureOn, Breaker!Absent, Circuit
  <2> HIDE DEF d
  <2>4. /\ hosts' = [h \in Host |-> hosts'[h]]
        /\ \A h \in Host \ {target[r]} : hosts'[h] = hosts[h]
        /\ target[r] \in Host => hosts'[target[r]] = d
    BY <2>1 DEF Shaped
  <2> QED
    BY <1>1, <2>1, <2>3, <2>4
<1>6. CASE Breaker!EvictSweep(r)
  <2>1. PICK R \in Breaker!Victims(r) :
          hosts' = [h \in Host |-> IF h \in R THEN Breaker!Absent ELSE hosts[h]]
    BY <1>6 DEF Breaker!EvictSweep
  <2> QED
    BY <2>1, EmptyCircuits DEF Shaped
<1> QED
  BY <1>2, <1>3, <1>4, <1>5, <1>6 DEF Breaker!Step

(* What the ends of the breaker's operations do to their hop.              *)
Framed(r) ==
  /\ pc' = [q \in Request |-> pc'[q]]
  /\ target' = [q \in Request |-> target'[q]]
  /\ evict' = [q \in Request |-> evict'[q]] /\ \A q \in Request : Pass(evict'[q])
  /\ \A q \in Request \ {r} : pc'[q] = pc[q] /\ target'[q] = target[q] /\ evict'[q] = evict[q]

(* Where the breaker leaves a hop the loop waits for.                      *)
HeldFor(r) ==
  /\ pc'[r] # "fail" /\ target'[r] = target[r]
  /\ pc'[r] \in {"guard", "measure", "sweep"} => evict'[r].resume = "flight"

LEMMA NoEvictPass == Pass(Breaker!NoEvict) /\ Breaker!NoEvict.resume = "idle"
BY DEF Pass, Breaker!NoEvict

LEMMA ResumeFramed ==
  ASSUME Shaped, NEW r \in Request, Breaker!Resume(r),
         evict' = [evict EXCEPT ![r] = Breaker!NoEvict]
  PROVE  Framed(r) /\ pc'[r] # "fail" /\ (evict[r].resume = "flight" => HeldFor(r))
<1>1. evict' = [q \in Request |-> evict'[q]] /\ \A q \in Request : Pass(evict'[q])
  BY NoEvictPass DEF Shaped
<1>2. \A q \in Request \ {r} : evict'[q] = evict[q]
  BY DEF Shaped
<1>3. CASE evict[r].resume = "flight" /\ Breaker!Goto(r, "flight") /\ UNCHANGED target
  BY <1>1, <1>2, <1>3 DEF Shaped, Breaker!Goto, Framed, HeldFor
<1>4. CASE evict[r].resume = "idle" /\ Breaker!Finish(r)
  BY <1>1, <1>2, <1>4 DEF Shaped, Breaker!Finish, Breaker!Goto, Framed, HeldFor
<1> QED
  BY <1>3, <1>4 DEF Breaker!Resume

LEMMA NextStageFramed ==
  ASSUME Shaped, NEW r \in Request, Breaker!NextStage(r)
  PROVE  Framed(r) /\ pc'[r] # "fail" /\ (evict[r].resume = "flight" => HeldFor(r))
<1> DEFINE e == [stage |-> evict[r].stage + 1, excess |-> 0, resume |-> evict[r].resume]
<1>1. CASE Breaker!Goto(r, "guard") /\ evict' = [evict EXCEPT ![r] = e] /\ UNCHANGED target
  <2>1. Pass(e) /\ e.resume = evict[r].resume
    BY DEF Pass
  <2> HIDE DEF e
  <2>2. /\ evict' = [q \in Request |-> evict'[q]]
        /\ evict'[r] = e /\ \A q \in Request \ {r} : evict'[q] = evict[q]
    BY <1>1 DEF Shaped
  <2> QED
    BY <1>1, <2>1, <2>2 DEF Shaped, Breaker!Goto, Framed, HeldFor
<1>2. CASE Breaker!Resume(r) /\ evict' = [evict EXCEPT ![r] = Breaker!NoEvict]
  BY <1>2, ResumeFramed
<1> QED
  BY <1>1, <1>2 DEF Breaker!NextStage

LEMMA EvictionFramed ==
  ASSUME Shaped, NEW r \in Request,
         Breaker!EvictGuard(r) \/ Breaker!EvictMeasure(r) \/ Breaker!EvictSweep(r)
  PROVE  Framed(r) /\ pc'[r] # "fail" /\ (evict[r].resume = "flight" => HeldFor(r))
<1>1. CASE Breaker!EvictGuard(r)
  <2>1. CASE Breaker!Goto(r, "measure") /\ UNCHANGED <<target, evict>>
    BY <2>1 DEF Shaped, Breaker!Goto, Framed, HeldFor
  <2>2. CASE Breaker!Resume(r) /\ evict' = [evict EXCEPT ![r] = Breaker!NoEvict]
    BY <2>2, ResumeFramed
  <2> QED
    BY <1>1, <2>1, <2>2, NextStageFramed DEF Breaker!EvictGuard
<1>2. CASE Breaker!EvictMeasure(r)
  <2> DEFINE n == Breaker!Cardinality(Breaker!Tracked) - MaxHosts
             e == [evict[r] EXCEPT !.excess = n]
  <2>1. CASE Breaker!Goto(r, "sweep") /\ evict' = [evict EXCEPT ![r] = e] /\ UNCHANGED target
    <3> HIDE DEF n
    <3>1. Pass(e) /\ e.resume = evict[r].resume
      BY DEF Pass, Shaped
    <3> HIDE DEF e
    <3>2. /\ evict' = [q \in Request |-> evict'[q]]
          /\ evict'[r] = e /\ \A q \in Request \ {r} : evict'[q] = evict[q]
      BY <2>1 DEF Shaped
    <3> QED
      BY <2>1, <3>1, <3>2 DEF Shaped, Breaker!Goto, Framed, HeldFor
  <2> QED
    <3>1. \/ /\ Breaker!Goto(r, "sweep") /\ evict' = [evict EXCEPT ![r] = e]
             /\ UNCHANGED <<target, at, role>>
          \/ Breaker!NextStage(r)
      BY <1>2, Zenon DEF Breaker!EvictMeasure
    <3>2. UNCHANGED <<target, at, role>> => UNCHANGED target
      OBVIOUS
    <3> HIDE DEF e
    <3> QED
      BY <2>1, <3>1, <3>2, NextStageFramed
<1>3. CASE Breaker!EvictSweep(r)
  BY <1>3, NextStageFramed DEF Breaker!EvictSweep
<1> QED
  BY <1>1, <1>2, <1>3

(* The other operations: a hop is admitted, checked, settled.              *)
LEMMA HopFramed ==
  ASSUME Shaped, NEW r \in Request
  PROVE  /\ \A h : Breaker!Admit(r, h) =>
              Framed(r) /\ target'[r] = h /\ pc'[r] \in {"flight", "check"}
         /\ Breaker!Check(r) =>
              Framed(r) /\ pc'[r] # "fail" /\ (pc'[r] # "idle" => HeldFor(r))
         /\ Breaker!Success(r) => Framed(r) /\ pc'[r] # "fail"
         /\ Breaker!Failure(r) => Framed(r) /\ (pc'[r] = "fail" => target'[r] = target[r])
         /\ Breaker!RecordFailure(r) => Framed(r) /\ pc'[r] # "fail"
<1>1. ASSUME NEW h, Breaker!Admit(r, h)
      PROVE  Framed(r) /\ target'[r] = h /\ pc'[r] \in {"flight", "check"}
  BY <1>1 DEF Breaker!Admit, Breaker!Goto, Shaped, Framed
<1>2. ASSUME Breaker!Check(r)
      PROVE  Framed(r) /\ pc'[r] # "fail" /\ (pc'[r] # "idle" => HeldFor(r))
  <2> DEFINE e == [Breaker!NoEvict EXCEPT !.resume = "flight"]
  <2>0. Pass(e) /\ e.resume = "flight"
    BY DEF Pass, Breaker!NoEvict
  <2>1. CASE Breaker!Goto(r, "guard") /\ evict' = [evict EXCEPT ![r] = e] /\ UNCHANGED target
    <3> HIDE DEF e
    <3>2. /\ evict' = [q \in Request |-> evict'[q]]
          /\ evict'[r] = e /\ \A q \in Request \ {r} : evict'[q] = evict[q]
      BY <2>1 DEF Shaped
    <3> QED
      BY <2>0, <2>1, <3>2 DEF Shaped, Breaker!Goto, Framed, HeldFor
  <2>2. CASE Breaker!Finish(r) /\ UNCHANGED evict
    BY <2>2 DEF Shaped, Breaker!Finish, Breaker!Goto, Framed
  <2> QED
    BY <1>2, <2>1, <2>2 DEF Breaker!Check
<1>3. ASSUME Breaker!Success(r)
      PROVE  Framed(r) /\ pc'[r] # "fail"
  BY <1>3 DEF Breaker!Success, Breaker!Finish, Breaker!Goto, Shaped, Framed
<1>4. ASSUME Breaker!Failure(r)
      PROVE  Framed(r) /\ (pc'[r] = "fail" => target'[r] = target[r])
  BY <1>4 DEF Breaker!Failure, Breaker!Finish, Breaker!Goto, Shaped, Framed
<1>5. ASSUME Breaker!RecordFailure(r)
      PROVE  Framed(r) /\ pc'[r] # "fail"
  <2>1. /\ pc' = [pc EXCEPT ![r] = "guard"] /\ target' = target
        /\ evict' = [evict EXCEPT ![r] = Breaker!NoEvict]
    BY <1>5 DEF Breaker!RecordFailure, Breaker!Goto
  <2> QED
    BY <2>1, NoEvictPass DEF Shaped, Framed
<1> QED
  BY <1>1, <1>2, <1>3, <1>4, <1>5

BlameInv == LoopInv /\ Shaped /\ OnlyFaultyHostsTrip /\ \A r \in Request : HopInv(r)

LEMMA BlameInit == Init => Shaped /\ OnlyFaultyHostsTrip /\ \A r \in Request : HopInv(r)
<1> SUFFICES ASSUME Init
             PROVE  Shaped /\ OnlyFaultyHostsTrip /\ \A r \in Request : HopInv(r)
  OBVIOUS
<1>1. /\ hosts = [h \in Host |-> Breaker!Absent] /\ pc = [r \in Request |-> "idle"]
      /\ target = [r \in Request |-> NoHost] /\ evict = [r \in Request |-> Breaker!NoEvict]
      /\ phase = [r \in Request |-> "idle"]
  BY DEF Init, Breaker!Init
<1>2. Shaped
  BY <1>1, EmptyCircuits, NoEvictPass DEF Shaped
<1>3. OnlyFaultyHostsTrip
  BY <1>1 DEF OnlyFaultyHostsTrip, Breaker!Absent
<1>4. \A r \in Request : HopInv(r)
  BY <1>1 DEF HopInv
<1> QED
  BY <1>2, <1>3, <1>4

(* The loop's own side of a step: it moves one task, and every failure it  *)
(* reports is blamed on the host of that task's request.                   *)
LEMMA LoopFrame ==
  ASSUME LoopInv, NEW r \in Request, Start(r) \/ Proceed(r)
  PROVE  /\ faulty \subseteq faulty'
         /\ \A q \in Request \ {r} : phase'[q] = phase[q] /\ req'[q] = req[q]
<1>1. \A q \in Request \ {r} : phase'[q] = phase[q] /\ req'[q] = req[q]
  <2>1. CASE UNCHANGED <<cfg, requests>>
    BY <2>1 DEF requests
  <2>2. CASE Start(r) \/ Dispatching(r) \/ Continuing(r) \/ Returns(r)
    <3>0. phase = [q \in Request |-> phase[q]] /\ req = [q \in Request |-> req[q]]
      BY DEF LoopInv, TypeOK
    <3>1. CASE Start(r) \/ Dispatching(r)
      BY <3>0, <3>1 DEF Start, Dispatching
    <3>2. CASE Continuing(r)
      BY <3>0, <3>2 DEF Continuing, Continues
    <3>3. CASE Returns(r)
      BY <3>0, <3>3 DEF Returns, Return
    <3> QED
      BY <2>2, <3>1, <3>2, <3>3
  <2> QED
    BY <2>1, <2>2, TaskShapes
<1>2. faulty' = faulty \/ Blame(r)
  BY DEF Start, Proceed, Reject, Dispatch, CheckHop, Settle, ClientError, Cancel, Answer, SettleTerminal,
         Unfollowed, TooManyRedirects, Follow, Fail
<1> QED
  BY <1>1, <1>2 DEF Blame

(* The step of one task, from what it does to the map, to the task's place  *)
(* in the breaker and to the loop.                                          *)
LEMMA BlameCompose ==
  ASSUME BlameInv, NEW r \in Request, Start(r) \/ Proceed(r),
         Breaker!Step(r), Framed(r), HopInv(r)'
  PROVE  Shaped' /\ OnlyFaultyHostsTrip' /\ \A q \in Request : HopInv(q)'
<1>1. faulty \subseteq faulty' /\ \A q \in Request \ {r} : phase'[q] = phase[q] /\ req'[q] = req[q]
  BY LoopFrame DEF BlameInv
<1>2. Shaped'
  BY MapStep DEF BlameInv, Shaped, Framed
<1>3. OnlyFaultyHostsTrip'
  <2> SUFFICES ASSUME NEW h \in Host, Marked(hosts'[h])
               PROVE  h \in faulty'
    BY DEF OnlyFaultyHostsTrip, Marked
  <2>1. Marked(hosts[h]) \/ (pc[r] = "fail" /\ h = target[r])
    BY MapStep DEF BlameInv
  <2> QED
    BY <1>1, <2>1 DEF BlameInv, OnlyFaultyHostsTrip, HopInv, Marked
<1>4. ASSUME NEW q \in Request \ {r}
      PROVE  HopInv(q)'
  BY <1>1, <1>4 DEF BlameInv, HopInv, Framed
<1> QED
  BY <1>2, <1>3, <1>4

LEMMA BlameStep ==
  ASSUME BlameInv, [Next]_vars
  PROVE  BlameInv'
<1>0. LoopInv' /\ Shaped /\ LoopInv
  BY LoopStep DEF BlameInv
<1>1. CASE Tick \/ UNCHANGED vars
  BY <1>0, <1>1 DEF Tick, Breaker!Tick, vars, requests, breaker, BlameInv, Shaped, HopInv,
                    OnlyFaultyHostsTrip, Breaker!history
<1>2. ASSUME NEW r \in Request, Start(r) \/ Reject(r)
      PROVE  BlameInv'
  <2>1. UNCHANGED <<faulty, breaker>> /\ phase'[r] # "hop"
    BY <1>0, <1>2 DEF Start, Reject, Return, LoopInv, TypeOK
  <2>2. \A q \in Request \ {r} : phase'[q] = phase[q] /\ req'[q] = req[q]
    BY <1>0, <1>2, LoopFrame DEF Proceed
  <2> QED
    BY <1>0, <2>1, <2>2 DEF breaker, BlameInv, Shaped, HopInv, OnlyFaultyHostsTrip
<1>3. ASSUME NEW r \in Request, Proceed(r), ~Reject(r)
      PROVE  BlameInv'
  <2>0. HopInv(r)
    BY DEF BlameInv
  <2>1. CASE Dispatch(r)
    <3>1. PICK h \in Host : Breaker!Admit(r, h) /\ h = HostOf[req[r].uri.authority]
      <4>1. req[r] \in HopRequest
        BY <1>0, <2>1 DEF Dispatch, LoopInv, TypeOK, Active
      <4>2. HostOf[req[r].uri.authority] \in Host
        BY <4>1, UpstreamAssumption DEF HopRequest, Uri
      <4> QED
        BY <2>1, <4>2 DEF Dispatch
    <3>2. Breaker!Step(r)
      BY <3>1 DEF Breaker!Step
    <3>3. Framed(r) /\ target'[r] = h /\ pc'[r] \in {"flight", "check"}
      BY <1>0, <3>1, HopFramed
    <3>4. HopInv(r)'
      BY <2>1, <3>1, <3>3 DEF Dispatch, HopInv
    <3> QED
      BY <1>0, <1>3, <3>2, <3>3, <3>4, BlameCompose DEF BlameInv
  <2>2. CASE CheckHop(r)
    <3>1. Breaker!Check(r) /\ Breaker!Step(r)
      BY <2>2 DEF CheckHop, Breaker!Step
    <3>2. Framed(r) /\ pc'[r] # "fail" /\ (pc'[r] # "idle" => HeldFor(r))
      BY <1>0, <3>1, HopFramed
    <3>3. HopInv(r)'
      <4>1. CASE pc'[r] = "idle" /\ Return(r, "circuit_open", "none")
        BY <1>0, <3>2, <4>1 DEF Return, HopInv, LoopInv, TypeOK
      <4>2. CASE pc'[r] # "idle" /\ UNCHANGED <<cfg, requests>>
        BY <2>0, <3>2, <4>2 DEF requests, HopInv, HeldFor
      <4> QED
        BY <2>2, <4>1, <4>2 DEF CheckHop
    <3> QED
      BY <1>0, <1>3, <3>1, <3>2, <3>3, BlameCompose DEF BlameInv
  <2>3. CASE Settle(r)
    <3>1. Breaker!Step(r) /\ UNCHANGED <<phase, req>>
      BY <2>3 DEF Settle, Breaker!Step, requests
    <3>2. CASE Breaker!RecordFailure(r)
      <4>1. Framed(r) /\ pc'[r] # "fail" /\ pc[r] = "fail"
        BY <1>0, <3>2, HopFramed DEF Breaker!RecordFailure
      <4>2. HopInv(r)'
        BY <2>0, <3>1, <4>1 DEF HopInv
      <4> QED
        BY <1>0, <1>3, <3>1, <4>1, <4>2, BlameCompose DEF BlameInv
    <3>3. CASE Breaker!EvictGuard(r) \/ Breaker!EvictMeasure(r) \/ Breaker!EvictSweep(r)
      <4>1. Framed(r) /\ pc'[r] # "fail" /\ (evict[r].resume = "flight" => HeldFor(r))
        BY <1>0, <3>3, EvictionFramed
      <4>2. pc[r] \in {"guard", "measure", "sweep"}
        BY <3>3 DEF Breaker!EvictGuard, Breaker!EvictMeasure, Breaker!EvictSweep
      <4>3. HopInv(r)'
        BY <2>0, <3>1, <4>1, <4>2 DEF HopInv, HeldFor
      <4> QED
        BY <1>0, <1>3, <3>1, <4>1, <4>3, BlameCompose DEF BlameInv
    <3> QED
      BY <2>3, <3>2, <3>3 DEF Settle
  <2>4. CASE phase[r] = "hop" /\ Breaker!Failure(r) /\ Blame(r) /\ Returns(r)
    <3>1. Breaker!Step(r)
      BY <2>4 DEF Breaker!Step
    <3>2. Framed(r) /\ (pc'[r] = "fail" => target'[r] = target[r])
      BY <1>0, <2>4, HopFramed
    <3>3. phase'[r] # "hop"
      BY <1>0, <2>4 DEF Returns, Return, LoopInv, TypeOK
    <3>4. target[r] \in faulty'
      BY <2>0, <2>4 DEF HopInv, Blame
    <3>5. HopInv(r)'
      BY <3>2, <3>3, <3>4 DEF HopInv
    <3> QED
      BY <1>0, <1>3, <3>1, <3>2, <3>5, BlameCompose DEF BlameInv
  <2>5. CASE Breaker!Success(r) /\ (Returns(r) \/ Continuing(r))
    <3>1. Breaker!Step(r)
      BY <2>5 DEF Breaker!Step
    <3>2. Framed(r) /\ pc'[r] # "fail"
      BY <1>0, <2>5, HopFramed
    <3>3. phase'[r] # "hop"
      BY <1>0, <2>5 DEF Returns, Return, Continuing, Continues, LoopInv, TypeOK
    <3>4. HopInv(r)'
      BY <3>2, <3>3 DEF HopInv
    <3> QED
      BY <1>0, <1>3, <3>1, <3>2, <3>4, BlameCompose DEF BlameInv
  <2>6. CASE ClientError(r) \/ Cancel(r) \/ TooManyRedirects(r)
    BY <2>4, <2>6 DEF ClientError, Cancel, TooManyRedirects, Fail, Returns, Kinds, Forms
  <2>7. CASE Answer(r)
    BY <2>4, <2>5, <2>7 DEF Answer, SettleTerminal, Returns, Kinds, Forms
  <2>8. CASE Unfollowed(r)
    BY <2>5, <2>8 DEF Unfollowed, Returns, Kinds, Forms
  <2>9. CASE Follow(r)
    BY <2>5, <2>9 DEF Follow, BudgetLeft, Continuing, Continues, Returns, Kinds
  <2> QED
    BY <1>3, <2>1, <2>2, <2>3, <2>6, <2>7, <2>8, <2>9 DEF Proceed
<1> QED
  BY <1>1, <1>2, <1>3 DEF Next

(* A host the breaker holds anything against failed a hop: an answer, a      *)
(* redirect that cannot be followed or a Location that is refused never      *)
(* counts, for any number of requests, hosts and redirects.                  *)
THEOREM OnlyFailuresCount == Spec => []OnlyFaultyHostsTrip
<1>1. Init => BlameInv
  BY LoopInit, BlameInit DEF BlameInv
<1>2. BlameInv => OnlyFaultyHostsTrip
  BY DEF BlameInv
<1> QED
  BY <1>1, <1>2, BlameStep, PTL DEF Spec
-----------------------------------------------------------------------------
(* What is proved of the breaker, for the hops of execute                  *)

Circuits == INSTANCE CircuitBreakerProofs WITH Hop <- Request

LEMMA CircuitsAssumed == Circuits!IsFiniteSet(Host) /\ Circuits!IsFiniteSet(Request)
BY BreakerAssumption DEF IsFiniteSet, Circuits!IsFiniteSet

(* The two instances of the breaker are the same, action by action.        *)
LEMMA SameActions ==
  ASSUME NEW r
  PROVE  /\ \A h \in Host : Breaker!Admit(r, h) = Circuits!Admit(r, h)
         /\ Breaker!Check(r) = Circuits!Check(r)
         /\ Breaker!Success(r) = Circuits!Success(r)
         /\ Breaker!Failure(r) = Circuits!Failure(r)
         /\ Breaker!RecordFailure(r) = Circuits!RecordFailure(r)
         /\ Breaker!EvictGuard(r) = Circuits!EvictGuard(r)
         /\ Breaker!EvictMeasure(r) = Circuits!EvictMeasure(r)
         /\ Breaker!EvictSweep(r) = Circuits!EvictSweep(r)
<1>1. ASSUME NEW h PROVE Breaker!Admit(r, h) = Circuits!Admit(r, h)
  BY DEF Breaker!Admit, Circuits!Admit, Breaker!Goto, Circuits!Goto, Breaker!history,
         Circuits!history
<1>2. Breaker!Check(r) = Circuits!Check(r)
  BY DEF Breaker!Check, Circuits!Check, Breaker!Entry, Circuits!Entry, Breaker!Tracked,
         Circuits!Tracked, Breaker!NewCircuit, Circuits!NewCircuit, Breaker!Absent,
         Circuits!Absent, Breaker!TransitionOnCheck, Circuits!TransitionOnCheck,
         Breaker!StartsWindow, Circuits!StartsWindow, Breaker!HasBudget, Circuits!HasBudget,
         Breaker!Allowed, Circuits!Allowed, Breaker!IsClosed, Circuits!IsClosed,
         Breaker!IsExpiredOpen, Circuits!IsExpiredOpen, Breaker!DurationSince,
         Circuits!DurationSince, Breaker!Goto, Circuits!Goto, Breaker!Finish, Circuits!Finish,
         Breaker!NoEvict, Circuits!NoEvict, Breaker!Roles, Circuits!Roles
<1>3. Breaker!Success(r) = Circuits!Success(r)
  BY DEF Breaker!Success, Circuits!Success, Breaker!Finish, Circuits!Finish, Breaker!Goto,
         Circuits!Goto, Breaker!Tracked, Circuits!Tracked, Breaker!NewCircuit,
         Circuits!NewCircuit, Breaker!Absent, Circuits!Absent, Breaker!IsClosed,
         Circuits!IsClosed
<1>4. Breaker!Failure(r) = Circuits!Failure(r)
  BY DEF Breaker!Failure, Circuits!Failure, Breaker!Finish, Circuits!Finish, Breaker!Goto,
         Circuits!Goto
<1>5. Breaker!RecordFailure(r) = Circuits!RecordFailure(r)
  BY DEF Breaker!RecordFailure, Circuits!RecordFailure, Breaker!Entry, Circuits!Entry,
         Breaker!Tracked, Circuits!Tracked, Breaker!NewCircuit, Circuits!NewCircuit,
         Breaker!Absent, Circuits!Absent, Breaker!RecordFailureOn, Circuits!RecordFailureOn,
         Breaker!ShouldOpen, Circuits!ShouldOpen, Breaker!Retained, Circuits!Retained,
         Breaker!Recent, Circuits!Recent, Breaker!Push, Circuits!Push, Breaker!DurationSince,
         Circuits!DurationSince, Breaker!Goto, Circuits!Goto, Breaker!NoEvict, Circuits!NoEvict,
         Breaker!Cardinality, Circuits!Cardinality
<1>6. Breaker!EvictGuard(r) = Circuits!EvictGuard(r)
  BY DEF Breaker!EvictGuard, Circuits!EvictGuard, Breaker!Tracked, Circuits!Tracked,
         Breaker!NextStage, Circuits!NextStage, Breaker!Resume, Circuits!Resume, Breaker!Finish,
         Circuits!Finish, Breaker!Goto, Circuits!Goto, Breaker!NoEvict, Circuits!NoEvict,
         Breaker!Cardinality, Circuits!Cardinality
<1>7. Breaker!EvictMeasure(r) = Circuits!EvictMeasure(r)
  BY DEF Breaker!EvictMeasure, Circuits!EvictMeasure, Breaker!Tracked, Circuits!Tracked,
         Breaker!NextStage, Circuits!NextStage, Breaker!Resume, Circuits!Resume, Breaker!Finish,
         Circuits!Finish, Breaker!Goto, Circuits!Goto, Breaker!NoEvict, Circuits!NoEvict,
         Breaker!Cardinality, Circuits!Cardinality
<1>8. Breaker!EvictSweep(r) = Circuits!EvictSweep(r)
  BY DEF Breaker!EvictSweep, Circuits!EvictSweep, Breaker!Victims, Circuits!Victims,
         Breaker!Evictable, Circuits!Evictable, Breaker!Tracked, Circuits!Tracked,
         Breaker!IsIdleClosed, Circuits!IsIdleClosed, Breaker!IsExpiredOpen,
         Circuits!IsExpiredOpen, Breaker!IsClosed, Circuits!IsClosed, Breaker!Absent,
         Circuits!Absent, Breaker!NextStage, Circuits!NextStage, Breaker!Resume, Circuits!Resume,
         Breaker!Finish, Circuits!Finish, Breaker!Goto, Circuits!Goto, Breaker!NoEvict,
         Circuits!NoEvict, Breaker!Cardinality, Circuits!Cardinality
<1> QED
  BY <1>1, <1>2, <1>3, <1>4, <1>5, <1>6, <1>7, <1>8

LEMMA ImplementsCircuits == Spec => Circuits!Spec
<1>1. Breaker!Init => Circuits!Init
  BY DEF Breaker!Init, Circuits!Init, Breaker!Absent, Circuits!Absent, Breaker!NoEvict,
         Circuits!NoEvict
<1>2. [Breaker!Next]_(Breaker!vars) => [Circuits!Next]_(Circuits!vars)
  <2>1. ASSUME NEW r \in Request, Breaker!Step(r)
        PROVE  Circuits!Step(r)
    BY <2>1, SameActions DEF Breaker!Step, Circuits!Step
  <2>2. CASE Breaker!Tick
    BY <2>2 DEF Breaker!Tick, Circuits!Tick, Breaker!history, Circuits!history, Circuits!Next
  <2>3. CASE UNCHANGED Breaker!vars
    BY <2>3 DEF Breaker!vars, Circuits!vars
  <2> QED
    BY <2>1, <2>2, <2>3 DEF Breaker!Next, Circuits!Next
<1> QED
  BY <1>1, <1>2, BreakerUsedCorrectly, PTL DEF UsesBreaker, Breaker!Spec, Circuits!Spec

(* Inside the redirect loop, with its cancellations and its answers of any  *)
(* kind, every hop meets the breaker CircuitBreaker describes: an open host *)
(* is not called, protection survives eviction, nobody is locked out,      *)
(* trips are justified, probes and map stay within their bounds            *)
(* (Upstream::execute).                                                    *)
THEOREM HopsGuarded ==
  Spec => /\ Circuits!OpenHostsShut
          /\ Circuits!ProtectionKept
          /\ Circuits!NoLockout
          /\ Circuits!TripJustified
          /\ [](Circuits!WindowBudget)
          /\ [](Circuits!CapExceededByProtectionOnly)
<1>1. Circuits!Spec => Circuits!OpenHostsShut
  BY Circuits!DoorShut, BreakerAssumption, CircuitsAssumed
<1>2. Circuits!Spec => Circuits!ProtectionKept
  BY Circuits!ProtectionSurvives, BreakerAssumption, CircuitsAssumed
<1>3. Circuits!Spec => Circuits!NoLockout
  BY Circuits!NeverLockedOut, BreakerAssumption, CircuitsAssumed
<1>4. Circuits!Spec => Circuits!TripJustified
  BY Circuits!TripsJustified, BreakerAssumption, CircuitsAssumed
<1>5. Circuits!Spec => [](Circuits!WindowBudget)
  BY Circuits!BudgetKept, BreakerAssumption, CircuitsAssumed
<1>6. Circuits!Spec => [](Circuits!CapExceededByProtectionOnly)
  BY Circuits!CapHeld, BreakerAssumption, CircuitsAssumed
<1> QED
  BY <1>1, <1>2, <1>3, <1>4, <1>5, <1>6, ImplementsCircuits, PTL
-----------------------------------------------------------------------------
(* How long a request can take                                             *)

RedirectsLeft(r) == IF phase[r] = "idle" THEN 0 ELSE cfg.max_redirects - hops[r]
ToDispatch(r) == IF phase[r] = "loop" THEN 22 ELSE 0

Left(hop, redirects, dispatch) == hop + 23 * redirects + dispatch

(* The steps a request may still take until execute has returned and its   *)
(* hop is settled: 21 for a hop, one to start it, one to spare.            *)
StepsLeft(r) == Left(Circuits!HopLeft(r), RedirectsLeft(r), ToDispatch(r))

(* The loop of execute terminates: every step of a request, whatever the   *)
(* upstreams answer, brings it nearer its end, and no other request sets   *)
(* it back.                                                                *)
RequestsWaitFree ==
  [][\A r \in Request :
       IF Proceed(r) THEN StepsLeft(r)' < StepsLeft(r)
                     ELSE Start(r) \/ StepsLeft(r)' = StepsLeft(r)]_vars

LEMMA Remaining == \A m, h \in 0..255 : h <= m => m - h \in 0..255 /\ m - h <= m
OBVIOUS

(* The arithmetic of StepsLeft.                                            *)
LEMMA Countdown ==
  ASSUME NEW a \in 0..21, NEW b \in 0..21, NEW n \in 0..255, NEW m \in 0..255
  PROVE  /\ \A f \in {0, 22} : n <= m => Left(a, n, f) \in 0..(43 + 23 * m)
         /\ \A f \in {0, 22} : b < a => Left(b, 0, 0) < Left(a, n, f)
         /\ b = a => Left(b, 0, 0) < Left(a, n, 22)
         /\ b < a => Left(b, n, 0) < Left(a, n, 0)
         /\ \A f \in {0, 22} : b < a => Left(b, n, f) < Left(a, n, f)
         /\ n > 0 /\ b < a => Left(b, n - 1, 22) < Left(a, n, 0)
         /\ Left(b, n, 0) < Left(a, n, 22)
BY SMT DEF Left

LEMMA LeftTyped ==
  ASSUME LoopInv, NEW r \in Request
  PROVE  /\ RedirectsLeft(r) \in 0..255 /\ RedirectsLeft(r) <= cfg.max_redirects
         /\ cfg.max_redirects \in 0..255 /\ hops[r] \in 0..255
         /\ ToDispatch(r) \in {0, 22}
<1>1. cfg.max_redirects \in 0..255 /\ hops[r] \in 0..255 /\ hops[r] <= cfg.max_redirects
  BY UpstreamAssumption DEF LoopInv, TypeOK, ClientConfig
<1>2. cfg.max_redirects - hops[r] \in 0..255 /\ cfg.max_redirects - hops[r] <= cfg.max_redirects
  BY <1>1, Remaining
<1>3. 0 \in 0..255 /\ 0 <= cfg.max_redirects
  BY <1>1
<1>4. RedirectsLeft(r) \in 0..255 /\ RedirectsLeft(r) <= cfg.max_redirects
  BY <1>2, <1>3, Zenon DEF RedirectsLeft
<1>5. ToDispatch(r) \in {0, 22}
  BY Zenon DEF ToDispatch
<1> QED
  BY <1>1, <1>4, <1>5

(* A step of the hop brings the hop nearer its end.                        *)
LEMMA HopCloser ==
  ASSUME Circuits!TypeOK, NEW r \in Request, pc[r] # "idle",
         \/ Breaker!Check(r) \/ Breaker!Success(r) \/ Breaker!Failure(r)
         \/ Breaker!RecordFailure(r) \/ Breaker!EvictGuard(r)
         \/ Breaker!EvictMeasure(r) \/ Breaker!EvictSweep(r)
  PROVE  Circuits!HopLeft(r)' < Circuits!HopLeft(r)
<1>1. Circuits!Step(r)
  BY SameActions DEF Circuits!Step
<1> QED
  BY <1>1, Circuits!StepLeft, BreakerAssumption, CircuitsAssumed

(* execute is over once it has returned and its hop is settled.            *)
LEMMA ReturnCloser ==
  ASSUME LoopInv, Circuits!HopBudget, Circuits!HopBudget', NEW r \in Request, Returns(r),
         \/ Circuits!HopLeft(r)' < Circuits!HopLeft(r)
         \/ Circuits!HopLeft(r)' = Circuits!HopLeft(r) /\ phase[r] = "loop"
  PROVE  StepsLeft(r)' < StepsLeft(r)
<1>1. phase'[r] = "idle"
  BY DEF Returns, Return, LoopInv, TypeOK
<1>2. RedirectsLeft(r)' = 0 /\ ToDispatch(r)' = 0
  BY <1>1, Zenon DEF RedirectsLeft, ToDispatch
<1>3. StepsLeft(r)' = Left(Circuits!HopLeft(r)', 0, 0)
  BY <1>2, Zenon DEF StepsLeft
<1>4. RedirectsLeft(r) \in 0..255 /\ ToDispatch(r) \in {0, 22}
  BY LeftTyped, Zenon
<1>5. Circuits!HopLeft(r) \in 0..21 /\ Circuits!HopLeft(r)' \in 0..21
  BY Zenon DEF Circuits!HopBudget
<1>6. CASE Circuits!HopLeft(r)' < Circuits!HopLeft(r)
  BY <1>3, <1>4, <1>5, <1>6, Countdown, Zenon DEF StepsLeft
<1>7. CASE Circuits!HopLeft(r)' = Circuits!HopLeft(r) /\ phase[r] = "loop"
  <2>1. ToDispatch(r) = 22
    BY <1>7, Zenon DEF ToDispatch
  <2> QED
    BY <1>3, <1>4, <1>5, <1>7, <2>1, Countdown, Zenon DEF StepsLeft
<1> QED
  BY <1>6, <1>7, Zenon

(* A step of the hop that leaves the loop where it is.                     *)
LEMMA StayCloser ==
  ASSUME LoopInv, Circuits!HopBudget, Circuits!HopBudget', NEW r \in Request,
         Circuits!HopLeft(r)' < Circuits!HopLeft(r), UNCHANGED <<cfg, phase, hops>>
  PROVE  StepsLeft(r)' < StepsLeft(r)
<1>1. RedirectsLeft(r)' = RedirectsLeft(r) /\ ToDispatch(r)' = ToDispatch(r)
  BY Zenon DEF RedirectsLeft, ToDispatch
<1>2. StepsLeft(r)' = Left(Circuits!HopLeft(r)', RedirectsLeft(r), ToDispatch(r))
  BY <1>1, Zenon DEF StepsLeft
<1>3. RedirectsLeft(r) \in 0..255 /\ ToDispatch(r) \in {0, 22}
  BY LeftTyped, Zenon
<1>4. Circuits!HopLeft(r) \in 0..21 /\ Circuits!HopLeft(r)' \in 0..21
  BY Zenon DEF Circuits!HopBudget
<1> QED
  BY <1>2, <1>3, <1>4, Countdown, Zenon DEF StepsLeft

LEMMA ProceedCloser ==
  ASSUME LoopInv, Circuits!TypeOK, Circuits!HopBudget, Circuits!HopBudget', NEW r \in Request, Proceed(r)
  PROVE  StepsLeft(r)' < StepsLeft(r)
<1>0. /\ Circuits!HopLeft(r) \in 0..21 /\ Circuits!HopLeft(r)' \in 0..21
      /\ RedirectsLeft(r) \in 0..255
  BY LeftTyped, Zenon DEF Circuits!HopBudget
<1>1. CASE Reject(r)
  <2>1. Returns(r)
    BY <1>1 DEF Reject, Returns, Kinds, Forms
  <2>2. Circuits!HopLeft(r)' = Circuits!HopLeft(r) /\ phase[r] = "loop"
    BY <1>1 DEF Reject, breaker, Circuits!HopLeft, Circuits!EvictionLeft
  <2> QED
    BY <2>1, <2>2, ReturnCloser, Zenon
<1>2. CASE Dispatch(r)
  <2>1. phase[r] = "loop" /\ phase'[r] = "hop" /\ cfg' = cfg /\ hops' = hops
    BY <1>2 DEF Dispatch, LoopInv, TypeOK
  <2>2. RedirectsLeft(r)' = RedirectsLeft(r) /\ ToDispatch(r)' = 0 /\ ToDispatch(r) = 22
    BY <2>1 DEF RedirectsLeft, ToDispatch
  <2>3. StepsLeft(r)' = Left(Circuits!HopLeft(r)', RedirectsLeft(r), 0)
    BY <2>2, Zenon DEF StepsLeft
  <2>4. StepsLeft(r) = Left(Circuits!HopLeft(r), RedirectsLeft(r), 22)
    BY <2>2, Zenon DEF StepsLeft
  <2>5. Left(Circuits!HopLeft(r)', RedirectsLeft(r), 0)
          < Left(Circuits!HopLeft(r), RedirectsLeft(r), 22)
    BY <1>0, Countdown, Zenon
  <2> QED
    BY <2>3, <2>4, <2>5, Zenon
<1>3. CASE CheckHop(r)
  <2>1. Circuits!HopLeft(r)' < Circuits!HopLeft(r)
    <3>1. pc[r] # "idle" /\ Breaker!Check(r)
      BY <1>3 DEF CheckHop, Breaker!Check
    <3> QED
      BY <3>1, HopCloser
  <2>2. CASE Return(r, "circuit_open", "none")
    <3>1. Returns(r)
      BY <2>2 DEF Returns, Kinds, Forms
    <3> QED
      BY <2>1, <3>1, ReturnCloser, Zenon
  <2>3. CASE UNCHANGED <<cfg, requests>>
    BY <2>1, <2>3, StayCloser, Zenon DEF requests
  <2> QED
    BY <1>3, <2>2, <2>3 DEF CheckHop
<1>4. CASE Settle(r)
  <2>1. Circuits!HopLeft(r)' < Circuits!HopLeft(r)
    <3>1. pc[r] # "idle"
      BY <1>4 DEF Settle, Breaker!RecordFailure, Breaker!EvictGuard, Breaker!EvictMeasure,
                  Breaker!EvictSweep
    <3> QED
      BY <1>4, <3>1, HopCloser DEF Settle
  <2>2. UNCHANGED <<cfg, phase, hops>>
    BY <1>4 DEF Settle, requests
  <2> QED
    BY <2>1, <2>2, StayCloser, Zenon
<1>5. CASE ClientError(r) \/ Cancel(r) \/ Answer(r) \/ Unfollowed(r) \/ TooManyRedirects(r)
  <2>1. Returns(r)
    BY <1>5 DEF ClientError, Cancel, Answer, Unfollowed, TooManyRedirects, Fail, Returns, Kinds, Forms
  <2>2. Breaker!Success(r) \/ Breaker!Failure(r)
    BY <1>5 DEF ClientError, Cancel, Answer, SettleTerminal, Unfollowed, TooManyRedirects, Fail
  <2>3. Circuits!HopLeft(r)' < Circuits!HopLeft(r)
    <3>1. pc[r] # "idle"
      BY <2>2 DEF Breaker!Success, Breaker!Failure
    <3> QED
      BY <2>2, <3>1, HopCloser
  <2> QED
    BY <2>1, <2>3, ReturnCloser, Zenon
<1>6. CASE Follow(r)
  <2>1. Circuits!HopLeft(r)' < Circuits!HopLeft(r)
    <3>1. pc[r] # "idle" /\ Breaker!Success(r)
      BY <1>6 DEF Follow, Breaker!Success
    <3> QED
      BY <3>1, HopCloser
  <2>2. CASE Returns(r)
    BY <2>1, <2>2, ReturnCloser, Zenon
  <2>3. CASE Continuing(r)
    <3>1. /\ phase[r] = "hop" /\ phase'[r] = "loop" /\ cfg' = cfg
          /\ hops'[r] = SaturatingInc(hops[r]) /\ hops[r] < cfg.max_redirects
      BY <2>3 DEF Continuing, Continues, LoopInv, TypeOK
    <3>2. hops'[r] = hops[r] + 1 /\ cfg.max_redirects \in 0..255 /\ hops[r] \in 0..255
      BY <3>1, LeftTyped DEF SaturatingInc
    <3>3. /\ RedirectsLeft(r) = cfg.max_redirects - hops[r]
          /\ RedirectsLeft(r)' = cfg.max_redirects - hops'[r]
          /\ ToDispatch(r) = 0 /\ ToDispatch(r)' = 22
      BY <3>1, Zenon DEF RedirectsLeft, ToDispatch
    <3>4. RedirectsLeft(r)' = RedirectsLeft(r) - 1 /\ RedirectsLeft(r) > 0
      <4>1. \A m, h \in 0..255 : h < m => m - (h + 1) = (m - h) - 1 /\ m - h > 0
        OBVIOUS
      <4>2. /\ cfg.max_redirects - (hops[r] + 1) = (cfg.max_redirects - hops[r]) - 1
            /\ cfg.max_redirects - hops[r] > 0
        BY <3>1, <3>2, <4>1
      <4> QED
        BY <3>2, <3>3, <4>2, Zenon
    <3>5. StepsLeft(r)' = Left(Circuits!HopLeft(r)', RedirectsLeft(r) - 1, 22)
      BY <3>3, <3>4, Zenon DEF StepsLeft
    <3>6. StepsLeft(r) = Left(Circuits!HopLeft(r), RedirectsLeft(r), 0)
      BY <3>3, Zenon DEF StepsLeft
    <3>7. Left(Circuits!HopLeft(r)', RedirectsLeft(r) - 1, 22)
            < Left(Circuits!HopLeft(r), RedirectsLeft(r), 0)
      BY <1>0, <2>1, <3>4, Countdown, Zenon
    <3> QED
      BY <3>5, <3>6, <3>7, Zenon
  <2> QED
    BY <1>6, <2>2, <2>3 DEF Follow, BudgetLeft, Continuing, Continues, Returns, Kinds
<1> QED
  BY <1>1, <1>2, <1>3, <1>4, <1>5, <1>6 DEF Proceed

(* A step of another task, or of the clock, leaves a request where it is.  *)
LEMMA OthersStay ==
  ASSUME LoopInv, Circuits!TypeOK, [Next]_vars, NEW r \in Request, ~Proceed(r), ~Start(r)
  PROVE  StepsLeft(r)' = StepsLeft(r)
<1>1. cfg' = cfg /\ phase'[r] = phase[r] /\ hops'[r] = hops[r]
  <2>1. CASE UNCHANGED <<cfg, requests>> \/ UNCHANGED vars
    BY <2>1 DEF requests, vars
  <2>2. ASSUME NEW q \in Request, q # r,
               Start(q) \/ Dispatching(q) \/ Continuing(q) \/ Returns(q)
        PROVE  cfg' = cfg /\ phase'[r] = phase[r] /\ hops'[r] = hops[r]
    BY <2>2 DEF Start, Dispatching, Continuing, Continues, Returns, Return, LoopInv, TypeOK
  <2>3. ASSUME NEW q \in Request, Start(q) \/ Proceed(q)
        PROVE  cfg' = cfg /\ phase'[r] = phase[r] /\ hops'[r] = hops[r]
    <3>1. q # r
      BY <2>3
    <3>2. \/ UNCHANGED <<cfg, requests>>
          \/ Start(q) \/ Dispatching(q) \/ Continuing(q) \/ Returns(q)
      BY <2>3, TaskShapes
    <3> QED
      BY <2>1, <2>2, <3>1, <3>2
  <2>4. CASE Tick
    BY <2>1, <2>4 DEF Tick
  <2> QED
    BY <2>1, <2>3, <2>4 DEF Next
<1>2. pc'[r] = pc[r] /\ evict'[r] = evict[r]
  <2>1. CASE UNCHANGED <<pc, evict>>
    BY <2>1
  <2>2. ASSUME NEW q \in Request, q # r, Circuits!Step(q)
        PROVE  pc'[r] = pc[r] /\ evict'[r] = evict[r]
    BY <2>2, Circuits!StepFrame, Circuits!EvictFrame, BreakerAssumption, CircuitsAssumed
  <2>3. ASSUME NEW q \in Request, Start(q) \/ Proceed(q)
        PROVE  UNCHANGED <<pc, evict>> \/ Circuits!Step(q)
    <3>1. CASE Start(q) \/ Reject(q)
      BY <3>1 DEF Start, Reject, breaker
    <3>2. CASE Dispatch(q)
      <4>1. req[q] \in HopRequest
        BY <3>2 DEF Dispatch, LoopInv, TypeOK, Active
      <4>2. HostOf[req[q].uri.authority] \in Host
        BY <4>1, UpstreamAssumption DEF HopRequest, Uri
      <4> QED
        BY <3>2, <4>2, SameActions DEF Dispatch, Circuits!Step
    <3>3. CASE CheckHop(q) \/ Settle(q) \/ ClientError(q) \/ Cancel(q) \/ Answer(q)
               \/ Unfollowed(q) \/ TooManyRedirects(q) \/ Follow(q)
      <4>1. \/ Breaker!Check(q) \/ Breaker!Success(q) \/ Breaker!Failure(q)
            \/ Breaker!RecordFailure(q) \/ Breaker!EvictGuard(q)
            \/ Breaker!EvictMeasure(q) \/ Breaker!EvictSweep(q)
        BY <3>3 DEF CheckHop, Settle, ClientError, Cancel, Answer, SettleTerminal, Unfollowed,
                    TooManyRedirects, Follow, Fail
      <4> QED
        BY <4>1, SameActions DEF Circuits!Step
    <3> QED
      BY <2>3, <3>1, <3>2, <3>3 DEF Proceed
  <2>4. CASE Tick \/ UNCHANGED vars
    BY <2>1, <2>4 DEF Tick, Breaker!Tick, vars, breaker
  <2>5. ASSUME NEW q \in Request, Start(q) \/ Proceed(q)
        PROVE  pc'[r] = pc[r] /\ evict'[r] = evict[r]
    <3>1. q # r
      BY <2>5
    <3> QED
      BY <2>1, <2>2, <2>3, <2>5, <3>1
  <2> QED
    BY <2>4, <2>5 DEF Next
<1>3. Circuits!HopLeft(r)' = Circuits!HopLeft(r)
  BY <1>2 DEF Circuits!HopLeft, Circuits!EvictionLeft
<1>4. RedirectsLeft(r)' = RedirectsLeft(r) /\ ToDispatch(r)' = ToDispatch(r)
  BY <1>1 DEF RedirectsLeft, ToDispatch
<1> QED
  BY <1>3, <1>4, Zenon DEF StepsLeft

(* execute returns after at most 43 + 23 * max_redirects steps of its own,  *)
(* for any upstreams, any number of concurrent requests and any limits.     *)
THEOREM RequestsTerminate ==
  Spec => /\ RequestsWaitFree
          /\ [](\A r \in Request : StepsLeft(r) \in 0..(43 + 23 * cfg.max_redirects))
<1>1. Spec => []Circuits!TypeOK /\ []Circuits!HopBudget
  <2>1. Circuits!Spec => []Circuits!TypeOK
    BY Circuits!TypeCorrect, BreakerAssumption, CircuitsAssumed
  <2>2. Circuits!Spec => Circuits!HopsWaitFree /\ []Circuits!HopBudget
    BY Circuits!HopsEnd, BreakerAssumption, CircuitsAssumed
  <2> QED
    BY <2>1, <2>2, ImplementsCircuits, PTL
<1>2. LoopInv /\ Circuits!TypeOK /\ Circuits!HopBudget /\ Circuits!HopBudget' /\ [Next]_vars =>
        [\A r \in Request :
           IF Proceed(r) THEN StepsLeft(r)' < StepsLeft(r)
                         ELSE Start(r) \/ StepsLeft(r)' = StepsLeft(r)]_vars
  BY ProceedCloser, OthersStay, Zenon
<1>3. LoopInv /\ Circuits!HopBudget =>
        \A r \in Request : StepsLeft(r) \in 0..(43 + 23 * cfg.max_redirects)
  <2> SUFFICES ASSUME LoopInv, Circuits!HopBudget, NEW r \in Request
               PROVE  StepsLeft(r) \in 0..(43 + 23 * cfg.max_redirects)
    OBVIOUS
  <2>1. Circuits!HopLeft(r) \in 0..21
    BY Zenon DEF Circuits!HopBudget
  <2> QED
    BY <2>1, LeftTyped, Countdown, Zenon DEF StepsLeft
<1> QED
  BY LoopInit, LoopStep, <1>1, <1>2, <1>3, PTL DEF Spec, RequestsWaitFree
-----------------------------------------------------------------------------
(* How far two flaws of prepare_next reach                                 *)

(* A Location is refused as an invalid URL only when it is one, or contains  *)
(* "://", or leads where the client may not go: a missing one never is, and  *)
(* neither is a relative reference without "://" (resolve_location).        *)
RefusedLocations ==
  \A r \in Request :
    outcome[r].kind = "invalid_url" =>
      outcome[r].location \in {"malformed", "embedded", "absolute"}

(* A request announces a body it does not have only as the GET of a later   *)
(* hop: the caller's own request, and any method with a body, is sent whole *)
(* (split_initial, prepare_next).                                          *)
LengthLeftBehind ==
  \A r \in Active : req[r].length /\ ~req[r].body => hops[r] > 0 /\ req[r].method = "GET"

FirstHopWhole == \A r \in Active : hops[r] = 0 /\ req[r].length => req[r].body

LEMMA LocationKept ==
  ASSUME LoopInv, RefusedLocations, [Next]_vars
  PROVE  RefusedLocations'
<1>1. CASE UNCHANGED outcome
  BY <1>1 DEF RefusedLocations
<1>2. ASSUME NEW r \in Request, NEW kind \in Kinds, NEW location \in Forms,
             Return(r, kind, location), kind = "invalid_url" =>
               location \in {"malformed", "embedded", "absolute"}
      PROVE  RefusedLocations'
  BY <1>2 DEF Return, RefusedLocations, LoopInv, TypeOK
<1>3. ASSUME NEW r \in Request, Start(r)
      PROVE  RefusedLocations'
  BY <1>3 DEF Start, NoOutcome, RefusedLocations, LoopInv, TypeOK
<1>4. ASSUME NEW r \in Request, NEW location \in Forms, NEW uri \in Uri, phase[r] = "hop",
             InvalidLocation(req[r], location, uri)
      PROVE  location \in {"malformed", "embedded", "absolute"}
  <2>1. location # "none"
    BY <1>4 DEF InvalidLocation
  <2>2. ASSUME location = "relative" PROVE FALSE
    <3>1. req[r].uri \in Resolved(req[r].uri, location, uri)
      BY <2>2 DEF Resolved
    <3>2. IsDowngrade(req[r].uri, req[r].uri)
      BY <1>4, <3>1 DEF InvalidLocation
    <3> QED
      BY <3>2 DEF IsDowngrade
  <2> QED
    BY <2>1, <2>2 DEF Forms
<1>5. ASSUME NEW r \in Request, Proceed(r)
      PROVE  RefusedLocations'
  <2>1. CASE Reject(r) \/ ClientError(r) \/ Cancel(r) \/ Answer(r) \/ Unfollowed(r)
             \/ TooManyRedirects(r) \/ CheckHop(r)
    <3>1. CASE UNCHANGED <<cfg, requests>>
      BY <1>1, <3>1 DEF requests
    <3>2. CASE \E kind \in Kinds \ {"invalid_url"} : Return(r, kind, "none")
      BY <1>2, <3>2 DEF Kinds, Forms
    <3> QED
      BY <2>1, <3>1, <3>2 DEF Reject, ClientError, Cancel, Answer, Unfollowed,
         TooManyRedirects, CheckHop, Fail, Kinds
  <2>2. CASE Dispatch(r) \/ Settle(r)
    BY <1>1, <2>2 DEF Dispatch, Settle, requests
  <2>3. CASE Follow(r)
    <3>1. PICK status \in {"found", "temporary"}, form \in Forms, uri \in Uri :
            \/ InvalidLocation(req[r], form, uri) /\ Return(r, "invalid_url", form)
            \/ Return(r, "ok", form)
            \/ UNCHANGED outcome
      BY <2>3 DEF Follow
    <3>2. phase[r] = "hop"
      BY <2>3 DEF Follow
    <3> QED
      BY <1>1, <1>2, <1>4, <3>1, <3>2 DEF Kinds
  <2> QED
    BY <1>5, <2>1, <2>2, <2>3 DEF Proceed
<1>6. CASE Tick \/ UNCHANGED vars
  BY <1>1, <1>6 DEF Tick, requests, vars
<1> QED
  BY <1>3, <1>5, <1>6 DEF Next

LEMMA FirstHopKept ==
  ASSUME LoopInv, FirstHopWhole, [Next]_vars
  PROVE  FirstHopWhole'
<1>1. CASE UNCHANGED <<cfg, requests>> \/ UNCHANGED vars
  BY <1>1 DEF requests, vars, FirstHopWhole, Active
<1>2. ASSUME NEW r \in Request, Start(r)
      PROVE  FirstHopWhole'
  <2>1. PICK q \in Incoming : req' = [req EXCEPT ![r] = q]
    BY <1>2 DEF Start
  <2>2. q.length => q.body
    BY UpstreamAssumption DEF InitialRequests
  <2> QED
    BY <1>2, <2>1, <2>2 DEF Start, FirstHopWhole, Active, LoopInv, TypeOK
<1>3. ASSUME NEW r \in Request, Dispatching(r) \/ Returns(r)
      PROVE  FirstHopWhole'
  BY <1>3 DEF Dispatching, Returns, Return, FirstHopWhole, Active, LoopInv, TypeOK
<1>4. ASSUME NEW r \in Request, Continuing(r)
      PROVE  FirstHopWhole'
  <2>1. hops'[r] # 0
    <3>1. hops[r] \in 0..255
      BY DEF LoopInv, TypeOK
    <3> QED
      BY <1>4, <3>1 DEF Continuing, Continues, SaturatingInc, LoopInv, TypeOK
  <2>2. \A p \in Request : p # r => req'[p] = req[p] /\ hops'[p] = hops[p] /\ phase'[p] = phase[p]
    BY <1>4 DEF Continuing, Continues, LoopInv, TypeOK
  <2> QED
    BY <2>1, <2>2 DEF FirstHopWhole, Active
<1> QED
  BY <1>1, <1>2, <1>3, <1>4, StepShapes

(* How far a Location that is refused, and a Content-Length that is left    *)
(* behind, can be from what prepare_next promises.                          *)
THEOREM RedirectFindingsConfined == Spec => []RefusedLocations /\ []LengthLeftBehind
<1>1. Init => RefusedLocations /\ FirstHopWhole
  BY DEF Init, RefusedLocations, FirstHopWhole, NoOutcome, Active
<1>2. LoopInv /\ FirstHopWhole => LengthLeftBehind
  <2> SUFFICES ASSUME LoopInv, FirstHopWhole, NEW r \in Active, req[r].length, ~req[r].body
               PROVE  hops[r] > 0 /\ req[r].method = "GET"
    BY DEF LengthLeftBehind
  <2>1. hops[r] \in 0..255 /\ req[r] \in HopRequest
    BY DEF LoopInv, TypeOK, Active
  <2>2. hops[r] # 0
    BY DEF FirstHopWhole
  <2>3. hops[r] > 0
    BY <2>1, <2>2
  <2>4. ~BodyBearing(req[r].method)
    BY <2>3 DEF LoopInv, NoEmptyReplay
  <2> QED
    BY <2>1, <2>3, <2>4 DEF HopRequest, Methods, BodyBearing
<1> QED
  BY LoopInit, LoopStep, LocationKept, FirstHopKept, <1>1, <1>2, PTL DEF Spec
=============================================================================
