------------------------ MODULE CircuitBreakerProofs ------------------------
(***************************************************************************)
(* What holds of the circuit breaker for every set of hosts and hops and   *)
(* every value of the thresholds and durations.                            *)
(***************************************************************************)
EXTENDS CircuitBreaker, FiniteSetTheorems, TLAPS

(* Operators on entries keep their types.                                  *)

(* A pushed failure leaves a finite set of stamps.                         *)
LEMMA PushType ==
  ASSUME NEW F \in Failures, NEW t \in Nat
  PROVE  Push(F, t) \in Failures
<1> DEFINE G == {f \in F : f[1] = t}
<1>1. G \in SUBSET F /\ IsFiniteSet(F)
  BY DEF Failures
<1>2. Cardinality(G) \in Nat
  BY <1>1, FS_Subset, FS_CardinalityType
<1>3. IsFiniteSet(Push(F, t))
  BY <1>1, FS_AddElement DEF Push
<1>4. <<t, 1 + Cardinality(G)>> \in Nat \X Nat
  BY <1>2
<1>5. Push(F, t) = F \cup {<<t, 1 + Cardinality(G)>>}
  BY DEF Push
<1> QED
  BY <1>3, <1>4, <1>5 DEF Failures

(* The failures retained by record_failure_on are finite, and so is their number. *)
LEMMA RetainedType ==
  ASSUME NEW c \in HostCircuit, NEW t \in Nat
  PROVE  Retained(c, t) \in Failures
<1>1. c.failures \in Failures
  BY DEF HostCircuit
<1>2. Recent(c.failures, t) \in SUBSET c.failures
  BY DEF Recent
<1>3. Recent(c.failures, t) \in Failures
  BY <1>1, <1>2, FS_Subset DEF Failures
<1> QED
  BY <1>3, PushType DEF Retained

LEMMA AbsentType == Absent \in HostCircuit /\ NewCircuit \in HostCircuit
<1>1. {} \in Failures
  BY FS_EmptySet DEF Failures
<1> QED
  BY <1>1 DEF Absent, NewCircuit, HostCircuit

LEMMA EntryType ==
  ASSUME TypeOK, NEW h \in Host
  PROVE  Entry(h) \in HostCircuit /\ Entry(h).state # "absent"
BY AbsentType DEF TypeOK, Entry, Tracked, NewCircuit, Absent

LEMMA TransitionType ==
  ASSUME NEW c \in HostCircuit, NEW t \in Nat
  PROVE  TransitionOnCheck(c, t) \in HostCircuit
<1>1. ~(StartsWindow(c, t) /\ HasBudget(c))
  BY CircuitAssumption DEF StartsWindow, HasBudget, IsExpiredOpen, HostCircuit
<1>2. CASE StartsWindow(c, t)
  BY <1>1, <1>2 DEF TransitionOnCheck, HostCircuit
<1>3. CASE HasBudget(c)
  BY <1>1, <1>3 DEF TransitionOnCheck, HostCircuit
<1>4. CASE ~StartsWindow(c, t) /\ ~HasBudget(c)
  BY <1>4 DEF TransitionOnCheck
<1> QED
  BY <1>2, <1>3, <1>4

LEMMA RecordFailureType ==
  ASSUME NEW c \in HostCircuit, NEW t \in Nat
  PROVE  RecordFailureOn(c, t) \in HostCircuit
<1>1. {} \in Failures
  BY FS_EmptySet DEF Failures
<1>2. t + OpenDuration \in Nat
  BY CircuitAssumption
<1> QED
  BY <1>1, <1>2, RetainedType DEF RecordFailureOn, HostCircuit, Absent

(* The map's length is a number.                                           *)
LEMMA TrackedFinite == IsFiniteSet(Tracked) /\ Cardinality(Tracked) \in Nat
<1>1. Tracked \in SUBSET Host
  BY DEF Tracked
<1> QED
  BY <1>1, CircuitAssumption, FS_Subset, FS_CardinalityType
-----------------------------------------------------------------------------
(* What the end of a hop and the moves within evict_if_needed do to the    *)
(* hop's own state, common to several actions.                             *)
LEMMA FinishType ==
  ASSUME TypeOK, NEW p \in Hop, Finish(p)
  PROVE  /\ pc' \in [Hop -> Pcs]
         /\ target' \in [Hop -> Host \cup {NoHost}]
         /\ \A q \in Hop : pc'[q] # "idle" => target'[q] \in Host
         /\ at' \in [Hop -> Nat]
         /\ role' \in [Hop -> {"none", "regular", "probe", "stale"}]
BY DEF TypeOK, Finish, Goto, Pcs

Evict == [stage: Stages, excess: Nat, resume: {"idle", "flight"}]

LEMMA ResumeType ==
  ASSUME TypeOK, NEW p \in Hop, Resume(p), pc[p] # "idle"
  PROVE  /\ pc' \in [Hop -> Pcs]
         /\ target' \in [Hop -> Host \cup {NoHost}]
         /\ \A q \in Hop : pc'[q] # "idle" => target'[q] \in Host
         /\ at' \in [Hop -> Nat]
         /\ role' \in [Hop -> {"none", "regular", "probe", "stale"}]
<1>1. CASE Finish(p)
  BY <1>1, FinishType
<1>2. CASE ~Finish(p)
  BY <1>2 DEF Resume, TypeOK, Goto, Pcs
<1> QED
  BY <1>1, <1>2

LEMMA NextStageType ==
  ASSUME TypeOK, NEW p \in Hop, NextStage(p), pc[p] # "idle"
  PROVE  /\ pc' \in [Hop -> Pcs]
         /\ target' \in [Hop -> Host \cup {NoHost}]
         /\ \A q \in Hop : pc'[q] # "idle" => target'[q] \in Host
         /\ at' \in [Hop -> Nat]
         /\ role' \in [Hop -> {"none", "regular", "probe", "stale"}]
         /\ evict' \in [Hop -> Evict]
<1>1. CASE evict[p].stage = 3
  <2>1. Resume(p) /\ evict' = [evict EXCEPT ![p] = NoEvict]
    BY <1>1 DEF NextStage
  <2>2. evict' \in [Hop -> Evict]
    BY <2>1 DEF TypeOK, NoEvict, Evict, Stages
  <2> QED
    BY <2>1, <2>2, ResumeType
<1>2. CASE evict[p].stage # 3
  <2> DEFINE e == [stage |-> evict[p].stage + 1, excess |-> 0, resume |-> evict[p].resume]
  <2>1. evict[p] \in Evict /\ evict[p].stage \in 1..2
    BY <1>2 DEF TypeOK, Evict, Stages, NextStage
  <2>2. e \in Evict
    BY <2>1 DEF Evict, Stages
  <2>3. evict' = [evict EXCEPT ![p] = e]
    BY <1>2 DEF NextStage
  <2>4. evict' \in [Hop -> Evict]
    BY <2>2, <2>3 DEF TypeOK, Evict
  <2>5. /\ pc' \in [Hop -> Pcs] /\ target' = target /\ at' = at /\ role' = role
        /\ \A q \in Hop : pc'[q] # "idle" => pc[q] # "idle"
    BY <1>2 DEF NextStage, TypeOK, Goto, Pcs
  <2> QED
    BY <2>4, <2>5 DEF TypeOK
<1> QED
  BY <1>1, <1>2
-----------------------------------------------------------------------------
(* The type invariant, one lemma per action that does more than move a pc. *)
LEMMA CheckType ==
  ASSUME TypeOK, NEW p \in Hop, Check(p)
  PROVE  TypeOK'
<1> DEFINE h == target[p]  c == Entry(h)  t == at[p]
<1>0. h \in Host /\ t \in Nat /\ p \in Hop /\ c \in HostCircuit
  BY EntryType DEF Check, TypeOK
<1>1. hosts' \in [Host -> HostCircuit]
  BY <1>0, TransitionType DEF Check, TypeOK
<1>2. CASE Allowed(c, t)
  <2>1. pc' \in [Hop -> Pcs] /\ target' = target /\ at' = at
    BY <1>2 DEF Check, TypeOK, Goto, Pcs
  <2>2. role' \in [Hop -> {"none", "regular", "probe", "stale"}]
    BY <1>2 DEF Check, TypeOK, Roles
  <2>3. evict' \in [Hop -> Evict]
    BY <1>2 DEF Check, TypeOK, NoEvict, Evict, Stages
  <2>4. touched' \in [Host -> Nat]
    BY <1>0, <1>2 DEF Check, TypeOK
  <2>5. \A q \in Hop : pc'[q] # "idle" => target'[q] \in Host
    BY <1>0, <1>2 DEF Check, TypeOK, Goto
  <2> QED
    BY <1>1, <2>1, <2>2, <2>3, <2>4, <2>5 DEF Check, TypeOK, Evict
<1>3. CASE ~Allowed(c, t)
  <2>1. Finish(p) /\ UNCHANGED <<evict, touched>>
    BY <1>3 DEF Check
  <2> QED
    BY <1>1, <2>1, FinishType DEF Check, TypeOK
<1> QED
  BY <1>2, <1>3

LEMMA RecordFailureTypeOK ==
  ASSUME TypeOK, NEW p \in Hop, RecordFailure(p)
  PROVE  TypeOK'
<1> DEFINE h == target[p]  c == Entry(h)  t == at[p]
<1>0. h \in Host /\ t \in Nat /\ c \in HostCircuit
  BY EntryType DEF RecordFailure, TypeOK
<1>1. hosts' \in [Host -> HostCircuit]
  BY <1>0, RecordFailureType DEF RecordFailure, TypeOK
<1>2. touched' \in [Host -> Nat]
  BY <1>0 DEF RecordFailure, TypeOK
<1>3. {} \in Failures
  BY FS_EmptySet DEF Failures
<1>4. log' \in [Host -> Failures]
  <2>1. Push(log[h], t) \in Failures
    BY <1>0, PushType DEF TypeOK
  <2> QED
    BY <1>0, <1>3, <2>1 DEF RecordFailure, TypeOK
<1>5. pc' \in [Hop -> Pcs] /\ \A q \in Hop : pc'[q] # "idle" => target'[q] \in Host
  BY <1>0 DEF RecordFailure, TypeOK, Goto, Pcs
<1>6. evict' \in [Hop -> Evict]
  BY DEF RecordFailure, TypeOK, NoEvict, Evict, Stages
<1>7. role' \in [Hop -> {"none", "regular", "probe", "stale"}] /\ rescued' \in SUBSET Host
  BY DEF RecordFailure, TypeOK
<1> QED
  BY <1>1, <1>2, <1>4, <1>5, <1>6, <1>7 DEF RecordFailure, TypeOK, Evict

LEMMA SuccessType ==
  ASSUME TypeOK, NEW p \in Hop, Success(p)
  PROVE  TypeOK'
<1>1. target[p] \in Host
  BY DEF Success, TypeOK
<1>2. {} \in Failures
  BY FS_EmptySet DEF Failures
<1>3. hosts' \in [Host -> HostCircuit] /\ log' \in [Host -> Failures] /\ rescued' \in SUBSET Host
  <2>1. CASE enabled /\ target[p] \in Tracked
    <3>1. /\ hosts' = [hosts EXCEPT ![target[p]] = NewCircuit]
          /\ log' = [log EXCEPT ![target[p]] = {}]
          /\ rescued' \in {rescued, rescued \cup {target[p]}}
      BY <2>1 DEF Success
    <3> QED
      BY <1>1, <1>2, <3>1, AbsentType DEF TypeOK
  <2>2. CASE ~(enabled /\ target[p] \in Tracked)
    BY <2>2 DEF Success, TypeOK
  <2> QED
    BY <2>1, <2>2
<1>4. Finish(p) /\ UNCHANGED <<enabled, now, evict, touched>>
  BY DEF Success
<1> QED
  BY <1>3, <1>4, FinishType DEF TypeOK

LEMMA EvictType ==
  ASSUME TypeOK, NEW p \in Hop, EvictGuard(p) \/ EvictMeasure(p) \/ EvictSweep(p)
  PROVE  TypeOK'
<1>1. CASE EvictGuard(p)
  <2>1. CASE Goto(p, "measure") /\ UNCHANGED <<target, at, evict, role>>
    BY <1>1, <2>1 DEF EvictGuard, TypeOK, Goto, Pcs
  <2>2. CASE Resume(p) /\ evict' = [evict EXCEPT ![p] = NoEvict]
    <3>1. evict' \in [Hop -> Evict]
      BY <2>2 DEF TypeOK, NoEvict, Evict, Stages
    <3> QED
      BY <1>1, <2>2, <3>1, ResumeType DEF EvictGuard, TypeOK, Evict
  <2>3. CASE NextStage(p)
    BY <1>1, <2>3, NextStageType DEF EvictGuard, TypeOK, Evict
  <2> QED
    BY <1>1, <2>1, <2>2, <2>3 DEF EvictGuard
<1>2. CASE EvictMeasure(p)
  <2>1. CASE NextStage(p)
    BY <1>2, <2>1, NextStageType DEF EvictMeasure, TypeOK, Evict
  <2>2. CASE ~NextStage(p)
    <3>1. Cardinality(Tracked) - MaxHosts \in Nat
      BY <1>2, <2>2, TrackedFinite, CircuitAssumption DEF EvictMeasure
    <3> DEFINE e == [evict[p] EXCEPT !.excess = Cardinality(Tracked) - MaxHosts]
    <3>2. e \in Evict
      BY <3>1 DEF TypeOK, Evict
    <3>3. evict' = [evict EXCEPT ![p] = e]
      BY <1>2, <2>2 DEF EvictMeasure
    <3>4. evict' \in [Hop -> Evict]
      BY <3>2, <3>3 DEF TypeOK, Evict
    <3> QED
      BY <1>2, <2>2, <3>4 DEF EvictMeasure, TypeOK, Goto, Pcs, Evict
  <2> QED
    BY <2>1, <2>2
<1>3. CASE EvictSweep(p)
  <2>1. {} \in Failures
    BY FS_EmptySet DEF Failures
  <2>2. hosts' \in [Host -> HostCircuit] /\ log' \in [Host -> Failures] /\ rescued' \in SUBSET Host
    BY <1>3, <2>1, AbsentType DEF EvictSweep, TypeOK
  <2> QED
    BY <1>3, <2>2, NextStageType DEF EvictSweep, TypeOK, Evict
<1> QED
  BY <1>1, <1>2, <1>3

LEMMA StepType ==
  ASSUME TypeOK, [Next]_vars
  PROVE  TypeOK'
<1>1. CASE Tick
  BY <1>1 DEF Tick, TypeOK, history
<1>2. ASSUME NEW p \in Hop, Step(p)
      PROVE  TypeOK'
  <2>1. ASSUME NEW h \in Host, Admit(p, h)
        PROVE  TypeOK'
    <3>1. pc' \in [Hop -> Pcs] /\ target' = [target EXCEPT ![p] = h]
      BY <2>1 DEF Admit, TypeOK, Goto, Pcs
    <3>2. at' \in [Hop -> Nat]
      BY <2>1 DEF Admit, TypeOK
    <3>3. \A q \in Hop : pc'[q] # "idle" => target'[q] \in Host
      BY <2>1, <3>1 DEF Admit, TypeOK, Goto
    <3>4. UNCHANGED <<enabled, now, hosts, evict, touched, role, log, rescued>>
      BY <2>1 DEF Admit, history
    <3> QED
      BY <3>1, <3>2, <3>3, <3>4 DEF TypeOK
  <2>2. CASE Check(p)
    BY <2>2, CheckType
  <2>3. CASE Success(p)
    BY <2>3, SuccessType
  <2>4. CASE Failure(p)
    <3>1. CASE Finish(p)
      BY <2>4, <3>1, FinishType DEF Failure, TypeOK
    <3>2. CASE ~Finish(p)
      <4>1. /\ pc[p] = "flight" /\ pc' = [pc EXCEPT ![p] = "fail"] /\ at' = [at EXCEPT ![p] = now]
            /\ UNCHANGED <<enabled, now, hosts, target, evict, touched, role, log, rescued>>
        BY <2>4, <3>2 DEF Failure, Goto
      <4>2. pc' \in [Hop -> Pcs] /\ at' \in [Hop -> Nat]
        BY <4>1 DEF TypeOK, Pcs
      <4>3. \A q \in Hop : pc'[q] # "idle" => target'[q] \in Host
        BY <4>1 DEF TypeOK
      <4> QED
        BY <4>1, <4>2, <4>3 DEF TypeOK
    <3> QED
      BY <3>1, <3>2
  <2>5. CASE RecordFailure(p)
    BY <2>5, RecordFailureTypeOK
  <2>6. CASE EvictGuard(p) \/ EvictMeasure(p) \/ EvictSweep(p)
    BY <2>6, EvictType
  <2> QED
    BY <1>2, <2>1, <2>2, <2>3, <2>4, <2>5, <2>6 DEF Step
<1>3. CASE UNCHANGED vars
  BY <1>3 DEF vars, TypeOK
<1> QED
  BY <1>1, <1>2, <1>3 DEF Next

(* Type correctness of the breaker and of every hop's position in its      *)
(* operations: in particular a hop that is anywhere but idle has a host.   *)
THEOREM TypeCorrect == Spec => []TypeOK
<1>1. Init => TypeOK
  <2>1. {} \in Failures
    BY FS_EmptySet DEF Failures
  <2> QED
    BY <2>1, AbsentType DEF Init, TypeOK, Pcs, NoEvict, Stages
<1> QED
  BY <1>1, StepType, PTL DEF Spec
-----------------------------------------------------------------------------
(* The clock samples and deadlines: no sample is ahead of the clock, and   *)
(* what keeps a host shut is dated by the history variable touched.        *)
ClockInv ==
  /\ \A p \in Hop : at[p] <= now
  /\ \A h \in Host :
       /\ hosts[h].state = "open" => hosts[h].until <= touched[h] + OpenDuration
       /\ hosts[h].state = "half_open" => hosts[h].since <= touched[h]

(* Resume and NextStage leave every sample as it was or back at zero.      *)
LEMMA StageSamples ==
  ASSUME TypeOK, NEW p \in Hop, Finish(p) \/ Resume(p) \/ NextStage(p)
  PROVE  \A q \in Hop : at'[q] \in {at[q], 0}
BY DEF TypeOK, NextStage, Resume, Finish

LEMMA StepSamples ==
  ASSUME TypeOK, ClockInv, [Next]_vars
  PROVE  \A q \in Hop : at'[q] <= now'
<1>1. CASE Tick
  BY <1>1 DEF Tick, TypeOK, ClockInv
<1>2. ASSUME NEW p \in Hop, Step(p)
      PROVE  \A q \in Hop : at'[q] <= now'
  <2>1. CASE \E h \in Host : Admit(p, h)
    BY <2>1 DEF Admit, TypeOK, ClockInv
  <2>2. CASE Check(p)
    BY <2>2, StageSamples DEF Check, TypeOK, ClockInv
  <2>3. CASE Success(p)
    BY <2>3, StageSamples DEF Success, TypeOK, ClockInv
  <2>4. CASE Failure(p)
    BY <2>4, StageSamples DEF Failure, TypeOK, ClockInv
  <2>5. CASE RecordFailure(p)
    BY <2>5 DEF RecordFailure, TypeOK, ClockInv
  <2>6. CASE EvictGuard(p)
    <3>1. now' = now /\ \A q \in Hop : at'[q] \in {at[q], 0}
      <4>1. now' = now /\ (at' = at \/ Resume(p) \/ NextStage(p))
        BY <2>6 DEF EvictGuard
      <4> QED
        BY <4>1, StageSamples
    <3> QED
      BY <3>1 DEF TypeOK, ClockInv
  <2>7. CASE EvictMeasure(p)
    <3>1. now' = now /\ \A q \in Hop : at'[q] \in {at[q], 0}
      <4>1. now' = now /\ (at' = at \/ Resume(p) \/ NextStage(p))
        BY <2>7 DEF EvictMeasure
      <4> QED
        BY <4>1, StageSamples
    <3> QED
      BY <3>1 DEF TypeOK, ClockInv
  <2>8. CASE EvictSweep(p)
    <3>1. now' = now /\ \A q \in Hop : at'[q] \in {at[q], 0}
      <4>1. now' = now /\ (at' = at \/ Resume(p) \/ NextStage(p))
        BY <2>8 DEF EvictSweep
      <4> QED
        BY <4>1, StageSamples
    <3> QED
      BY <3>1 DEF TypeOK, ClockInv
  <2> QED
    BY <1>2, <2>1, <2>2, <2>3, <2>4, <2>5, <2>6, <2>7, <2>8 DEF Step
<1>3. CASE UNCHANGED vars
  BY <1>3 DEF vars, ClockInv
<1> QED
  BY <1>1, <1>2, <1>3 DEF Next

(* transition_on_check, entry by entry.                                    *)
LEMMA TransitionEffect ==
  ASSUME NEW c \in HostCircuit, NEW t \in Nat, c.state # "absent"
  PROVE  LET d == TransitionOnCheck(c, t) IN
         /\ StartsWindow(c, t) => d.state = "half_open" /\ d.since = t /\ d.probes = 1
         /\ HasBudget(c) => d.state = "half_open" /\ d.since = c.since /\ d.probes = c.probes + 1
         /\ ~StartsWindow(c, t) /\ ~HasBudget(c) => d = c
<1>1. ~(StartsWindow(c, t) /\ HasBudget(c))
  BY CircuitAssumption DEF StartsWindow, HasBudget, IsExpiredOpen, HostCircuit
<1>2. CASE StartsWindow(c, t)
  BY <1>1, <1>2 DEF TransitionOnCheck, HostCircuit
<1>3. CASE HasBudget(c)
  BY <1>1, <1>3 DEF TransitionOnCheck, HostCircuit, HasBudget
<1>4. CASE ~StartsWindow(c, t) /\ ~HasBudget(c)
  BY <1>4 DEF TransitionOnCheck
<1> QED
  BY <1>2, <1>3, <1>4

(* record_failure_on, entry by entry.                                      *)
LEMMA RecordFailureEffect ==
  ASSUME NEW c \in HostCircuit, NEW t \in Nat
  PROVE  LET d == RecordFailureOn(c, t) IN
         /\ ShouldOpen(c, t) => d.state = "open" /\ d.until = t + OpenDuration
         /\ ~ShouldOpen(c, t) =>
              /\ d.state = c.state /\ d.until = c.until
              /\ d.state # "half_open"
BY DEF RecordFailureOn, HostCircuit, Absent, ShouldOpen

LEMMA StepDeadlines ==
  ASSUME TypeOK, ClockInv, [Next]_vars, NEW g \in Host
  PROVE  /\ hosts'[g].state = "open" => hosts'[g].until <= touched'[g] + OpenDuration
         /\ hosts'[g].state = "half_open" => hosts'[g].since <= touched'[g]
<1> DEFINE Goal == /\ hosts'[g].state = "open" => hosts'[g].until <= touched'[g] + OpenDuration
                   /\ hosts'[g].state = "half_open" => hosts'[g].since <= touched'[g]
<1>0. ASSUME hosts'[g] = hosts[g], touched'[g] = touched[g]
      PROVE  Goal
  BY <1>0 DEF ClockInv
<1>1. CASE Tick
  BY <1>0, <1>1 DEF Tick, history
<1>2. ASSUME NEW p \in Hop, Step(p)
      PROVE  Goal
  <2> DEFINE h == target[p]  c == Entry(h)  t == at[p]
  <2>1. CASE \E k \in Host : Admit(p, k)
    BY <1>0, <2>1 DEF Admit, history
  <2>2. CASE Check(p)
    <3>1. h \in Host /\ t \in Nat /\ t <= now /\ now \in Nat
      BY <2>2 DEF Check, TypeOK, ClockInv
    <3>2. c \in HostCircuit /\ c.state # "absent"
      BY <3>1, EntryType
    <3>3. hosts' = [hosts EXCEPT ![h] = TransitionOnCheck(c, t)]
      BY <2>2 DEF Check
    <3>4. touched' = IF StartsWindow(c, t) THEN [touched EXCEPT ![h] = now] ELSE touched
      BY <2>2 DEF Check, Allowed
    <3>5. CASE g # h
      BY <1>0, <3>1, <3>3, <3>4, <3>5 DEF TypeOK
    <3>6. CASE g = h
      <4>1. hosts'[g] = TransitionOnCheck(c, t)
        BY <3>1, <3>3, <3>6 DEF TypeOK
      <4>2. CASE StartsWindow(c, t)
        <5>1. touched'[g] = now
          BY <3>1, <3>4, <3>6, <4>2 DEF TypeOK
        <5> QED
          BY <3>1, <3>2, <4>1, <4>2, <5>1, TransitionEffect
      <4>3. CASE ~StartsWindow(c, t)
        <5>1. touched' = touched
          BY <3>4, <4>3
        <5>2. c = hosts[g] \/ c.state = "closed"
          BY <3>6 DEF Entry, NewCircuit, Absent
        <5>3. CASE HasBudget(c)
          BY <3>1, <3>2, <4>1, <5>1, <5>2, <5>3, TransitionEffect DEF ClockInv, HasBudget
        <5>4. CASE ~HasBudget(c)
          BY <3>1, <3>2, <4>1, <4>3, <5>1, <5>2, <5>4, TransitionEffect DEF ClockInv
        <5> QED
          BY <5>3, <5>4
      <4> QED
        BY <4>2, <4>3
    <3> QED
      BY <3>5, <3>6
  <2>3. CASE Success(p)
    <3>1. hosts'[g] = hosts[g] \/ hosts'[g] = NewCircuit
      BY <2>3 DEF Success, TypeOK
    <3>2. NewCircuit.state = "closed"
      BY DEF NewCircuit, Absent
    <3> QED
      BY <1>0, <2>3, <3>1, <3>2 DEF Success
  <2>4. CASE Failure(p)
    BY <1>0, <2>4 DEF Failure
  <2>5. CASE RecordFailure(p)
    <3>1. h \in Host /\ t \in Nat /\ t <= now /\ now \in Nat
      BY <2>5 DEF RecordFailure, TypeOK, ClockInv
    <3>2. c \in HostCircuit /\ c.state # "absent"
      BY <3>1, EntryType
    <3>3. hosts' = [hosts EXCEPT ![h] = RecordFailureOn(c, t)]
      BY <2>5 DEF RecordFailure
    <3>4. touched' = IF ShouldOpen(c, t) THEN [touched EXCEPT ![h] = now] ELSE touched
      BY <2>5 DEF RecordFailure
    <3>5. CASE g # h
      BY <1>0, <3>1, <3>3, <3>4, <3>5 DEF TypeOK
    <3>6. CASE g = h
      <4>1. hosts'[g] = RecordFailureOn(c, t)
        BY <3>1, <3>3, <3>6 DEF TypeOK
      <4>2. CASE ShouldOpen(c, t)
        <5>1. touched'[g] = now
          BY <3>1, <3>4, <3>6, <4>2 DEF TypeOK
        <5> QED
          BY <3>1, <3>2, <4>1, <4>2, <5>1, RecordFailureEffect, CircuitAssumption
      <4>3. CASE ~ShouldOpen(c, t)
        <5>1. touched' = touched
          BY <3>4, <4>3
        <5>2. c = hosts[g] \/ c.state = "closed"
          BY <3>6 DEF Entry, NewCircuit, Absent
        <5> QED
          BY <3>1, <3>2, <4>1, <4>3, <5>1, <5>2, RecordFailureEffect DEF ClockInv
      <4> QED
        BY <4>2, <4>3
    <3> QED
      BY <3>5, <3>6
  <2>6. CASE EvictGuard(p) \/ EvictMeasure(p)
    BY <1>0, <2>6 DEF EvictGuard, EvictMeasure
  <2>7. CASE EvictSweep(p)
    <3>1. hosts'[g] = hosts[g] \/ hosts'[g] = Absent
      BY <2>7 DEF EvictSweep
    <3>2. Absent.state = "absent"
      BY DEF Absent
    <3> QED
      BY <1>0, <2>7, <3>1, <3>2 DEF EvictSweep
  <2> QED
    BY <1>2, <2>1, <2>2, <2>3, <2>4, <2>5, <2>6, <2>7 DEF Step
<1>3. CASE UNCHANGED vars
  BY <1>0, <1>3 DEF vars
<1> QED
  BY <1>1, <1>2, <1>3 DEF Next

LEMMA ClockCorrect == Spec => []ClockInv
<1>1. Init => ClockInv
  BY DEF Init, ClockInv, Absent
<1>2. TypeOK /\ ClockInv /\ [Next]_vars => ClockInv'
  BY StepSamples, StepDeadlines DEF ClockInv
<1> QED
  BY <1>1, <1>2, TypeCorrect, PTL DEF Spec
-----------------------------------------------------------------------------
(* A step of one hop moves no other hop.                                   *)
LEMMA StepFrame ==
  ASSUME TypeOK, NEW p \in Hop, Step(p), NEW q \in Hop, q # p
  PROVE  pc'[q] = pc[q] /\ target'[q] = target[q]
<1>1. ASSUME Finish(p) \/ Resume(p) \/ NextStage(p)
      PROVE  pc'[q] = pc[q] /\ target'[q] = target[q]
  BY <1>1 DEF TypeOK, Goto, Finish, Resume, NextStage
<1>2. CASE \E h \in Host : Admit(p, h)
  BY <1>2 DEF TypeOK, Admit, Goto
<1>3. CASE Check(p)
  BY <1>1, <1>3 DEF TypeOK, Check, Goto
<1>4. CASE Success(p)
  BY <1>1, <1>4 DEF Success
<1>5. CASE Failure(p)
  BY <1>1, <1>5 DEF TypeOK, Failure, Goto
<1>6. CASE RecordFailure(p)
  BY <1>6 DEF TypeOK, RecordFailure, Goto
<1>7. CASE EvictGuard(p)
  BY <1>1, <1>7 DEF TypeOK, EvictGuard, Goto
<1>8. CASE EvictMeasure(p)
  BY <1>1, <1>8 DEF TypeOK, EvictMeasure, Goto
<1>9. CASE EvictSweep(p)
  BY <1>1, <1>9 DEF EvictSweep
<1> QED
  BY <1>2, <1>3, <1>4, <1>5, <1>6, <1>7, <1>8, <1>9 DEF Step

(* A check is refused only by an entry whose deadline is still ahead.      *)
LEMMA RefusedEarly ==
  ASSUME TypeOK, ClockInv, NEW p \in Hop, Check(p), ~Allowed(Entry(target[p]), at[p])
  PROVE  at[p] < touched[target[p]] + OpenDuration
<1> DEFINE h == target[p]  c == Entry(h)  t == at[p]
<1>1. h \in Host /\ t \in Nat /\ touched[h] \in Nat
  BY DEF Check, TypeOK
<1>2. c \in HostCircuit /\ c.state # "absent"
  BY <1>1, EntryType
<1>3. c = hosts[h] /\ c.state \in {"open", "half_open"}
  BY <1>1, <1>2 DEF Allowed, IsClosed, HostCircuit, Entry, NewCircuit, Absent
<1>4. CASE c.state = "open"
  BY <1>1, <1>2, <1>3, <1>4, CircuitAssumption
     DEF Allowed, StartsWindow, IsExpiredOpen, HostCircuit, ClockInv
<1>5. CASE c.state = "half_open"
  <2>1. DurationSince(t, c.since) < OpenDuration
    BY <1>1, <1>2, <1>5, CircuitAssumption
       DEF Allowed, StartsWindow, HasBudget, HostCircuit, DurationSince
  <2>2. c.since <= touched[h] /\ c.since \in Nat
    BY <1>1, <1>2, <1>3, <1>5 DEF ClockInv, HostCircuit
  <2> QED
    BY <1>1, <2>1, <2>2, CircuitAssumption DEF DurationSince
<1> QED
  BY <1>3, <1>4, <1>5

(* No host is locked out: whatever becomes of its probes, a host refuses   *)
(* only within OpenDuration of its last trip or last probe window, for     *)
(* every number of hops and hosts and every setting of the breaker.        *)
THEOREM NeverLockedOut == Spec => NoLockout
<1>1. ASSUME TypeOK, ClockInv, [Next]_vars, NEW p \in Hop, pc[p] = "check", pc'[p] = "idle"
      PROVE  at[p] < touched[target[p]] + OpenDuration
  <2>1. PICK q \in Hop : Step(q)
    BY <1>1 DEF Next, Tick, vars
  <2>2. q = p
    BY <1>1, <2>1, StepFrame
  <2>3. Check(p)
    BY <1>1, <2>1, <2>2
       DEF Step, Admit, Check, Success, Failure, RecordFailure, EvictGuard, EvictMeasure, EvictSweep
  <2>4. ~Allowed(Entry(target[p]), at[p])
    BY <1>1, <2>3 DEF Check, Goto, TypeOK
  <2> QED
    BY <1>1, <2>3, <2>4, RefusedEarly
<1>2. TypeOK /\ ClockInv /\ [Next]_vars =>
        [\A p \in Hop : pc[p] = "check" /\ pc'[p] = "idle"
            => at[p] < touched[target[p]] + OpenDuration]_vars
  BY <1>1
<1> QED
  BY <1>2, TypeCorrect, ClockCorrect, PTL DEF Spec, NoLockout

(* The entry of a protecting host after one step.                          *)
LEMMA ProtectionStep ==
  ASSUME TypeOK, ClockInv, [Next]_vars, NEW g \in Host, Protecting(g)
  PROVE  /\ hosts'[g].state # "absent"
         /\ hosts[g].state = "open" /\ hosts'[g].state # "open" => SucceedsFor(g)
<1> DEFINE Goal == /\ hosts'[g].state # "absent"
                   /\ hosts[g].state = "open" /\ hosts'[g].state # "open" => SucceedsFor(g)
<1>0. ASSUME hosts'[g] = hosts[g]
      PROVE  Goal
  BY <1>0 DEF Protecting
<1>1. CASE Tick \/ UNCHANGED vars
  BY <1>0, <1>1 DEF Tick, vars
<1>2. ASSUME NEW p \in Hop, Step(p)
      PROVE  Goal
  <2> DEFINE h == target[p]  c == Entry(h)  t == at[p]
  <2>1. CASE (\E k \in Host : Admit(p, k)) \/ Failure(p) \/ EvictGuard(p) \/ EvictMeasure(p)
    BY <1>0, <2>1 DEF Admit, Failure, EvictGuard, EvictMeasure
  <2>2. CASE Check(p)
    <3>1. h \in Host /\ t \in Nat /\ t <= now /\ now \in Nat
      BY <2>2 DEF Check, TypeOK, ClockInv
    <3>2. c \in HostCircuit /\ c.state # "absent"
      BY <3>1, EntryType
    <3>3. CASE g # h
      BY <1>0, <2>2, <3>1, <3>3 DEF Check, TypeOK
    <3>4. CASE g = h
      <4>1. hosts'[g] = TransitionOnCheck(c, t) /\ c = hosts[g]
        BY <2>2, <3>1, <3>4 DEF Check, TypeOK, Entry, Tracked, Protecting
      <4>2. hosts[g].state = "open" => ~StartsWindow(c, t) /\ ~HasBudget(c)
        BY <3>1, <3>2, <4>1 DEF Protecting, StartsWindow, HasBudget, IsExpiredOpen, HostCircuit
      <4> QED
        BY <3>1, <3>2, <4>1, <4>2, TransitionEffect
    <3> QED
      BY <3>3, <3>4
  <2>3. CASE Success(p)
    <3>1. CASE g # h
      BY <1>0, <2>3, <3>1 DEF Success, TypeOK
    <3>2. CASE g = h
      <4>0. NewCircuit.state = "closed"
        BY DEF NewCircuit, Absent
      <4>1. hosts'[g].state # "absent"
        <5>1. CASE hosts' = hosts
          BY <1>0, <5>1
        <5>2. CASE hosts' = [hosts EXCEPT ![h] = NewCircuit]
          BY <3>2, <4>0, <5>2 DEF TypeOK
        <5> QED
          BY <2>3, <5>1, <5>2 DEF Success
      <4>2. SucceedsFor(g)
        BY <2>3, <3>2 DEF Success, Finish, Goto, SucceedsFor, TypeOK
      <4> QED
        BY <4>1, <4>2
    <3> QED
      BY <3>1, <3>2
  <2>4. CASE RecordFailure(p)
    <3>1. h \in Host /\ t \in Nat
      BY <2>4 DEF RecordFailure, TypeOK
    <3>2. c \in HostCircuit /\ c.state # "absent"
      BY <3>1, EntryType
    <3>3. CASE g # h
      BY <1>0, <2>4, <3>1, <3>3 DEF RecordFailure, TypeOK
    <3>4. CASE g = h
      <4>1. hosts'[g] = RecordFailureOn(c, t) /\ c = hosts[g]
        BY <2>4, <3>1, <3>4 DEF RecordFailure, TypeOK, Entry, Tracked, Protecting
      <4> QED
        BY <3>1, <3>2, <4>1, RecordFailureEffect
    <3> QED
      BY <3>3, <3>4
  <2>5. CASE EvictSweep(p)
    <3>1. PICK R \in Victims(p) : hosts' = [k \in Host |-> IF k \in R THEN Absent ELSE hosts[k]]
      BY <2>5 DEF EvictSweep
    <3>2. R \subseteq Evictable(evict[p].stage, t)
      BY <3>1 DEF Victims
    <3>3. t \in Nat /\ t <= now /\ now \in Nat /\ hosts[g] \in HostCircuit /\ evict[p].stage \in 1..3
      BY DEF TypeOK, ClockInv, Stages
    <3>4. g \notin Evictable(evict[p].stage, t)
      BY <3>3 DEF Evictable, Protecting, IsIdleClosed, IsClosed, IsExpiredOpen, HostCircuit
    <3> QED
      BY <1>0, <3>1, <3>2, <3>4
  <2> QED
    BY <1>2, <2>1, <2>2, <2>3, <2>4, <2>5 DEF Step
<1> QED
  BY <1>1, <1>2 DEF Next

(* Protection state survives: no interleaving of checks, settlements and   *)
(* evictions drops a host that is open and not expired, or half-open, and  *)
(* only a recorded success shortens an open period.                        *)
THEOREM ProtectionSurvives == Spec => ProtectionKept
<1>1. TypeOK /\ ClockInv /\ [Next]_vars =>
        [\A h \in Host :
           Protecting(h) =>
             /\ hosts'[h].state # "absent"
             /\ (hosts[h].state = "open" /\ hosts'[h].state # "open") => SucceedsFor(h)]_vars
  BY ProtectionStep
<1> QED
  BY <1>1, TypeCorrect, ClockCorrect, PTL DEF Spec, ProtectionKept
-----------------------------------------------------------------------------
(* A hop has no role before it is admitted.  With it WindowBudget is       *)
(* inductive: without it an Admit could bring an old probe to a new host.  *)
RoleInv == \A p \in Hop : pc[p] \in {"idle", "check"} => role[p] = "none"

LEMMA StepRole ==
  ASSUME TypeOK, RoleInv, [Next]_vars
  PROVE  RoleInv'
<1>1. ASSUME NEW p \in Hop, Finish(p) \/ Resume(p) \/ NextStage(p), pc[p] # "idle"
      PROVE  RoleInv'
  BY <1>1 DEF TypeOK, RoleInv, Finish, Resume, NextStage, Goto
<1>2. CASE Tick \/ UNCHANGED vars
  BY <1>2 DEF Tick, vars, history, RoleInv
<1>3. ASSUME NEW p \in Hop, Step(p)
      PROVE  RoleInv'
  <2>1. CASE \E h \in Host : Admit(p, h)
    BY <2>1 DEF Admit, RoleInv, TypeOK, Goto, history
  <2>2. CASE Check(p)
    <3>1. CASE Finish(p)
      BY <1>1, <2>2, <3>1 DEF Check
    <3>2. CASE ~Finish(p)
      <4> DEFINE c == Entry(target[p])
      <4>1. /\ pc' = [pc EXCEPT ![p] = "guard"]
            /\ role' = Roles(p, c, at[p])
        BY <2>2, <3>2 DEF Check, Goto
      <4>2. \A q \in Hop : q # p => role'[q] \in {role[q], "stale"} /\ (role[q] # "probe" => role'[q] = role[q])
        BY <4>1 DEF Roles
      <4> QED
        BY <4>1, <4>2 DEF RoleInv, TypeOK
    <3> QED
      BY <3>1, <3>2
  <2>3. CASE Success(p)
    BY <1>1, <2>3 DEF Success
  <2>4. CASE Failure(p)
    <3>1. CASE Finish(p)
      BY <1>1, <2>4, <3>1 DEF Failure
    <3>2. CASE ~Finish(p)
      BY <2>4, <3>2 DEF Failure, RoleInv, TypeOK, Goto
    <3> QED
      BY <3>1, <3>2
  <2>5. CASE RecordFailure(p)
    BY <2>5 DEF RecordFailure, RoleInv, TypeOK, Goto
  <2>6. CASE EvictGuard(p)
    <3>1. CASE Resume(p) \/ NextStage(p)
      BY <1>1, <2>6, <3>1 DEF EvictGuard
    <3>2. CASE ~(Resume(p) \/ NextStage(p))
      BY <2>6, <3>2 DEF EvictGuard, RoleInv, TypeOK, Goto
    <3> QED
      BY <3>1, <3>2
  <2>7. CASE EvictMeasure(p)
    <3>1. CASE NextStage(p)
      BY <1>1, <2>7, <3>1 DEF EvictMeasure
    <3>2. CASE ~NextStage(p)
      BY <2>7, <3>2 DEF EvictMeasure, RoleInv, TypeOK, Goto
    <3> QED
      BY <3>1, <3>2
  <2>8. CASE EvictSweep(p)
    BY <1>1, <2>8 DEF EvictSweep
  <2> QED
    BY <1>3, <2>1, <2>2, <2>3, <2>4, <2>5, <2>6, <2>7, <2>8 DEF Step
<1> QED
  BY <1>2, <1>3 DEF Next

(* The budget of one host.                                                 *)
Budget(g) ==
  hosts[g].state = "half_open" =>
    /\ Cardinality(Probes(g, {"probe"})) <= hosts[g].probes
    /\ hosts[g].probes <= HalfOpenMax

LEMMA ProbesFinite ==
  ASSUME NEW g \in Host
  PROVE  /\ IsFiniteSet(Probes(g, {"probe"})) /\ Cardinality(Probes(g, {"probe"})) \in Nat
         /\ IsFiniteSet(Probes(g, {"probe"})') /\ Cardinality(Probes(g, {"probe"})') \in Nat
<1>1. Probes(g, {"probe"}) \in SUBSET Hop /\ Probes(g, {"probe"})' \in SUBSET Hop
  BY DEF Probes
<1> QED
  BY <1>1, CircuitAssumption, FS_Subset, FS_CardinalityType

(* A step that brings g no probe and leaves a half-open entry alone.       *)
LEMMA BudgetShrinks ==
  ASSUME TypeOK, NEW g \in Host, Budget(g),
         hosts'[g].state = "half_open" => hosts'[g] = hosts[g],
         \A q \in Hop : target'[q] = g /\ role'[q] = "probe" => target[q] = g /\ role[q] = "probe"
  PROVE  Budget(g)'
<1>1. Probes(g, {"probe"})' \in SUBSET Probes(g, {"probe"})
  BY DEF Probes
<1>2. Cardinality(Probes(g, {"probe"})') <= Cardinality(Probes(g, {"probe"}))
  BY <1>1, ProbesFinite, FS_Subset
<1>3. hosts[g].probes \in Nat
  BY DEF TypeOK, HostCircuit
<1> QED
  BY <1>2, <1>3, ProbesFinite DEF Budget

(* Check is the one action that admits a probe.                            *)
LEMMA CheckBudget ==
  ASSUME TypeOK, RoleInv, NEW g \in Host, Budget(g), NEW p \in Hop, Check(p)
  PROVE  Budget(g)'
<1> DEFINE h == target[p]  c == Entry(h)  t == at[p]
           P == Probes(g, {"probe"})
<1>1. h \in Host /\ t \in Nat /\ c \in HostCircuit /\ c.state # "absent"
  BY EntryType DEF Check, TypeOK
<1>2. hosts' = [hosts EXCEPT ![h] = TransitionOnCheck(c, t)]
  BY DEF Check
<1>3. CASE ~Allowed(c, t)
  <2>1. c = hosts[h] /\ TransitionOnCheck(c, t) = c
    BY <1>1, <1>3, TransitionEffect DEF Allowed, IsClosed, Entry, NewCircuit, Absent
  <2>2. hosts' = hosts
    BY <1>1, <1>2, <2>1 DEF TypeOK
  <2>3. \A q \in Hop : target'[q] = g /\ role'[q] = "probe" => target[q] = g /\ role[q] = "probe"
    BY <1>3 DEF Check, Finish, TypeOK
  <2> QED
    BY <2>2, <2>3, BudgetShrinks
<1>4. CASE Allowed(c, t)
  <2>1. target' = target /\ role' = Roles(p, c, t)
    BY <1>4 DEF Check
  <2>2. CASE g # h
    <3>1. hosts'[g] = hosts[g]
      BY <1>1, <1>2, <2>2 DEF TypeOK
    <3>2. \A q \in Hop : target'[q] = g /\ role'[q] = "probe" => target[q] = g /\ role[q] = "probe"
      BY <2>1, <2>2 DEF Roles
    <3> QED
      BY <3>1, <3>2, BudgetShrinks
  <2>3. CASE g = h
    <3>0. hosts'[g] = TransitionOnCheck(c, t)
      BY <1>1, <1>2, <2>3 DEF TypeOK
    <3>1. CASE StartsWindow(c, t)
      <4>1. P' \in SUBSET {p}
        BY <2>1, <2>3, <3>1 DEF Probes, Roles
      <4>2. Cardinality(P') <= 1
        <5>1. IsFiniteSet({p}) /\ Cardinality({p}) = 1
          BY FS_Singleton
        <5> HIDE DEF P
        <5> QED
          BY <4>1, <5>1, FS_Subset
      <4>3. hosts'[g].probes = 1
        BY <1>1, <3>0, <3>1, TransitionEffect
      <4> QED
        BY <4>2, <4>3, CircuitAssumption DEF Budget
    <3>2. CASE HasBudget(c)
      <4>1. c = hosts[g]
        BY <2>3, <3>2 DEF HasBudget, Entry, NewCircuit, Absent
      <4>2. ~StartsWindow(c, t)
        BY <1>1, <3>2, CircuitAssumption DEF StartsWindow, HasBudget, IsExpiredOpen, HostCircuit
      <4>3. P' \in SUBSET (P \cup {p})
        BY <2>1, <4>2 DEF Probes, Roles
      <4>4. IsFiniteSet(P \cup {p}) /\ Cardinality(P \cup {p}) <= Cardinality(P) + 1
        <5>1. IsFiniteSet(P) /\ Cardinality(P) \in Nat
          BY ProbesFinite
        <5> HIDE DEF P
        <5>2. /\ IsFiniteSet(P \cup {p})
              /\ Cardinality(P \cup {p}) = IF p \in P THEN Cardinality(P) ELSE Cardinality(P) + 1
          BY <5>1, FS_AddElement
        <5> QED
          BY <5>1, <5>2
      <4>5. Cardinality(P \cup {p}) \in Nat
        BY <4>4, FS_CardinalityType
      <4>6. Cardinality(P') <= Cardinality(P) + 1
        BY <4>3, <4>4, <4>5, ProbesFinite, FS_Subset
      <4>7. hosts'[g].probes = hosts[g].probes + 1 /\ hosts[g].probes < HalfOpenMax
        BY <1>1, <3>0, <3>2, <4>1, TransitionEffect DEF HasBudget
      <4>8. hosts[g].probes \in Nat /\ Cardinality(P) <= hosts[g].probes
        BY <3>2, <4>1 DEF TypeOK, HostCircuit, HasBudget, Budget
      <4> QED
        BY <4>6, <4>7, <4>8, ProbesFinite, CircuitAssumption DEF Budget
    <3>3. CASE ~StartsWindow(c, t) /\ ~HasBudget(c)
      BY <1>1, <1>4, <3>0, <3>3, TransitionEffect DEF Allowed, IsClosed, Budget
    <3> QED
      BY <3>1, <3>2, <3>3
  <2> QED
    BY <2>2, <2>3
<1> QED
  BY <1>3, <1>4

LEMMA StepBudget ==
  ASSUME TypeOK, RoleInv, [Next]_vars, NEW g \in Host, Budget(g)
  PROVE  Budget(g)'
<1> DEFINE Fewer == \A q \in Hop :
                      target'[q] = g /\ role'[q] = "probe" => target[q] = g /\ role[q] = "probe"
<1>0. ASSUME NEW p \in Hop, Finish(p) \/ Resume(p) \/ NextStage(p)
      PROVE  Fewer
  BY <1>0 DEF TypeOK, Finish, Resume, NextStage
<1>1. CASE Tick \/ UNCHANGED vars
  BY <1>1, BudgetShrinks DEF Tick, vars, history
<1>2. ASSUME NEW p \in Hop, Step(p)
      PROVE  Budget(g)'
  <2> DEFINE h == target[p]  c == Entry(h)  t == at[p]
  <2>1. CASE \E k \in Host : Admit(p, k)
    <3>1. Fewer /\ hosts' = hosts
      BY <2>1 DEF Admit, RoleInv, TypeOK, history
    <3> QED
      BY <3>1, BudgetShrinks
  <2>2. CASE Check(p)
    BY <2>2, CheckBudget
  <2>3. CASE Success(p)
    <3>1. NewCircuit.state = "closed"
      BY DEF NewCircuit, Absent
    <3>2. hosts'[g] = hosts[g] \/ hosts'[g] = NewCircuit
      BY <2>3 DEF Success, TypeOK
    <3> QED
      BY <1>0, <2>3, <3>1, <3>2, BudgetShrinks DEF Success
  <2>4. CASE Failure(p)
    <3>1. Fewer /\ hosts' = hosts
      BY <1>0, <2>4 DEF Failure
    <3> QED
      BY <3>1, BudgetShrinks
  <2>5. CASE RecordFailure(p)
    <3>1. h \in Host /\ t \in Nat /\ c \in HostCircuit
      BY <2>5, EntryType DEF RecordFailure, TypeOK
    <3>2. hosts'[g] = hosts[g] \/ hosts'[g] = RecordFailureOn(c, t)
      BY <2>5, <3>1 DEF RecordFailure, TypeOK
    <3>3. hosts'[g].state = "half_open" => hosts'[g] = hosts[g]
      BY <3>1, <3>2, RecordFailureEffect
    <3>4. Fewer
      BY <2>5 DEF RecordFailure, TypeOK
    <3> QED
      BY <3>3, <3>4, BudgetShrinks
  <2>6. CASE EvictGuard(p)
    <3>1. Fewer /\ hosts' = hosts
      BY <1>0, <2>6 DEF EvictGuard
    <3> QED
      BY <3>1, BudgetShrinks
  <2>7. CASE EvictMeasure(p)
    <3>1. Fewer /\ hosts' = hosts
      BY <1>0, <2>7 DEF EvictMeasure
    <3> QED
      BY <3>1, BudgetShrinks
  <2>8. CASE EvictSweep(p)
    <3>1. Absent.state = "absent"
      BY DEF Absent
    <3>2. hosts'[g] = hosts[g] \/ hosts'[g] = Absent
      BY <2>8 DEF EvictSweep
    <3>3. Fewer
      BY <1>0, <2>8 DEF EvictSweep
    <3> QED
      BY <3>1, <3>2, <3>3, BudgetShrinks
  <2> QED
    BY <1>2, <2>1, <2>2, <2>3, <2>4, <2>5, <2>6, <2>7, <2>8 DEF Step
<1> QED
  BY <1>1, <1>2 DEF Next

(* The probe budget of a half-open window holds for any number of hops     *)
(* racing for it and any half_open_max.                                    *)
THEOREM BudgetKept == Spec => []WindowBudget
<1> DEFINE Inv == RoleInv /\ \A g \in Host : Budget(g)
<1>1. Init => Inv
  BY DEF Init, RoleInv, Budget, Absent
<1>2. TypeOK /\ Inv /\ [Next]_vars => Inv'
  BY StepRole, StepBudget
<1>3. Inv => WindowBudget
  BY DEF Budget, WindowBudget
<1> QED
  BY <1>1, <1>2, <1>3, TypeCorrect, PTL DEF Spec
-----------------------------------------------------------------------------
(* The failures with stamp t; in a numbered set they are 1, 2, 3 ... of t, *)
(* so that two numbered sets can be compared failure by failure.           *)
Stamped(F, t) == {f \in F : f[1] = t}

Numbered(F) ==
  /\ F \in Failures
  /\ \A t \in Nat : Stamped(F, t) = {<<t, k>> : k \in 1..Cardinality(Stamped(F, t))}

LEMMA StampedFinite ==
  ASSUME NEW F \in Failures, NEW t
  PROVE  IsFiniteSet(Stamped(F, t)) /\ Cardinality(Stamped(F, t)) \in Nat
<1>1. Stamped(F, t) \in SUBSET F /\ IsFiniteSet(F)
  BY DEF Stamped, Failures
<1> QED
  BY <1>1, FS_Subset, FS_CardinalityType

LEMMA PushNumbered ==
  ASSUME NEW F, Numbered(F), NEW t \in Nat
  PROVE  Numbered(Push(F, t))
<1> DEFINE n == Cardinality(Stamped(F, t))
           x == <<t, 1 + n>>
           G == Push(F, t)
<1>1. F \in Failures /\ n \in Nat /\ IsFiniteSet(Stamped(F, t))
  BY StampedFinite DEF Numbered
<1>2. G = F \cup {x} /\ G \in Failures
  BY <1>1, PushType DEF Push, Stamped
<1>3. ASSUME NEW u \in Nat
      PROVE  Stamped(G, u) = {<<u, k>> : k \in 1..Cardinality(Stamped(G, u))}
  <2>1. CASE u # t
    <3>1. Stamped(G, u) = Stamped(F, u)
      BY <1>2, <2>1 DEF Stamped
    <3> QED
      BY <1>3, <3>1 DEF Numbered
  <2>2. CASE u = t
    <3>1. Stamped(G, t) = Stamped(F, t) \cup {x}
      BY <1>2 DEF Stamped
    <3>2. Stamped(F, t) = {<<t, k>> : k \in 1..n}
      BY DEF Numbered
    <3>3. x \notin Stamped(F, t)
      BY <1>1, <3>2
    <3>4. Cardinality(Stamped(G, t)) = n + 1
      <4> HIDE DEF n, x, G
      <4> QED
        BY <1>1, <3>1, <3>3, FS_AddElement DEF n
    <3>5. {<<t, k>> : k \in 1..n} \cup {x} = {<<t, k>> : k \in 1..(n + 1)}
      <4>1. 1..(n + 1) = 1..n \cup {1 + n}
        BY <1>1
      <4> HIDE DEF n
      <4> QED
        BY <4>1
    <3> QED
      BY <2>2, <3>1, <3>2, <3>4, <3>5
  <2> QED
    BY <2>1, <2>2
<1> QED
  BY <1>2, <1>3 DEF Numbered

(* Pruning forgets all the failures of a stamp or none, and none of the    *)
(* stamp it is done for.                                                   *)
LEMMA RecentNumbered ==
  ASSUME NEW F, Numbered(F), NEW t \in Nat
  PROVE  Numbered(Recent(F, t)) /\ Recent(F, t) \subseteq F
<1>1. F \in Failures /\ Recent(F, t) \in SUBSET F
  BY DEF Numbered, Recent
<1>2. Recent(F, t) \in Failures
  BY <1>1, FS_Subset DEF Failures
<1>3. ASSUME NEW u \in Nat
      PROVE  Stamped(Recent(F, t), u) = {<<u, k>> : k \in 1..Cardinality(Stamped(Recent(F, t), u))}
  <2>1. CASE DurationSince(t, u) <= Window
    <3>1. Stamped(Recent(F, t), u) = Stamped(F, u)
      BY <2>1 DEF Stamped, Recent
    <3> QED
      BY <1>3, <3>1 DEF Numbered
  <2>2. CASE ~(DurationSince(t, u) <= Window)
    <3>1. Stamped(Recent(F, t), u) = {}
      BY <2>2 DEF Stamped, Recent
    <3>2. Cardinality({}) = 0 /\ 1..0 = {}
      BY FS_EmptySet
    <3> QED
      BY <3>1, <3>2
  <2> QED
    BY <2>1, <2>2
<1> QED
  BY <1>1, <1>2, <1>3 DEF Numbered

LEMMA PushWithin ==
  ASSUME NEW F, NEW G, Numbered(F), Numbered(G), F \subseteq G, NEW t \in Nat
  PROVE  Push(F, t) \subseteq Push(G, t)
<1> DEFINE m == Cardinality(Stamped(F, t))  n == Cardinality(Stamped(G, t))
<1>1. /\ m \in Nat /\ n \in Nat
      /\ IsFiniteSet(Stamped(G, t)) /\ Stamped(F, t) \in SUBSET Stamped(G, t)
  BY StampedFinite DEF Numbered, Stamped
<1>2. m <= n
  BY <1>1, FS_Subset
<1>3. Push(F, t) = F \cup {<<t, 1 + m>>} /\ Push(G, t) = G \cup {<<t, 1 + n>>}
  BY DEF Push, Stamped
<1>4. CASE m = n
  BY <1>3, <1>4
<1>5. CASE m # n
  <2>1. 1 + m \in 1..n
    BY <1>1, <1>2, <1>5
  <2>2. <<t, 1 + m>> \in Stamped(G, t)
    BY <2>1 DEF Numbered
  <2> QED
    BY <1>3, <2>2 DEF Stamped
<1> QED
  BY <1>4, <1>5

(* An entry counts no failure that the history does not have.              *)
Logged(h) ==
  /\ Numbered(hosts[h].failures)
  /\ Numbered(log[h])
  /\ hosts[h].failures \subseteq log[h]

LEMMA EmptyNumbered == Numbered({})
<1>1. {} \in Failures
  BY FS_EmptySet DEF Failures
<1>2. \A t : Stamped({}, t) = {}
  BY DEF Stamped
<1>3. Cardinality({}) = 0 /\ 1..0 = {}
  BY FS_EmptySet
<1> QED
  BY <1>1, <1>2, <1>3 DEF Numbered

(* What record_failure_on retains is logged and within the window.         *)
LEMMA RetainedLogged ==
  ASSUME TypeOK, NEW h \in Host, Logged(h), NEW t \in Nat
  PROVE  /\ Numbered(Retained(Entry(h), t)) /\ Numbered(Push(log[h], t))
         /\ Retained(Entry(h), t) \subseteq Recent(Push(log[h], t), t)
<1> DEFINE F == Entry(h).failures
<1>1. Numbered(F) /\ F \subseteq log[h] /\ Numbered(log[h])
  BY EmptyNumbered DEF Logged, Entry, NewCircuit, Absent
<1>2. Numbered(Recent(F, t)) /\ Recent(F, t) \subseteq log[h]
  BY <1>1, RecentNumbered
<1>3. Retained(Entry(h), t) \subseteq Push(log[h], t)
  BY <1>1, <1>2, PushWithin DEF Retained
<1>4. \A f \in Retained(Entry(h), t) : DurationSince(t, f[1]) <= Window
  <2>1. DurationSince(t, t) <= Window
    BY CircuitAssumption DEF DurationSince
  <2> QED
    BY <2>1 DEF Retained, Push, Recent
<1> QED
  BY <1>1, <1>2, <1>3, <1>4, PushNumbered DEF Retained, Recent

LEMMA StepLogged ==
  ASSUME TypeOK, [Next]_vars, NEW g \in Host, Logged(g)
  PROVE  Logged(g)'
<1>0. ASSUME hosts'[g].failures = hosts[g].failures, log'[g] = log[g]
      PROVE  Logged(g)'
  BY <1>0 DEF Logged
<1>1. CASE Tick \/ UNCHANGED vars
  BY <1>0, <1>1 DEF Tick, vars, history
<1>2. ASSUME NEW p \in Hop, Step(p)
      PROVE  Logged(g)'
  <2> DEFINE h == target[p]  c == Entry(h)  t == at[p]
  <2>1. CASE (\E k \in Host : Admit(p, k)) \/ Failure(p) \/ EvictGuard(p) \/ EvictMeasure(p)
    BY <1>0, <2>1 DEF Admit, Failure, EvictGuard, EvictMeasure, history
  <2>2. CASE Check(p)
    <3>1. h \in Host /\ t \in Nat /\ c \in HostCircuit
      BY <2>2, EntryType DEF Check, TypeOK
    <3>2. log' = log /\ hosts' = [hosts EXCEPT ![h] = TransitionOnCheck(c, t)]
      BY <2>2 DEF Check
    <3>3. TransitionOnCheck(c, t).failures = c.failures
      <4>1. ~(StartsWindow(c, t) /\ HasBudget(c))
        BY <3>1, CircuitAssumption DEF StartsWindow, HasBudget, IsExpiredOpen, HostCircuit
      <4> QED
        BY <3>1, <4>1 DEF TransitionOnCheck, HostCircuit
    <3>4. CASE g # h
      BY <1>0, <3>1, <3>2, <3>4 DEF TypeOK
    <3>5. CASE g = h
      <4>1. hosts'[g].failures \in {hosts[g].failures, {}}
        BY <3>1, <3>2, <3>3, <3>5 DEF TypeOK, Entry, NewCircuit, Absent
      <4> QED
        BY <3>2, <4>1, EmptyNumbered DEF Logged
    <3> QED
      BY <3>4, <3>5
  <2>3. CASE Success(p)
    <3>1. (hosts'[g] = hosts[g] /\ log'[g] = log[g]) \/ (hosts'[g] = NewCircuit /\ log'[g] = {})
      <4>1. CASE enabled /\ h \in Tracked
        <5>1. hosts' = [hosts EXCEPT ![h] = NewCircuit] /\ log' = [log EXCEPT ![h] = {}]
          BY <2>3, <4>1 DEF Success
        <5> QED
          BY <5>1 DEF TypeOK
      <4>2. CASE ~(enabled /\ h \in Tracked)
        BY <2>3, <4>2 DEF Success
      <4> QED
        BY <4>1, <4>2
    <3>2. NewCircuit.failures = {}
      BY DEF NewCircuit, Absent
    <3> QED
      BY <1>0, <3>1, <3>2, EmptyNumbered DEF Logged
  <2>4. CASE RecordFailure(p)
    <3>1. h \in Host /\ t \in Nat /\ c \in HostCircuit
      BY <2>4, EntryType DEF RecordFailure, TypeOK
    <3>2. CASE g # h
      BY <1>0, <2>4, <3>1, <3>2 DEF RecordFailure, TypeOK
    <3>3. CASE g = h
      <4>1. /\ hosts'[g] = RecordFailureOn(c, t)
            /\ log'[g] = IF ShouldOpen(c, t) THEN {} ELSE Push(log[h], t)
        BY <2>4, <3>1, <3>3 DEF RecordFailure, TypeOK
      <4>2. CASE ShouldOpen(c, t)
        <5>1. hosts'[g].failures = {}
          BY <4>1, <4>2 DEF RecordFailureOn, Absent
        <5> QED
          BY <4>1, <4>2, <5>1, EmptyNumbered DEF Logged
      <4>3. CASE ~ShouldOpen(c, t)
        <5>1. hosts'[g].failures = Retained(c, t)
          BY <3>1, <4>1, <4>3 DEF RecordFailureOn, HostCircuit
        <5>2. Retained(c, t) \subseteq Push(log[h], t) /\ Numbered(Retained(c, t)) /\ Numbered(Push(log[h], t))
          BY <3>1, <3>3, RetainedLogged DEF Recent
        <5> QED
          BY <4>1, <4>3, <5>1, <5>2 DEF Logged
      <4> QED
        BY <4>2, <4>3
    <3> QED
      BY <3>2, <3>3
  <2>5. CASE EvictSweep(p)
    <3>1. (hosts'[g] = hosts[g] /\ log'[g] = log[g]) \/ (hosts'[g] = Absent /\ log'[g] = {})
      <4>1. PICK R \in Victims(p) :
              /\ hosts' = [k \in Host |-> IF k \in R THEN Absent ELSE hosts[k]]
              /\ log' = [k \in Host |-> IF k \in R THEN {} ELSE log[k]]
        BY <2>5 DEF EvictSweep
      <4> QED
        BY <4>1
    <3>2. Absent.failures = {}
      BY DEF Absent
    <3> QED
      BY <1>0, <3>1, <3>2, EmptyNumbered DEF Logged
  <2> QED
    BY <1>2, <2>1, <2>2, <2>3, <2>4, <2>5 DEF Step
<1> QED
  BY <1>1, <1>2 DEF Next

(* A closed host trips only on failures that count, for any threshold and  *)
(* window and however late the stamps are applied.                         *)
THEOREM TripsJustified == Spec => TripJustified
<1> DEFINE AllLogged == \A g \in Host : Logged(g)
<1>1. Init => AllLogged
  <2> SUFFICES ASSUME Init, NEW g \in Host
               PROVE  Logged(g)
    OBVIOUS
  <2>1. hosts[g].failures = {} /\ log[g] = {}
    BY DEF Init, Absent
  <2> QED
    BY <2>1, EmptyNumbered DEF Logged
<1>2. TypeOK /\ AllLogged /\ [Next]_vars => AllLogged'
  BY StepLogged
<1>3. ASSUME TypeOK, AllLogged, [Next]_vars, NEW p \in Hop, pc[p] = "fail", pc'[p] # "fail",
             hosts[target[p]].state = "closed", hosts'[target[p]].state = "open"
      PROVE  Cardinality(Recent(Push(log[target[p]], at[p]), at[p])) >= FailureThreshold
  <2> DEFINE h == target[p]  t == at[p]  c == Entry(h)
             Counted == Recent(Push(log[h], t), t)
  <2>1. PICK q \in Hop : Step(q)
    BY <1>3 DEF Next, Tick, vars
  <2>2. q = p
    BY <1>3, <2>1, StepFrame
  <2>3. RecordFailure(p)
    BY <1>3, <2>1, <2>2
       DEF Step, Admit, Check, Success, Failure, RecordFailure, EvictGuard, EvictMeasure, EvictSweep
  <2>4. h \in Host /\ t \in Nat /\ c = hosts[h] /\ c \in HostCircuit
    BY <1>3, <2>3 DEF RecordFailure, TypeOK, Entry, Tracked
  <2>5. hosts'[h] = RecordFailureOn(c, t)
    <3>1. hosts' = [hosts EXCEPT ![h] = RecordFailureOn(c, t)]
      BY <2>3 DEF RecordFailure
    <3>2. h \in Host /\ hosts \in [Host -> HostCircuit]
      BY <1>3, <2>4 DEF TypeOK
    <3> QED
      BY <3>1, <3>2
  <2>6. Cardinality(Retained(c, t)) >= FailureThreshold
    BY <1>3, <2>4, <2>5, RecordFailureEffect DEF ShouldOpen
  <2>7. Retained(c, t) \in SUBSET Counted /\ Numbered(Push(log[h], t))
    BY <1>3, <2>4, RetainedLogged
  <2>8. IsFiniteSet(Counted)
    BY <2>4, <2>7, RecentNumbered DEF Numbered, Failures
  <2>9. /\ Cardinality(Retained(c, t)) <= Cardinality(Counted)
        /\ Cardinality(Retained(c, t)) \in Nat /\ Cardinality(Counted) \in Nat
    <3> HIDE DEF Counted, c
    <3> QED
      BY <2>7, <2>8, FS_Subset, FS_CardinalityType
  <2> QED
    BY <2>6, <2>9, CircuitAssumption
<1>4. TypeOK /\ AllLogged /\ [Next]_vars =>
        [\A p \in Hop :
           LET h == target[p] IN
           pc[p] = "fail" /\ pc'[p] # "fail" /\ hosts[h].state = "closed" /\ hosts'[h].state = "open"
             => Cardinality(Recent(Push(log[h], at[p]), at[p])) >= FailureThreshold]_vars
  BY <1>3
<1> HIDE DEF AllLogged
<1> QED
  BY <1>1, <1>2, <1>4, TypeCorrect, PTL DEF Spec, TripJustified
-----------------------------------------------------------------------------
(* The soft cap                                                            *)

(* A hop that will still sweep: it has not measured the last excess yet, or *)
(* the excess it measured covers what is over the cap now.                  *)
Pending(p) ==
  \/ pc[p] \in {"guard", "measure"}
  \/ /\ pc[p] = "sweep"
     /\ evict[p].stage < 3 \/ evict[p].excess >= Cardinality(Tracked) - MaxHosts

(* An entry eviction may take and that no success rescued.                 *)
Spare(h) == hosts[h].state = "closed" /\ h \notin rescued

(* As long as such an entry is there and the map is over the cap, some hop *)
(* has its last sweep before it, with an excess that is not outdated.      *)
CapInv ==
  Cardinality(Tracked) > MaxHosts /\ (\E h \in Host : Spare(h))
    => \E p \in Hop : Pending(p)

LEMMA EvictFrame ==
  ASSUME TypeOK, NEW p \in Hop, Step(p), NEW q \in Hop, q # p
  PROVE  evict'[q] = evict[q]
<1>1. CASE \E h \in Host : Admit(p, h)
  BY <1>1 DEF Admit
<1>2. CASE Check(p)
  BY <1>2 DEF TypeOK, Check
<1>3. CASE Success(p) \/ Failure(p)
  BY <1>3 DEF Success, Failure
<1>4. CASE RecordFailure(p)
  BY <1>4 DEF TypeOK, RecordFailure
<1>5. ASSUME NextStage(p) PROVE evict'[q] = evict[q]
  BY <1>5 DEF TypeOK, NextStage
<1>6. CASE EvictGuard(p)
  BY <1>5, <1>6 DEF TypeOK, EvictGuard
<1>7. CASE EvictMeasure(p)
  BY <1>5, <1>7 DEF TypeOK, EvictMeasure
<1>8. CASE EvictSweep(p)
  BY <1>5, <1>8 DEF EvictSweep
<1> QED
  BY <1>1, <1>2, <1>3, <1>4, <1>6, <1>7, <1>8 DEF Step

(* A step that adds nothing to reclaim keeps the pending hops pending.      *)
LEMMA CapKept ==
  ASSUME TypeOK, CapInv, NEW p \in Hop, Step(p), ~Pending(p),
         Tracked' = Tracked,
         \A h \in Host : Spare(h)' => Spare(h)
  PROVE  CapInv'
<1> SUFFICES ASSUME Cardinality(Tracked') > MaxHosts, NEW h \in Host, Spare(h)'
             PROVE  \E q \in Hop : Pending(q)'
  BY DEF CapInv
<1>1. PICK q \in Hop : Pending(q)
  BY DEF CapInv
<1>2. q # p
  BY <1>1
<1>3. pc'[q] = pc[q] /\ evict'[q] = evict[q]
  BY <1>2, StepFrame, EvictFrame
<1>4. Pending(q)'
  BY <1>1, <1>3 DEF Pending
<1> QED
  BY <1>4

LEMMA CapCheck ==
  ASSUME TypeOK, CapInv, NEW p \in Hop, Step(p), Check(p)
  PROVE  CapInv'
<1> DEFINE h == target[p]  c == Entry(h)  t == at[p]
<1>1. CASE Allowed(c, t)
  <2>1. pc'[p] = "guard"
    BY <1>1 DEF Check, Goto, TypeOK
  <2> QED
    BY <2>1 DEF CapInv, Pending
<1>2. CASE ~Allowed(c, t)
  <2>1. h \in Host /\ c \in HostCircuit
    BY EntryType DEF Check, TypeOK
  <2>2. c = hosts[h]
    BY <1>2 DEF Entry, Allowed, IsClosed, NewCircuit, Absent
  <2>3. TransitionOnCheck(c, t) = c
    BY <1>2 DEF TransitionOnCheck, Allowed
  <2>4. hosts' = [hosts EXCEPT ![h] = TransitionOnCheck(c, t)] /\ rescued' = rescued
    BY DEF Check
  <2>5. hosts' = hosts
    <3> HIDE DEF c
    <3> QED
      BY <2>1, <2>2, <2>3, <2>4 DEF TypeOK
  <2>6. Tracked' = Tracked /\ \A k \in Host : Spare(k)' => Spare(k)
    BY <2>4, <2>5 DEF Tracked, Spare
  <2>7. ~Pending(p)
    BY DEF Check, Pending
  <2> QED
    BY <2>6, <2>7, CapKept
<1> QED
  BY <1>1, <1>2

LEMMA CapSuccess ==
  ASSUME TypeOK, CapInv, NEW p \in Hop, Step(p), Success(p)
  PROVE  CapInv'
<1> DEFINE h == target[p]
<1>0. h \in Host /\ ~Pending(p)
  BY DEF Success, TypeOK, Pending
<1>1. Tracked' = Tracked /\ \A k \in Host : Spare(k)' => Spare(k)
  <2>1. CASE enabled /\ h \in Tracked
    <3>1. /\ hosts' = [hosts EXCEPT ![h] = NewCircuit]
          /\ rescued' = IF IsClosed(hosts[h]) THEN rescued ELSE rescued \cup {h}
      BY <2>1 DEF Success
    <3>2. NewCircuit.state = "closed"
      BY DEF NewCircuit, Absent
    <3>3. \A k \in Host : hosts'[k] = IF k = h THEN NewCircuit ELSE hosts[k]
      BY <1>0, <3>1 DEF TypeOK
    <3> QED
      BY <1>0, <2>1, <3>1, <3>2, <3>3 DEF Tracked, Spare, IsClosed
  <2>2. CASE ~(enabled /\ h \in Tracked)
    <3>1. UNCHANGED <<hosts, rescued>>
      BY <2>2 DEF Success
    <3> QED
      BY <3>1 DEF Tracked, Spare
  <2> QED
    BY <2>1, <2>2
<1> QED
  BY <1>0, <1>1, CapKept

LEMMA CapSweep ==
  ASSUME TypeOK, CapInv, NEW p \in Hop, Step(p), EvictSweep(p)
  PROVE  CapInv'
<1> SUFFICES ASSUME Cardinality(Tracked') > MaxHosts, NEW h \in Host, Spare(h)'
             PROVE  \E q \in Hop : Pending(q)'
  BY DEF CapInv
<1> DEFINE n == Cardinality(Tracked)  m == Cardinality(Tracked')
<1>1. PICK R \in Victims(p) :
        /\ hosts' = [k \in Host |-> IF k \in R THEN Absent ELSE hosts[k]]
        /\ rescued' = rescued \ R
  BY DEF EvictSweep
<1>2. R \in SUBSET Evictable(evict[p].stage, at[p])
  BY <1>1 DEF Victims
<1>3. R \in SUBSET Tracked
  BY <1>2 DEF Evictable
<1>4. Tracked' = Tracked \ R
  BY <1>1, <1>3 DEF Tracked, Absent
<1>5. Spare(h) /\ h \notin R
  BY <1>1 DEF Spare, Absent
<1>6. /\ IsFiniteSet(Tracked) /\ IsFiniteSet(R) /\ Cardinality(R) \in Nat
      /\ n \in Nat /\ m \in Nat /\ m = n - Cardinality(R)
  <2>1. IsFiniteSet(Tracked) /\ n \in Nat
    BY TrackedFinite
  <2>2. IsFiniteSet(R) /\ Cardinality(R) \in Nat
    BY <1>3, <2>1, FS_Subset, FS_CardinalityType
  <2>3. Cardinality(Tracked \ R) = n - Cardinality(Tracked \cap R)
    BY <2>1, <2>2, FS_Difference
  <2>4. Tracked \cap R = R
    BY <1>3
  <2>5. IsFiniteSet(Tracked \ R)
    BY <2>1, FS_Subset
  <2>6. m \in Nat
    BY <1>4, <2>5, FS_CardinalityType
  <2> QED
    BY <1>4, <2>1, <2>2, <2>3, <2>4, <2>6
<1>7. PICK q \in Hop : Pending(q)
  BY <1>5, <1>6, CircuitAssumption DEF CapInv
<1>8. CASE q # p
  <2>1. pc'[q] = pc[q] /\ evict'[q] = evict[q] /\ evict[q].excess \in Nat
    BY <1>8, StepFrame, EvictFrame DEF TypeOK
  <2> QED
    BY <1>6, <1>7, <2>1, CircuitAssumption DEF Pending
<1>9. CASE q = p
  <2>1. CASE evict[p].stage < 3
    <3>1. NextStage(p) /\ evict[p].stage # 3
      BY <2>1 DEF EvictSweep, TypeOK, Stages
    <3>2. pc'[p] = "guard"
      BY <3>1 DEF NextStage, Goto, TypeOK
    <3> QED
      BY <3>2 DEF Pending
  <2>2. CASE ~(evict[p].stage < 3)
    <3>1. evict[p].stage = 3 /\ evict[p].excess \in Nat
      BY <2>2 DEF TypeOK, Stages
    <3>2. evict[p].excess >= n - MaxHosts
      BY <1>7, <1>9, <2>2 DEF Pending, EvictSweep
    <3>3. Cardinality(R) # evict[p].excess
      BY <1>6, <3>1, <3>2, CircuitAssumption
    <3>4. R = Evictable(evict[p].stage, at[p])
      BY <1>1, <3>3 DEF Victims
    <3>5. h \in R
      BY <1>5, <3>1, <3>4 DEF Evictable, Spare, IsClosed, Tracked
    <3> QED
      BY <1>5, <3>5
  <2> QED
    BY <2>1, <2>2
<1> QED
  BY <1>8, <1>9

LEMMA CapStep ==
  ASSUME TypeOK, CapInv, [Next]_vars
  PROVE  CapInv'
<1>1. CASE Tick \/ UNCHANGED vars
  <2>1. UNCHANGED <<hosts, pc, evict, rescued>>
    BY <1>1 DEF Tick, vars, history
  <2> QED
    BY <2>1 DEF CapInv, Tracked, Spare, Pending
<1>2. ASSUME NEW p \in Hop, Step(p)
      PROVE  CapInv'
  <2>1. CASE (\E k \in Host : Admit(p, k)) \/ Failure(p)
    <3>1. UNCHANGED <<hosts, rescued>> /\ ~Pending(p)
      BY <2>1 DEF Admit, Failure, history, Pending
    <3>2. Tracked' = Tracked /\ \A k \in Host : Spare(k)' => Spare(k)
      BY <3>1 DEF Tracked, Spare
    <3> QED
      BY <1>2, <3>1, <3>2, CapKept
  <2>2. CASE RecordFailure(p)
    <3>1. pc'[p] = "guard"
      BY <2>2 DEF RecordFailure, Goto, TypeOK
    <3> QED
      BY <3>1 DEF CapInv, Pending
  <2>3. CASE EvictGuard(p) \/ EvictMeasure(p)
    <3>1. UNCHANGED hosts
      BY <2>3 DEF EvictGuard, EvictMeasure
    <3>2. Tracked' = Tracked
      BY <3>1 DEF Tracked
    <3>3. CASE ~(Cardinality(Tracked) > MaxHosts)
      BY <3>2, <3>3 DEF CapInv
    <3>4. CASE Cardinality(Tracked) > MaxHosts
      <4>0. Cardinality(Tracked) \in Nat /\ ~(Cardinality(Tracked) <= MaxHosts)
        BY <3>4, TrackedFinite, CircuitAssumption
      <4>1. CASE EvictGuard(p)
        <5>1. pc'[p] = "measure"
          BY <4>0, <4>1 DEF EvictGuard, Goto, TypeOK
        <5> QED
          BY <5>1 DEF CapInv, Pending
      <4>2. CASE EvictMeasure(p)
        <5>1. pc'[p] = "sweep" /\ evict'[p].excess = Cardinality(Tracked) - MaxHosts
          BY <4>0, <4>2 DEF EvictMeasure, Goto, TypeOK
        <5>2. Pending(p)'
          BY <3>2, <4>0, <5>1, CircuitAssumption DEF Pending
        <5> QED
          BY <5>2 DEF CapInv
      <4> QED
        BY <2>3, <4>1, <4>2
    <3> QED
      BY <3>3, <3>4
  <2> QED
    BY <1>2, <2>1, <2>2, <2>3, CapCheck, CapSuccess, CapSweep DEF Step
<1> QED
  BY <1>1, <1>2 DEF Next

(* The soft cap of evict_if_needed, for any cap and any number of hops that *)
(* sweep at once: when none is left in it, only entries with protection     *)
(* state, or rescued from it by a success, are over the cap.                *)
THEOREM CapHeld == Spec => []CapExceededByProtectionOnly
<1>1. Init => CapInv
  BY DEF Init, CapInv, Spare, Absent
<1>2. CapInv => CapExceededByProtectionOnly
  <2> SUFFICES ASSUME CapInv, Evicting = {}, Cardinality(Tracked) > MaxHosts,
                      NEW h \in Tracked, IsClosed(hosts[h]), h \notin rescued
               PROVE  FALSE
    BY DEF CapExceededByProtectionOnly
  <2>1. Spare(h) /\ h \in Host
    BY DEF Spare, IsClosed, Tracked
  <2>2. PICK p \in Hop : Pending(p)
    BY <2>1 DEF CapInv
  <2> QED
    BY <2>2 DEF Pending, Evicting
<1> QED
  BY <1>1, <1>2, CapStep, TypeCorrect, PTL DEF Spec
-----------------------------------------------------------------------------
(* The door of an open host                                                *)

(* State::Open { until }: a check that goes through finds its host neither *)
(* open with time left on the true clock, though its own sample of the     *)
(* clock may be old, nor half-open with its budget spent and its window    *)
(* fresh by that sample.                                                   *)
OpenHostsShut ==
  [][\A p \in Hop :
       LET c == hosts[target[p]] IN
       pc[p] = "check" /\ pc'[p] = "guard" =>
         /\ ~(c.state = "open" /\ now < c.until)
         /\ c.state = "half_open" /\ c.probes >= HalfOpenMax =>
              c.since + OpenDuration <= now]_vars

TouchedPast == \A h \in Host : touched[h] <= now

LEMMA TouchedCorrect == Spec => []TouchedPast
<1>1. Init => TouchedPast
  BY DEF Init, TouchedPast
<1>2. ASSUME TypeOK, TouchedPast, [Next]_vars
      PROVE  TouchedPast'
  <2>1. CASE Tick
    BY <1>2, <2>1 DEF Tick, history, TypeOK, TouchedPast
  <2>2. ASSUME NEW p \in Hop, Step(p)
        PROVE  TouchedPast'
    <3>1. now' = now /\ \A h \in Host : touched'[h] \in {touched[h], now}
      BY <1>2, <2>2 DEF Step, Admit, Check, Success, Failure, RecordFailure, EvictGuard, EvictMeasure,
                        EvictSweep, history, TypeOK
    <3> QED
      BY <1>2, <3>1 DEF TypeOK, TouchedPast
  <2>3. CASE UNCHANGED vars
    BY <1>2, <2>3 DEF vars, TouchedPast
  <2> QED
    BY <1>2, <2>1, <2>2, <2>3 DEF Next
<1> QED
  BY <1>1, <1>2, TypeCorrect, PTL DEF Spec

LEMMA AdmittedLate ==
  ASSUME TypeOK, ClockInv, TouchedPast, NEW p \in Hop, Check(p), Allowed(Entry(target[p]), at[p])
  PROVE  LET c == hosts[target[p]] IN
         /\ ~(c.state = "open" /\ now < c.until)
         /\ c.state = "half_open" /\ c.probes >= HalfOpenMax => c.since + OpenDuration <= now
<1> DEFINE h == target[p]  c == hosts[h]  t == at[p]
<1>1. h \in Host /\ c \in HostCircuit /\ t \in Nat /\ now \in Nat /\ t <= now
  BY DEF Check, TypeOK, ClockInv
<1>2. CASE c.state = "open"
  <2>1. Entry(h) = c
    BY <1>1, <1>2 DEF Entry, Tracked
  <2>2. t >= c.until /\ c.until \in Nat
    BY <1>1, <1>2, <2>1 DEF Allowed, IsClosed, StartsWindow, IsExpiredOpen, HasBudget, HostCircuit
  <2> QED
    BY <1>1, <1>2, <2>2
<1>3. CASE c.state = "half_open" /\ c.probes >= HalfOpenMax
  <2>1. Entry(h) = c
    BY <1>1, <1>3 DEF Entry, Tracked
  <2>2. c.since \in Nat /\ DurationSince(t, c.since) >= OpenDuration
    BY <1>1, <1>3, <2>1, CircuitAssumption
       DEF Allowed, IsClosed, StartsWindow, IsExpiredOpen, HasBudget, HostCircuit
  <2>3. c.since <= now
    <3>1. c.since <= touched[h] /\ touched[h] <= now /\ touched[h] \in Nat
      BY <1>1, <1>3 DEF ClockInv, TouchedPast, TypeOK
    <3> QED
      BY <1>1, <2>2, <3>1
  <2> QED
    BY <1>1, <1>3, <2>2, <2>3, CircuitAssumption DEF DurationSince
<1> QED
  BY <1>2, <1>3

THEOREM DoorShut == Spec => OpenHostsShut
<1>1. ASSUME TypeOK, ClockInv, TouchedPast, [Next]_vars,
             NEW p \in Hop, pc[p] = "check", pc'[p] = "guard"
      PROVE  LET c == hosts[target[p]] IN
             /\ ~(c.state = "open" /\ now < c.until)
             /\ c.state = "half_open" /\ c.probes >= HalfOpenMax => c.since + OpenDuration <= now
  <2>1. PICK q \in Hop : Step(q)
    BY <1>1 DEF Next, Tick, vars
  <2>2. q = p
    BY <1>1, <2>1, StepFrame
  <2>3. Check(p)
    BY <1>1, <2>1, <2>2
       DEF Step, Admit, Check, Success, Failure, RecordFailure, EvictGuard, EvictMeasure, EvictSweep
  <2>4. Allowed(Entry(target[p]), at[p])
    BY <1>1, <2>3 DEF Check, Finish, Goto, TypeOK
  <2> QED
    BY <1>1, <2>3, <2>4, AdmittedLate
<1>2. TypeOK /\ ClockInv /\ TouchedPast /\ [Next]_vars =>
        [\A p \in Hop :
           LET c == hosts[target[p]] IN
           pc[p] = "check" /\ pc'[p] = "guard" =>
             /\ ~(c.state = "open" /\ now < c.until)
             /\ c.state = "half_open" /\ c.probes >= HalfOpenMax =>
                  c.since + OpenDuration <= now]_vars
  BY <1>1
<1> QED
  BY <1>2, TypeCorrect, ClockCorrect, TouchedCorrect, PTL DEF Spec, OpenHostsShut
-----------------------------------------------------------------------------
(* How long a hop can take                                                 *)

(* The steps a hop may still take in evict_if_needed.                      *)
EvictionLeft(p) ==
  3 * (3 - evict[p].stage) +
    (IF pc[p] = "guard" THEN 3 ELSE IF pc[p] = "measure" THEN 2 ELSE 1)

(* The steps it may still take until its guard is gone.                    *)
HopLeft(p) ==
  CASE pc[p] = "idle" -> 0
    [] pc[p] = "fail" -> 10
    [] pc[p] = "flight" -> 11
    [] pc[p] = "check" -> 21
    [] OTHER -> EvictionLeft(p) + (IF evict[p].resume = "flight" THEN 11 ELSE 0)

(* check, record_* and evict_if_needed retry nothing and wait for nobody:  *)
(* every step of a hop brings it nearer its end, and no step of another    *)
(* hop sets it back, however full the map is.                              *)
HopsWaitFree ==
  [][\A p \in Hop :
       IF Step(p) THEN pc[p] = "idle" \/ HopLeft(p)' < HopLeft(p)
                  ELSE HopLeft(p)' = HopLeft(p)]_vars

(* A hop is over after at most 21 steps of its own from its check.         *)
HopBudget == \A p \in Hop : HopLeft(p) \in 0..21

LEMMA LeftTyped ==
  ASSUME TypeOK, NEW p \in Hop
  PROVE  HopLeft(p) \in 0..21 /\ (HopLeft(p) = 0 <=> pc[p] = "idle")
<1>1. pc[p] \in Pcs /\ evict[p].stage \in 1..3 /\ evict[p].resume \in {"idle", "flight"}
  BY DEF TypeOK, Stages
<1> QED
  BY <1>1 DEF HopLeft, EvictionLeft, Pcs

LEMMA StageLeft ==
  ASSUME TypeOK, NEW p \in Hop, pc[p] \in {"guard", "measure", "sweep"}, NextStage(p)
  PROVE  HopLeft(p)' < HopLeft(p)
<1>1. evict[p] \in [stage: Stages, excess: Nat, resume: {"idle", "flight"}]
  BY DEF TypeOK
<1>2. CASE evict[p].stage < 3
  <2>1. pc'[p] = "guard" /\ evict'[p].stage = evict[p].stage + 1 /\ evict'[p].resume = evict[p].resume
    BY <1>1, <1>2 DEF NextStage, Goto, TypeOK, Stages
  <2> QED
    BY <1>1, <1>2, <2>1 DEF HopLeft, EvictionLeft, Stages
<1>3. CASE evict[p].stage = 3
  <2>1. \/ evict[p].resume = "flight" /\ pc'[p] = "flight"
        \/ evict[p].resume = "idle" /\ pc'[p] = "idle"
    BY <1>1, <1>3 DEF NextStage, Resume, Finish, Goto, TypeOK
  <2> QED
    BY <1>1, <1>3, <2>1 DEF HopLeft, EvictionLeft, Stages
<1> QED
  BY <1>1, <1>2, <1>3 DEF Stages

LEMMA StepLeft ==
  ASSUME TypeOK, NEW p \in Hop, Step(p), pc[p] # "idle"
  PROVE  HopLeft(p)' < HopLeft(p)
<1>0. evict[p] \in [stage: Stages, excess: Nat, resume: {"idle", "flight"}]
  BY DEF TypeOK
<1>1. CASE Check(p)
  <2>1. \/ pc'[p] = "guard" /\ evict'[p].stage = 1 /\ evict'[p].resume = "flight"
        \/ pc'[p] = "idle"
    BY <1>1 DEF Check, Finish, Goto, NoEvict, TypeOK
  <2> QED
    BY <1>1, <2>1 DEF Check, HopLeft, EvictionLeft
<1>2. CASE Success(p) \/ Failure(p)
  <2>1. pc[p] = "flight" /\ pc'[p] \in {"idle", "fail"}
    BY <1>2 DEF Success, Failure, Finish, Goto, TypeOK
  <2> QED
    BY <2>1 DEF HopLeft
<1>3. CASE RecordFailure(p)
  <2>1. pc[p] = "fail" /\ pc'[p] = "guard" /\ evict'[p].stage = 1 /\ evict'[p].resume = "idle"
    BY <1>3 DEF RecordFailure, Goto, NoEvict, TypeOK
  <2> QED
    BY <2>1 DEF HopLeft, EvictionLeft
<1>4. CASE EvictGuard(p)
  <2>1. CASE Goto(p, "measure") /\ UNCHANGED evict
    <3>1. pc[p] = "guard" /\ pc'[p] = "measure" /\ evict' = evict
      BY <1>4, <2>1 DEF EvictGuard, Goto, TypeOK
    <3> QED
      BY <1>0, <3>1 DEF HopLeft, EvictionLeft, Stages
  <2>2. CASE evict[p].stage = 1 /\ Resume(p)
    <3>1. \/ evict[p].resume = "flight" /\ pc'[p] = "flight"
          \/ evict[p].resume = "idle" /\ pc'[p] = "idle"
      BY <2>2 DEF Resume, Finish, Goto, TypeOK
    <3> QED
      BY <1>0, <1>4, <2>2, <3>1 DEF EvictGuard, HopLeft, EvictionLeft, Stages
  <2> QED
    BY <1>4, <2>1, <2>2, StageLeft DEF EvictGuard
<1>5. CASE EvictMeasure(p)
  <2>1. CASE Goto(p, "sweep") /\ evict' = [evict EXCEPT ![p] = [@ EXCEPT !.excess = Cardinality(Tracked) - MaxHosts]]
    <3>1. pc[p] = "measure" /\ pc'[p] = "sweep" /\ evict'[p].stage = evict[p].stage
          /\ evict'[p].resume = evict[p].resume
      BY <1>0, <1>5, <2>1 DEF EvictMeasure, Goto, TypeOK
    <3> QED
      BY <1>0, <3>1 DEF HopLeft, EvictionLeft, Stages
  <2> QED
    BY <1>5, <2>1, StageLeft DEF EvictMeasure
<1>6. CASE EvictSweep(p)
  BY <1>6, StageLeft DEF EvictSweep
<1> QED
  BY <1>1, <1>2, <1>3, <1>4, <1>5, <1>6 DEF Step, Admit

(* A hop is over after at most 21 steps of its own from its check, for any *)
(* number of hops and hosts and any cap.                                   *)
THEOREM HopsEnd == Spec => HopsWaitFree /\ []HopBudget
<1>1. ASSUME TypeOK, [Next]_vars, NEW p \in Hop, ~Step(p)
      PROVE  HopLeft(p)' = HopLeft(p)
  <2>1. pc'[p] = pc[p] /\ evict'[p] = evict[p]
    <3>1. CASE Tick \/ UNCHANGED vars
      BY <3>1 DEF Tick, vars
    <3>2. ASSUME NEW q \in Hop, Step(q)
          PROVE  pc'[p] = pc[p] /\ evict'[p] = evict[p]
      BY <1>1, <3>2, StepFrame, EvictFrame
    <3> QED
      BY <1>1, <3>1, <3>2 DEF Next
  <2> QED
    BY <2>1 DEF HopLeft, EvictionLeft
<1>2. TypeOK /\ [Next]_vars =>
        [\A p \in Hop :
           IF Step(p) THEN pc[p] = "idle" \/ HopLeft(p)' < HopLeft(p)
                      ELSE HopLeft(p)' = HopLeft(p)]_vars
  BY <1>1, StepLeft
<1>3. TypeOK => HopBudget
  BY LeftTyped DEF HopBudget
<1> QED
  BY <1>2, <1>3, TypeCorrect, PTL DEF Spec, HopsWaitFree
=============================================================================
