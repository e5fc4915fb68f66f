--------------------------- MODULE CircuitBreaker ---------------------------
(***************************************************************************)
(* The process-local per-host circuit breaker of corx-core                 *)
(* (policy/circuit.rs), together with the CircuitHop guards that use it.   *)
(*                                                                         *)
(* Every hop runs on a task of its own.  What is atomic in the code is     *)
(* atomic here: one access to a host's map entry under its shard lock, one *)
(* reading of the clock, one reading of the map's length, one sweep.       *)
(* Between two of them any other hop, and the clock, may move; so a hop    *)
(* applies a clock sample that may have become old.                        *)
(*                                                                         *)
(* A sweep visits the shards one after another; it is one step here, each  *)
(* test-and-remove of an entry being atomic in the code.                   *)
(***************************************************************************)
EXTENDS Integers, FiniteSets

CONSTANTS
  Host,              \* upstream host names
  NoHost,            \* the target of a task that carries no hop
  Hop,               \* tasks that carry an upstream hop
  FailureThreshold,  \* failures in the window that trip a host
  Window,            \* length of the rolling failure window
  OpenDuration,      \* how long a tripped host stays open
  HalfOpenMax,       \* probes admitted per half-open window
  MaxHosts,          \* soft cap on tracked hosts
  MaxTime            \* bound on the clock

(* from_config raises the three limits to at least 1.                      *)
ASSUME CircuitAssumption ==
  /\ FailureThreshold \in Nat \ {0}
  /\ HalfOpenMax \in Nat \ {0}
  /\ MaxHosts \in Nat \ {0}
  /\ Window \in Nat
  /\ OpenDuration \in Nat
  /\ MaxTime \in Nat
  /\ IsFiniteSet(Host) /\ NoHost \notin Host
  /\ IsFiniteSet(Hop)

VARIABLES
  enabled,   \* master switch of the configuration the breaker was built from
  now,       \* the monotonic clock
  hosts,     \* hosts[h]: the map entry of h
  pc,        \* where each hop is in check / record_* / evict_if_needed
  target,    \* the host each hop is for
  at,        \* the clock sample of the operation the hop is in
  evict,     \* the hop's pass through evict_if_needed
  touched,   \* history: when h last tripped or opened a probe window
  role,      \* history: what the hop was admitted as
  log,       \* history: failures of h since its last success, trip or eviction
  rescued    \* history: hosts a success closed while they were open or half-open

vars ==
  <<enabled, now, hosts, pc, target, at, evict, touched, role, log, rescued>>
history == <<touched, role, log, rescued>>
-----------------------------------------------------------------------------
(* A failure is <<t, k>>: the k-th one stamped t.  The code keeps a vector  *)
(* of stamps, of which it only ever uses the length and each stamp alone.   *)
Failures == {F \in SUBSET (Nat \X Nat) : IsFiniteSet(F)}

HostCircuit ==
  [state: {"absent", "closed", "open", "half_open"},
   until: Nat, probes: Nat, since: Nat, failures: Failures]

Absent ==
  [state |-> "absent", until |-> 0, probes |-> 0, since |-> 0, failures |-> {}]

NewCircuit == [Absent EXCEPT !.state = "closed"]

Tracked == {h \in Host : hosts[h].state # "absent"}

(* entry(host).or_insert_with(HostCircuit::new)                            *)
Entry(h) == IF h \in Tracked THEN hosts[h] ELSE NewCircuit

(* Instant::duration_since saturates at zero.                              *)
DurationSince(later, earlier) == IF later >= earlier THEN later - earlier ELSE 0

IsIdleClosed(c) == c.state = "closed" /\ c.failures = {}
IsClosed(c) == c.state = "closed"
IsExpiredOpen(c, t) == c.state = "open" /\ t >= c.until

Push(F, t) == F \cup {<<t, 1 + Cardinality({f \in F : f[1] = t})>>}
-----------------------------------------------------------------------------
(* Mutant of StartsWindow: an exhausted half-open window is never renewed.  *)
StartsWindowOnce(c, t) == IsExpiredOpen(c, t)

(* transition_on_check, in its three parts: an open or half-open entry that *)
(* starts a probe window, a half-open one with budget left, and a closed one. *)
StartsWindow(c, t) ==
  \/ IsExpiredOpen(c, t)
  \/ /\ c.state = "half_open"
     /\ c.probes >= HalfOpenMax
     /\ DurationSince(t, c.since) >= OpenDuration

(* Mutant of HasBudget: one probe too many.                                 *)
HasBudgetInclusive(c) == c.state = "half_open" /\ c.probes <= HalfOpenMax

HasBudget(c) == c.state = "half_open" /\ c.probes < HalfOpenMax

Allowed(c, t) == IsClosed(c) \/ StartsWindow(c, t) \/ HasBudget(c)

TransitionOnCheck(c, t) ==
  CASE StartsWindow(c, t) ->
         [c EXCEPT !.state = "half_open", !.until = 0, !.probes = 1, !.since = t]
    [] HasBudget(c) -> [c EXCEPT !.probes = @ + 1]
    [] OTHER -> c

(* record_failure_on: forget what left the window, count this one, and open *)
(* when the host was being probed or the count reaches the threshold.       *)
Recent(F, t) == {f \in F : DurationSince(t, f[1]) <= Window}

(* Mutant of Retained: failures that left the window still count.           *)
RetainedAll(c, t) == Push(c.failures, t)

Retained(c, t) == Push(Recent(c.failures, t), t)

ShouldOpen(c, t) ==
  \/ c.state = "half_open"
  \/ Cardinality(Retained(c, t)) >= FailureThreshold

RecordFailureOn(c, t) ==
  IF ShouldOpen(c, t)
  THEN [Absent EXCEPT !.state = "open", !.until = t + OpenDuration]
  ELSE [c EXCEPT !.failures = Retained(c, t)]

-----------------------------------------------------------------------------
Pcs == {"idle", "check", "flight", "fail", "guard", "measure", "sweep"}

Stages == 1..3

(* Mutants of Evictable: the last stage keeps hosts with failures; the      *)
(* second takes hosts that are still open.                                  *)
EvictableIdleOnly(stage, t) ==
  {h \in Tracked : \/ stage \in {1, 3} /\ IsIdleClosed(hosts[h])
                   \/ stage = 2 /\ IsExpiredOpen(hosts[h], t)}

EvictableAnyOpen(stage, t) ==
  {h \in Tracked : \/ stage = 1 /\ IsIdleClosed(hosts[h])
                   \/ stage = 2 /\ hosts[h].state = "open"
                   \/ stage = 3 /\ IsClosed(hosts[h])}

(* The entries a stage of evict_if_needed may reclaim.                     *)
Evictable(stage, t) ==
  {h \in Tracked : \/ stage = 1 /\ IsIdleClosed(hosts[h])
                   \/ stage = 2 /\ IsExpiredOpen(hosts[h], t)
                   \/ stage = 3 /\ IsClosed(hosts[h])}

NoEvict == [stage |-> 1, excess |-> 0, resume |-> "idle"]

TypeOK ==
  /\ enabled \in BOOLEAN
  /\ now \in Nat
  /\ hosts \in [Host -> HostCircuit]
  /\ pc \in [Hop -> Pcs]
  /\ target \in [Hop -> Host \cup {NoHost}]
  /\ \A p \in Hop : pc[p] # "idle" => target[p] \in Host
  /\ at \in [Hop -> Nat]
  /\ evict \in [Hop -> [stage: Stages, excess: Nat, resume: {"idle", "flight"}]]
  /\ touched \in [Host -> Nat]
  /\ role \in [Hop -> {"none", "regular", "probe", "stale"}]
  /\ log \in [Host -> Failures]
  /\ rescued \in SUBSET Host

Init ==
  /\ enabled \in BOOLEAN
  /\ now = 0
  /\ hosts = [h \in Host |-> Absent]
  /\ pc = [p \in Hop |-> "idle"]
  /\ target = [p \in Hop |-> NoHost]
  /\ at = [p \in Hop |-> 0]
  /\ evict = [p \in Hop |-> NoEvict]
  /\ touched = [h \in Host |-> 0]
  /\ role = [p \in Hop |-> "none"]
  /\ log = [h \in Host |-> {}]
  /\ rescued = {}

(* Instants are only ever read and compared; a tick stands for any progress. *)
Tick ==
  /\ now < MaxTime
  /\ now' = now + 1
  /\ UNCHANGED <<enabled, hosts, pc, target, at, evict, history>>

Goto(p, label) == pc' = [pc EXCEPT ![p] = label]

(* The hop is over: its guard is gone.                                     *)
Finish(p) ==
  /\ Goto(p, "idle")
  /\ target' = [target EXCEPT ![p] = NoHost]
  /\ at' = [at EXCEPT ![p] = 0]
  /\ role' = [role EXCEPT ![p] = "none"]

(* CircuitHop::admit and the head of check: a disabled breaker admits at   *)
(* once, an enabled one reads the clock.                                   *)
Admit(p, h) ==
  /\ pc[p] = "idle"
  /\ target' = [target EXCEPT ![p] = h]
  /\ \/ ~enabled /\ Goto(p, "flight") /\ UNCHANGED at
     \/ enabled /\ Goto(p, "check") /\ at' = [at EXCEPT ![p] = now]
  /\ UNCHANGED <<enabled, now, hosts, evict, history>>

(* A hop admitted by a half-open entry is a probe of the window it belongs *)
(* to; the probes of the window before it become stale.                    *)
Roles(p, c, t) ==
  [q \in Hop |->
     CASE q = p -> IF IsClosed(c) THEN "regular" ELSE "probe"
       [] q # p /\ StartsWindow(c, t) /\ target[q] = target[p] /\ role[q] = "probe"
            -> "stale"
       [] OTHER -> role[q]]

(* check, under the entry lock: the entry is inserted when missing, the    *)
(* transition applied; only an admitted hop goes on to evict.              *)
Check(p) ==
  LET h == target[p]
      c == Entry(h)
      t == at[p] IN
  /\ pc[p] = "check"
  /\ hosts' = [hosts EXCEPT ![h] = TransitionOnCheck(c, t)]
  /\ \/ /\ Allowed(c, t)
        /\ Goto(p, "guard")
        /\ evict' = [evict EXCEPT ![p] = [NoEvict EXCEPT !.resume = "flight"]]
        /\ role' = Roles(p, c, t)
        /\ touched' = IF StartsWindow(c, t) THEN [touched EXCEPT ![h] = now] ELSE touched
        /\ UNCHANGED <<target, at>>
     \/ ~Allowed(c, t) /\ Finish(p) /\ UNCHANGED <<evict, touched>>
  /\ UNCHANGED <<enabled, now, log, rescued>>

(* CircuitHop::success and record_success: an existing entry is closed and *)
(* its failures cleared, whatever its state; a missing one stays missing.  *)
Success(p) ==
  LET h == target[p] IN
  /\ pc[p] = "flight"
  /\ Finish(p)
  /\ \/ /\ enabled /\ h \in Tracked
        /\ hosts' = [hosts EXCEPT ![h] = NewCircuit]
        /\ log' = [log EXCEPT ![h] = {}]
        /\ rescued' = IF IsClosed(hosts[h]) THEN rescued ELSE rescued \cup {h}
     \/ ~(enabled /\ h \in Tracked) /\ UNCHANGED <<hosts, log, rescued>>
  /\ UNCHANGED <<enabled, now, evict, touched>>

(* CircuitHop::failure, or the drop of an unsettled guard: the head of     *)
(* record_failure reads the clock.                                         *)
Failure(p) ==
  /\ pc[p] = "flight"
  /\ \/ ~enabled /\ Finish(p)
     \/ /\ enabled
        /\ Goto(p, "fail")
        /\ at' = [at EXCEPT ![p] = now]
        /\ UNCHANGED <<target, role>>
  /\ UNCHANGED <<enabled, now, hosts, evict, touched, log, rescued>>

(* record_failure, under the entry lock.                                   *)
RecordFailure(p) ==
  LET h == target[p]
      c == Entry(h)
      t == at[p]
      opened == ShouldOpen(c, t) IN
  /\ pc[p] = "fail"
  /\ hosts' = [hosts EXCEPT ![h] = RecordFailureOn(c, t)]
  /\ touched' = IF opened THEN [touched EXCEPT ![h] = now] ELSE touched
  /\ log' = [log EXCEPT ![h] = IF opened THEN {} ELSE Push(@, t)]
  /\ rescued' = IF opened THEN rescued \ {h} ELSE rescued
  /\ Goto(p, "guard")
  /\ evict' = [evict EXCEPT ![p] = NoEvict]
  /\ role' = [role EXCEPT ![p] = "none"]
  /\ UNCHANGED <<enabled, now, target, at>>
-----------------------------------------------------------------------------
(* evict_if_needed                                                         *)

(* Leaving evict_if_needed: check returns the guard, record_failure ends.  *)
Resume(p) ==
  \/ /\ evict[p].resume = "flight"
     /\ Goto(p, "flight")
     /\ at' = [at EXCEPT ![p] = 0]
     /\ UNCHANGED <<target, role>>
  \/ evict[p].resume = "idle" /\ Finish(p)

(* Mutant of NextStage: eviction goes on until the map fits.                *)
NextStageUntilFits(p) ==
  /\ Goto(p, "guard")
  /\ evict' = [evict EXCEPT ![p] =
              [stage |-> 1 + (evict[p].stage % 3), excess |-> 0, resume |-> evict[p].resume]]
  /\ UNCHANGED <<target, at, role>>

(* The end of one evict_matching, or of a stage that was not needed.       *)
NextStage(p) ==
  \/ /\ evict[p].stage < 3
     /\ Goto(p, "guard")
     /\ evict' = [evict EXCEPT ![p] =
                 [stage |-> evict[p].stage + 1, excess |-> 0, resume |-> evict[p].resume]]
     /\ UNCHANGED <<target, at, role>>
  \/ /\ evict[p].stage = 3
     /\ Resume(p)
     /\ evict' = [evict EXCEPT ![p] = NoEvict]

(* len() against max_hosts: the first test returns, the others skip.       *)
EvictGuard(p) ==
  /\ pc[p] = "guard"
  /\ \/ /\ Cardinality(Tracked) > MaxHosts
        /\ Goto(p, "measure")
        /\ UNCHANGED <<target, at, evict, role>>
     \/ /\ Cardinality(Tracked) <= MaxHosts
        /\ \/ /\ evict[p].stage = 1
              /\ Resume(p)
              /\ evict' = [evict EXCEPT ![p] = NoEvict]
           \/ evict[p].stage > 1 /\ NextStage(p)
  /\ UNCHANGED <<enabled, now, hosts, touched, log, rescued>>

(* Mutant of EvictMeasure: the operands of the subtraction swapped.         *)
EvictMeasureSwapped(p) ==
  /\ pc[p] = "measure"
  /\ Goto(p, "sweep")
  /\ evict' = [evict EXCEPT ![p] = [@ EXCEPT !.excess = MaxHosts - Cardinality(Tracked)]]
  /\ UNCHANGED <<enabled, now, hosts, target, at, history>>

(* evict_matching measures the excess again.                               *)
EvictMeasure(p) ==
  /\ pc[p] = "measure"
  /\ \/ /\ Cardinality(Tracked) > MaxHosts
        /\ Goto(p, "sweep")
        /\ evict' = [evict EXCEPT ![p] = [@ EXCEPT !.excess = Cardinality(Tracked) - MaxHosts]]
        /\ UNCHANGED <<target, at, role>>
     \/ Cardinality(Tracked) <= MaxHosts /\ NextStage(p)
  /\ UNCHANGED <<enabled, now, hosts, touched, log, rescued>>

(* retain drops matching entries, in the map's order, until excess are gone. *)
Victims(p) ==
  LET candidates == Evictable(evict[p].stage, at[p]) IN
  {R \in SUBSET candidates :
     \/ Cardinality(R) = evict[p].excess
     \/ Cardinality(R) < evict[p].excess /\ R = candidates}

EvictSweep(p) ==
  /\ pc[p] = "sweep"
  /\ \E R \in Victims(p) :
       /\ hosts' = [h \in Host |-> IF h \in R THEN Absent ELSE hosts[h]]
       /\ log' = [h \in Host |-> IF h \in R THEN {} ELSE log[h]]
       /\ rescued' = rescued \ R
  /\ NextStage(p)
  /\ UNCHANGED <<enabled, now, touched>>
-----------------------------------------------------------------------------
Step(p) ==
  \/ \E h \in Host : Admit(p, h)
  \/ Check(p)
  \/ Success(p)
  \/ Failure(p)
  \/ RecordFailure(p)
  \/ EvictGuard(p)
  \/ EvictMeasure(p)
  \/ EvictSweep(p)

Next == Tick \/ \E p \in Hop : Step(p)

Spec == Init /\ [][Next]_vars
-----------------------------------------------------------------------------
(* Properties                                                              *)

Protecting(h) ==
  \/ hosts[h].state = "half_open"
  \/ hosts[h].state = "open" /\ now < hosts[h].until

(* A hop of h settles as a success in this step.                           *)
SucceedsFor(h) ==
  \E p \in Hop : pc[p] = "flight" /\ pc'[p] = "idle" /\ target[p] = h

(* evict_if_needed "prefers reclaiming entries that no longer need          *)
(* protection state": no step, an eviction racing other hops included, ever *)
(* drops an open host before its time is up or a half-open one; and an open *)
(* host whose time is not up stops being open only because a success of it  *)
(* was recorded.                                                            *)
ProtectionKept ==
  [][\A h \in Host :
       Protecting(h) =>
         /\ hosts'[h].state # "absent"
         /\ (hosts[h].state = "open" /\ hosts'[h].state # "open") => SucceedsFor(h)]_vars

(* "Cancelled probes cannot lock a host forever" (State::HalfOpen): a check *)
(* is refused only within OpenDuration of the last trip of the host or of   *)
(* the opening of its last probe window, however probes settle or vanish.   *)
NoLockout ==
  [][\A p \in Hop :
       pc[p] = "check" /\ pc'[p] = "idle"
         => at[p] < touched[target[p]] + OpenDuration]_vars

Probes(h, roles) == {p \in Hop : target[p] = h /\ role[p] \in roles}

(* Probe budgeting of transition_on_check: the probes of the current        *)
(* half-open window that have not settled never outnumber the entry's       *)
(* counter, nor the counter the budget.                                     *)
WindowBudget ==
  \A h \in Host :
    hosts[h].state = "half_open" =>
      /\ Cardinality(Probes(h, {"probe"})) <= hosts[h].probes
      /\ hosts[h].probes <= HalfOpenMax

(* record_failure_on: a closed host trips only on FailureThreshold failures *)
(* stamped within Window of the last one, none of them from before a        *)
(* success: pruning and clearing never leave a failure that must not count. *)
TripJustified ==
  [][\A p \in Hop :
       LET h == target[p] IN
       pc[p] = "fail" /\ pc'[p] # "fail" /\ hosts[h].state = "closed" /\ hosts'[h].state = "open"
         => Cardinality(Recent(Push(log[h], at[p]), at[p])) >= FailureThreshold]_vars

Evicting == {p \in Hop : pc[p] \in {"guard", "measure", "sweep"}}

(* max_hosts: once no hop is evicting, the map is larger than the cap only  *)
(* by entries that hold protection state or were closed, by a success,      *)
(* while they did.                                                          *)
CapExceededByProtectionOnly ==
  Evicting = {} /\ Cardinality(Tracked) > MaxHosts
    => \A h \in Tracked : IsClosed(hosts[h]) => h \in rescued
=============================================================================
