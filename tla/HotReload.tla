----------------------------- MODULE HotReload -----------------------------
(***************************************************************************)
(* Configuration hot reload of corx-server (state.rs, hot_reload.rs): the  *)
(* snapshots of LivePolicies behind the ArcSwap, and the one SIGHUP        *)
(* watcher that replaces them.  Requests keep the snapshots they have      *)
(* loaded, so all that were ever stored stay in the state; the last one is *)
(* live.                                                                   *)
(*                                                                         *)
(* What keeps memory of its own inside a snapshot (the rate limiter, the   *)
(* breaker, the upstream client) is named by the snapshot it was built     *)
(* for; a snapshot that retains one names an earlier snapshot.             *)
(*                                                                         *)
(* The watcher is the only writer, so a reload takes place at its store;   *)
(* one that fails on the way leaves everything as it is.                   *)
(***************************************************************************)
EXTENDS Integers, Sequences

(* Of a configuration's sections, server holds bind, http2, tls and, for    *)
(* the fields that are only read at startup, graceful_shutdown; limits the  *)
(* five of LimitsConfig that are baked into router and layers; client the   *)
(* sections ssrf and upstream and the other four of LimitsConfig            *)
(* (connect_timeout and the redirect settings).                             *)
CONSTANTS
  Configs,     \* the configurations the file may hold, as records of sections
  MaxReloads   \* bound on the reloads of a run

VARIABLES
  frozen,      \* immutable_server, immutable_limits, immutable_metrics_endpoint
  snapshots    \* the snapshots stored so far

vars == <<frozen, snapshots>>

LivePolicies == [config: Configs, rate: Nat, circuit: Nat, upstream: Nat]

Live == Len(snapshots)

(* What listener, router and layers were started with.                     *)
Immutable(c) ==
  [server |-> c.server, limits |-> c.limits, metrics |-> c.metrics]

TypeOK ==
  /\ frozen \in {Immutable(c) : c \in Configs}
  /\ snapshots \in Seq(LivePolicies)
  /\ Live > 0

(* ServerBuild::from_config: everything is built for the first snapshot.   *)
Init ==
  \E c \in Configs :
    /\ frozen = Immutable(c)
    /\ snapshots = <<[config |-> c, rate |-> 1, circuit |-> 1, upstream |-> 1]>>

(* Mutant of UpstreamConfigEq: the target section left out.                 *)
UpstreamConfigEqButTarget(a, b) == a.client = b.client

(* Mutant of UpstreamConfigEq: a client is kept though its ssrf section     *)
(* changes.                                                                 *)
UpstreamConfigEqButClient(a, b) == a.target = b.target

UpstreamConfigEq(a, b) == a.target = b.target /\ a.client = b.client

(* Mutant of BuildFrom: a retained component is taken for the previous      *)
(* snapshot's own.                                                          *)
BuildFromRenamed(c, prev, n) ==
  [config |-> c,
   rate |-> IF prev.config.rate = c.rate THEN n - 1 ELSE n,
   circuit |-> IF prev.config.circuit = c.circuit THEN n - 1 ELSE n,
   upstream |-> IF UpstreamConfigEq(prev.config, c) THEN n - 1 ELSE n]

(* LivePolicies::build_from, for the n-th snapshot.                        *)
BuildFrom(c, prev, n) ==
  [config |-> c,
   rate |-> IF prev.config.rate = c.rate THEN prev.rate ELSE n,
   circuit |-> IF prev.config.circuit = c.circuit THEN prev.circuit ELSE n,
   upstream |-> IF UpstreamConfigEq(prev.config, c) THEN prev.upstream ELSE n]

(* Mutant of AssertImmutable: the limits are not compared.                  *)
AssertImmutableButLimits(c) ==
  /\ c.server.bind = frozen.server.bind
  /\ c.server.http2 = frozen.server.http2
  /\ c.server.tls = frozen.server.tls
  /\ c.metrics = frozen.metrics

(* Three fields of server are compared; the others may differ, and the     *)
(* process goes on as it was started.                                      *)
AssertImmutable(c) ==
  /\ c.server.bind = frozen.server.bind
  /\ c.server.http2 = frozen.server.http2
  /\ c.server.tls = frozen.server.tls
  /\ c.limits = frozen.limits
  /\ c.metrics = frozen.metrics

(* A SIGHUP whose configuration loads, passes assert_immutable and         *)
(* compiles: built from the live snapshot and stored in its place.         *)
Reload ==
  /\ Live <= MaxReloads
  /\ \E c \in Configs :
       /\ AssertImmutable(c)
       /\ snapshots' = Append(snapshots, BuildFrom(c, snapshots[Live], Live + 1))
  /\ UNCHANGED frozen

Next == Reload

Spec == Init /\ [][Next]_vars
-----------------------------------------------------------------------------
(* Properties                                                              *)

(* "rebuilt when ssrf / target / upstream / connect / redirect settings     *)
(* change": however many reloads a component has been retained through, it  *)
(* works by the configuration of the snapshot that uses it.  The target     *)
(* policy of the first hop and the one of the redirect hops never part.     *)
SnapshotCoherent ==
  \A i \in 1..Live :
    LET s == snapshots[i] IN
    /\ s.rate \in 1..i /\ snapshots[s.rate].config.rate = s.config.rate
    /\ s.circuit \in 1..i /\ snapshots[s.circuit].config.circuit = s.config.circuit
    /\ s.upstream \in 1..i
    /\ snapshots[s.upstream].config.target = s.config.target
    /\ snapshots[s.upstream].config.client = s.config.client

(* "GCRA buckets and open circuits are retained across reload": over any    *)
(* run of reloads that leave a section alone, the limiter, the breaker and  *)
(* the client in use stay the same ones.                                    *)
StateRetained ==
  \A j \in 1..Live : \A i \in 1..j :
    LET c == snapshots[i].config IN
    /\ (\A k \in i..j : snapshots[k].config.rate = c.rate)
         => snapshots[j].rate = snapshots[i].rate
    /\ (\A k \in i..j : snapshots[k].config.circuit = c.circuit)
         => snapshots[j].circuit = snapshots[i].circuit
    /\ (\A k \in i..j : snapshots[k].config.target = c.target /\ snapshots[k].config.client = c.client)
         => snapshots[j].upstream = snapshots[i].upstream
=============================================================================
