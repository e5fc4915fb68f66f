# A TLA+ model of corx

corx is a CORS forwarding proxy: a browser asks `GET /https://target/path`, corx
checks the request, sends it to the target, follows redirects and returns the
answer with CORS headers. It is a Rust workspace of four crates; the logic is in
`corx-core` (policies, upstream client) and `corx-server` (router, layers, handlers,
reload, shutdown).

This directory holds TLA+ modules of its stateful parts, TLC configurations that
check them on small instances, and TLAPS proofs of the main properties for every
value of the constants. `PROJECT.json` maps every definition to the lines it models
and lists runs, mutants, hazards, findings and theorems.

## 1. Inventory

| Part | State | Operations | What makes it correct |
|---|---|---|---|
| circuit breaker, `policy/circuit.rs` | a concurrent map from host to (state, failures, probes, deadlines) | `check`, `record_success`, `record_failure`, the `CircuitHop` guard and its drop, three-stage eviction | trips only on failures that count; an open host is protected until its time is up and never evicted before; half-open probes stay within budget, and probes that vanish do not lock a host out; the map passes its cap only for hosts under protection |
| upstream client, `proxy/upstream.rs` | one redirect chain per request, the breaker shared | `execute` loop: policy, breaker, send, settle, follow | every hop passes the policy and the breaker and settles with it exactly once; the chain ends |
| redirects, `proxy/redirect.rs` | `RedirectState` (URI, method, headers, body) | `prepare_next` | credentials stay with their authority, no downgrade, no empty replay, bounded |
| target policy, `policy/target.rs` | none | `check`, `check_uri` | applied to every hop |
| load shedding, `middleware/load_shed.rs` | one atomic counter | fetch_add, test, permit drop | at most `inflight_max` requests run; no slot is lost |
| rate limiter, `middleware/rate_limit.rs` | per dimension a key registry and governor's buckets | `check`, `admit_key` | every applicable dimension meters a request that passes; bounded registry |
| hot reload, `state.rs`, `hot_reload.rs`, `config_loader.rs` | the live `LivePolicies` snapshot; immutable fields of startup | `reload` on SIGHUP | what is retained fits the configuration it is used under; memory survives unrelated changes; immutable fields never change |
| request pipeline, `router.rs`, `handlers/proxy.rs`, layers | each request's way through the layers, the snapshots it has loaded | layers, `serve`, `execute_proxy`, `shape_response` | nothing is sent upstream unchecked; every way out releases what was taken; every request is answered |
| process and graceful shutdown, `shutdown.rs`, `tls.rs`, CLI `main.rs` | readiness flag, listener, grace timer, connections | start, bind, signal, drain, abort | unready before the listener closes; nothing cut off before the grace period is over; the process ends |
| body metering, `observability/metering.rs` | bytes seen per body | `poll_frame` | never more than the limit; a body that ends normally is whole |
| CORS policy, `proxy/cors.rs`, `middleware/cors.rs` | none | `build_preflight_response`, `apply_to_response` | every answer, on every way out, is readable for an admitted origin and varies on it; credentials only for listed origins |
| header filters and forwarding headers, `proxy/headers.rs`, `proxy/forwarded.rs`, `handlers/outbound.rs` | none | `apply`, `inject`, `set_host_from_target` | what belongs to one hop stays there; the upstream is told who the client is, whatever the client says |
| SSRF guard, `proxy/ssrf.rs`, and the client's connections | kept connections, per client | `resolve`, `check_ip`, connect, reuse | no request travels to an address its configuration refuses, whether its host is a name or a literal |
| URL parser, `proxy/url_parser.rs` | none | `extract_target` | a target has a known scheme and a host |
| validation, `config/validate.rs` | none | `validate_full` | unsafe combinations never become live, at startup or by reload |
| errors, `error.rs` | none | `kind`, `status` | a status says whose fault it was |
| metrics, tracing, CLI | none that decides anything at run time | | not modelled, see section 7 |

**Interaction.** The layers wrap one another (Trace, access_log, cors, Timeout,
BodyLimit, CatchPanic, header_limit, load_shed, auth, handler). `serve` runs the
origin guard, the target policy and the rate limiter; `execute_proxy` calls
`Upstream::execute` with the snapshot's breaker. Layers and handlers each load the
live snapshot from an `ArcSwap` that the SIGHUP watcher replaces. Requests share the
breaker map, the limiter's registries, the in-flight counter and the snapshot.

**Hard behaviours.** Requests run on concurrent tasks and interleave between any two
accesses to shared maps; the breaker reads the clock before it takes the entry's
lock, so an old sample is applied to a newer entry; a request may be dropped at its
await by the timeout, a gone client or a panic, its `Drop` guards being the only
cleanup; evictions and registry admissions are sequences of separate calls; a reload
falls between two loads of one request; upstreams redirect in cycles or never answer;
connections outlive the lookup, the request and the configuration they were opened for;
client and upstream choose headers that meet the proxy's own.

## 2. Modules

| Module | Models | Uses |
|---|---|---|
| `CircuitBreaker` | the breaker and its hops | |
| `Upstream` | `execute`, redirects, target policy | composes `CircuitBreaker` (each request is one of its hops) |
| `LoadShed` | the in-flight counter | |
| `RateLimiter` | `check` and `admit_key` | |
| `HotReload` | snapshots and `reload` | |
| `RequestPipeline` | layers and proxy handler | composes `LoadShed` (each request is one of its tasks) and `HotReload` |
| `ResponseBody` | `CountingBody` and `LimitingBody` around streamed answers | |
| `Shutdown` | start, signal, drain and end of the process, its connections | composes `ResponseBody` (each connection has at most one) |
| `HeaderMap` | `http::HeaderMap` as it is used | |
| `CorsPolicy`, `Forwarding` | the header functions of `cors.rs`, `headers.rs`, `forwarded.rs`, `outbound.rs` | `HeaderMap` |
| `SsrfGuard`, `TargetUrl`, `Validation`, `ErrorKind` | the decisions of the files of that name | |
| `Exchange` | what passes between client, proxy and upstream: headers, statuses, connections | all of these, composed with `HotReload` |
| `MC*` | the constants of the runs | the module of that name |
| `*Proofs` | theorems | the module of that name |

Definitions named as mutants in `PROJECT.json` stand right before the definition
they distort, are marked as such, and are used by nothing else.

**CircuitBreaker.** `hosts[h]` is the map entry of `h` (`absent` when there is none);
a hop's `pc` says where it is in `check`, in flight, in `record_failure` or in
`evict_if_needed`. One step is one access under a shard lock, one clock reading
(`Admit`, `Failure` sample `at`), one reading of the map's length (`EvictMeasure`) or
one sweep. `Failure` also stands for the drop of an unsettled `CircuitHop`. Failures are
a set of stamped pairs, since the code uses the vector's length and each stamp only. The
clock moves with `Tick` up to `MaxTime`. `touched`, `role`, `log` and `rescued` are
history. `DurationSince` is saturating, as `Instant::duration_since` is.

**Upstream.** A task is `idle`, at the head of the `loop`, or awaiting a `hop`. A URI is
a scheme and an authority as spelled, with its folded form and host as constants; a
request carries credentials, a Host header, a Content-Length and a body or not.
A `Location` has a form: malformed, relative, relative with a URL inside its query
(`embedded`), absolute. What happens between two accesses to the breaker is one step.

**LoadShed.** `Enter` is the `fetch_add` with the test of the value it returned, `Shed`
the `fetch_sub` of a refused request, `Leave` the drop of the permit on any way out.

**RateLimiter.** The calls of `admit_key` (`contains_key`, `len`, `insert`, `len`,
`remove`) are separate steps. Governor's verdict is any verdict; `store[d]` is the
set of keys it holds buckets for.

**HotReload.** `snapshots` is the sequence of all snapshots stored; the last is live.
A component with memory is named by the snapshot it was built for, so "retained" is
an equality of numbers. A configuration is a record of the sections the comparisons
look at: `server` with the three fields that are compared and one that stands for those that
are not, `limits` with those of the five compared fields an instance needs, the redirect
and connect settings of that section in `client`. The watcher is the only writer, so a reload is one step, taken at its store;
one that fails to load, changes an immutable field or does not compile changes nothing.

**RequestPipeline.** A request is `idle`, `arrived`, `entered` (load_shed), `admitted`
(auth), `served`, `upstream` or `answered`. `view[r]` records which snapshot each part
loaded. `Auth`, `Serve`, `Execute`, `UpstreamReturns` each load the live snapshot;
`Timeout`, `Disconnect` come only at the one await, `Panic` anywhere inside
CatchPanic. `CheckOrigin` is `OriginPolicy::evaluate`; the other guards are the sets of
tokens and targets they let through. A
refusal by the rate limiter, the breaker or URI building is left open (any verdict):
`RateLimiter` and `Upstream` model when they happen.

**ResponseBody.** One step is one `poll_frame` with something ready. `received` is what
`CountingBody` counts, `seen` what `LimitingBody` has charged (saturating at
`MaxU64`), `delivered` what reached the client. `MaxBytes` bounds a body.

**Shutdown.** `process` follows `main` and `run` (with TLS the signal task exists before
the address is bound: `binding`), `watch` the task that waits for the signal, sets the
flag and notifies the server. Time is counted in ticks of the grace period; it starts
with the notification in clear, in `axum_server` when it stops listening. A connection is
`idle`, `handling` (`RequestPipeline`) or `streaming` (`ResponseBody`); it may be kept
alive or not after an answer. `cut` records the connections the end of the process dropped.

**HeaderMap and the pure modules.** A header map holds the lines of each name, a line the
tokens between its commas; `Unreadable` is a line that `to_str` refuses. So "only the first
line is read", "insert replaces all lines" and "an unreadable line is skipped" are what the
operators do. An address is a family, a zone (in `PRIVATE_RANGES`, otherwise blocked by
default, public) and a number; a text in a request is what the URL parser looks at.
`Validation` gives the set of errors of a configuration, and `Load` is what it lets through.

**Exchange.** The same handler as `RequestPipeline`, seen from the wire. A request is
`arrived`, `served`, at the head of a `hop`, `sent`, `answered`, `stamped`. `Execute` computes
the outbound headers as `execute_proxy` does; a hop either takes a kept connection of its
client (`Reuse`, no lookup) or a new one (`Connect`): for a name, to one of the addresses
the guard admits from any answer of the resolver; for an address literal (`Literal` says which
host spells which address), to that address, since `HttpConnector` resolves names only; `Redirect` carries the headers over as `prepare_next` does;
`UpstreamAnswers` is `shape_response`; `Stamp` is `cors_layer`, outside timeout and panic.
`HotReload` runs underneath with `Load(Files)` for its configurations, so what is live has
been validated. Whether a guard, the limiter or the breaker refuses is left open, since
`RequestPipeline`, `RateLimiter` and `Upstream` model it. `view` and `relayed` are history.

## 3. Runs

All passing runs but `shutdown`, whose process ends, check deadlock as well.

| Run | Instance | Shows |
|---|---|---|
| `circuit` | 2 hosts, 2 hops, a map of 1 entry, budget 1, open for 2, clock to 4 | `TypeOK`; `ProtectionKept`: no eviction, however stale its measure, drops a protected host; `CapExceededByProtectionOnly`; `WindowBudget`, `NoLockout`, `TripJustified` across two windows |
| `load_shed` | 5 tasks, caps 0 to 3 | `CapHolds`, `CounterExact` |
| `rate` | 3 keys, 2 requests, 2 dimensions, 1 key per registry, every combination of switches | `TypeOK`, `NoUnmeteredPass`, `RegistryCapped`, `NoGhostKeys` |
| `upstream_chain` | 1 request with credentials, and a length exactly if it has a body (`MCIncoming`: what can be lost on the way), 3 spellings of 2 hosts, 9 configurations, chains of 3 hops, clock to 1 | `CredentialsConfined`, `NoDowngrade`, `RedirectBudget`, `HopsWithinPolicy`, `NoEmptyReplay`, `OnlyFaultyHostsTrip`, `RequestsEnd`, `TypeOK`; `UsesBreaker`: the composition implements `CircuitBreaker` |
| `pipeline` | 2 requests of 6 kinds, caps 0 and 1, 6 configurations, 2 reloads | `DispatchAdmitted`, `SnapshotCoherent`, `StateRetained`, `InflightBounded`, `UsesLoadShed` (implements `LoadShed`), `RequestsAnswered`, `TypeOK` |
| `shutdown` | 2 connections, a grace period of 2 ticks, frames of 1 and 2 bytes, no limit, a limit of 2 and the greatest | `ReadyFirst`, `GraceHonoured`, `ShutdownEnds`, `LimitHeld`, `NoQuietTruncation` |
| `exchange` | 1 task serving requests one after another, 17 kinds of request, 4 URIs on 2 names and a literal, 3 addresses, 3 kinds of answer, 6 configurations (and 11 that are refused), 2 reloads, 1 kept connection | `ConnectionsVetted`, `UpstreamSeesClient`, `HopHeadersConfined`, `CredentialsOnlyForListed`, `AnswersReadable`, `TargetAdmittedBeforeBlame`, `TypeOK` |
| `rate_store`, `upstream_relative`, `pipeline_snapshot`, `exchange_literal`, `exchange_lines` | as small as the disagreement needs | fail, see section 4 |

**Why the bounds are enough.** Every race in the code is between two tasks at a time
over one entry, one registry or one counter; two or three tasks, one place fewer than
there are claimants, and one clock unit more than the longest duration reach each of
them. Three hops are a chain that leaves its authority and comes back. Two reloads
retain a component twice and may change a section and change it back. Requests of
`Exchange` share nothing but the kept connections and the snapshot, so one task that serves
one request after another meets every connection and every reload another task could have
left it; the theorems cover any number. Between them the configurations take every
setting that the code tells apart, and the requests and answers cover each case the header functions tell apart (absent, one
line, several, unreadable). Every
property of a passing run has a mutant (a dropped guard, an off-by-one, a missing
reset) that makes the same run fail.
Runs without liveness use the symmetry of their interchangeable tasks and keys.

**Fairness.** `RequestsEnd` assumes weak fairness of a request's own steps once it is
started (`Proceed`): the runtime polls every task, and the answer it waits for is
bounded by `request_timeout`, which drops the hop. `RequestsAnswered` assumes weak
fairness of the local steps of the chain and of the timeout; that an upstream ever
answers, a client leaves or a reload happens is not assumed. `ShutdownEnds` assumes weak
fairness of the steps of `main`, signal task, server and grace timer together; upstreams
may stall and clients may stay for ever. The safety runs assume nothing.

## 4. Where documentation and code part

Each is a run that TLC refutes with a counterexample.

* `rate_store`: `admit_key` takes its own key out again although another request
  with the same key has found it there; that request's bucket is counted by no registry, so
  buckets exceed `max_keys`.
* `upstream_relative`: a relative `Location` with `://` in its query is taken for absolute
  and refused.
* `pipeline_snapshot`: a request loads the snapshot up to five times, not once. It
  is benign for what may be sent where: `DispatchAdmitted` holds because the client of
  the snapshot in use checks the target again.
* `exchange_literal`: the guard is the resolver of the connector, and the connector asks its
  resolver about names only. A target such as `http://10.0.0.1/` is connected to unchecked:
  `Upstream::guard()` has no caller in the handlers. `docs/security.md:72` says the guard is
  "impossible to bypass by aiming the proxy at an IP literal", `ssrf.rs:18` that the connector
  "never sees a hostname", `upstream.rs:217` that handlers check literals. The repository's
  own test of the block (`tests/integration_proxy.rs`) uses a name, not a literal.
* `exchange_lines`: of several `Connection` lines the filter reads the first; what the others
  name is forwarded, although `headers.rs:71` says that all of it is stripped.

Seen while modelling, without a run of their own:

* a redirected request has an empty body under the original Content-Length
  (`upstream.rs:271` calls the empty body suitable for it); `Upstream` keeps the flag `length`,
  and `RedirectFindingsConfined` says when it can happen;
* the CORS policy inserts headers where it has a value and removes none, so the upstream's own
  pass where it has none, where `proxy/cors.rs:10` says they are replaced; `CorsConfined` says
  which get through;
* a hop admitted before the trip that succeeds after it closes the breaker at once;
  `open_duration` (`config/circuit.rs:25`) is documented as how long it stays open;
* a signal handler that cannot be installed ends `wait_os_signal` like a signal: corx
  drains and exits with success, where the documentation of `run` (`shutdown.rs:24`)
  promises an error;
* the listener is told to close right after the flag is set, so a balancer that opens a
  connection for its probe is refused rather than told 503;
* a probe slower than `open_duration` is still in flight when the renewed window admits
  more, so more than `half_open_max` may run at once (`WindowBudget` is per window);
* the breaker is keyed by the host as the `Location` spells it, so each spelling has an
  entry of its own, while policy and redirect code ignore case;
* load shedding counts a request before it is refused, so a request may be shed with a
  slot free; and it wraps `/livez` like any route;
* auth skips every OPTIONS request, preflight or not (`DispatchAdmitted` says so);
* `/?url=...` (in the usage text, `url_parser.rs:8`) is routed to the usage page, whatever
  the query (`Exchange.Usage`);
* a target in the path whose own query has a `url` parameter is sent to that parameter's
  target instead, since the parameter wins (`TargetUrl.Candidate`);
* a target without a scheme and with `://` later on is refused (`TargetUrl.Normalizable`);
* refusals by the SSRF guard and failed lookups happen inside the connector and come out as
  `upstream_unreachable`, 502 (`upstream.rs:169`), and count as failures of the host, where
  `upstream.rs:146` promises their own variants and `error.rs:79` has a 403 for `SsrfBlocked`.
  So policy refusals are blamed on the upstream here; `TargetAdmittedBeforeBlame` is about
  those of the target policy only;
* with `allow_private = false` the permissive mode refuses exactly the private ranges that
  `config/ssrf.rs:24` says it admits, and admits reserved ones; it ignores `extra_blocked_cidrs`;
* `append_vary` drops all `Vary` lines but the first, or adds nothing when that is unreadable;
* `inject` is called idempotent (`forwarded.rs:53`); with `trust_inbound_xff` a second call
  would append the client again;
* `config/cors.rs:46` says that `x-corx-status` and `x-request-id` are always exposed; an
  empty list exposes nothing;
* `middleware/cors.rs:11` says that stamping a preflight overwrites with the same values; a
  reload in between makes it another policy's (`CredentialsOnlyForListed` allows for it);
* a configuration that fails validation is counted as `error`, where the head of
  `hot_reload.rs` says `rejected`;
* `server` fields other than bind, http2 and tls, such as `graceful_shutdown`, may change in
  the file; a reload accepts them and they have no effect (`hot_reload.rs:67-105`), so the live
  configuration and the running process part, where `docs/architecture.md:78` and
  `state.rs:155` say that `immutable_server` is compared and mismatches are rejected.
  `HotReload.AssertImmutable` compares what the code compares.

## 5. Proofs

| Module | Theorems |
|---|---|
| `CircuitBreakerProofs` | `TypeCorrect`, `NeverLockedOut` (NoLockout), `ProtectionSurvives` (ProtectionKept), `BudgetKept` (WindowBudget), `TripsJustified` (TripJustified), `CapHeld` (CapExceededByProtectionOnly), `DoorShut`, `HopsEnd` |
| `UpstreamProofs` | `TypeCorrect`, `CredentialsStay`, `DowngradeRefused`, `BudgetRespected`, `PolicyOnEveryHop`, `ReplayRefused`, `BreakerUsedCorrectly` (implements CircuitBreaker), `OnlyFailuresCount` (OnlyFaultyHostsTrip), `HopsGuarded` (the breaker's, for the hops of the loop), `RequestsTerminate`, `RedirectFindingsConfined` |
| `LoadShedProofs` | `CapCorrect`, `CounterCorrect`, `ShedWithCause` |
| `RateLimiterProofs` | `TypeCorrect`, `RegistryCap`, `NothingLeftBehind` (NoGhostKeys), `EveryDimensionMeters` (NoUnmeteredPass), `ChecksEnd`, `CapNeedsOverlap` |
| `HotReloadProofs` | `Coherence`, `Retention` |
| `ShutdownProofs` | `TypeCorrect`, `UnreadyBeforeClosing` (ReadyFirst), `GraceKept` (GraceHonoured), `LimitKept` (LimitHeld), `Whole` (NoQuietTruncation), `BodiesUsedCorrectly` (implements ResponseBody), `ShutdownBounded` |
| `RequestPipelineProofs` | `TypeCorrect`, `AdmittedDispatch`, `SlotsUsedCorrectly` (implements LoadShed), `ReloadUsedCorrectly` (implements HotReload), `CoherentThroughout`, `RetainedThroughout`, `InflightCap` (InflightBounded), `PipelineEnds`, `NeverOlder`, `OneSnapshotBetween` |
| `ExchangeProofs` | `TypeCorrect`, `AddressesVetted` (ConnectionsVetted), `ClientTold` (UpstreamSeesClient), `CredentialsConfined` (CredentialsOnlyForListed), `BlameDeserved` (TargetAdmittedBeforeBlame), `HeadersConfined` (HopHeadersConfined), `EveryAnswerReadable` (AnswersReadable), `CorsConfined`, `StampIdempotent`, `PreflightUnharmed` |

They hold for any number of hosts, hops, requests, keys, configurations, reloads and connections,
from the named assumptions of the modules: limits of at least 1 where `from_config`
raises them (`CircuitAssumption`, `RateAssumption`, and `BreakerAssumption`, which repeats the
first for the breaker inside `Upstream`), finite sets of tasks, hosts and
keys, case folding idempotent (`UpstreamAssumption`), header maps without empty lists of
lines (`ExchangeAssumption`).

The arguments:

* **Breaker.** `ClockInv` says that no clock sample is ahead of the clock (what a sweep
  finds expired is expired, which is `ProtectionKept`) and that each entry's deadline is
  dated by `touched`, its last trip or window (`NoLockout`). `WindowBudget` is inductive
  with `RoleInv`: a hop has no role before it is admitted, or an `Admit` could bring an
  old probe to a new host. `TripJustified` compares what an entry counts with the history
  of its host: both number the failures of one stamp from 1 (`Numbered`), so that the first
  is a subset of the second (`Logged`) through pushes, pruning and clearing. The soft cap
  rests on `CapInv`: while the map is over the cap and holds an entry that eviction may
  take, some hop has its last sweep before it, with an excess that is not outdated; such an
  entry does not outlive the last eviction.
* **Upstream.** A step starts, dispatches, continues, returns or leaves the request alone
  (`StepShapes`). `LoopInv` joins the properties, since each hop's case needs the others,
  and counts: requests sent equal redirects followed, plus one while a hop is awaited.
  That the composition implements the breaker is a step-by-step refinement. `BlameInv` adds
  what joins loop and breaker: a failure about to be recorded is against a host that was
  blamed, and during a hop the breaker has the task under the host it is sent to.
* **LoadShed.** The cap is not inductive by itself: that a `fetch_add` returning less
  than the cap leaves a slot free rests on the counter being exact.
* **RateLimiter.** The keys outside re-examination grow in no step but the one in which a
  request finds the registry within its cap (`SettledKeys`), so the cap is inductive.
  `NoGhostKeys` is inductive as it stands: the request that answers for a key moves on with
  it (`GhostStep`). `NoUnmeteredPass` is strengthened to `Behind`: every dimension before the
  one a request is in has a bucket for its key.
* **HotReload.** `SnapshotCoherent` and `StateRetained` are inductive as they stand, and so
  is `ComparedKept`, which says of the compared fields that every snapshot has those of
  startup; the new snapshot is compared with the one before it, which already agrees
  with all earlier ones. The pipeline implements `HotReload` step by step, so they carry over.
* **RequestPipeline.** `DispatchAdmitted` is strengthened to what holds past each layer
  (`PastAuth`, `PastServe`, `Sent`) and uses the coherence proved in `HotReloadProofs`:
  the client a snapshot retains, however old, checks targets by that snapshot's section.

* **Shutdown.** `WatchInv` orders flag, notification and listener. `BodyInv` says that an open
  body has handed on all it received and charged it exactly up to `u64::MAX`: a frame that
  is let through then proves that the whole delivery is within the limit.

* **Exchange.** It implements `HotReload`, so the snapshots are coherent and every
  configuration in them is valid. On top of that each request is `Sound`: well typed, its
  target passed the policy it was executed under (`Dispatched`), its address is one its
  configuration admits unless its host is a literal (`Vetted`), its headers tell the client and the hop's authority
  (`Sees`), what its answer grants is listed (`Granted`), and its status is deserved
  (`Blamed`). A kept connection was vetted by the client's configuration (`PoolVetted`);
  that this is also the request's own is the coherence of the snapshots. One lemma per action.
  For the headers each request is also `Polite`: on a hop, a barred name holds what the proxy
  itself would have sent (`Confined`, from `OutboundIndependent`: what is forwarded does not
  depend on the client's headers of that name), an answer of the upstream is shaped once
  (`Cleaned`), and every answer brings to the stamp, or has after it, the Vary it owes (`Varies`).

### What liveness rests on

That a request ends, a check is answered or the process stops is liveness, and fairness is
out of the prover's reach: `RequestsEnd`, `RequestsAnswered` and `ShutdownEnds` are checked by
TLC only. Their safety part is proved for every size: no loop of retries hides in the code,
and nobody can make somebody else start again. Each theorem gives a number that every own step
makes smaller and no other step changes.

| Theorem | The number | Its bound |
|---|---|---|
| `HopsEnd` | `HopLeft`: steps of check, record and three eviction stages to come | 21 |
| `RequestsTerminate` | `StepsLeft`: redirects left, the phase, and `HopLeft` of the hop | 43 + 23 * `max_redirects` |
| `ChecksEnd` | `CheckLeft`: dimensions left and calls left in this one | 6 * `Dims` + 6 |
| `PipelineEnds` | `StepsLeft`: the phases ahead, whatever way out is taken | 6 |
| `ShutdownBounded` | `LifecycleLeft`: startup, signal, listener and grace ticks | `Grace` + 8 |

What remains for fairness is that a task with a step to take is polled, and that the upstream,
or the timeout, ends an await.

### How far the findings reach

For each run that is refuted, and for two of the other disagreements, a theorem says what still holds:

* `CapNeedsOverlap` (`rate_store`): as long as no two requests of one key are between
  `contains_key` and `check_key` at once, the buckets stay within `max_keys`.
* `RedirectFindingsConfined` (`upstream_relative`, and the length left behind): a `Location` is refused as
  invalid only if it is malformed, contains `://` or leads where the client may not go; a length
  without a body goes out only with the GET of a later hop, never with the caller's own request.
* `OneSnapshotBetween` (`pipeline_snapshot`): with every reload between two requests each request
  goes by one snapshot. In general `NeverOlder` holds: no part of the way uses an older
  snapshot than a part before it, so what a reload forbids is forbidden by all that load later.
* `AddressesVetted` (`exchange_literal`): a request to a host that is a name travels only to an
  address its own configuration admits, so literals are the only way past the guard.
* `HeadersConfined` (`exchange_lines`): what the first `Connection` line, the hop-by-hop list or
  a deny list names is confined, so names on further lines are the only ones that travel on.
* `CorsConfined` (the upstream's CORS headers): a CORS header the stamping policy has a value for is the
  policy's, on every path. Any other is the upstream's own or that of the policy the preflight
  was answered under.

`StampIdempotent` and `PreflightUnharmed` prove the sentence of `middleware/cors.rs:11` for one
policy: stamping twice is stamping once, and a preflight keeps its headers, but
`Access-Control-Expose-Headers` is added, which `build_preflight_response` does not write.
`Stamped` is what makes it inductive over the writes: a map that says what the policy
says goes on saying so when another name is inserted or `Vary` is extended.

### How components carry over

`HopsGuarded`, `InflightCap` and `CoherentThroughout` are not proved anew: the composition implements the
component (`BreakerUsedCorrectly`, `SlotsUsedCorrectly`, `ReloadUsedCorrectly`), and the theorem of the
component's own module is instantiated. `InflightCap` adds what joins them: a request past the
layers holds a permit if there is a cap, and the cap is the one every stored configuration
names (`CapKept`, from `ComparedKept` of `HotReload`). `ShedWithCause` is the other side of the cap: it is the exact counter that makes a
`fetch_add` at or past the cap mean that many others.

Every safety property of the passing runs is proved.

## 6. Plan

1. *Done*: breaker, upstream and redirects, load shedding, rate limiter, hot reload,
   request pipeline, shutdown and streamed bodies; the exchange of headers, statuses and
   connections with CORS, forwarding, SSRF, target parsing, validation and errors; type and
   main safety theorems of each.
2. *Done*: the safety part of the liveness properties, the extent of every finding, the
   components' theorems carried over to their compositions.
3. *Left*: `RequestPipeline` with `RateLimiter` and `Upstream` put in for their verdicts, on
   one request; request bodies and their limit.

## 7. Not modelled

* The inside of DNS lookups, TLS handshakes and hyper's pool: any answer, any kept
  connection that the code's settings allow.
* The spelling of address literals: `Literal` maps such a host to its address. That the connector
  takes a literal without asking its resolver is the behaviour of the hyper-util crate, which
  is not part of the repository.
* Character-level work: percent decoding, IDNA, header syntax, prefix arithmetic on addresses.
  The models take its result as a constant or a class.
* Parsing and layering of configuration files, defaults, warnings of the validation.
* Request bodies and their limit; the access log; metrics, tracing, the command line: no
  decision of the proxy reads them.
* Memory orderings weaker than sequential consistency: each atomic is used alone.
