------------------------------ MODULE Shutdown ------------------------------
(***************************************************************************)
(* The life of a corx process (corx-cli main.rs, corx-server shutdown.rs   *)
(* and tls.rs): it starts, listens in clear or with TLS, and on SIGINT or  *)
(* SIGTERM turns unready, stops listening and waits for its connections,   *)
(* at most graceful_shutdown long.                                         *)
(*                                                                         *)
(* Connections are served by tasks of their own; what they stream is       *)
(* ResponseBody.  axum::serve and axum_server are external: they accept    *)
(* until notified, drop the listener and return when the last connection   *)
(* has ended.                                                              *)
(***************************************************************************)
EXTENDS Integers

CONSTANTS
  Conn,        \* connections a client may open
  Grace,       \* server.graceful_shutdown, in ticks
  BodyLimits, FrameSizes, MaxU64, MaxBytes   \* ResponseBody's

ASSUME ShutdownAssumption ==
  /\ Grace \in Nat /\ MaxU64 \in Nat /\ MaxBytes \in Nat
  /\ BodyLimits \subseteq 0..MaxU64
  /\ FrameSizes \subseteq Nat

VARIABLES
  tls,         \* server.tls is configured
  process,     \* how far main has come, and how it ended
  ready,       \* the flag /readyz reports
  watch,       \* how far the task that waits for the signal has come
  listening,
  conn,        \* what each connection does
  waited,      \* ticks of the grace period that have passed
  cut,         \* history: connections the end of the process cut off
  max_bytes, status, seen, received, delivered   \* ResponseBody's

body == <<max_bytes, status, seen, received, delivered>>
server == <<tls, process, ready, watch, listening, waited, cut>>
vars == <<server, conn, body>>

Bodies == INSTANCE ResponseBody WITH Stream <- Conn

Exits == {"failed", "drained", "aborted"}

TypeOK ==
  /\ tls \in BOOLEAN /\ ready \in BOOLEAN /\ listening \in BOOLEAN
  /\ process \in {"starting", "assembled", "binding", "serving"} \cup Exits
  /\ watch \in {"waiting", "signalled", "flagged", "notified"}
  /\ conn \in [Conn -> {"none", "idle", "handling", "streaming"}]
  /\ waited \in 0..Grace
  /\ cut \in SUBSET Conn
  /\ Bodies!TypeOK
  /\ \A c \in Conn : conn[c] = "streaming" <=> status[c] = "open"
  /\ process # "serving" => ~listening /\ \A c \in Conn : conn[c] = "none"

Init ==
  /\ tls \in BOOLEAN
  /\ process = "starting"
  /\ ready = TRUE
  /\ watch = "waiting"
  /\ listening = FALSE
  /\ conn = [c \in Conn |-> "none"]
  /\ waited = 0
  /\ cut = {}
  /\ Bodies!Init
-----------------------------------------------------------------------------
(* Starting                                                                *)

Step(from, to) ==
  /\ process = from
  /\ \/ process' = "failed" /\ UNCHANGED listening
     \/ process' = to /\ listening' = (to = "serving")
  /\ UNCHANGED <<tls, ready, watch, waited, cut, conn, body>>

(* main: configuration, tracing, metrics, ServerBuild.                     *)
Assemble == Step("starting", "assembled")

(* run_plain binds the address, then serves and watches for the signal.    *)
BindPlain == ~tls /\ Step("assembled", "serving")

(* run_tls reads certificates and key (and always fails in a build without *)
(* the feature); the signal task is spawned...                             *)
LoadTls == tls /\ Step("assembled", "binding")

(* ...before the address is bound.                                         *)
BindTls == Step("binding", "serving")
-----------------------------------------------------------------------------
(* The signal                                                              *)

Watch(from, to) ==
  /\ process \in {"binding", "serving"}
  /\ watch = from
  /\ watch' = to
  /\ UNCHANGED <<tls, process, listening, waited, cut, conn, body>>

(* SIGINT, SIGTERM, or a handler that could not be installed.              *)
WaitOsSignal == Watch("waiting", "signalled") /\ UNCHANGED ready

(* Mutant of StoreReady: the TLS path waits for the bare signal.            *)
StoreReadyInClear == Watch("signalled", "flagged") /\ ready' = (tls /\ ready)

StoreReady == Watch("signalled", "flagged") /\ ready' = FALSE

(* shutdown_tx.send, or Handle::graceful_shutdown.                         *)
Notify == Watch("flagged", "notified") /\ UNCHANGED ready
-----------------------------------------------------------------------------
(* Draining                                                                *)

CloseListener ==
  /\ process = "serving" /\ listening
  /\ watch = "notified"
  /\ listening' = FALSE
  /\ UNCHANGED <<tls, process, ready, watch, waited, cut, conn, body>>

(* In clear the sleep begins with the notification, in axum_server once it *)
(* has stopped listening.                                                  *)
GraceRuns ==
  /\ process = "serving"
  /\ watch = "notified"
  /\ tls => ~listening

Tick ==
  /\ GraceRuns
  /\ waited < Grace
  /\ waited' = waited + 1
  /\ UNCHANGED <<tls, process, ready, watch, listening, cut, conn, body>>

Connected == {c \in Conn : conn[c] # "none"}

(* run returns, main returns, and the runtime drops the tasks that remain. *)
Exit(how) ==
  /\ process' = how
  /\ listening' = FALSE
  /\ cut' = Connected
  /\ conn' = [c \in Conn |-> "none"]
  /\ Bodies!Drop(Conn)
  /\ UNCHANGED <<tls, ready, watch, waited>>

(* Mutant of Drained: the end of the accept loop is taken for the end.      *)
DrainedTooSoon ==
  /\ process = "serving" /\ ~listening
  /\ Exit("drained")

Drained ==
  /\ process = "serving" /\ ~listening
  /\ Connected = {}
  /\ Exit("drained")

(* Mutant of Abort: the deadline waits for answers that have begun.         *)
AbortBetweenAnswers ==
  /\ GraceRuns
  /\ waited = Grace
  /\ \A c \in Conn : conn[c] # "streaming"
  /\ Exit("aborted")

Abort ==
  /\ GraceRuns
  /\ waited = Grace
  /\ Exit("aborted")
-----------------------------------------------------------------------------
(* Connections                                                             *)

Becomes(c, state) == conn' = [conn EXCEPT ![c] = state]

(* A connection is kept alive after an answer, or not.                     *)
After(c) == Becomes(c, "idle") \/ Becomes(c, "none")

Accept(c) ==
  /\ listening
  /\ conn[c] = "none"
  /\ Becomes(c, "idle")
  /\ UNCHANGED <<server, body>>

Request(c) ==
  /\ conn[c] = "idle"
  /\ Becomes(c, "handling")
  /\ UNCHANGED <<server, body>>

(* The pipeline (RequestPipeline) answers with a body of its own...        *)
Answer(c) ==
  /\ conn[c] = "handling"
  /\ After(c)
  /\ UNCHANGED <<server, body>>

(* ...or with the upstream's.  No timeout covers the rest of it.           *)
Stream(c) ==
  /\ conn[c] = "handling"
  /\ Becomes(c, "streaming")
  /\ Bodies!Open(c)
  /\ UNCHANGED server

Frame(c) ==
  /\ \E n \in FrameSizes :
       \/ Bodies!Pass(c, n) /\ UNCHANGED conn
       \/ Bodies!Exceed(c, n) /\ Becomes(c, "none")
  /\ UNCHANGED server

EndOfBody(c) ==
  /\ \/ Bodies!Close(c, "ended") /\ After(c)
     \/ Bodies!Close(c, "failed") /\ Becomes(c, "none")
  /\ UNCHANGED server

(* The client leaves, or an idle connection is closed.                     *)
Hangup(c) ==
  /\ conn[c] # "none"
  /\ Becomes(c, "none")
  /\ Bodies!Drop({c})
  /\ UNCHANGED server
-----------------------------------------------------------------------------
(* What signal task, server and timer do by themselves.                    *)
Lifecycle ==
  \/ Assemble
  \/ BindPlain
  \/ LoadTls
  \/ BindTls
  \/ StoreReady
  \/ Notify
  \/ CloseListener
  \/ Tick
  \/ Drained
  \/ Abort

Connection(c) ==
  \/ Accept(c)
  \/ Request(c)
  \/ Answer(c)
  \/ Stream(c)
  \/ Frame(c)
  \/ EndOfBody(c)
  \/ Hangup(c)

Next == Lifecycle \/ WaitOsSignal \/ \E c \in Conn : Connection(c)

Spec == Init /\ [][Next]_vars

(* The runtime polls its tasks and timers; clients, upstreams and signals  *)
(* owe nothing.                                                            *)
FairSpec == Spec /\ WF_vars(Lifecycle)
-----------------------------------------------------------------------------
(* Properties                                                              *)

(* "/readyz flips to 503 ... before the listener actually closes": whoever  *)
(* finds a serving or drained process no longer listening would have found  *)
(* it unready, in clear and with TLS.                                       *)
ReadyFirst ==
  process \in {"serving", "drained", "aborted"} /\ ~listening => ~ready

(* "drains in-flight connections within the configured grace period": no    *)
(* connection is cut off before the whole period has passed, and none by a  *)
(* shutdown that reports completion.                                        *)
GraceHonoured == cut # {} => process = "aborted" /\ waited = Grace

(* Once a signal has come the process ends, even if upstreams stall in the  *)
(* middle of a body and clients keep their connections open.                *)
ShutdownEnds == watch # "waiting" ~> process \in Exits

(* See ResponseBody.                                                        *)
LimitHeld == Bodies!LimitHeld
NoQuietTruncation == Bodies!NoQuietTruncation
=============================================================================
