--------------------------- MODULE ShutdownProofs ---------------------------
(***************************************************************************)
(* Shutdown and streamed bodies for any number of connections, any grace   *)
(* period, any limit and frames of any size.                               *)
(***************************************************************************)
EXTENDS Shutdown, TLAPS

(* The flag falls before the notification, the notification comes before   *)
(* the listener closes.                                                    *)
WatchInv ==
  /\ watch \in {"flagged", "notified"} => ~ready
  /\ process \in {"serving", "drained", "aborted"} /\ ~listening => watch = "notified"

(* While a body is open everything received has been handed on and has     *)
(* been charged, up to what a u64 can hold.                                *)
BodyInv ==
  \A c \in Conn :
    /\ status[c] \in {"open", "ended"} => delivered[c] = received[c]
    /\ status[c] = "open" => seen[c] = IF received[c] > MaxU64 THEN MaxU64 ELSE received[c]

Inv == TypeOK /\ WatchInv /\ GraceHonoured /\ BodyInv /\ LimitHeld

LEMMA InitInv == Init => Inv
<1> SUFFICES ASSUME Init PROVE Inv
  OBVIOUS
<1>1. Bodies!TypeOK
  BY ShutdownAssumption DEF Init, Bodies!Init, Bodies!TypeOK, Bodies!Statuses
<1>2. TypeOK
  <2>1. tls \in BOOLEAN /\ ready \in BOOLEAN /\ listening \in BOOLEAN
    BY Zenon DEF Init
  <2>2. ~listening /\ waited \in 0..Grace
    BY ShutdownAssumption DEF Init
  <2> QED
    BY <1>1, <2>1, <2>2 DEF Init, TypeOK, Bodies!Init
<1>3. BodyInv /\ LimitHeld
  BY ShutdownAssumption DEF Init, BodyInv, LimitHeld, Bodies!Init, Bodies!LimitHeld
<1>4. WatchInv /\ GraceHonoured
  BY DEF Init, WatchInv, GraceHonoured
<1> QED
  BY <1>2, <1>3, <1>4 DEF Inv

(* A step of the signal task, of the listener or of the timer.             *)
LEMMA ServerStep ==
  ASSUME Inv, UNCHANGED <<conn, body>>,
         \/ Assemble \/ BindPlain \/ LoadTls \/ BindTls
         \/ WaitOsSignal \/ StoreReady \/ Notify \/ CloseListener \/ Tick
  PROVE  Inv'
<1>1. /\ BodyInv' /\ LimitHeld' /\ Bodies!TypeOK'
  BY DEF Inv, TypeOK, body, BodyInv, LimitHeld, Bodies!LimitHeld, Bodies!TypeOK
<1>2. TypeOK' /\ WatchInv' /\ GraceHonoured'
  <2>1. CASE Assemble \/ BindPlain \/ LoadTls \/ BindTls
    <3>1. PICK from, to \in {"starting", "assembled", "binding", "serving"} :
            Step(from, to) /\ from # "serving" /\ to # "starting"
      BY <2>1 DEF Assemble, BindPlain, LoadTls, BindTls
    <3>2. listening' \in BOOLEAN /\ ready' \in BOOLEAN /\ tls' \in BOOLEAN
      BY <3>1, Zenon DEF Inv, TypeOK, Step
    <3>3. \/ process' \in {"failed", "assembled", "binding"} /\ ~listening'
          \/ process' = "serving" /\ listening'
      BY <3>1 DEF Inv, TypeOK, Step
    <3> QED
      BY <1>1, <3>1, <3>2, <3>3 DEF Inv, TypeOK, WatchInv, GraceHonoured, Exits, Step, body
  <2>3. CASE WaitOsSignal
    BY <1>1, <2>3 DEF Inv, TypeOK, WatchInv, GraceHonoured, Exits, WaitOsSignal, Watch, body
  <2>4. CASE StoreReady
    BY <1>1, <2>4 DEF Inv, TypeOK, WatchInv, GraceHonoured, Exits, StoreReady, Watch, body
  <2>5. CASE Notify
    BY <1>1, <2>5 DEF Inv, TypeOK, WatchInv, GraceHonoured, Exits, Notify, Watch, body
  <2>6. CASE CloseListener
    BY <1>1, <2>6 DEF Inv, TypeOK, WatchInv, GraceHonoured, Exits, CloseListener, body
  <2>7. CASE Tick
    BY <1>1, <2>7, ShutdownAssumption
       DEF Inv, TypeOK, WatchInv, GraceHonoured, Exits, Tick, GraceRuns, body
  <2> QED
    BY <2>1, <2>3, <2>4, <2>5, <2>6, <2>7
<1> QED
  BY <1>1, <1>2 DEF Inv

(* Bodies that are dropped keep what is known of the others.               *)
LEMMA DropStep ==
  ASSUME Inv, NEW S \in SUBSET Conn, Bodies!Drop(S)
  PROVE  /\ Bodies!TypeOK' /\ BodyInv' /\ LimitHeld'
         /\ \A c \in Conn : status'[c] = "open" <=> status[c] = "open" /\ c \notin S
<1>1. status \in [Conn -> Bodies!Statuses]
  BY DEF Inv, TypeOK, Bodies!TypeOK
<1>2. /\ status' \in [Conn -> Bodies!Statuses]
      /\ \A c \in Conn : status'[c] = IF c \in S /\ status[c] = "open" THEN "dropped" ELSE status[c]
  BY <1>1 DEF Bodies!Drop, Bodies!Statuses
<1>3. Bodies!TypeOK'
  BY <1>2 DEF Inv, TypeOK, Bodies!TypeOK, Bodies!Drop
<1>4. BodyInv'
  BY <1>2 DEF Inv, BodyInv, Bodies!Drop
<1>5. LimitHeld'
  BY DEF Inv, LimitHeld, Bodies!LimitHeld, Bodies!Drop
<1> QED
  BY <1>2, <1>3, <1>4, <1>5

(* The end of the process, whichever way.                                  *)
LEMMA ExitStep ==
  ASSUME Inv, Drained \/ Abort
  PROVE  Inv'
<1>1. Exit(process') /\ process' \in {"drained", "aborted"} /\ process = "serving"
  BY DEF Drained, Abort, Exit, GraceRuns
<1>2. /\ Bodies!TypeOK' /\ BodyInv' /\ LimitHeld'
      /\ \A c \in Conn : status'[c] # "open"
  BY <1>1, DropStep DEF Exit
<1>3. watch = "notified"
  BY DEF Inv, WatchInv, Drained, Abort, GraceRuns
<1>4. TypeOK'
  BY <1>1, <1>2 DEF Inv, TypeOK, Exit, Connected, Exits
<1>5. WatchInv'
  BY <1>1, <1>3 DEF Inv, WatchInv, Exit
<1>6. GraceHonoured'
  BY <1>1 DEF GraceHonoured, Exit, Drained, Abort
<1> QED
  BY <1>2, <1>4, <1>5, <1>6 DEF Inv

(* What a step of one connection leaves alone.                             *)
LEMMA Elsewhere ==
  ASSUME Inv, UNCHANGED server
  PROVE  WatchInv' /\ GraceHonoured'
BY DEF Inv, WatchInv, GraceHonoured, server

(* A connection that is open belongs to a serving process.                 *)
LEMMA Serving ==
  ASSUME Inv, NEW c \in Conn, Connection(c)
  PROVE  process = "serving"
BY DEF Inv, TypeOK, Connection, Accept, Request, Answer, Stream, Frame, EndOfBody, Hangup,
       Bodies!Pass, Bodies!Exceed, Bodies!Take, Bodies!Close

(* Steps outside bodies.                                                   *)
LEMMA PlainStep ==
  ASSUME Inv, NEW c \in Conn, Connection(c), Accept(c) \/ Request(c) \/ Answer(c)
  PROVE  Inv'
<1>1. UNCHANGED server /\ UNCHANGED body
  BY DEF Accept, Request, Answer
<1>2. Bodies!TypeOK' /\ BodyInv' /\ LimitHeld'
  BY <1>1 DEF Inv, TypeOK, body, BodyInv, LimitHeld, Bodies!LimitHeld, Bodies!TypeOK
<1>3. /\ conn[c] # "streaming"
      /\ Becomes(c, "idle") \/ Becomes(c, "none") \/ Becomes(c, "handling")
  BY DEF Accept, Request, Answer, After
<1>4. TypeOK'
  BY <1>1, <1>2, <1>3, Serving DEF Inv, TypeOK, Becomes, server, body
<1> QED
  BY <1>1, <1>2, <1>4, Elsewhere DEF Inv

(* The answer of the upstream begins.                                      *)
LEMMA StreamStep ==
  ASSUME Inv, NEW c \in Conn, Connection(c), Stream(c)
  PROVE  Inv'
<1>1. Bodies!TypeOK'
  BY ShutdownAssumption DEF Inv, TypeOK, Stream, Bodies!Open, Bodies!TypeOK, Bodies!Statuses
<1>2. TypeOK'
  BY <1>1, Serving
     DEF Inv, TypeOK, Stream, Bodies!Open, Bodies!TypeOK, Bodies!Statuses, Becomes, server
<1>3. BodyInv'
  BY ShutdownAssumption DEF Inv, TypeOK, BodyInv, Stream, Bodies!Open, Bodies!TypeOK
<1>4. LimitHeld'
  BY ShutdownAssumption
     DEF Inv, TypeOK, LimitHeld, Stream, Bodies!LimitHeld, Bodies!Open, Bodies!TypeOK
<1> QED
  BY <1>2, <1>3, <1>4, Elsewhere DEF Inv, Stream

(* A frame: within the limit the count is exact, so what is handed on is   *)
(* within it too.                                                          *)
LEMMA FrameStep ==
  ASSUME Inv, NEW c \in Conn, Connection(c), Frame(c)
  PROVE  Inv'
<1>1. PICK n \in FrameSizes :
        \/ Bodies!Pass(c, n) /\ UNCHANGED conn
        \/ Bodies!Exceed(c, n) /\ Becomes(c, "none")
  BY DEF Frame
<1>2. Bodies!Take(c, n)
  BY <1>1 DEF Bodies!Pass, Bodies!Exceed
<1> DEFINE total == seen[c] + n
           charged == IF total > MaxU64 THEN MaxU64 ELSE total
<1>3. /\ n \in Nat /\ MaxU64 \in Nat /\ max_bytes \in 0..MaxU64 /\ max_bytes' = max_bytes
      /\ seen[c] \in 0..MaxU64 /\ received[c] \in Nat /\ delivered[c] \in Nat
      /\ status[c] = "open" /\ conn[c] = "streaming"
  BY <1>2, ShutdownAssumption DEF Inv, TypeOK, Bodies!TypeOK, Bodies!Take
<1>4. /\ charged \in 0..MaxU64
      /\ seen' = [seen EXCEPT ![c] = charged]
      /\ received' = [received EXCEPT ![c] = @ + n]
      /\ seen'[c] = charged /\ received'[c] = received[c] + n
  BY <1>2, <1>3 DEF Inv, TypeOK, Bodies!TypeOK, Bodies!Take, Bodies!SaturatingAdd
<1>5. /\ received[c] = delivered[c]
      /\ seen[c] = IF received[c] > MaxU64 THEN MaxU64 ELSE received[c]
  BY <1>3 DEF Inv, BodyInv
<1>6. charged = IF received[c] + n > MaxU64 THEN MaxU64 ELSE received[c] + n
  BY <1>3, <1>5
<1>7. CASE Bodies!Pass(c, n) /\ UNCHANGED conn
  <2>1. /\ delivered' = [delivered EXCEPT ![c] = @ + n] /\ UNCHANGED status
        /\ delivered'[c] = delivered[c] + n
    BY <1>7, <1>3 DEF Bodies!Pass, Inv, TypeOK, Bodies!TypeOK
  <2>2. Bodies!TypeOK'
    BY <1>3, <1>4, <2>1 DEF Inv, TypeOK, Bodies!TypeOK
  <2>3. TypeOK'
    BY <1>7, <2>1, <2>2 DEF Inv, TypeOK, Frame, server
  <2>4. BodyInv'
    BY <1>3, <1>4, <1>5, <1>6, <2>1 DEF Inv, TypeOK, Bodies!TypeOK, BodyInv
  <2>5. ASSUME 0 < max_bytes, max_bytes < MaxU64
        PROVE  delivered'[c] <= max_bytes
    <3>1. ~(charged > max_bytes)
      BY <1>7, <1>4, <1>3, <2>5 DEF Bodies!Pass, Bodies!OverBudget
    <3> QED
      BY <3>1, <1>3, <1>5, <1>6, <2>1, <2>5
  <2>6. LimitHeld'
    BY <1>3, <2>1, <2>5 DEF Inv, LimitHeld, Bodies!LimitHeld, TypeOK, Bodies!TypeOK
  <2> QED
    BY <2>3, <2>4, <2>6, Elsewhere DEF Inv, Frame
<1>8. CASE Bodies!Exceed(c, n) /\ Becomes(c, "none")
  <2>1. UNCHANGED delivered /\ status' = [status EXCEPT ![c] = "failed"]
    BY <1>8 DEF Bodies!Exceed
  <2>2. Bodies!TypeOK'
    BY <1>3, <1>4, <2>1 DEF Inv, TypeOK, Bodies!TypeOK, Bodies!Statuses
  <2>3. TypeOK'
    BY <1>8, <2>1, <2>2, Serving DEF Inv, TypeOK, Bodies!TypeOK, Frame, server, Becomes
  <2>4. BodyInv'
    BY <1>4, <2>1 DEF Inv, TypeOK, Bodies!TypeOK, BodyInv
  <2>5. LimitHeld'
    BY <1>3, <2>1 DEF Inv, LimitHeld, Bodies!LimitHeld
  <2> QED
    BY <2>3, <2>4, <2>5, Elsewhere DEF Inv, Frame
<1> QED
  BY <1>1, <1>7, <1>8

(* The body ends.                                                          *)
LEMMA EndStep ==
  ASSUME Inv, NEW c \in Conn, Connection(c), EndOfBody(c)
  PROVE  Inv'
<1>1. PICK how \in {"ended", "failed"} :
        Bodies!Close(c, how) /\ (Becomes(c, "idle") \/ Becomes(c, "none"))
  BY DEF EndOfBody, After
<1>2. /\ status[c] = "open" /\ status' = [status EXCEPT ![c] = how]
      /\ UNCHANGED <<max_bytes, seen, received, delivered>>
  BY <1>1 DEF Bodies!Close
<1>3. Bodies!TypeOK'
  BY <1>2 DEF Inv, TypeOK, Bodies!TypeOK, Bodies!Statuses
<1>4. TypeOK'
  BY <1>1, <1>2, <1>3, Serving DEF Inv, TypeOK, Bodies!TypeOK, EndOfBody, server, Becomes
<1>5. BodyInv' /\ LimitHeld'
  BY <1>2 DEF Inv, TypeOK, Bodies!TypeOK, BodyInv, LimitHeld, Bodies!LimitHeld
<1> QED
  BY <1>4, <1>5, Elsewhere DEF Inv, EndOfBody

LEMMA HangupStep ==
  ASSUME Inv, NEW c \in Conn, Connection(c), Hangup(c)
  PROVE  Inv'
<1>1. /\ Bodies!TypeOK' /\ BodyInv' /\ LimitHeld'
      /\ \A d \in Conn : status'[d] = "open" <=> status[d] = "open" /\ d \notin {c}
  BY DropStep DEF Hangup
<1>2. TypeOK'
  BY <1>1, Serving DEF Inv, TypeOK, Hangup, Becomes, server
<1> QED
  BY <1>1, <1>2, Elsewhere DEF Inv, Hangup

LEMMA StepInv == Inv /\ [Next]_vars => Inv'
<1> SUFFICES ASSUME Inv, [Next]_vars PROVE Inv'
  OBVIOUS
<1>1. CASE Lifecycle \/ WaitOsSignal
  <2>1. CASE Drained \/ Abort
    BY <2>1, ExitStep
  <2>2. CASE \/ Assemble \/ BindPlain \/ LoadTls \/ BindTls
             \/ WaitOsSignal \/ StoreReady \/ Notify \/ CloseListener \/ Tick
    <3>1. UNCHANGED <<conn, body>>
      BY <2>2 DEF Assemble, BindPlain, LoadTls, BindTls, Step, WaitOsSignal, StoreReady, Notify, Watch, CloseListener, Tick
    <3> QED
      BY <2>2, <3>1, ServerStep
  <2> QED
    BY <1>1, <2>1, <2>2 DEF Lifecycle
<1>2. CASE \E c \in Conn : Connection(c)
  <2>1. PICK c \in Conn : Connection(c)
    BY <1>2
  <2> QED
    BY <2>1, PlainStep, StreamStep, FrameStep, EndStep, HangupStep DEF Connection
<1>3. CASE UNCHANGED vars
  BY <1>3 DEF vars, server, body, Inv, TypeOK, WatchInv, GraceHonoured, BodyInv, LimitHeld,
              Bodies!LimitHeld, Bodies!TypeOK
<1> QED
  BY <1>1, <1>2, <1>3 DEF Next

(* Everything at once; the theorems below are its parts.                   *)
LEMMA InvCorrect == Spec => []Inv
BY InitInv, StepInv, PTL DEF Spec

(* The state of process, connections and bodies keeps its types: a body is  *)
(* open exactly while its connection streams it, and connections belong to  *)
(* a serving process.                                                       *)
THEOREM TypeCorrect == Spec => []TypeOK
<1>1. Inv => TypeOK
  BY DEF Inv
<1> QED
  BY <1>1, InvCorrect, PTL

(* A process that no longer listens reports itself unready, in clear and    *)
(* with TLS.                                                                *)
THEOREM UnreadyBeforeClosing == Spec => []ReadyFirst
<1>1. Inv => ReadyFirst
  BY DEF Inv, WatchInv, ReadyFirst
<1> QED
  BY <1>1, InvCorrect, PTL

(* Connections are cut off only by an abort at the end of the grace period. *)
THEOREM GraceKept == Spec => []GraceHonoured
<1>1. Inv => GraceHonoured
  BY DEF Inv
<1> QED
  BY <1>1, InvCorrect, PTL

(* No client gets more of a body than max_response_body_bytes.              *)
THEOREM LimitKept == Spec => []LimitHeld
<1>1. Inv => LimitHeld
  BY DEF Inv
<1> QED
  BY <1>1, InvCorrect, PTL

(* A body that ends without an error was delivered whole.                   *)
THEOREM Whole == Spec => []NoQuietTruncation
<1>1. Inv => NoQuietTruncation
  BY DEF Inv, BodyInv, NoQuietTruncation, Bodies!NoQuietTruncation
<1> QED
  BY <1>1, InvCorrect, PTL
-----------------------------------------------------------------------------
(* What the end of the process may still take: the steps of main, those of *)
(* the signal task and the ticks of the grace period.                      *)
MainLeft ==
  CASE process = "starting" -> 5
    [] process = "assembled" -> 4
    [] process = "binding" -> 3
    [] process = "serving" -> IF listening THEN 2 ELSE 1
    [] OTHER -> 0

WatchLeft ==
  CASE watch = "waiting" -> 3
    [] watch = "signalled" -> 2
    [] watch = "flagged" -> 1
    [] OTHER -> 0

LifecycleLeft == MainLeft + WatchLeft + (Grace - waited)

(* Every step of signal task, server and timer brings the end of the        *)
(* process nearer, and nothing a client or an upstream does (accepted       *)
(* connections, stalled bodies, hangups) puts it off: the grace period is   *)
(* not started again.                                                       *)
LifecycleWaitFree ==
  [][IF Lifecycle \/ WaitOsSignal THEN LifecycleLeft' < LifecycleLeft
                                  ELSE LifecycleLeft' = LifecycleLeft]_vars

(* There are at most Grace ticks and eight other steps.                     *)
LifecycleBudget == LifecycleLeft \in 0..(Grace + 8)

LEMMA LeftTyped ==
  ASSUME TypeOK
  PROVE  MainLeft \in 0..5 /\ WatchLeft \in 0..3 /\ Grace - waited \in 0..Grace /\ LifecycleBudget
<1>1. MainLeft \in 0..5 /\ WatchLeft \in 0..3
  BY DEF TypeOK, MainLeft, WatchLeft, Exits
<1>2. Grace - waited \in 0..Grace /\ Grace \in Nat
  BY ShutdownAssumption DEF TypeOK
<1> QED
  BY <1>1, <1>2 DEF LifecycleLeft, LifecycleBudget

LEMMA MainStep ==
  ASSUME TypeOK, Assemble \/ BindPlain \/ LoadTls \/ BindTls \/ CloseListener \/ Drained \/ Abort
  PROVE  LifecycleLeft' < LifecycleLeft
<1>1. watch' = watch /\ waited' = waited
  BY DEF Assemble, BindPlain, LoadTls, BindTls, Step, CloseListener, Drained, Abort, Exit
<1>2. MainLeft' < MainLeft
  <2>1. CASE Assemble
    BY <2>1 DEF Assemble, Step, MainLeft
  <2>2. CASE BindPlain
    BY <2>2 DEF BindPlain, Step, MainLeft
  <2>3. CASE LoadTls
    BY <2>3 DEF LoadTls, Step, MainLeft
  <2>4. CASE BindTls
    BY <2>4 DEF BindTls, Step, MainLeft
  <2>5. CASE CloseListener
    BY <2>5 DEF CloseListener, MainLeft
  <2>6. CASE Drained \/ Abort
    BY <2>6 DEF Drained, Abort, GraceRuns, Exit, MainLeft
  <2> QED
    BY <2>1, <2>2, <2>3, <2>4, <2>5, <2>6
<1>3. WatchLeft' = WatchLeft
  BY <1>1 DEF WatchLeft
<1>4. MainLeft' \in Nat
  BY DEF MainLeft
<1> QED
  BY <1>1, <1>2, <1>3, <1>4, LeftTyped, ShutdownAssumption DEF LifecycleLeft

LEMMA OtherStep ==
  ASSUME TypeOK, WaitOsSignal \/ StoreReady \/ Notify \/ Tick
  PROVE  LifecycleLeft' < LifecycleLeft
<1>1. MainLeft' = MainLeft
  BY DEF WaitOsSignal, StoreReady, Notify, Watch, Tick, MainLeft
<1>2. CASE Tick
  <2>1. waited' = waited + 1 /\ WatchLeft' = WatchLeft
    BY <1>2 DEF Tick, WatchLeft
  <2>2. waited \in Int /\ Grace \in Int
    BY ShutdownAssumption DEF TypeOK
  <2> QED
    BY <1>1, <2>1, <2>2, LeftTyped DEF LifecycleLeft
<1>3. CASE WaitOsSignal \/ StoreReady \/ Notify
  <2>1. waited' = waited /\ WatchLeft' = WatchLeft - 1
    BY <1>3 DEF WaitOsSignal, StoreReady, Notify, Watch, WatchLeft
  <2> QED
    BY <1>1, <2>1, LeftTyped DEF LifecycleLeft
<1> QED
  BY <1>2, <1>3

(* Shutdown is bounded whatever the connections do: at most Grace ticks and *)
(* eight steps of signal task and server from start to end, for any number *)
(* of connections.                                                         *)
THEOREM ShutdownBounded == Spec => LifecycleWaitFree /\ []LifecycleBudget
<1>1. ASSUME [Next]_vars, ~(Lifecycle \/ WaitOsSignal)
      PROVE  LifecycleLeft' = LifecycleLeft
  <2>1. UNCHANGED server
    BY <1>1 DEF Next, vars, Connection, Accept, Request, Answer, Stream, Frame, EndOfBody, Hangup
  <2> QED
    BY <2>1 DEF server, LifecycleLeft, MainLeft, WatchLeft
<1>2. TypeOK /\ [Next]_vars =>
        [IF Lifecycle \/ WaitOsSignal THEN LifecycleLeft' < LifecycleLeft
                                      ELSE LifecycleLeft' = LifecycleLeft]_vars
  BY <1>1, MainStep, OtherStep DEF Lifecycle
<1>3. TypeOK => LifecycleBudget
  BY LeftTyped
<1> QED
  BY <1>2, <1>3, TypeCorrect, PTL DEF Spec, LifecycleWaitFree
-----------------------------------------------------------------------------
(* The life of the process treats bodies as ResponseBody prescribes, with   *)
(* any number of connections: every step of it, the abort that drops them  *)
(* all included, is a step of ResponseBody or leaves the bodies alone.     *)
THEOREM BodiesUsedCorrectly == Spec => Bodies!Spec
<1>1. Init => Bodies!Init
  BY DEF Init
<1>2. [Next]_vars => [Bodies!Next]_(Bodies!vars)
  <2> SUFFICES ASSUME [Next]_vars PROVE [Bodies!Next]_(Bodies!vars)
    OBVIOUS
  <2>1. CASE UNCHANGED body
    BY <2>1 DEF body, Bodies!vars
  <2>2. CASE Drained \/ Abort
    <3>1. Bodies!Drop(Conn)
      BY <2>2 DEF Drained, Abort, Exit
    <3> QED
      BY <3>1 DEF Bodies!Next
  <2>3. ASSUME NEW c \in Conn, Stream(c) \/ Frame(c) \/ EndOfBody(c) \/ Hangup(c)
        PROVE  Bodies!Next
    <3>1. CASE Stream(c)
      BY <3>1 DEF Stream, Bodies!Next
    <3>2. CASE Frame(c)
      BY <3>2 DEF Frame, Bodies!Next
    <3>3. CASE EndOfBody(c)
      BY <3>3 DEF EndOfBody, Bodies!Next
    <3>4. CASE Hangup(c)
      <4>1. Bodies!Drop({c}) /\ {c} \in SUBSET Conn
        BY <3>4 DEF Hangup
      <4> QED
        BY <4>1 DEF Bodies!Next
    <3> QED
      BY <2>3, <3>1, <3>2, <3>3, <3>4
  <2>4. CASE Lifecycle \/ WaitOsSignal
    <3>1. \/ Drained \/ Abort \/ UNCHANGED body
      BY <2>4 DEF Lifecycle, Assemble, BindPlain, LoadTls, BindTls, Step, WaitOsSignal, StoreReady,
         Notify, Watch, CloseListener, Tick
    <3> QED
      BY <2>1, <2>2, <3>1
  <2>5. ASSUME NEW c \in Conn, Connection(c) PROVE [Bodies!Next]_(Bodies!vars)
    <3>1. \/ Stream(c) \/ Frame(c) \/ EndOfBody(c) \/ Hangup(c)
          \/ UNCHANGED body
      BY <2>5 DEF Connection, Accept, Request, Answer
    <3> QED
      BY <2>1, <2>3, <3>1
  <2> QED
    BY <2>1, <2>4, <2>5 DEF Next, vars
<1> QED
  BY <1>1, <1>2, PTL DEF Spec, Bodies!Spec
=============================================================================
