------------------------------ MODULE LoadShed ------------------------------
(***************************************************************************)
(* The load-shedding layer of corx-server (middleware/load_shed.rs): one   *)
(* process-wide atomic counter that every route passes, taken with         *)
(* fetch_add before the cap is known to allow it and given back by an RAII *)
(* permit.  Each atomic access is one step; tasks interleave between them. *)
(***************************************************************************)
EXTENDS Integers, FiniteSets

CONSTANTS
  Task,     \* tasks that serve requests, each one request after another
  Limits    \* values of inflight_max the server may be started with

ASSUME LoadShedAssumption == IsFiniteSet(Task) /\ Limits \subseteq Nat

VARIABLES
  max,      \* inflight_max, fixed for the life of the process
  counter,  \* the shared AtomicU64
  pc        \* where each task is in the layer

vars == <<max, counter, pc>>

(* inner: next.run without a permit; permit: next.run under a permit;      *)
(* over: counted, but past the cap.                                        *)
Pcs == {"idle", "inner", "permit", "over"}

TypeOK ==
  /\ max \in Nat
  /\ counter \in Nat
  /\ pc \in [Task -> Pcs]

Init ==
  /\ max \in Limits
  /\ counter = 0
  /\ pc = [t \in Task |-> "idle"]

(* Mutant of Enter: the cap compared with the wrong operator.               *)
EnterLate(t) ==
  /\ pc[t] = "idle"
  /\ \/ /\ max = 0
        /\ pc' = [pc EXCEPT ![t] = "inner"]
        /\ UNCHANGED counter
     \/ /\ max # 0
        /\ counter' = counter + 1
        /\ pc' = [pc EXCEPT ![t] = IF counter > max THEN "over" ELSE "permit"]
  /\ UNCHANGED max

(* load_shed_layer up to the decision: fetch_add and the test of the value *)
(* it returned.  A cap of zero turns the layer into a pass-through.        *)
Enter(t) ==
  /\ pc[t] = "idle"
  /\ \/ /\ max = 0
        /\ pc' = [pc EXCEPT ![t] = "inner"]
        /\ UNCHANGED counter
     \/ /\ max # 0
        /\ counter' = counter + 1
        /\ pc' = [pc EXCEPT ![t] = IF counter >= max THEN "over" ELSE "permit"]
  /\ UNCHANGED max

(* Mutant of Shed: the count of a shed request is not given back.           *)
ShedKeepsCount(t) ==
  /\ pc[t] = "over"
  /\ pc' = [pc EXCEPT ![t] = "idle"]
  /\ UNCHANGED <<max, counter>>

(* Past the cap: the count is given back and 503 returned.                 *)
Shed(t) ==
  /\ pc[t] = "over"
  /\ counter' = counter - 1
  /\ pc' = [pc EXCEPT ![t] = "idle"]
  /\ UNCHANGED max

(* next.run returns, or its future is dropped (timeout, disconnect, panic): *)
(* either way the permit's drop gives the slot back.                        *)
Leave(t) ==
  /\ pc[t] \in {"inner", "permit"}
  /\ counter' = IF pc[t] = "permit" THEN counter - 1 ELSE counter
  /\ pc' = [pc EXCEPT ![t] = "idle"]
  /\ UNCHANGED max

Next ==
  \E t \in Task :
    \/ Enter(t)
    \/ Shed(t)
    \/ Leave(t)

Spec == Init /\ [][Next]_vars
-----------------------------------------------------------------------------
(* Properties                                                              *)

Holding == {t \in Task : pc[t] = "permit"}
Counted == {t \in Task : pc[t] \in {"permit", "over"}}

(* inflight_max: the requests running under a permit never outnumber the   *)
(* cap, although the counter itself passes it while requests are shed.     *)
CapHolds == max # 0 => Cardinality(Holding) <= max

(* No slot is lost or given back twice on any path (served, shed, dropped): *)
(* the counter is always the number of tasks that have still to give back.  *)
CounterExact == counter = Cardinality(Counted)
=============================================================================
