--------------------------- MODULE LoadShedProofs ---------------------------
(***************************************************************************)
(* The inflight cap for any number of tasks and any cap.  CapHolds alone   *)
(* is not inductive: that a fetch_add returning less than the cap leaves a *)
(* slot free rests on the counter being exactly the tasks that took it.    *)
(***************************************************************************)
EXTENDS LoadShed, FiniteSetTheorems, TLAPS

Inv == TypeOK /\ CounterExact /\ CapHolds

(* Both sets of tasks are finite.                                          *)
LEMMA TasksFinite ==
  /\ IsFiniteSet(Holding) /\ Cardinality(Holding) \in Nat
  /\ IsFiniteSet(Counted) /\ Cardinality(Counted) \in Nat
  /\ Cardinality(Holding) <= Cardinality(Counted)
<1>1. Counted \in SUBSET Task /\ Holding \in SUBSET Counted
  BY DEF Counted, Holding
<1>2. IsFiniteSet(Counted) /\ Cardinality(Counted) \in Nat
  BY <1>1, LoadShedAssumption, FS_Subset, FS_CardinalityType
<1> QED
  BY <1>1, <1>2, FS_Subset, FS_CardinalityType

(* A task that takes or gives back its place changes the counts by one.    *)
LEMMA Joins ==
  ASSUME NEW S, IsFiniteSet(S), NEW t, t \notin S
  PROVE  Cardinality(S \cup {t}) = Cardinality(S) + 1
BY FS_AddElement

LEMMA Parts ==
  ASSUME NEW S, IsFiniteSet(S), NEW t, t \in S
  PROVE  Cardinality(S \ {t}) = Cardinality(S) - 1
BY FS_RemoveElement

LEMMA EnterStep ==
  ASSUME Inv, NEW t \in Task, Enter(t)
  PROVE  Inv'
<1>1. TypeOK'
  BY DEF Inv, TypeOK, Enter, Pcs
<1>2. CASE max = 0
  <2>1. Counted' = Counted /\ Holding' = Holding
    BY <1>2 DEF Inv, TypeOK, Enter, Counted, Holding
  <2> QED
    BY <1>1, <1>2, <2>1 DEF Inv, Enter, CounterExact, CapHolds
<1>3. CASE max # 0
  <2>1. Counted' = Counted \cup {t} /\ t \notin Counted
    BY <1>3 DEF Inv, TypeOK, Enter, Counted
  <2>2. CounterExact'
    BY <1>3, <2>1, TasksFinite, Joins DEF Inv, Enter, CounterExact
  <2>3. CASE counter >= max
    <3>1. Holding' = Holding
      BY <1>3, <2>3 DEF Inv, TypeOK, Enter, Holding
    <3> QED
      BY <1>1, <2>2, <3>1 DEF Inv, Enter, CapHolds
  <2>4. CASE ~(counter >= max)
    <3>1. Holding' = Holding \cup {t} /\ t \notin Holding
      BY <1>3, <2>4 DEF Inv, TypeOK, Enter, Holding
    <3>2. Cardinality(Holding') = Cardinality(Holding) + 1
      BY <3>1, TasksFinite, Joins
    <3>3. Cardinality(Holding) <= counter /\ counter < max /\ counter \in Nat /\ max \in Nat
      BY <2>4, TasksFinite DEF Inv, CounterExact, TypeOK
    <3> QED
      BY <1>1, <2>2, <3>2, <3>3, TasksFinite DEF Inv, Enter, CapHolds
  <2> QED
    BY <2>3, <2>4
<1> QED
  BY <1>2, <1>3

LEMMA GiveBackStep ==
  ASSUME Inv, NEW t \in Task, Shed(t) \/ Leave(t)
  PROVE  Inv'
<1>1. max' = max /\ pc' = [pc EXCEPT ![t] = "idle"]
  BY DEF Shed, Leave
<1>3. CASE pc[t] = "inner"
  <2>1. Counted' = Counted /\ Holding' = Holding
    BY <1>1, <1>3 DEF Inv, TypeOK, Counted, Holding
  <2>2. counter' = counter
    BY <1>3 DEF Shed, Leave
  <2> QED
    BY <1>1, <2>1, <2>2 DEF Inv, TypeOK, Pcs, CounterExact, CapHolds
<1>4. CASE pc[t] # "inner"
  <2>1. t \in Counted /\ counter' = counter - 1
    BY <1>4 DEF Shed, Leave, Counted
  <2>2. Counted' = Counted \ {t} /\ Holding' \in SUBSET Holding
    BY <1>1 DEF Inv, TypeOK, Counted, Holding
  <2>3. CounterExact'
    BY <2>1, <2>2, TasksFinite, Parts DEF Inv, CounterExact
  <2>4. counter' \in Nat
    <3>1. IsFiniteSet(Counted') /\ Cardinality(Counted') \in Nat
      BY <2>2, TasksFinite, FS_Subset, FS_CardinalityType
    <3> QED
      BY <2>3, <3>1 DEF CounterExact
  <2>5. Cardinality(Holding') <= Cardinality(Holding) /\ Cardinality(Holding') \in Nat
    BY <2>2, TasksFinite, FS_Subset, FS_CardinalityType
  <2>6. CapHolds'
    BY <1>1, <2>5, TasksFinite DEF Inv, CapHolds, TypeOK
  <2> QED
    BY <1>1, <2>3, <2>4, <2>6 DEF Inv, TypeOK, Pcs
<1> QED
  BY <1>3, <1>4

LEMMA InvHolds == Spec => []Inv
<1>1. Init => Inv
  <2> SUFFICES ASSUME Init PROVE Inv
    OBVIOUS
  <2>1. TypeOK
    BY LoadShedAssumption DEF Init, TypeOK, Pcs
  <2>2. Counted = {} /\ Holding = {}
    BY DEF Init, Counted, Holding
  <2>3. CounterExact /\ CapHolds
    BY <2>1, <2>2, FS_EmptySet DEF Init, CounterExact, CapHolds, TypeOK
  <2> QED
    BY <2>1, <2>3 DEF Inv
<1>2. Inv /\ [Next]_vars => Inv'
  <2> SUFFICES ASSUME Inv, [Next]_vars PROVE Inv'
    OBVIOUS
  <2>1. CASE Next
    BY <2>1, EnterStep, GiveBackStep DEF Next
  <2>2. CASE UNCHANGED vars
    BY <2>2 DEF vars, Inv, TypeOK, CounterExact, CapHolds, Counted, Holding
  <2> QED
    BY <2>1, <2>2
<1> QED
  BY <1>1, <1>2, PTL DEF Spec

(* The cap holds for every inflight_max and any number of racing tasks,    *)
(* including while the counter is past the cap.                            *)
THEOREM CapCorrect == Spec => []CapHolds
<1>1. Inv => CapHolds
  BY DEF Inv
<1> QED
  BY <1>1, InvHolds, PTL

(* The counter never drifts: no path leaks a slot, gives one back twice or *)
(* wraps the u64 below zero.                                               *)
THEOREM CounterCorrect == Spec => [](CounterExact /\ counter \in Nat)
<1>1. Inv => CounterExact /\ counter \in Nat
  BY DEF Inv, TypeOK
<1> QED
  BY <1>1, InvHolds, PTL
-----------------------------------------------------------------------------
(* With a cap nobody passes without a permit.                              *)
Uncounted == max # 0 => \A t \in Task : pc[t] # "inner"

LEMMA CappedOrNot == Spec => []Uncounted
<1>1. Init => Uncounted
  BY DEF Init, Uncounted
<1>2. Inv /\ Uncounted /\ [Next]_vars => Uncounted'
  BY DEF Uncounted, Inv, TypeOK, Next, Enter, Shed, Leave, vars
<1> QED
  BY <1>1, <1>2, InvHolds, PTL DEF Spec

(* A request is put past the cap only while that many others have not       *)
(* given back: served under a permit, or past the cap themselves and about *)
(* to be shed (fetch_add counts both).                                     *)
ShedJustified ==
  [][\A t \in Task : pc[t] # "over" /\ pc'[t] = "over" =>
       max # 0 /\ t \notin Counted /\ Cardinality(Counted) >= max]_vars

(* No request is shed by a cap its others leave free, for any cap and any   *)
(* number of racing tasks.                                                 *)
THEOREM ShedWithCause == Spec => ShedJustified
<1>1. Inv /\ [Next]_vars =>
        [\A t \in Task : pc[t] # "over" /\ pc'[t] = "over" =>
           max # 0 /\ t \notin Counted /\ Cardinality(Counted) >= max]_vars
  <2> SUFFICES ASSUME Inv, Next, NEW t \in Task, pc[t] # "over", pc'[t] = "over"
               PROVE  max # 0 /\ t \notin Counted /\ Cardinality(Counted) >= max
    OBVIOUS
  <2>1. Enter(t)
    BY DEF Inv, TypeOK, Next, Enter, Shed, Leave
  <2>2. max # 0 /\ counter >= max /\ pc[t] = "idle"
    BY <2>1 DEF Inv, TypeOK, Enter
  <2> QED
    BY <2>2 DEF Inv, CounterExact, Counted
<1> QED
  BY <1>1, InvHolds, PTL DEF Spec, ShedJustified
=============================================================================
