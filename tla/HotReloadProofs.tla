-------------------------- MODULE HotReloadProofs --------------------------
(***************************************************************************)
(* What every snapshot can rely on, for any configurations and any number  *)
(* of reloads.  The three parts of Inv are inductive once it is known that a *)
(* component is never newer than the snapshot that uses it.                *)
(***************************************************************************)
EXTENDS HotReload, TLAPS

(* Every stored configuration passed assert_immutable, the first one       *)
(* trivially.                                                              *)
ComparedKept == \A i \in 1..Live : AssertImmutable(snapshots[i].config)

Inv == TypeOK /\ SnapshotCoherent /\ StateRetained /\ ComparedKept

LEMMA InitInv == ASSUME Init PROVE Inv
<1>1. PICK c \in Configs :
        /\ frozen = Immutable(c)
        /\ snapshots = <<[config |-> c, rate |-> 1, circuit |-> 1, upstream |-> 1]>>
  BY DEF Init
<1>2. /\ Live = 1
      /\ snapshots[1] = [config |-> c, rate |-> 1, circuit |-> 1, upstream |-> 1]
  BY <1>1 DEF Live
<1>3. TypeOK
  BY <1>1, <1>2 DEF TypeOK, LivePolicies
<1>4. SnapshotCoherent
  BY <1>2 DEF SnapshotCoherent
<1>5. StateRetained
  BY <1>2 DEF StateRetained
<1>6. ComparedKept
  BY <1>1, <1>2 DEF ComparedKept, AssertImmutable, Immutable
<1> QED
  BY <1>3, <1>4, <1>5, <1>6 DEF Inv

LEMMA ReloadInv == ASSUME Inv, Reload PROVE Inv'
<1> DEFINE n == Live + 1
           prev == snapshots[Live]
<1>1. PICK c \in Configs :
        /\ AssertImmutable(c)
        /\ snapshots' = Append(snapshots, BuildFrom(c, prev, n))
  BY DEF Reload
<1> DEFINE s == BuildFrom(c, prev, n)
<1>2. /\ Live \in Nat \ {0} /\ prev \in LivePolicies
      /\ \A i \in 1..Live : snapshots[i] \in LivePolicies
  BY DEF Inv, TypeOK, Live
<1>3. s \in LivePolicies
  BY <1>2 DEF BuildFrom, LivePolicies
<1>4. /\ Live' = n
      /\ snapshots'[n] = s
      /\ \A i \in 1..Live : snapshots'[i] = snapshots[i]
  BY <1>1, <1>2, <1>3 DEF Live, Inv, TypeOK
<1>5. TypeOK'
  <2>1. snapshots' \in Seq(LivePolicies)
    BY <1>1, <1>3 DEF Inv, TypeOK
  <2> QED
    BY <1>2, <1>4, <2>1 DEF Inv, TypeOK, Reload
<1>6. s.config = c
  BY DEF BuildFrom
<1>7. /\ prev.config.rate = c.rate => s.rate = prev.rate
      /\ prev.config.rate # c.rate => s.rate = n
      /\ prev.config.circuit = c.circuit => s.circuit = prev.circuit
      /\ prev.config.circuit # c.circuit => s.circuit = n
      /\ prev.config.target = c.target /\ prev.config.client = c.client
           => s.upstream = prev.upstream
      /\ ~(prev.config.target = c.target /\ prev.config.client = c.client)
           => s.upstream = n
  BY DEF BuildFrom, UpstreamConfigEq
<1> HIDE DEF s, n
<1>8. n = Live + 1
  BY DEF n
<1>9. SnapshotCoherent'
  <2> SUFFICES ASSUME NEW i \in 1..n
               PROVE  LET u == snapshots'[i] IN
                      /\ u.rate \in 1..i /\ snapshots'[u.rate].config.rate = u.config.rate
                      /\ u.circuit \in 1..i /\ snapshots'[u.circuit].config.circuit = u.config.circuit
                      /\ u.upstream \in 1..i
                      /\ snapshots'[u.upstream].config.target = u.config.target
                      /\ snapshots'[u.upstream].config.client = u.config.client
    BY <1>4 DEF SnapshotCoherent
  <2>1. CASE i \in 1..Live
    <3> DEFINE u == snapshots[i]
    <3>1. /\ u.rate \in 1..i /\ snapshots[u.rate].config.rate = u.config.rate
          /\ u.circuit \in 1..i /\ snapshots[u.circuit].config.circuit = u.config.circuit
          /\ u.upstream \in 1..i
          /\ snapshots[u.upstream].config.target = u.config.target
          /\ snapshots[u.upstream].config.client = u.config.client
      BY <2>1 DEF Inv, SnapshotCoherent
    <3>2. u.rate \in 1..Live /\ u.circuit \in 1..Live /\ u.upstream \in 1..Live
      BY <1>2, <2>1, <3>1
    <3> QED
      BY <1>4, <2>1, <3>1, <3>2
  <2>2. CASE i = n
    <3>1. /\ prev.rate \in 1..Live /\ snapshots[prev.rate].config.rate = prev.config.rate
          /\ prev.circuit \in 1..Live /\ snapshots[prev.circuit].config.circuit = prev.config.circuit
          /\ prev.upstream \in 1..Live
          /\ snapshots[prev.upstream].config.target = prev.config.target
          /\ snapshots[prev.upstream].config.client = prev.config.client
      BY <1>2 DEF Inv, SnapshotCoherent
    <3>2. s.rate \in 1..n /\ snapshots'[s.rate].config.rate = s.config.rate
      BY <1>2, <1>4, <1>6, <1>7, <1>8, <3>1
    <3>3. s.circuit \in 1..n /\ snapshots'[s.circuit].config.circuit = s.config.circuit
      BY <1>2, <1>4, <1>6, <1>7, <1>8, <3>1
    <3>4. /\ s.upstream \in 1..n
          /\ snapshots'[s.upstream].config.target = s.config.target
          /\ snapshots'[s.upstream].config.client = s.config.client
      BY <1>2, <1>4, <1>6, <1>7, <1>8, <3>1
    <3> QED
      BY <1>4, <2>2, <3>2, <3>3, <3>4
  <2> QED
    BY <1>2, <1>8, <2>1, <2>2
<1>10. StateRetained'
  <2> SUFFICES ASSUME NEW j \in 1..n, NEW i \in 1..j
               PROVE  LET d == snapshots'[i].config IN
                      /\ (\A k \in i..j : snapshots'[k].config.rate = d.rate)
                           => snapshots'[j].rate = snapshots'[i].rate
                      /\ (\A k \in i..j : snapshots'[k].config.circuit = d.circuit)
                           => snapshots'[j].circuit = snapshots'[i].circuit
                      /\ (\A k \in i..j : /\ snapshots'[k].config.target = d.target
                                          /\ snapshots'[k].config.client = d.client)
                           => snapshots'[j].upstream = snapshots'[i].upstream
    BY <1>4 DEF StateRetained
  <2>1. CASE j \in 1..Live
    <3>1. i \in 1..Live /\ \A k \in i..j : k \in 1..Live
      BY <1>2, <2>1
    <3>2. snapshots'[i] = snapshots[i] /\ \A k \in i..j : snapshots'[k] = snapshots[k]
      BY <1>4, <3>1
    <3>3. snapshots'[j] = snapshots[j]
      BY <1>4, <2>1
    <3> QED
      BY <2>1, <3>2, <3>3 DEF Inv, StateRetained
  <2>2. CASE j = n /\ i = n
    BY <2>2
  <2>3. CASE j = n /\ i \in 1..Live
    <3> DEFINE d == snapshots[i].config
    <3>1. /\ snapshots'[i] = snapshots[i] /\ snapshots'[j] = s
          /\ \A k \in i..Live : k \in i..j /\ snapshots'[k] = snapshots[k]
          /\ Live \in i..Live /\ j \in i..j
      BY <1>2, <1>4, <1>8, <2>3
    <3>2. /\ (\A k \in i..Live : snapshots[k].config.rate = d.rate) => prev.rate = snapshots[i].rate
          /\ (\A k \in i..Live : snapshots[k].config.circuit = d.circuit)
               => prev.circuit = snapshots[i].circuit
          /\ (\A k \in i..Live : /\ snapshots[k].config.target = d.target
                                 /\ snapshots[k].config.client = d.client)
               => prev.upstream = snapshots[i].upstream
      BY <1>2, <2>3 DEF Inv, StateRetained
    <3>3. (\A k \in i..j : snapshots'[k].config.rate = d.rate) => s.rate = snapshots[i].rate
      BY <1>6, <1>7, <3>1, <3>2
    <3>4. (\A k \in i..j : snapshots'[k].config.circuit = d.circuit) => s.circuit = snapshots[i].circuit
      BY <1>6, <1>7, <3>1, <3>2
    <3>5. (\A k \in i..j : snapshots'[k].config.target = d.target /\ snapshots'[k].config.client = d.client)
            => s.upstream = snapshots[i].upstream
      BY <1>6, <1>7, <3>1, <3>2
    <3> QED
      BY <3>1, <3>3, <3>4, <3>5
  <2> QED
    BY <1>2, <1>8, <2>1, <2>2, <2>3
<1>11. ComparedKept'
  <2>1. AssertImmutable(c) /\ frozen' = frozen
    BY <1>1 DEF Reload
  <2>2. \A i \in 1..Live : AssertImmutable(snapshots[i].config)
    BY DEF Inv, ComparedKept
  <2> QED
    BY <1>2, <1>4, <1>6, <1>8, <2>1, <2>2 DEF ComparedKept, AssertImmutable
<1> QED
  BY <1>5, <1>9, <1>10, <1>11 DEF Inv

LEMMA InvHolds == Spec => []Inv
<1>1. Init => Inv
  BY InitInv
<1>2. Inv /\ [Next]_vars => Inv'
  <2> SUFFICES ASSUME Inv, [Next]_vars PROVE Inv'
    OBVIOUS
  <2>1. CASE Next
    BY <2>1, ReloadInv DEF Next
  <2>2. CASE UNCHANGED vars
    BY <2>2 DEF vars, Inv, TypeOK, SnapshotCoherent, StateRetained, ComparedKept,
       AssertImmutable, Live
  <2> QED
    BY <2>1, <2>2
<1> QED
  BY <1>1, <1>2, PTL DEF Spec

(* Every component of every snapshot works by that snapshot's              *)
(* configuration, however many reloads it was retained through.            *)
THEOREM Coherence == Spec => []SnapshotCoherent
<1>1. Inv => SnapshotCoherent
  BY DEF Inv
<1> QED
  BY <1>1, InvHolds, PTL

(* A section that no reload of a run changes keeps its memory through all  *)
(* of them.                                                                *)
THEOREM Retention == Spec => []StateRetained
<1>1. Inv => StateRetained
  BY DEF Inv
<1> QED
  BY <1>1, InvHolds, PTL
=============================================================================
