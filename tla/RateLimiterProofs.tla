-------------------------- MODULE RateLimiterProofs --------------------------
(***************************************************************************)
(* What holds of the rate limiter for any number of requests, keys and     *)
(* keyed dimensions and any max_keys.                                      *)
(***************************************************************************)
EXTENDS RateLimiter, FiniteSetTheorems, TLAPS

(* The moves that end a dimension keep the types.                          *)
LEMMA AnswerType ==
  ASSUME TypeOK, NEW r \in Request, NEW o \in {"pass", "rejected"}, Answer(r, o)
  PROVE  /\ pc' \in [Request -> Pcs] /\ dim' = dim
         /\ reply' \in [Request -> {"none", "pass", "rejected"}]
         /\ pc'[r] = "idle"
         /\ \A q \in Request \ {r} : pc'[q] = pc[q]
BY DEF TypeOK, Answer, Pcs

LEMMA AdvanceType ==
  ASSUME TypeOK, NEW r \in Request, NEW c \in Contexts, NEW d, Advance(r, c, d)
  PROVE  /\ pc' \in [Request -> Pcs]
         /\ dim' \in [Request -> 1..(Dims + 1)]
         /\ reply' \in [Request -> {"none", "pass", "rejected"}]
         /\ pc'[r] \in {"idle", "contains", "global"}
         /\ pc'[r] = "contains" => dim'[r] \in Dim /\ c[dim'[r]] \in Key
         /\ \A q \in Request \ {r} : pc'[q] = pc[q] /\ dim'[q] = dim[q]
<1>1. CASE \E e \in Remaining(c, d) :
             /\ pc' = [pc EXCEPT ![r] = "contains"]
             /\ dim' = [dim EXCEPT ![r] = e]
             /\ reply' = [reply EXCEPT ![r] = "none"]
  <2>1. PICK e \in Remaining(c, d) :
             /\ pc' = [pc EXCEPT ![r] = "contains"]
             /\ dim' = [dim EXCEPT ![r] = e]
             /\ reply' = [reply EXCEPT ![r] = "none"]
    BY <1>1
  <2>2. e \in Dim /\ c[e] \in Key /\ e \in 1..(Dims + 1)
    BY RateAssumption DEF Remaining, Contexts, Dim
  <2> QED
    BY <2>1, <2>2 DEF TypeOK, Pcs
<1>2. CASE /\ pc' = [pc EXCEPT ![r] = "global"]
           /\ dim' = [dim EXCEPT ![r] = Dims + 1]
           /\ reply' = [reply EXCEPT ![r] = "none"]
  BY <1>2, RateAssumption DEF TypeOK, Pcs
<1>3. CASE Answer(r, "pass")
  BY <1>3, AnswerType DEF TypeOK
<1> QED
  BY <1>1, <1>2, <1>3 DEF Advance

LEMMA StepType ==
  ASSUME TypeOK, [Next]_vars
  PROVE  TypeOK'
<1>1. ASSUME NEW r \in Request, Step(r)
      PROVE  TypeOK'
  <2>1. ASSUME NEW c \in Contexts, Begin(r, c)
        PROVE  TypeOK'
    <3>1. ctx' = [ctx EXCEPT ![r] = c] /\ UNCHANGED <<config, keys, store>>
      BY <2>1 DEF Begin
    <3>2. CASE Answer(r, "pass")
      BY <3>1, <3>2, AnswerType DEF TypeOK
    <3>3. CASE Advance(r, c, 0)
      BY <3>1, <3>3, AdvanceType DEF TypeOK
    <3> QED
      BY <2>1, <3>2, <3>3 DEF Begin
  <2>2. CASE ContainsKey(r)
    BY <2>2 DEF ContainsKey, Goto, TypeOK, Pcs
  <2>3. CASE LenBefore(r)
    <3>1. CASE Answer(r, "rejected")
      BY <2>3, <3>1, AnswerType DEF LenBefore, TypeOK
    <3>2. CASE Goto(r, "insert")
      BY <2>3, <3>2 DEF LenBefore, Goto, TypeOK, Pcs
    <3> QED
      BY <2>3, <3>1, <3>2 DEF LenBefore
  <2>4. CASE Insert(r)
    BY <2>4 DEF Insert, Goto, TypeOK, Pcs, CurrentKey
  <2>5. CASE LenAfter(r)
    BY <2>5 DEF LenAfter, Goto, TypeOK, Pcs
  <2>6. CASE Remove(r)
    <3>1. keys' \in [Dim -> SUBSET Key]
      BY <2>6 DEF Remove, TypeOK
    <3> QED
      BY <2>6, <3>1, AnswerType DEF Remove, TypeOK
  <2>7. CASE CheckKey(r)
    <3>1. store' \in [Dim -> SUBSET Key]
      BY <2>7 DEF CheckKey, TypeOK, CurrentKey
    <3>2. ctx[r] \in Contexts
      BY DEF TypeOK
    <3>3. CASE Answer(r, "rejected")
      BY <2>7, <3>1, <3>3, AnswerType DEF CheckKey, TypeOK
    <3>4. CASE Advance(r, ctx[r], dim[r])
      BY <2>7, <3>1, <3>2, <3>4, AdvanceType DEF CheckKey, TypeOK
    <3> QED
      BY <2>7, <3>3, <3>4 DEF CheckKey
  <2>8. CASE CheckGlobal(r)
    BY <2>8, AnswerType DEF CheckGlobal, TypeOK
  <2> QED
    BY <1>1, <2>1, <2>2, <2>3, <2>4, <2>5, <2>6, <2>7, <2>8 DEF Step
<1>2. CASE UNCHANGED vars
  BY <1>2 DEF vars, TypeOK
<1> QED
  BY <1>1, <1>2 DEF Next

(* Types, and that a request inside a keyed dimension presents a key there. *)
THEOREM TypeCorrect == Spec => []TypeOK
<1>1. Init => TypeOK
  BY RateAssumption DEF Init, TypeOK, Dim, Contexts, Pcs
<1> QED
  BY <1>1, StepType, PTL DEF Spec
------------------------------------------------------------------------------
(* One dimension's registry outside the keys under examination: it grows   *)
(* in no step, except when a request finds the registry within its cap.    *)
LEMMA SettledKeys ==
  ASSUME TypeOK, [Next]_vars, NEW d \in Dim
  PROVE  \/ keys'[d] \ Examined(d)' \subseteq keys[d] \ Examined(d)
         \/ /\ keys'[d] = keys[d]
            /\ Cardinality(keys[d]) <= MaxKeys
<1> DEFINE Goal == \/ keys'[d] \ Examined(d)' \subseteq keys[d] \ Examined(d)
                   \/ keys'[d] = keys[d] /\ Cardinality(keys[d]) <= MaxKeys
           Busy == {"relen", "remove"}
<1>1. ASSUME NEW r \in Request, Step(r)
      PROVE  Goal
  <2>0. ASSUME keys' = keys,
               \A q \in Request : pc[q] \in Busy =>
                  pc'[q] \in Busy /\ dim'[q] = dim[q] /\ ctx'[q] = ctx[q]
        PROVE  Goal
    BY <2>0 DEF Examined, CurrentKey
  <2>1. CASE \E c \in Contexts : Begin(r, c)
    <3>1. PICK c \in Contexts : Begin(r, c)
      BY <2>1
    <3>2. \A q \in Request \ {r} : pc'[q] = pc[q] /\ dim'[q] = dim[q] /\ ctx'[q] = ctx[q]
      BY <3>1, AnswerType, AdvanceType DEF Begin, TypeOK
    <3> QED
      BY <2>0, <3>1, <3>2 DEF Begin
  <2>2. CASE ContainsKey(r)
    BY <2>0, <2>2 DEF ContainsKey, Goto, TypeOK
  <2>3. CASE LenBefore(r)
    BY <2>0, <2>3 DEF LenBefore, Goto, Answer, TypeOK
  <2>4. CASE Insert(r)
    <3>1. \A q \in Request \ {r} : pc'[q] = pc[q]
      BY <2>4 DEF Insert, Goto, TypeOK
    <3>2. dim' = dim /\ ctx' = ctx /\ pc'[r] = "relen" /\ pc[r] = "insert"
      BY <2>4 DEF Insert, Goto, TypeOK
    <3>3. Examined(d) \subseteq Examined(d)'
      BY <3>1, <3>2 DEF Examined, CurrentKey
    <3>4. CASE dim[r] = d
      <4>1. keys'[d] = keys[d] \cup {CurrentKey(r)}
        BY <2>4, <3>4 DEF Insert, TypeOK
      <4>2. CurrentKey(r) \in Examined(d)'
        BY <3>2, <3>4 DEF Examined, CurrentKey
      <4> QED
        BY <3>3, <4>1, <4>2
    <3>5. CASE dim[r] # d
      BY <2>4, <3>3, <3>5 DEF Insert, TypeOK
    <3> QED
      BY <3>4, <3>5
  <2>5. CASE LenAfter(r)
    <3>1. CASE dim[r] = d /\ Cardinality(keys[d]) <= MaxKeys
      BY <2>5, <3>1 DEF LenAfter
    <3>2. CASE dim[r] = d /\ ~(Cardinality(keys[d]) <= MaxKeys)
      <4>1. Cardinality(keys[d]) \in Nat
        BY RateAssumption, FS_Subset, FS_CardinalityType DEF TypeOK
      <4>2. Cardinality(keys[d]) > MaxKeys
        BY <3>2, <4>1, RateAssumption
      <4> QED
        BY <2>0, <2>5, <3>2, <4>2 DEF LenAfter, Goto, TypeOK
    <3>3. CASE dim[r] # d
      <4>1. Examined(d)' = Examined(d) /\ keys' = keys
        BY <2>5, <3>3 DEF LenAfter, Goto, Examined, CurrentKey, TypeOK
      <4> QED
        BY <4>1
    <3> QED
      BY <3>1, <3>2, <3>3
  <2>6. CASE Remove(r)
    <3>1. \A q \in Request \ {r} : pc'[q] = pc[q]
      BY <2>6 DEF Remove, Answer, TypeOK
    <3>2. dim' = dim /\ ctx' = ctx
      BY <2>6 DEF Remove, Answer
    <3>3. CASE dim[r] = d
      <4>1. keys'[d] = keys[d] \ {CurrentKey(r)}
        BY <2>6, <3>3 DEF Remove, TypeOK
      <4>2. Examined(d) \subseteq Examined(d)' \cup {CurrentKey(r)}
        BY <3>1, <3>2 DEF Examined, CurrentKey
      <4> QED
        BY <4>1, <4>2
    <3>4. CASE dim[r] # d
      <4>1. keys'[d] = keys[d]
        BY <2>6, <3>4 DEF Remove, TypeOK
      <4>2. Examined(d) \subseteq Examined(d)'
        BY <3>1, <3>2, <3>4 DEF Examined, CurrentKey
      <4> QED
        BY <4>1, <4>2
    <3> QED
      BY <3>3, <3>4
  <2>7. CASE CheckKey(r)
    <3>1. ctx[r] \in Contexts
      BY DEF TypeOK
    <3>2. \A q \in Request \ {r} : pc'[q] = pc[q] /\ dim'[q] = dim[q]
      BY <2>7, <3>1, AnswerType, AdvanceType DEF CheckKey
    <3> QED
      BY <2>0, <2>7, <3>2 DEF CheckKey
  <2>8. CASE CheckGlobal(r)
    BY <2>0, <2>8 DEF CheckGlobal, Answer, TypeOK
  <2> QED
    BY <1>1, <2>1, <2>2, <2>3, <2>4, <2>5, <2>6, <2>7, <2>8 DEF Step
<1>2. CASE UNCHANGED vars
  BY <1>2 DEF vars, Examined, CurrentKey
<1> QED
  BY <1>1, <1>2 DEF Next

(* The registry cap survives every interleaving of admit_key's four        *)
(* separate map calls, for any number of requests.                         *)
THEOREM RegistryCap == Spec => []RegistryCapped
<1>1. Init => RegistryCapped
  <2> SUFFICES ASSUME Init, NEW d \in Dim PROVE Cardinality(keys[d] \ Examined(d)) <= MaxKeys
    BY DEF RegistryCapped
  <2>1. keys[d] \ Examined(d) = {}
    BY DEF Init
  <2> QED
    BY <2>1, FS_EmptySet, RateAssumption
<1>2. TypeOK /\ RegistryCapped /\ [Next]_vars => RegistryCapped'
  <2> SUFFICES ASSUME TypeOK, RegistryCapped, [Next]_vars, NEW d \in Dim
               PROVE  Cardinality((keys[d] \ Examined(d))') <= MaxKeys
    BY DEF RegistryCapped
  <2> DEFINE S == keys[d] \ Examined(d)
             T == keys'[d] \ Examined(d)'
  <2>1. keys[d] \in SUBSET Key /\ IsFiniteSet(keys[d]) /\ Cardinality(keys[d]) \in Nat
    BY RateAssumption, FS_Subset, FS_CardinalityType DEF TypeOK
  <2>2. S \in SUBSET keys[d] /\ IsFiniteSet(S) /\ Cardinality(S) \in Nat
    BY <2>1, FS_Subset, FS_CardinalityType
  <2>3. CASE T \subseteq S
    <3>1. IsFiniteSet(T) /\ Cardinality(T) \in Nat /\ Cardinality(T) <= Cardinality(S)
      BY <2>2, <2>3, FS_Subset, FS_CardinalityType
    <3> QED
      BY <2>2, <3>1, RateAssumption DEF RegistryCapped
  <2>4. CASE keys'[d] = keys[d] /\ Cardinality(keys[d]) <= MaxKeys
    <3>1. IsFiniteSet(T) /\ Cardinality(T) \in Nat /\ Cardinality(T) <= Cardinality(keys[d])
      BY <2>1, <2>4, FS_Subset, FS_CardinalityType
    <3> QED
      BY <2>1, <2>4, <3>1, RateAssumption
  <2> QED
    BY <2>3, <2>4, SettledKeys
<1> QED
  BY <1>1, <1>2, TypeCorrect, PTL DEF Spec
------------------------------------------------------------------------------
(* A step leaves the other requests alone, and takes keys only from the    *)
(* registry, and only the key of a request that removes it.                *)
LEMMA StepFrame ==
  ASSUME TypeOK, NEW r \in Request, Step(r)
  PROVE  /\ config' = config
         /\ \A q \in Request \ {r} :
              pc'[q] = pc[q] /\ dim'[q] = dim[q] /\ ctx'[q] = ctx[q] /\ reply'[q] = reply[q]
         /\ \A d \in Dim : store[d] \subseteq store'[d]
<1>1. CASE \E c \in Contexts : Begin(r, c)
  BY <1>1 DEF Begin, Answer, Advance, TypeOK
<1>2. CASE ContainsKey(r) \/ LenBefore(r) \/ Insert(r) \/ LenAfter(r) \/ Remove(r) \/ CheckGlobal(r)
  BY <1>2 DEF ContainsKey, LenBefore, Insert, LenAfter, Remove, CheckGlobal, Goto, Answer, TypeOK
<1>3. CASE CheckKey(r)
  <2>1. \A d \in Dim : store[d] \subseteq store'[d]
    BY <1>3 DEF CheckKey, TypeOK
  <2> QED
    BY <1>3, <2>1 DEF CheckKey, Answer, Advance, TypeOK
<1> QED
  BY <1>1, <1>2, <1>3 DEF Step

(* The witness that a key is on its way moves on with it.                  *)
LEMMA GhostStep ==
  ASSUME TypeOK, NoGhostKeys, [Next]_vars
  PROVE  NoGhostKeys'
<1> DEFINE Holds(q, d, k) == pc[q] \in {"relen", "remove", "quota"} /\ dim[q] = d /\ CurrentKey(q) = k
<1>1. ASSUME NEW r \in Request, Step(r), NEW d \in Dim, NEW k \in keys'[d] \ store'[d]
      PROVE  \E q \in Request : Holds(q, d, k)'
  <2>1. \A q \in Request \ {r} : Holds(q, d, k) => Holds(q, d, k)'
    BY <1>1, StepFrame DEF CurrentKey
  <2>2. k \notin store[d]
    BY <1>1, StepFrame
  <2>3. CASE Insert(r)
    <3>1. pc'[r] = "relen" /\ dim' = dim /\ ctx' = ctx /\ pc[r] = "insert"
      BY <2>3 DEF Insert, Goto, TypeOK
    <3>2. CASE dim[r] = d /\ CurrentKey(r) = k
      BY <3>1, <3>2 DEF CurrentKey
    <3>3. CASE ~(dim[r] = d /\ CurrentKey(r) = k)
      <4>1. k \in keys[d]
        BY <1>1, <2>3, <3>3 DEF Insert, TypeOK
      <4>2. PICK q \in Request : Holds(q, d, k)
        BY <2>2, <4>1 DEF NoGhostKeys
      <4> QED
        BY <2>1, <3>1, <4>2
    <3> QED
      BY <3>2, <3>3
  <2>4. CASE ~Insert(r)
    <3>1. k \in keys[d] /\ ~(Remove(r) /\ dim[r] = d /\ CurrentKey(r) = k)
      BY <1>1, <2>4 DEF Step, Begin, ContainsKey, LenBefore, LenAfter, Remove, CheckKey, CheckGlobal, TypeOK
    <3>2. PICK q \in Request : Holds(q, d, k)
      BY <2>2, <3>1 DEF NoGhostKeys
    <3>3. CASE q # r
      BY <2>1, <3>2, <3>3
    <3>4. CASE q = r /\ LenAfter(r)
      BY <3>2, <3>4 DEF LenAfter, Goto, CurrentKey, TypeOK
    <3>5. CASE q = r /\ CheckKey(r)
      <4>1. k \in store'[d]
        BY <1>1, <3>2, <3>5 DEF CheckKey, TypeOK
      <4> QED
        BY <1>1, <4>1
    <3>6. q = r => LenAfter(r) \/ CheckKey(r)
      BY <1>1, <2>4, <3>1, <3>2 DEF Step, Begin, ContainsKey, LenBefore, Remove, CheckGlobal
    <3> QED
      BY <3>3, <3>4, <3>5, <3>6
  <2> QED
    BY <2>3, <2>4
<1>2. CASE UNCHANGED vars
  BY <1>2 DEF vars, NoGhostKeys, CurrentKey
<1> QED
  BY <1>1, <1>2 DEF Next, NoGhostKeys

(* Every key in a registry has reached the limiter or is on its way there: *)
(* what admit_key refuses leaves nothing behind, in any interleaving.      *)
THEOREM NothingLeftBehind == Spec => []NoGhostKeys
<1>1. Init => NoGhostKeys
  BY DEF Init, NoGhostKeys
<1> QED
  BY <1>1, GhostStep, TypeCorrect, PTL DEF Spec
------------------------------------------------------------------------------
(* What a request that is still being checked has behind it: every         *)
(* dimension before its own has a bucket for its key.                      *)
Behind(r) ==
  /\ pc[r] # "idle" =>
       /\ reply[r] = "none"
       /\ \A d \in Remaining(ctx[r], 0) : d < dim[r] => ctx[r][d] \in store[d]
  /\ pc[r] = "global" => dim[r] = Dims + 1
  /\ config.enabled /\ reply[r] = "pass"
       => \A d \in Remaining(ctx[r], 0) : ctx[r][d] \in store[d]

(* Moving on from dimension d, once the dimensions up to d are done.       *)
LEMMA AdvanceBehind ==
  ASSUME TypeOK, NEW r \in Request, NEW c \in Contexts, NEW d \in 0..Dims, Advance(r, c, d),
         config' = config, ctx'[r] = c,
         \A e \in Remaining(c, 0) : e <= d => c[e] \in store'[e]
  PROVE  Behind(r)'
<1>0. Remaining(c, 0)' = Remaining(c, 0) /\ Remaining(c, 0) \subseteq Dim
  BY DEF Remaining
<1>1. \A e \in Remaining(c, 0) : e > d => e \in Remaining(c, d)
  BY DEF Remaining
<1>2. Dim \subseteq Int /\ d \in Int /\ \A e \in Dim : e < Dims + 1
  BY RateAssumption DEF Dim
<1>3. ASSUME Remaining(c, d) = {}, NEW f \in Remaining(c, 0)
      PROVE  c[f] \in store'[f]
  <2>1. ~(f > d) /\ f \in Int
    BY <1>0, <1>1, <1>2, <1>3
  <2>2. f <= d
    BY <1>2, <2>1
  <2> QED
    BY <2>2
<1>4. CASE \E e \in Remaining(c, d) :
             /\ \A f \in Remaining(c, d) : e <= f
             /\ pc' = [pc EXCEPT ![r] = "contains"]
             /\ dim' = [dim EXCEPT ![r] = e]
             /\ reply' = [reply EXCEPT ![r] = "none"]
  <2>1. PICK e \in Remaining(c, d) :
             /\ \A f \in Remaining(c, d) : e <= f
             /\ pc' = [pc EXCEPT ![r] = "contains"]
             /\ dim' = [dim EXCEPT ![r] = e]
             /\ reply' = [reply EXCEPT ![r] = "none"]
    BY <1>4
  <2>2. pc'[r] = "contains" /\ dim'[r] = e /\ reply'[r] = "none" /\ e \in Dim
    BY <2>1 DEF TypeOK, Remaining
  <2>3. \A f \in Remaining(c, 0) : f < e => c[f] \in store'[f]
    BY <1>0, <1>1, <1>2, <2>1, <2>2
  <2> QED
    BY <1>0, <2>2, <2>3 DEF Behind, Remaining
<1>5. CASE /\ Remaining(c, d) = {}
           /\ pc' = [pc EXCEPT ![r] = "global"]
           /\ dim' = [dim EXCEPT ![r] = Dims + 1]
           /\ reply' = [reply EXCEPT ![r] = "none"]
  <2>1. pc'[r] = "global" /\ dim'[r] = Dims + 1 /\ reply'[r] = "none"
    BY <1>5 DEF TypeOK
  <2>2. \A f \in Remaining(c, 0) : c[f] \in store'[f]
    BY <1>3, <1>5
  <2> QED
    BY <1>0, <2>1, <2>2 DEF Behind, Remaining
<1>6. CASE Remaining(c, d) = {} /\ Answer(r, "pass")
  <2>1. pc'[r] = "idle" /\ reply'[r] = "pass"
    BY <1>6 DEF Answer, TypeOK
  <2>2. \A f \in Remaining(c, 0) : c[f] \in store'[f]
    BY <1>3, <1>6
  <2> QED
    BY <1>0, <2>1, <2>2 DEF Behind, Remaining
<1> QED
  BY <1>4, <1>5, <1>6 DEF Advance

LEMMA BehindStep ==
  ASSUME TypeOK, \A r \in Request : Behind(r), [Next]_vars
  PROVE  \A r \in Request : Behind(r)'
<1>1. ASSUME NEW q \in Request, Step(q), NEW r \in Request
      PROVE  Behind(r)'
  <2>0. config' = config /\ \A d \in Dim : store[d] \subseteq store'[d]
    BY <1>1, StepFrame
  <2>1. CASE r # q
    <3>1. pc'[r] = pc[r] /\ dim'[r] = dim[r] /\ ctx'[r] = ctx[r] /\ reply'[r] = reply[r]
      BY <1>1, <2>1, StepFrame
    <3>2. Behind(r)
      OBVIOUS
    <3> QED
      BY <2>0, <3>1, <3>2 DEF Behind, Remaining
  <2>2. CASE r = q /\ \E c \in Contexts : Begin(r, c)
    <3>1. PICK c \in Contexts : Begin(r, c)
      BY <2>2
    <3>2. ctx'[r] = c
      BY <3>1 DEF Begin, TypeOK
    <3>3. CASE ~config.enabled /\ Answer(r, "pass")
      BY <2>0, <3>3 DEF Answer, Behind, TypeOK
    <3>4. CASE Advance(r, c, 0)
      <4>1. 0 \in 0..Dims /\ \A e \in Remaining(c, 0) : ~(e <= 0)
        BY RateAssumption DEF Remaining, Dim
      <4> QED
        BY <2>0, <3>2, <3>4, <4>1, AdvanceBehind
    <3> QED
      BY <3>1, <3>3, <3>4 DEF Begin
  <2>3. CASE r = q /\ (ContainsKey(r) \/ LenBefore(r) \/ Insert(r) \/ LenAfter(r) \/ Remove(r))
    <3>1. /\ ctx' = ctx /\ dim' = dim /\ pc[r] \notin {"idle", "global"} /\ pc'[r] # "global"
          /\ \/ pc'[r] # "idle" /\ reply'[r] = reply[r]
             \/ pc'[r] = "idle" /\ reply'[r] = "rejected"
      BY <2>3 DEF ContainsKey, LenBefore, Insert, LenAfter, Remove, Goto, Answer, TypeOK
    <3>2. Behind(r)
      OBVIOUS
    <3> QED
      BY <2>0, <3>1, <3>2 DEF Behind, Remaining
  <2>4. CASE r = q /\ CheckKey(r)
    <3>1. pc[r] = "quota" /\ ctx' = ctx /\ ctx[r] \in Contexts /\ dim[r] \in Dim
          /\ CurrentKey(r) \in store'[dim[r]]
      BY <2>4 DEF CheckKey, TypeOK
    <3>2. CASE Answer(r, "rejected")
      BY <3>2 DEF Answer, Behind, TypeOK
    <3>3. CASE Advance(r, ctx[r], dim[r])
      <4>1. \A e \in Remaining(ctx[r], 0) : e < dim[r] => ctx[r][e] \in store[e]
        BY <3>1 DEF Behind
      <4>2. \A e \in Remaining(ctx[r], 0) : e \in Dim /\ (e <= dim[r] => e < dim[r] \/ e = dim[r])
        BY <3>1, RateAssumption DEF Remaining, Dim
      <4>3. \A e \in Remaining(ctx[r], 0) : e <= dim[r] => ctx[r][e] \in store'[e]
        BY <2>0, <3>1, <4>1, <4>2 DEF CurrentKey
      <4>4. dim[r] \in 0..Dims
        BY <3>1, RateAssumption DEF Dim
      <4>5. ctx'[r] = ctx[r]
        BY <3>1
      <4> QED
        BY <2>0, <3>1, <3>3, <4>3, <4>4, <4>5, AdvanceBehind
    <3> QED
      BY <2>4, <3>2, <3>3 DEF CheckKey
  <2>5. CASE r = q /\ CheckGlobal(r)
    <3>1. ctx' = ctx /\ store' = store /\ pc'[r] = "idle" /\ pc[r] = "global"
      BY <2>5 DEF CheckGlobal, Answer, TypeOK
    <3>2. dim[r] = Dims + 1 /\ \A d \in Remaining(ctx[r], 0) : d < dim[r] => ctx[r][d] \in store[d]
      BY <3>1 DEF Behind
    <3>3. \A d \in Remaining(ctx[r], 0) : d < Dims + 1
      BY RateAssumption DEF Remaining, Dim
    <3> QED
      BY <2>0, <3>1, <3>2, <3>3 DEF Behind, Remaining
  <2> QED
    BY <1>1, <2>1, <2>2, <2>3, <2>4, <2>5 DEF Step
<1>2. CASE UNCHANGED vars
  BY <1>2 DEF vars, Behind, Remaining
<1> QED
  BY <1>1, <1>2 DEF Next

(* check is fail-closed for any number of dimensions, requests and keys.   *)
THEOREM EveryDimensionMeters == Spec => []NoUnmeteredPass
<1> DEFINE AllBehind == \A r \in Request : Behind(r)
<1>1. Init => AllBehind
  BY DEF Init, Behind
<1>2. TypeOK /\ AllBehind /\ [Next]_vars => AllBehind'
  BY BehindStep
<1>3. AllBehind => NoUnmeteredPass
  BY DEF Behind, NoUnmeteredPass
<1> HIDE DEF AllBehind
<1> QED
  BY <1>1, <1>2, <1>3, TypeCorrect, PTL DEF Spec
------------------------------------------------------------------------------
(* How far the finding about the limiter's store reaches                   *)

(* Between contains_key and check_key.                                     *)
Admitting(r) == pc[r] \in {"len", "insert", "relen", "remove", "quota"}

(* No two requests of one key are between contains_key and check_key of one *)
(* dimension at once.                                                       *)
OneAtATime ==
  \A q, r \in Request :
    Admitting(q) /\ Admitting(r) /\ dim[q] = dim[r] /\ CurrentKey(q) = CurrentKey(r) => q = r

(* A bucket belongs to a registered key that is not being re-examined; what *)
(* contains_key saw is still so at the next call.                           *)
Registered ==
  /\ \A d \in Dim : store[d] \subseteq keys[d]
  /\ \A r \in Request :
       /\ pc[r] \in {"len", "insert"} => CurrentKey(r) \notin keys[dim[r]]
       /\ pc[r] \in {"relen", "remove"} =>
            CurrentKey(r) \in keys[dim[r]] \ store[dim[r]]
       /\ pc[r] = "quota" => CurrentKey(r) \in keys[dim[r]]

LEMMA RegisteredStep ==
  ASSUME TypeOK, Registered, OneAtATime, [Next]_vars
  PROVE  Registered'
<1>1. ASSUME NEW r \in Request, Step(r)
      PROVE  Registered'
  <2>0. \A q \in Request \ {r} :
          pc'[q] = pc[q] /\ dim'[q] = dim[q] /\ ctx'[q] = ctx[q] /\ CurrentKey(q)' = CurrentKey(q)
    BY <1>1, StepFrame DEF CurrentKey
  <2>1. ASSUME UNCHANGED <<keys, store>>, pc'[r] \in {"idle", "contains", "global"}
        PROVE  Registered'
    BY <2>0, <2>1 DEF Registered
  <2>2. CASE \E c \in Contexts : Begin(r, c)
    BY <2>1, <2>2, AnswerType, AdvanceType DEF Begin
  <2>3. CASE ContainsKey(r)
    <3>1. UNCHANGED <<keys, store>> /\ CurrentKey(r)' = CurrentKey(r) /\ dim'[r] = dim[r]
      BY <2>3 DEF ContainsKey, Goto, CurrentKey
    <3>2. pc'[r] = IF CurrentKey(r) \in keys[dim[r]] THEN "quota" ELSE "len"
      BY <2>3 DEF ContainsKey, Goto, TypeOK
    <3> QED
      BY <2>0, <3>1, <3>2 DEF Registered
  <2>4. CASE LenBefore(r)
    <3>1. UNCHANGED <<keys, store>> /\ CurrentKey(r)' = CurrentKey(r) /\ dim'[r] = dim[r]
      BY <2>4 DEF LenBefore, Goto, Answer, CurrentKey
    <3>2. pc[r] = "len" /\ pc'[r] \in {"idle", "insert"}
      BY <2>4 DEF LenBefore, Goto, Answer, TypeOK
    <3> QED
      BY <2>0, <3>1, <3>2 DEF Registered
  <2>5. CASE Insert(r)
    <3>1. /\ store' = store /\ CurrentKey(r)' = CurrentKey(r) /\ dim'[r] = dim[r]
          /\ pc[r] = "insert" /\ pc'[r] = "relen" /\ dim[r] \in Dim
          /\ keys' = [keys EXCEPT ![dim[r]] = @ \cup {CurrentKey(r)}]
      BY <2>5 DEF Insert, Goto, CurrentKey, TypeOK
    <3>2. \A d \in Dim : keys[d] \subseteq keys'[d]
      BY <3>1 DEF TypeOK
    <3>3. CurrentKey(r) \in keys'[dim[r]] /\ CurrentKey(r) \notin store[dim[r]]
      BY <3>1 DEF Registered, TypeOK
    <3>4. ASSUME NEW q \in Request \ {r}, pc[q] \in {"len", "insert"}
          PROVE  CurrentKey(q) \notin keys'[dim[q]]
      <4>1. ~(dim[q] = dim[r] /\ CurrentKey(q) = CurrentKey(r))
        BY <3>1, <3>4 DEF OneAtATime, Admitting
      <4>2. dim[q] \in Dim
        BY <3>4 DEF TypeOK
      <4> QED
        BY <3>1, <3>4, <4>1, <4>2 DEF Registered, TypeOK
    <3>5. \A q \in Request : pc[q] \in {"relen", "remove", "quota"} => dim[q] \in Dim
      BY DEF TypeOK
    <3> QED
      BY <2>0, <3>1, <3>2, <3>3, <3>4, <3>5 DEF Registered
  <2>6. CASE LenAfter(r)
    <3>1. UNCHANGED <<keys, store>> /\ CurrentKey(r)' = CurrentKey(r) /\ dim'[r] = dim[r]
      BY <2>6 DEF LenAfter, Goto, CurrentKey
    <3>2. pc[r] = "relen" /\ pc'[r] \in {"remove", "quota"}
      BY <2>6 DEF LenAfter, Goto, TypeOK
    <3> QED
      BY <2>0, <3>1, <3>2 DEF Registered
  <2>7. CASE Remove(r)
    <3>1. /\ store' = store /\ pc[r] = "remove" /\ pc'[r] = "idle" /\ dim[r] \in Dim
          /\ keys' = [keys EXCEPT ![dim[r]] = @ \ {CurrentKey(r)}]
      BY <2>7 DEF Remove, Answer, TypeOK
    <3>2. \A d \in Dim : keys'[d] \subseteq keys[d]
      BY <3>1 DEF TypeOK
    <3>3. \A d \in Dim : store[d] \subseteq keys'[d]
      BY <3>1 DEF Registered, TypeOK
    <3>4. ASSUME NEW q \in Request \ {r}, pc[q] \in {"relen", "remove", "quota"}
          PROVE  CurrentKey(q) \in keys'[dim[q]]
      <4>1. ~(dim[q] = dim[r] /\ CurrentKey(q) = CurrentKey(r))
        BY <3>1, <3>4 DEF OneAtATime, Admitting
      <4>2. dim[q] \in Dim /\ CurrentKey(q) \in keys[dim[q]]
        BY <3>4 DEF TypeOK, Registered
      <4> QED
        BY <3>1, <4>1, <4>2 DEF TypeOK
    <3>5. \A q \in Request : pc[q] \in {"len", "insert"} => dim[q] \in Dim
      BY DEF TypeOK
    <3> QED
      BY <2>0, <3>1, <3>2, <3>3, <3>4, <3>5 DEF Registered
  <2>8. CASE CheckKey(r)
    <3>1. /\ keys' = keys /\ pc[r] = "quota" /\ dim[r] \in Dim
          /\ store' = [store EXCEPT ![dim[r]] = @ \cup {CurrentKey(r)}]
      BY <2>8 DEF CheckKey, TypeOK
    <3>2. ctx[r] \in Contexts /\ pc'[r] \in {"idle", "contains", "global"}
      BY <2>8, AnswerType, AdvanceType DEF CheckKey, TypeOK
    <3>3. \A d \in Dim : store'[d] \subseteq keys[d]
      BY <3>1 DEF Registered, TypeOK
    <3>4. ASSUME NEW q \in Request \ {r}, pc[q] \in {"relen", "remove"}
          PROVE  CurrentKey(q) \notin store'[dim[q]]
      <4>1. ~(dim[q] = dim[r] /\ CurrentKey(q) = CurrentKey(r))
        BY <3>1, <3>4 DEF OneAtATime, Admitting
      <4>2. dim[q] \in Dim /\ CurrentKey(q) \notin store[dim[q]]
        BY <3>4 DEF TypeOK, Registered
      <4> QED
        BY <3>1, <4>1, <4>2 DEF TypeOK
    <3> QED
      BY <2>0, <3>1, <3>2, <3>3, <3>4 DEF Registered
  <2>9. CASE CheckGlobal(r)
    BY <2>1, <2>9, AnswerType DEF CheckGlobal
  <2> QED
    BY <1>1, <2>2, <2>3, <2>4, <2>5, <2>6, <2>7, <2>8, <2>9 DEF Step
<1>2. CASE UNCHANGED vars
  BY <1>2 DEF vars, Registered, CurrentKey
<1> QED
  BY <1>1, <1>2 DEF Next

(* The store outgrows max_keys only where two requests of one key pass      *)
(* through admit_key together: while none do, it keeps to it, whatever      *)
(* requests of other keys do, in any number.                               *)
THEOREM CapNeedsOverlap == Spec /\ []OneAtATime => []StoreCapped
<1>1. Init => Registered
  BY DEF Init, Registered
<1>2. TypeOK /\ RegistryCapped /\ Registered => StoreCapped
  <2> SUFFICES ASSUME TypeOK, RegistryCapped, Registered, NEW d \in Dim
               PROVE  Cardinality(store[d]) <= MaxKeys
    BY DEF StoreCapped
  <2>1. store[d] \subseteq keys[d] \ Examined(d)
    BY DEF Registered, Examined
  <2>2. keys[d] \ Examined(d) \in SUBSET Key
    BY DEF TypeOK
  <2>3. /\ IsFiniteSet(keys[d] \ Examined(d)) /\ Cardinality(keys[d] \ Examined(d)) \in Nat
        /\ Cardinality(store[d]) \in Nat
        /\ Cardinality(store[d]) <= Cardinality(keys[d] \ Examined(d))
    BY <2>1, <2>2, RateAssumption, FS_Subset, FS_CardinalityType
  <2> QED
    BY <2>3, RateAssumption DEF RegistryCapped
<1>3. TypeOK /\ Registered /\ OneAtATime /\ [Next]_vars => Registered'
  BY RegisteredStep
<1> QED
  BY <1>1, <1>2, <1>3, TypeCorrect, RegistryCap, PTL DEF Spec
------------------------------------------------------------------------------
(* How long a check can take                                               *)

CallsLeft(label) ==
  CASE label = "contains" -> 6
    [] label = "len" -> 5
    [] label = "insert" -> 4
    [] label = "relen" -> 3
    [] label = "remove" -> 2
    [] label = "quota" -> 1
    [] label = "global" -> 1
    [] OTHER -> 0

DimsLeft(r) == IF pc[r] \in {"idle", "global"} THEN 0 ELSE Dims + 1 - dim[r]

(* The calls a request may still make before check has its answer.         *)
CheckLeft(r) == 6 * DimsLeft(r) + CallsLeft(pc[r])

(* check retries nothing and waits for nobody: every call a request makes   *)
(* brings it nearer its answer, and no other request sets it back, however  *)
(* they meet in the registry (admit_key).                                  *)
ChecksWaitFree ==
  [][\A r \in Request :
       IF Step(r) THEN pc[r] = "idle" \/ CheckLeft(r)' < CheckLeft(r)
                  ELSE CheckLeft(r)' = CheckLeft(r)]_vars

(* A check is answered after at most 6 calls for each of the Dims           *)
(* dimensions, and the global one.                                          *)
CheckBudget == \A r \in Request : CheckLeft(r) \in 0..(6 * Dims + 6)

LEMMA CallsTyped == \A label \in Pcs : CallsLeft(label) \in 0..6
BY DEF Pcs, CallsLeft

LEMMA DimsTyped ==
  ASSUME TypeOK, NEW r \in Request
  PROVE  DimsLeft(r) \in 0..Dims
<1>1. CASE pc[r] \in {"idle", "global"}
  BY <1>1, RateAssumption DEF DimsLeft
<1>2. CASE pc[r] \notin {"idle", "global"}
  <2>1. dim[r] \in 1..Dims
    BY <1>2 DEF TypeOK, Dim
  <2>2. \A n \in Nat : \A d \in 1..n : n + 1 - d \in 0..n
    OBVIOUS
  <2>3. Dims + 1 - dim[r] \in 0..Dims
    BY <2>1, <2>2, RateAssumption
  <2> QED
    BY <1>2, <2>3, Zenon DEF DimsLeft
<1> QED
  BY <1>1, <1>2

LEMMA Counting ==
  /\ \A n \in Nat : \A m \in 0..n, c \in 0..6 : 6 * m + c \in 0..(6 * n + 6)
  /\ \A m \in Nat, b, c \in 0..6 : b < c => 6 * m + b < 6 * m + c
  /\ \A l, m \in Nat : l < m => 6 * l + 6 < 6 * m + 1
  /\ \A m \in Nat, c \in 0..6 : 0 < c => 6 * 0 + 0 < 6 * m + c
  /\ \A m \in Nat : 0 < m => 6 * 0 + 1 < 6 * m + 1
OBVIOUS

(* Moving on from dimension d leaves less than what d had left.            *)
LEMMA AdvanceLeft ==
  ASSUME TypeOK, NEW r \in Request, pc[r] = "quota", Advance(r, ctx[r], dim[r])
  PROVE  CheckLeft(r)' < CheckLeft(r)
<1>0. dim[r] \in 1..Dims /\ DimsLeft(r) = Dims + 1 - dim[r] /\ CallsLeft(pc[r]) = 1
  BY DEF TypeOK, Dim, DimsLeft, CallsLeft
<1>1. \A n \in Nat : \A d \in 1..n : n + 1 - d \in Nat /\ 0 < n + 1 - d
  OBVIOUS
<1>2. DimsLeft(r) \in Nat /\ 0 < DimsLeft(r)
  BY <1>0, <1>1, RateAssumption
<1>3. CheckLeft(r) = 6 * DimsLeft(r) + 1
  BY <1>0, Zenon DEF CheckLeft
<1>4. CASE \E e \in Remaining(ctx[r], dim[r]) :
             /\ pc' = [pc EXCEPT ![r] = "contains"]
             /\ dim' = [dim EXCEPT ![r] = e]
  <2>1. PICK e \in Remaining(ctx[r], dim[r]) :
             /\ pc' = [pc EXCEPT ![r] = "contains"]
             /\ dim' = [dim EXCEPT ![r] = e]
    BY <1>4
  <2>2. e \in 1..Dims /\ e > dim[r]
    BY DEF Remaining, Dim
  <2>3. pc'[r] = "contains" /\ dim'[r] = e
    BY <2>1, RateAssumption DEF TypeOK
  <2>4. DimsLeft(r)' = Dims + 1 - e /\ CallsLeft(pc[r])' = 6
    BY <2>3 DEF DimsLeft, CallsLeft
  <2>5. \A n \in Nat : \A d, f \in 1..n : f > d => n + 1 - f \in Nat /\ n + 1 - f < n + 1 - d
    OBVIOUS
  <2>6. DimsLeft(r)' \in Nat /\ DimsLeft(r)' < DimsLeft(r)
    BY <1>0, <2>2, <2>4, <2>5, RateAssumption
  <2>7. CheckLeft(r)' = 6 * DimsLeft(r)' + 6
    BY <2>4, Zenon DEF CheckLeft
  <2> QED
    BY <1>2, <1>3, <2>6, <2>7, Counting, Zenon
<1>5. CASE pc' = [pc EXCEPT ![r] = "global"]
  <2>1. DimsLeft(r)' = 0 /\ CallsLeft(pc[r])' = 1
    BY <1>5 DEF DimsLeft, CallsLeft, TypeOK
  <2>2. CheckLeft(r)' = 6 * 0 + 1
    BY <2>1, Zenon DEF CheckLeft
  <2> QED
    BY <1>2, <1>3, <2>2, Counting, Zenon
<1>6. CASE Answer(r, "pass")
  <2>1. DimsLeft(r)' = 0 /\ CallsLeft(pc[r])' = 0
    BY <1>6 DEF Answer, DimsLeft, CallsLeft, TypeOK
  <2>2. CheckLeft(r)' = 6 * 0 + 0
    BY <2>1, Zenon DEF CheckLeft
  <2>3. 1 \in 0..6 /\ 0 < 1
    OBVIOUS
  <2> QED
    BY <1>2, <1>3, <2>2, <2>3, Counting, Zenon
<1> QED
  BY <1>4, <1>5, <1>6 DEF Advance

LEMMA StepLeft ==
  ASSUME TypeOK, NEW r \in Request, Step(r), pc[r] # "idle"
  PROVE  CheckLeft(r)' < CheckLeft(r)
<1>0. DimsLeft(r) \in Nat /\ CallsLeft(pc[r]) \in 0..6
  <2>1. DimsLeft(r) \in 0..Dims /\ pc[r] \in Pcs
    BY DimsTyped DEF TypeOK
  <2> QED
    BY <2>1, RateAssumption, CallsTyped
<1>1. ASSUME Answer(r, "pass") \/ Answer(r, "rejected")
      PROVE  CheckLeft(r)' < CheckLeft(r)
  <2>1. DimsLeft(r)' = 0 /\ CallsLeft(pc[r])' = 0
    BY <1>1 DEF Answer, DimsLeft, CallsLeft, TypeOK
  <2>2. CheckLeft(r)' = 6 * 0 + 0
    BY <2>1, Zenon DEF CheckLeft
  <2>3. 0 < CallsLeft(pc[r])
    BY DEF CallsLeft, TypeOK, Pcs
  <2> QED
    BY <1>0, <2>2, <2>3, Counting, Zenon DEF CheckLeft
<1>2. ASSUME NEW label \in Pcs \ {"idle", "global"}, pc[r] # "global", Goto(r, label),
             CallsLeft(label) < CallsLeft(pc[r])
      PROVE  CheckLeft(r)' < CheckLeft(r)
  <2>1. pc'[r] = label /\ dim' = dim
    BY <1>2 DEF Goto, TypeOK
  <2>2. DimsLeft(r)' = DimsLeft(r)
    BY <1>2, <2>1 DEF DimsLeft
  <2>3. CheckLeft(r)' = 6 * DimsLeft(r) + CallsLeft(label) /\ CallsLeft(label) \in 0..6
    BY <2>1, <2>2, CallsTyped, Zenon DEF CheckLeft
  <2> QED
    BY <1>0, <1>2, <2>3, Counting, Zenon DEF CheckLeft
<1>3. CASE ContainsKey(r)
  <2>1. CallsLeft("quota") < CallsLeft("contains") /\ CallsLeft("len") < CallsLeft("contains")
    BY DEF CallsLeft
  <2> QED
    BY <1>2, <1>3, <2>1 DEF ContainsKey, Pcs
<1>4. CASE LenBefore(r)
  <2>1. CallsLeft("insert") < CallsLeft("len")
    BY DEF CallsLeft
  <2> QED
    BY <1>1, <1>2, <1>4, <2>1 DEF LenBefore, Pcs
<1>5. CASE Insert(r)
  <2>1. CallsLeft("relen") < CallsLeft("insert")
    BY DEF CallsLeft
  <2> QED
    BY <1>2, <1>5, <2>1 DEF Insert, Pcs
<1>6. CASE LenAfter(r)
  <2>1. CallsLeft("remove") < CallsLeft("relen") /\ CallsLeft("quota") < CallsLeft("relen")
    BY DEF CallsLeft
  <2> QED
    BY <1>2, <1>6, <2>1 DEF LenAfter, Pcs
<1>7. CASE Remove(r) \/ CheckGlobal(r)
  BY <1>1, <1>7 DEF Remove, CheckGlobal
<1>8. CASE CheckKey(r)
  BY <1>1, <1>8, AdvanceLeft DEF CheckKey
<1> QED
  BY <1>3, <1>4, <1>5, <1>6, <1>7, <1>8 DEF Step, Begin

(* A check has its answer after a bounded number of calls, for any number  *)
(* of requests, keys and dimensions.                                       *)
THEOREM ChecksEnd == Spec => ChecksWaitFree /\ []CheckBudget
<1>1. ASSUME TypeOK, [Next]_vars, NEW r \in Request, ~Step(r)
      PROVE  CheckLeft(r)' = CheckLeft(r)
  <2>1. pc'[r] = pc[r] /\ dim'[r] = dim[r]
    <3>1. ASSUME NEW q \in Request, Step(q)
          PROVE  pc'[r] = pc[r] /\ dim'[r] = dim[r]
      BY <1>1, <3>1, StepFrame
    <3> QED
      BY <1>1, <3>1 DEF Next, vars
  <2> QED
    BY <2>1, Zenon DEF CheckLeft, DimsLeft
<1>2. TypeOK /\ [Next]_vars =>
        [\A r \in Request :
           IF Step(r) THEN pc[r] = "idle" \/ CheckLeft(r)' < CheckLeft(r)
                      ELSE CheckLeft(r)' = CheckLeft(r)]_vars
  BY <1>1, StepLeft
<1>3. TypeOK => CheckBudget
  <2> SUFFICES ASSUME TypeOK, NEW r \in Request
               PROVE  CheckLeft(r) \in 0..(6 * Dims + 6)
    BY DEF CheckBudget
  <2>1. DimsLeft(r) \in 0..Dims /\ CallsLeft(pc[r]) \in 0..6 /\ Dims \in Nat
    BY DimsTyped, CallsTyped, RateAssumption DEF TypeOK
  <2> QED
    BY <2>1, Counting, Zenon DEF CheckLeft
<1> QED
  BY <1>2, <1>3, TypeCorrect, PTL DEF Spec, ChecksWaitFree
==============================================================================
