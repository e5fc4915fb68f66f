----------------------------- MODULE RateLimiter -----------------------------
(***************************************************************************)
(* The multi-dimensional rate limiter of corx-server                       *)
(* (middleware/rate_limit.rs): keyed dimensions checked in order, each     *)
(* with a registry of at most MaxKeys keys in front of a governor store,   *)
(* then the global bucket.  The registry is a concurrent map that          *)
(* admit_key reads and writes in separate calls, so requests interleave    *)
(* between them.                                                           *)
(*                                                                         *)
(* The token buckets are governor's: a verdict here is any verdict.  What  *)
(* matters of it is that check_key creates the key's bucket in the store.  *)
(***************************************************************************)
EXTENDS Integers, FiniteSets

CONSTANTS
  Key,       \* origins, client addresses and target hosts
  NoKey,     \* the dimension does not apply: header absent, trusted, unlimited
  Request,   \* tasks that carry a request through check
  Dims,      \* number of keyed dimensions (origin, ip, target_host)
  MaxKeys    \* max_keys, at least 1 by from_config

ASSUME RateAssumption ==
  /\ NoKey \notin Key
  /\ Dims \in Nat
  /\ MaxKeys \in Nat \ {0}
  /\ IsFiniteSet(Key)

VARIABLES
  config,    \* which parts of the limiter the configuration enables
  keys,      \* keys[d]: the registry of dimension d
  store,     \* store[d]: the keys governor holds a bucket for
  pc,        \* where each request is in check
  dim,       \* the dimension it is in; Dims + 1 for the global bucket
  ctx,       \* its RateContext: the key of each dimension
  reply      \* the outcome of its last check

vars == <<config, keys, store, pc, dim, ctx, reply>>

Dim == 1..Dims

Configs == [enabled: BOOLEAN, dims: SUBSET Dim, global: BOOLEAN]

Contexts == [Dim -> Key \cup {NoKey}]

Pcs == {"idle", "contains", "len", "insert", "relen", "remove", "quota", "global"}

TypeOK ==
  /\ config \in Configs
  /\ keys \in [Dim -> SUBSET Key]
  /\ store \in [Dim -> SUBSET Key]
  /\ pc \in [Request -> Pcs]
  /\ dim \in [Request -> 1..(Dims + 1)]
  /\ ctx \in [Request -> Contexts]
  /\ reply \in [Request -> {"none", "pass", "rejected"}]
  /\ \A r \in Request :
       pc[r] \notin {"idle", "global"} => dim[r] \in Dim /\ ctx[r][dim[r]] \in Key

Init ==
  /\ config \in Configs
  /\ keys = [d \in Dim |-> {}]
  /\ store = [d \in Dim |-> {}]
  /\ pc = [r \in Request |-> "idle"]
  /\ dim = [r \in Request |-> 1]
  /\ ctx = [r \in Request |-> [d \in Dim |-> NoKey]]
  /\ reply = [r \in Request |-> "none"]

(* The key the request presents in the dimension it is in.                 *)
CurrentKey(r) == ctx[r][dim[r]]

(* Mutant of Remaining: a dimension without a key is not skipped.           *)
RemainingAll(c, d) == {e \in Dim : e > d /\ e \in config.dims}

(* The dimensions check applies to a request, after the d-th.              *)
Remaining(c, d) == {e \in Dim : e > d /\ e \in config.dims /\ c[e] # NoKey}

Answer(r, outcome) ==
  /\ pc' = [pc EXCEPT ![r] = "idle"]
  /\ reply' = [reply EXCEPT ![r] = outcome]
  /\ UNCHANGED dim

(* On to the next dimension that applies, then to the global bucket.       *)
Advance(r, c, d) ==
  \/ \E e \in Remaining(c, d) :
       /\ \A f \in Remaining(c, d) : e <= f
       /\ pc' = [pc EXCEPT ![r] = "contains"]
       /\ dim' = [dim EXCEPT ![r] = e]
       /\ reply' = [reply EXCEPT ![r] = "none"]
  \/ /\ Remaining(c, d) = {} /\ config.global
     /\ pc' = [pc EXCEPT ![r] = "global"]
     /\ dim' = [dim EXCEPT ![r] = Dims + 1]
     /\ reply' = [reply EXCEPT ![r] = "none"]
  \/ Remaining(c, d) = {} /\ ~config.global /\ Answer(r, "pass")

(* check begins: a disabled limiter passes everything.                     *)
Begin(r, c) ==
  /\ pc[r] = "idle"
  /\ ctx' = [ctx EXCEPT ![r] = c]
  /\ \/ ~config.enabled /\ Answer(r, "pass")
     \/ config.enabled /\ Advance(r, c, 0)
  /\ UNCHANGED <<config, keys, store>>

Goto(r, label) == pc' = [pc EXCEPT ![r] = label] /\ UNCHANGED <<dim, reply>>

(* admit_key, one call on the concurrent map after another.                *)
ContainsKey(r) ==
  /\ pc[r] = "contains"
  /\ Goto(r, IF CurrentKey(r) \in keys[dim[r]] THEN "quota" ELSE "len")
  /\ UNCHANGED <<config, keys, store, ctx>>

(* Mutant of LenBefore: a full registry lets the newcomer by (fail-open).   *)
LenBeforeFailOpen(r) ==
  /\ pc[r] = "len"
  /\ \/ Cardinality(keys[dim[r]]) >= MaxKeys /\ Advance(r, ctx[r], dim[r])
     \/ Cardinality(keys[dim[r]]) < MaxKeys /\ Goto(r, "insert")
  /\ UNCHANGED <<config, keys, store, ctx>>

LenBefore(r) ==
  /\ pc[r] = "len"
  /\ \/ Cardinality(keys[dim[r]]) >= MaxKeys /\ Answer(r, "rejected")
     \/ Cardinality(keys[dim[r]]) < MaxKeys /\ Goto(r, "insert")
  /\ UNCHANGED <<config, keys, store, ctx>>

Insert(r) ==
  /\ pc[r] = "insert"
  /\ keys' = [keys EXCEPT ![dim[r]] = @ \cup {CurrentKey(r)}]
  /\ Goto(r, "relen")
  /\ UNCHANGED <<config, store, ctx>>

(* Mutant of LenAfter: the length is not looked at again.                   *)
LenAfterTrusted(r) ==
  /\ pc[r] = "relen"
  /\ Goto(r, "quota")
  /\ UNCHANGED <<config, keys, store, ctx>>

LenAfter(r) ==
  /\ pc[r] = "relen"
  /\ Goto(r, IF Cardinality(keys[dim[r]]) > MaxKeys THEN "remove" ELSE "quota")
  /\ UNCHANGED <<config, keys, store, ctx>>

(* Mutant of Remove: the rejected newcomer keeps its place.                 *)
RemoveForgotten(r) ==
  /\ pc[r] = "remove"
  /\ Answer(r, "rejected")
  /\ UNCHANGED <<config, keys, store, ctx>>

Remove(r) ==
  /\ pc[r] = "remove"
  /\ keys' = [keys EXCEPT ![dim[r]] = @ \ {CurrentKey(r)}]
  /\ Answer(r, "rejected")
  /\ UNCHANGED <<config, store, ctx>>

(* limiter.check_key: governor creates the bucket and gives its verdict.   *)
CheckKey(r) ==
  /\ pc[r] = "quota"
  /\ store' = [store EXCEPT ![dim[r]] = @ \cup {CurrentKey(r)}]
  /\ \/ Answer(r, "rejected")
     \/ Advance(r, ctx[r], dim[r])
  /\ UNCHANGED <<config, keys, ctx>>

(* The global bucket, last.                                                *)
CheckGlobal(r) ==
  /\ pc[r] = "global"
  /\ \/ Answer(r, "rejected")
     \/ Answer(r, "pass")
  /\ UNCHANGED <<config, keys, store, ctx>>

Step(r) ==
  \/ \E c \in Contexts : Begin(r, c)
  \/ ContainsKey(r)
  \/ LenBefore(r)
  \/ Insert(r)
  \/ LenAfter(r)
  \/ Remove(r)
  \/ CheckKey(r)
  \/ CheckGlobal(r)

Next == \E r \in Request : Step(r)

Spec == Init /\ [][Next]_vars
-----------------------------------------------------------------------------
(* Properties                                                              *)

(* The keys of d whose insertion is still being re-examined.               *)
Examined(d) ==
  {CurrentKey(r) : r \in {q \in Request : pc[q] \in {"relen", "remove"} /\ dim[q] = d}}

(* max_keys: concurrent insertions may overshoot, but apart from the keys   *)
(* still being re-examined a registry never holds more than MaxKeys.        *)
RegistryCapped == \A d \in Dim : Cardinality(keys[d] \ Examined(d)) <= MaxKeys

(* admit_key "removes the insertion" of a rejected newcomer: no key keeps a *)
(* place in the registry unless it reached the limiter or is on its way.    *)
NoGhostKeys ==
  \A d \in Dim : \A k \in keys[d] \ store[d] :
    \E r \in Request :
      /\ pc[r] \in {"relen", "remove", "quota"}
      /\ dim[r] = d
      /\ CurrentKey(r) = k

(* check is fail-closed: a request passes an enabled limiter only after     *)
(* every dimension that applies to it has metered its key.                  *)
NoUnmeteredPass ==
  \A r \in Request :
    config.enabled /\ reply[r] = "pass"
      => \A d \in Remaining(ctx[r], 0) : ctx[r][d] \in store[d]

(* "Keyed dimensions enforce max_keys: when the key registry is full,      *)
(* unknown keys are rejected fail-closed rather than growing without       *)
(* bound": the limiter never holds buckets for more than MaxKeys keys.     *)
StoreCapped == \A d \in Dim : Cardinality(store[d]) <= MaxKeys
=============================================================================
