---------------------------- MODULE ResponseBody ----------------------------
(***************************************************************************)
(* The streamed answers of corx-server (observability/metering.rs): each   *)
(* upstream body is wrapped in a CountingBody and, outside it, in a        *)
(* LimitingBody that ends the stream with an error once more than          *)
(* max_response_body_bytes have come.                                      *)
(*                                                                         *)
(* A step is one poll_frame that finds something ready.  The test before   *)
(* the inner poll repeats the verdict to a consumer that polls again after *)
(* the error; hyper's does not.  Frames without data change nothing and    *)
(* are left out.                                                           *)
(***************************************************************************)
EXTENDS Integers

CONSTANTS
  Stream,      \* connections, each with at most one answer on its way
  BodyLimits,  \* the values max_response_body_bytes may have
  FrameSizes,  \* the bytes a data frame may hold
  MaxU64,      \* u64::MAX
  MaxBytes     \* bound on the bytes of one body

VARIABLES
  max_bytes,  \* the limit, fixed at startup
  status,     \* what became of the latest body of each connection
  seen,       \* bytes charged to it
  received,   \* bytes the CountingBody has seen
  delivered   \* history: bytes handed to the client

vars == <<max_bytes, status, seen, received, delivered>>

Statuses == {"none", "open", "ended", "failed", "dropped"}

TypeOK ==
  /\ max_bytes \in BodyLimits
  /\ status \in [Stream -> Statuses]
  /\ seen \in [Stream -> 0..MaxU64]
  /\ received \in [Stream -> Nat]
  /\ delivered \in [Stream -> Nat]

Init ==
  /\ max_bytes \in BodyLimits
  /\ status = [s \in Stream |-> "none"]
  /\ seen = [s \in Stream |-> 0]
  /\ received = [s \in Stream |-> 0]
  /\ delivered = [s \in Stream |-> 0]

SaturatingAdd(a, b) == IF a + b > MaxU64 THEN MaxU64 ELSE a + b

(* Mutant of OverBudget: the limit is taken for the first excess.            *)
OverBudgetByOne(bytes) == max_bytes > 0 /\ bytes > max_bytes + 1

OverBudget(bytes) == max_bytes > 0 /\ bytes > max_bytes

(* shape_response wraps the upstream's body.                               *)
Open(s) ==
  /\ status[s] # "open"
  /\ status' = [status EXCEPT ![s] = "open"]
  /\ seen' = [seen EXCEPT ![s] = 0]
  /\ received' = [received EXCEPT ![s] = 0]
  /\ delivered' = [delivered EXCEPT ![s] = 0]
  /\ UNCHANGED max_bytes

(* CountingBody counts the frame, LimitingBody charges it.                 *)
Take(s, n) ==
  /\ status[s] = "open"
  /\ received[s] + n <= MaxBytes
  /\ received' = [received EXCEPT ![s] = @ + n]
  /\ seen' = [seen EXCEPT ![s] = SaturatingAdd(@, n)]
  /\ UNCHANGED max_bytes

Pass(s, n) ==
  /\ Take(s, n)
  /\ ~OverBudget(seen'[s])
  /\ delivered' = [delivered EXCEPT ![s] = @ + n]
  /\ UNCHANGED status

(* Mutant of Exceed: the stream stops where an error is due.                *)
ExceedQuietly(s, n) ==
  /\ Take(s, n)
  /\ OverBudget(seen'[s])
  /\ status' = [status EXCEPT ![s] = "ended"]
  /\ UNCHANGED delivered

(* The frame that crosses the limit is not handed on: PayloadTooLarge.     *)
Exceed(s, n) ==
  /\ Take(s, n)
  /\ OverBudget(seen'[s])
  /\ status' = [status EXCEPT ![s] = "failed"]
  /\ UNCHANGED delivered

(* The upstream's body ends, with or without an error.                     *)
Close(s, how) ==
  /\ status[s] = "open"
  /\ status' = [status EXCEPT ![s] = how]
  /\ UNCHANGED <<max_bytes, seen, received, delivered>>

(* The connections S are gone, and the bodies they were sending.           *)
Drop(S) ==
  /\ status' = [s \in Stream |->
                  IF s \in S /\ status[s] = "open" THEN "dropped" ELSE status[s]]
  /\ UNCHANGED <<max_bytes, seen, received, delivered>>

Next ==
  \/ \E s \in Stream :
       \/ Open(s)
       \/ \E n \in FrameSizes : Pass(s, n) \/ Exceed(s, n)
       \/ \E how \in {"ended", "failed"} : Close(s, how)
  \/ \E S \in SUBSET Stream : Drop(S)

Spec == Init /\ [][Next]_vars
-----------------------------------------------------------------------------
(* Properties                                                              *)

(* A client never gets more than max_response_body_bytes of a body, frames  *)
(* of any size and the one that crosses the limit included.  A saturating   *)
(* count cannot tell more than u64::MAX bytes from u64::MAX.                *)
LimitHeld ==
  0 < max_bytes /\ max_bytes < MaxU64 => \A s \in Stream : delivered[s] <= max_bytes

(* A body that ends without an error is the upstream's, whole: the limit    *)
(* never makes a truncated answer look complete.                            *)
NoQuietTruncation ==
  \A s \in Stream : status[s] = "ended" => delivered[s] = received[s]
=============================================================================
