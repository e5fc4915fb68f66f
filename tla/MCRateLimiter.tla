---------------------------- MODULE MCRateLimiter ----------------------------
(* The rate limiter with more keys than a registry holds.                  *)
EXTENDS RateLimiter, TLC

(* Keys and requests are interchangeable.                                  *)
Symmetry == Permutations(Key) \cup Permutations(Request)
==============================================================================
