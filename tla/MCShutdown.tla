----------------------------- MODULE MCShutdown -----------------------------
(* A process with few connections and short bodies.                        *)
EXTENDS Shutdown

(* No limit, one that a frame can reach or cross, one no count can pass.   *)
MCBodyLimits == {0, 2, MaxU64}
=============================================================================
