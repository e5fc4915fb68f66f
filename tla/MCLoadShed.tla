----------------------------- MODULE MCLoadShed -----------------------------
(* The load-shedding layer with more tasks than slots.                     *)
EXTENDS LoadShed
=============================================================================
