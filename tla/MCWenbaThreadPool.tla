------------------------- MODULE MCWenbaThreadPool -------------------------
(* Instances of WenbaThreadPool for TLC. *)
EXTENDS WenbaThreadPool
=============================================================================
