-------------------------- MODULE MCLiveLogNative --------------------------
(* Instances of LiveLogNative for TLC. *)
EXTENDS LiveLogNative, TLC

Symmetry == Permutations(Logs)
=============================================================================
