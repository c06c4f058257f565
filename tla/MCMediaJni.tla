----------------------------- MODULE MCMediaJni -----------------------------
(* Instances of MediaJni for TLC. *)
EXTENDS MediaJni, TLC

Symmetry == Permutations(Requests) \cup Permutations(Managers) \cup Permutations(Ctl)
=============================================================================
