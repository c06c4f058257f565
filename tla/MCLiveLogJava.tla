---------------------------- MODULE MCLiveLogJava ----------------------------
(* Instances of LiveLogJava for TLC. *)
EXTENDS LiveLogJava, TLC

Symmetry ==
    Permutations(Threads) \cup Permutations(Creators) \cup Permutations(Readers)
        \cup Permutations(Destroyers)
=============================================================================
