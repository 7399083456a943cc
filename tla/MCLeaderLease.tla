--------------------------- MODULE MCLeaderLease ---------------------------
(* Small instances of LeaderLease.                                         *)
EXTENDS LeaderLease, TLC

Symmetry == Permutations(Pods)
=============================================================================
