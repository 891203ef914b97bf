-------------------------- MODULE MCSessionPublish --------------------------
(* SessionPublish for TLC. *)
EXTENDS SessionPublish, TLC

CONSTANTS s1, s2, p1, p2

MCSymmetry == Permutations(Sessions) \cup Permutations(Processes)
=============================================================================
