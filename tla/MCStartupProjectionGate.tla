---------------------- MODULE MCStartupProjectionGate ----------------------
(* StartupProjectionGate for TLC. *)
EXTENDS StartupProjectionGate, TLC

CONSTANTS q1, q2, c1, c2

MCSymmetry == Permutations(Contents)
=============================================================================
