----------------------- MODULE MCSessionSyncCoordinator -----------------------
(* SessionSyncCoordinator for TLC. *)
EXTENDS SessionSyncCoordinator, TLC

CONSTANTS s1, s2

MCSymmetry == Permutations(Sessions)
==============================================================================
