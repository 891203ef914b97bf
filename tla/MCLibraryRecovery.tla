------------------------- MODULE MCLibraryRecovery -------------------------
(* LibraryRecovery for TLC. *)
EXTENDS LibraryRecovery
=============================================================================
