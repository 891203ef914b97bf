------------------------ MODULE MCSessionWriteSnapshot ------------------------
(* SessionWriteSnapshot for TLC: its constants are the bounds. *)
EXTENDS SessionWriteSnapshot
==============================================================================
