--------------------------- MODULE MCWriterArbiter ---------------------------
(* WriterArbiter for TLC: two main-thread contexts that share one id, and a
   worker thread that is started again in its slot after it died. *)
EXTENDS WriterArbiter

CONSTANTS m1, m2, w1
==============================================================================
