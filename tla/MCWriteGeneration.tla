------------------------- MODULE MCWriteGeneration -------------------------
\* WriteGeneration for TLC: the Library worker and one other process, which is
\* both the main process that adopts the worker's trees and the external writer
\* that the worker's plan and batches must notice.
EXTENDS WriteGeneration
=============================================================================
