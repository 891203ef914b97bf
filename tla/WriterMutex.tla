----------------------------- MODULE WriterMutex -----------------------------
(***************************************************************************)
(* What a Library writer lock promises its callers, whatever it is made    *)
(* of: at most one writer at a time, and no grant once the lock is closed. *)
(* WriterArbiter (shared memory, one process) and WriterLease (a directory *)
(* on disk, many processes) are shown to implement it.                     *)
(***************************************************************************)
CONSTANT Writers

VARIABLES
    holders,    \* the writers that have been told they hold the lock
    closed      \* no further grant is allowed

mvars == <<holders, closed>>

MutexTypeOK == holders \subseteq Writers /\ closed \in BOOLEAN

MutexInit == holders = {} /\ closed = FALSE

Grant(w) ==
    /\ ~closed
    /\ holders = {}
    /\ holders' = {w}
    /\ UNCHANGED closed

\* The writer gives the lock up, or dies.
Leave(w) ==
    /\ w \in holders
    /\ holders' = holders \ {w}
    /\ UNCHANGED closed

Close == closed' = TRUE /\ UNCHANGED holders

MutexNext == Close \/ \E w \in Writers : Grant(w) \/ Leave(w)

MutexSpec == MutexInit /\ [][MutexNext]_mvars
==============================================================================
