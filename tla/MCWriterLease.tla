---------------------------- MODULE MCWriterLease ----------------------------
(* WriterLease for TLC. *)
EXTENDS WriterLease, TLC

CONSTANTS p1, p2, p3, p4

\* The process p1 acquired the lease, never renewed it, and died: a state that
\* Begin, MakeDirectory, OpenOwner, WriteOwner and Crash reach from Init.
StaleInit ==
    /\ lock = [id |-> <<p1, 1>>, files |-> {OwnerFile(<<p1, 1>>, 0, TRUE)}, claim |-> NoClaim]
    /\ alive = Procs \ {p1}
    /\ round = [p \in Procs |-> IF p = p1 THEN 1 ELSE 0]
    /\ manual = [p \in Procs |-> FALSE]
    /\ seen = [p \in Procs |-> {}]
    /\ captured = [p \in Procs |-> NoDir]
    /\ claim = [p \in Procs |-> NoClaim]
    /\ pc = [p \in Procs |-> "idle"]
    /\ breach = {}

StaleSpec == StaleInit /\ [][Next]_vars
StaleSymmetry == Permutations(Procs \ {p1})
==============================================================================
