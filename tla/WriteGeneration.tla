--------------------------- MODULE WriteGeneration ---------------------------
(***************************************************************************)
(* The Library write generation: library-write-coordinator.ts reserves a   *)
(* number in one of two alternating slot files before a writer mutates the *)
(* Library, and library-manager.ts decides with it which scans may still   *)
(* replace the session registry, and whether the startup planner may reuse *)
(* the last one.                                                           *)
(*                                                                         *)
(* The Library is the sequence of its mutations; a scan or a registry is   *)
(* the set of the mutations it shows.  The writer lease and arbiter are    *)
(* the mutex they implement (WriterMutex); a dead holder's lock is free.   *)
(* A scan looks at the Library in one step, between the two readings of    *)
(* the generation.  The legacy slot file is only ever read: it is left out.*)
(***************************************************************************)
EXTENDS Naturals, Sequences, FiniteSets

CONSTANTS
    Procs,          \* the processes that have the Library open
    Planner,        \* the one that runs startup-plan and startup-batch: the Library worker
    Free,           \* no holder
    NoRuntime,      \* startupPlanRuntime = null
    MaxGeneration,  \* bound on the generations reserved
    MaxMutations,   \* bound on the mutations
    MaxPosted       \* bound on the worker's unread answers

ASSUME GenerationAssumption ==
    /\ Planner \in Procs
    /\ Free \notin Procs
    /\ NoRuntime \notin Nat
    /\ MaxGeneration \in Nat
    /\ MaxMutations \in Nat
    /\ MaxPosted \in Nat

VARIABLES
    slot,       \* library-generation-a.json and -b.json: a number, or 0 for no valid record
    holder,     \* who holds the writer lease
    log,        \* the Library: the generation and the author of each mutation, in order
    applied,    \* _appliedWriteGeneration
    prepared,   \* registrySnapshotPreparedRoot is the root
    known,      \* the mutations the session registry shows
    runtime,    \* startupPlanRuntime.writeGeneration
    scan,       \* a scan in progress
    posted,     \* trees on their way from the process that scanned them to another
    op,         \* what the process acquired the writer for
    pc

vars == <<slot, holder, log, applied, prepared, known, runtime, scan, posted, op, pc>>

Mutations == 1..MaxMutations
Numbers   == 0..MaxGeneration
Trees     == [writeGeneration : Numbers, shows : SUBSET Mutations, scanStale : BOOLEAN]
NoTree    == [writeGeneration |-> 0, shows |-> {}, scanStale |-> TRUE]
Ops       == {"write", "plan", "batch"}

TypeOK ==
    /\ slot \in [0..1 -> Numbers]
    /\ holder \in Procs \cup {Free}
    /\ log \in Seq([generation : Numbers, by : Procs])
    /\ applied \in [Procs -> Numbers]
    /\ prepared \in [Procs -> BOOLEAN]
    /\ known \in [Procs -> SUBSET Mutations]
    /\ runtime \in Numbers \cup {NoRuntime}
    /\ scan \in [Procs -> Trees]
    /\ posted \subseteq Trees
    /\ op \in [Procs -> Ops]
    /\ pc \in [Procs -> {"idle", "wanting", "reserving", "writing", "deciding", "mutating",
                         "settling", "scanning", "looked"}]

Init ==
    /\ slot = [i \in 0..1 |-> 0]
    /\ holder = Free
    /\ log = <<>>
    /\ applied = [p \in Procs |-> 0]
    /\ prepared = [p \in Procs |-> FALSE]
    /\ known = [p \in Procs |-> {}]
    /\ runtime = NoRuntime
    /\ scan = [p \in Procs |-> NoTree]
    /\ posted = {}
    /\ op = [p \in Procs |-> "write"]
    /\ pc = [p \in Procs |-> "idle"]

------------------------------------------------------------------------------
Larger(m, n) == IF m > n THEN m ELSE n

\* readLibraryWriteGeneration: the larger of the slots that hold a record.
Generation == Larger(slot[0], slot[1])

Library == 1..Len(log)

Goto(p, l) == pc' = [pc EXCEPT ![p] = l]

\* The slot the next generation is written to.
SlotOf_Fixed(n) == 0
SlotOf(n) == n % 2

library  == <<slot, holder, log>>
registry == <<applied, prepared, known>>
scanning == <<scan, posted>>

------------------------------------------------------------------------------
(* runWithLibraryWriter: acquire, reserve a generation, operate, release. *)

InitLibrary_Next(p) ==
    applied' = IF p = Planner THEN [applied EXCEPT ![p] = Generation + 1] ELSE applied

\* initLibrary, at the start of every request of the worker.
InitLibrary(p) == applied' = IF p = Planner THEN [applied EXCEPT ![p] = Generation] ELSE applied

Want(p) ==
    /\ pc[p] = "idle"
    /\ InitLibrary(p)
    /\ \E o \in Ops :
         /\ o # "write" => p = Planner
         /\ o = "batch" => runtime # NoRuntime
         /\ op' = [op EXCEPT ![p] = o]
    /\ Goto(p, "wanting")
    /\ UNCHANGED <<library, prepared, known, runtime, scanning>>

Acquire(p) ==
    /\ pc[p] = "wanting"
    /\ holder = Free
    /\ holder' = p
    /\ Goto(p, "reserving")
    /\ UNCHANGED <<slot, log, registry, runtime, scanning, op>>

\* The slot file is truncated...
TruncateSlot(p) ==
    /\ pc[p] = "reserving"
    /\ Generation < MaxGeneration
    /\ slot' = [slot EXCEPT ![SlotOf(Generation + 1)] = 0]
    /\ Goto(p, "writing")
    /\ UNCHANGED <<holder, log, registry, runtime, scanning, op>>

WriteSlot_Missing(p) ==
    /\ pc[p] = "writing"
    /\ Goto(p, IF op[p] = "write" THEN "mutating" ELSE "deciding")
    /\ UNCHANGED <<library, registry, runtime, scanning, op>>

\* ...and written. (A failed write is a throw: the lease is released.)
WriteSlot(p) ==
    /\ pc[p] = "writing"
    /\ \/ /\ slot' = [slot EXCEPT ![SlotOf(Generation + 1)] = Generation + 1]
          /\ Goto(p, IF op[p] = "write" THEN "mutating" ELSE "deciding")
          /\ UNCHANGED holder
       \/ /\ Goto(p, "settling")
          /\ holder' = Free
          /\ UNCHANGED slot
    /\ UNCHANGED <<log, registry, runtime, scanning, op>>

\* The operation of a writer changes the Library, and its own registry with it.
Mutate(p) ==
    /\ pc[p] = "mutating"
    /\ Len(log) < MaxMutations
    /\ log' = Append(log, [generation |-> Generation, by |-> p])
    /\ known' = [known EXCEPT ![p] = @ \cup {Len(log) + 1}]
    /\ UNCHANGED <<slot, holder, applied, prepared, runtime, scanning, op, pc>>

Release(p) ==
    /\ pc[p] = "mutating"
    /\ holder' = Free
    /\ Goto(p, "settling")
    /\ UNCHANGED <<slot, log, registry, runtime, scanning, op>>

\* withLibraryWriter's finally, after the lease is gone.
Settle(p) ==
    /\ pc[p] = "settling"
    /\ applied' = [applied EXCEPT ![p] = Larger(@, Generation)]
    /\ op' = [op EXCEPT ![p] = "write"]
    /\ Goto(p, "idle")
    /\ UNCHANGED <<library, prepared, known, runtime, scanning>>

\* A scan made while the lease is held, by which nothing can be missed.
ScanUnderLease(p) ==
    /\ applied' = [applied EXCEPT ![p] = Generation]
    /\ prepared' = [prepared EXCEPT ![p] = TRUE]
    /\ known' = [known EXCEPT ![p] = Library]

CanReuseAuthoritativeScan(p) == prepared[p] /\ Generation = applied[p] + 1

\* planLibraryStartupSync, and the generation it leaves to the batches.
Plan(p) ==
    /\ pc[p] = "deciding"
    /\ op[p] = "plan"
    /\ IF CanReuseAuthoritativeScan(p) THEN UNCHANGED registry ELSE ScanUnderLease(p)
    /\ runtime' = Generation
    /\ Goto(p, "mutating")
    /\ UNCHANGED <<library, scanning, op>>

BatchFollows_Always == TRUE
BatchFollows == Generation = runtime + 1

\* syncLibraryStartupBatch scans again unless the last writer was the plan or
\* the batch before it.
Batch(p) ==
    /\ pc[p] = "deciding"
    /\ op[p] = "batch"
    /\ IF BatchFollows THEN UNCHANGED registry ELSE ScanUnderLease(p)
    /\ runtime' = Generation
    /\ Goto(p, "mutating")
    /\ UNCHANGED <<library, scanning, op>>

------------------------------------------------------------------------------
(* scanLibrary and applyLibraryTree, without the lease. *)

BeginScan(p) ==
    /\ pc[p] = "idle"
    /\ p = Planner => Cardinality(posted) < MaxPosted
    /\ InitLibrary(p)
    /\ scan' = [scan EXCEPT ![p] = [NoTree EXCEPT !.writeGeneration = Generation]]
    /\ Goto(p, "scanning")
    /\ UNCHANGED <<library, prepared, known, runtime, posted, op>>

Look(p) ==
    /\ pc[p] = "scanning"
    /\ scan' = [scan EXCEPT ![p].shows = Library]
    /\ Goto(p, "looked")
    /\ UNCHANGED <<library, registry, runtime, posted, op>>

Accepts_Equal(p, tree, current) == ~tree.scanStale
Accepts(p, tree, current) ==
    ~tree.scanStale /\ tree.writeGeneration >= Larger(applied[p], current)

Apply(p, tree, current) ==
    IF Accepts(p, tree, current)
    THEN /\ applied' = [applied EXCEPT ![p] = tree.writeGeneration]
         /\ prepared' = [prepared EXCEPT ![p] = TRUE]
         /\ known' = [known EXCEPT ![p] = tree.shows]
    ELSE UNCHANGED registry

\* The scanning process applies its tree; the worker then posts it.
FinishScan(p) ==
    /\ pc[p] = "looked"
    /\ LET tree == [scan[p] EXCEPT !.scanStale = (Generation # scan[p].writeGeneration)] IN
         /\ Apply(p, tree, Generation)
         /\ posted' = IF p = Planner THEN posted \cup {tree} ELSE posted
    /\ scan' = [scan EXCEPT ![p] = NoTree]
    /\ Goto(p, "idle")
    /\ UNCHANGED <<library, runtime, op>>

\* adoptLibraryTree: a tree of the worker arrives, however late, and whatever
\* asynchronous operation the process has under way.
Adopt(p) ==
    /\ p # Planner
    /\ pc[p] \notin {"scanning", "looked"}
    /\ \E tree \in posted :
         /\ Apply(p, tree, Generation)
         /\ posted' = posted \ {tree}
    /\ UNCHANGED <<library, runtime, scan, op, pc>>

------------------------------------------------------------------------------
\* A process dies, whatever it was doing, and another takes its place.
Crash(p) ==
    /\ pc[p] # "idle"
    /\ holder' = IF holder = p THEN Free ELSE holder
    /\ applied' = [applied EXCEPT ![p] = Generation]
    /\ prepared' = [prepared EXCEPT ![p] = FALSE]
    /\ known' = [known EXCEPT ![p] = {}]
    /\ runtime' = IF p = Planner THEN NoRuntime ELSE runtime
    /\ scan' = [scan EXCEPT ![p] = NoTree]
    /\ op' = [op EXCEPT ![p] = "write"]
    /\ Goto(p, "idle")
    /\ UNCHANGED <<slot, log, posted>>

Writing(p) ==
    \/ Want(p) \/ Acquire(p) \/ TruncateSlot(p) \/ WriteSlot(p) \/ Plan(p) \/ Batch(p)
    \/ Mutate(p) \/ Release(p) \/ Settle(p)
Scanning(p) ==
    BeginScan(p) \/ Look(p) \/ FinishScan(p) \/ Adopt(p)

Next == \E p \in Procs : Writing(p) \/ Scanning(p) \/ Crash(p)

Spec == Init /\ [][Next]_vars

------------------------------------------------------------------------------
(* Properties *)

\* A generation is reserved for one operation only, whoever crashed while
\* writing a slot: of two mutations by different processes the later one has
\* the larger generation (bumpLibraryWriteGeneration's alternating slots).
GenerationsAreUnique ==
    \A i, j \in Library : i < j =>
      \/ log[i].generation < log[j].generation
      \/ log[i].generation = log[j].generation /\ log[i].by = log[j].by

\* The generation on disk is never behind a mutation, so a writer that dies in
\* its operation still invalidates the scans that started before it
\* (runWithLibraryWriter: "Reserve the generation durably before any mutation").
NoMutationUnreserved == \A i \in Library : log[i].generation <= Generation /\ log[i].generation > 0

\* A scan that replaces the registry may miss the operation that was under way
\* when it began, and no other: all that finished before it is in it, all that
\* was reserved since has made it stale (applyLibraryTree's rejection).
AcceptedScanMissesOnlyTheWriterInFlight ==
    [][\A p \in Procs : (known'[p] # known[p] /\ known'[p] # {} /\ log' = log) =>
         \A i \in Library \ known'[p] : log[i].generation = applied'[p]]_vars

\* A startup batch that does not scan again has missed nothing since the plan
\* or the batch before it (syncLibraryStartupBatch: "Another writer committed
\* between bounded startup transactions").
BatchMissesNothing ==
    [][\A p \in Procs : (pc[p] = "deciding" /\ op[p] = "batch" /\ pc'[p] = "mutating") =>
         \A i \in Library \ known'[p] : log[i].generation <= runtime]_vars

\* The planner reuses a scan only if no external writer committed after it
\* (planLibraryStartupSync: "Any larger gap proves an external writer
\* committed after the candidate scan, so reusing it would be unsafe").
ReusedScanIsCurrent ==
    [][\A p \in Procs : (pc[p] = "deciding" /\ op[p] = "plan" /\ pc'[p] = "mutating") =>
         \A i \in Library : log[i].by # p => i \in known'[p]]_vars
==============================================================================
