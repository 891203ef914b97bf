----------------------- MODULE StartupProjectionGate -----------------------
(***************************************************************************)
(* The one queue of the full Search and Usage projections                  *)
(* (src/main/startup-projection-gate.ts) and the calls index.ts makes on   *)
(* it: an initialization of the Library plans, opens and finishes a        *)
(* startup or fails and resets the gate, a switch of the Library root      *)
(* resets it and opens it again when it commits, and everything that       *)
(* changes what a projection reads schedules one.  A Usage run is the      *)
(* synchronization itself; a Search run hands a snapshot to the index      *)
(* writer (src/main/search-index-writer.ts), whose queue is here too.      *)
(*                                                                         *)
(* The gate is one record, and each of its methods an operator from a gate *)
(* to a gate, so that a caller that makes two calls in one turn (reset and *)
(* prepareStartup, open and finishStartup) is one action.                  *)
(***************************************************************************)
EXTENDS Naturals, Sequences, FiniteSets

CONSTANTS Requests,  \* the promises the callers of schedule* hold
          Contents,  \* what the session list may hold
          MaxEpoch,  \* bound on the switches of the Library root
          None       \* no job, no revision, no task

Kinds == {"search", "usage"}

Revisions == [epoch : 0..MaxEpoch, content : Contents]

\* A job and what its run has read: None until it has, or if nobody follows it.
Jobs == [kind : Kinds, rebuild : BOOLEAN, rev : Revisions \cup {None},
         waiters : SUBSET Requests, read : Revisions \cup {None}]

ASSUME GateAssumption ==
    /\ MaxEpoch \in Nat
    /\ None \notin Contents \cup Revisions \cup Jobs \cup 0..MaxEpoch

VARIABLES
    gate,       \* the StartupProjectionGate
    timer,      \* None, or the runtime epoch of scheduleEpochBoundTask's timer
    writer,     \* the snapshots the index writer has: being written, pending;
                \* each is what it holds, or None if nobody follows that
    projected,  \* what the last projection of the observed kind had read;
                \* forgotten when the root is switched
    epoch,      \* libraryRuntimeEpoch
    switch,     \* where performLibraryActivation is
    init,       \* where initLibraryFromSessions is
    content,    \* what projections read: the sessions, exclusions, folders
    observed,   \* history: the kind that the two below are about, either one
    asked,      \* history: a projection was asked for since its input changed
    excused     \* history: the last such request or run is no evidence

library == <<epoch, switch, init, content>>
history == <<observed, asked, excused>>
vars == <<gate, timer, writer, projected, library, history>>

(* currentProjectionRevision: the runtime epoch and a digest of what a     *)
(* projection of the kind reads; the digest is the content itself.         *)
Input == [epoch |-> epoch, content |-> content]

\* What a run of the kind reads, as far as history follows that kind.
Noted(k) == IF observed = k THEN Input ELSE None

-----------------------------------------------------------------------------
(* The methods of the gate.  W is a set of waiters, rev a revision.        *)

NewGate ==
    [opened |-> FALSE, startupActive |-> FALSE, needed |-> FALSE,
     kindsRun |-> {},
     deferred |-> [k \in Kinds |-> [rebuild |-> FALSE, rev |-> None, waiters |-> {}]],
     queue |-> <<>>, active |-> None, drainScheduled |-> FALSE,
     completed |-> [k \in Kinds |-> None],
     waiting |-> {}]

\* Promises that settle, resolved or rejected: no property tells these apart.
Settle(g, W) == [g EXCEPT !.waiting = @ \ W]

RequestDrain(g) ==
    [g EXCEPT !.drainScheduled = @ \/ (g.active = None /\ g.queue # <<>>)]

Queued(g, k) == {i \in DOMAIN g.queue : g.queue[i].kind = k}

NewJob(k, rebuild, rev, W) ==
    [kind |-> k, rebuild |-> rebuild, rev |-> rev, waiters |-> W, read |-> None]

\* A job of a kind takes over a later request: the latest revision wins.
Merged(job, rebuild, rev, W) ==
    [job EXCEPT !.rebuild = @ \/ rebuild, !.rev = rev, !.waiters = @ \cup W]

\* A second job of a kind is queued beside the first.
Enqueue_AppendTwice(g, k, rebuild, rev, W) ==
    RequestDrain([g EXCEPT !.queue = Append(@, NewJob(k, rebuild, rev, W))])

\* enqueueSearchJob and enqueueUsageJob: one job of a kind.
Enqueue(g, k, rebuild, rev, W) ==
    RequestDrain([g EXCEPT !.queue =
        IF Queued(g, k) # {}
        THEN [i \in DOMAIN g.queue |->
                IF g.queue[i].kind = k THEN Merged(g.queue[i], rebuild, rev, W) ELSE g.queue[i]]
        ELSE Append(g.queue, NewJob(k, rebuild, rev, W))])

\* enqueueStartupSearch and enqueueStartupUsage.
EnqueueStartup(g, k, rebuild, rev, W) ==
    IF k \in g.kindsRun THEN Settle(g, W)
    ELSE Enqueue([g EXCEPT !.kindsRun = @ \cup {k}], k, rebuild, rev, W)

Prepare(g, needed) ==
    IF ~needed \/ g.needed THEN g
    ELSE LET p == [g EXCEPT !.needed = TRUE]
         IN  IF g.opened /\ g.startupActive
             THEN EnqueueStartup(EnqueueStartup(p, "search", FALSE, None, {}),
                                 "usage", FALSE, None, {})
             ELSE p

Waiting(g, q) == [g EXCEPT !.waiting = @ \cup {q}]

\* A request joins the running job of its kind, whatever that one has read.
Joins_AnyRevision(g, k, rev) == g.active # None /\ g.active.kind = k

Joins(g, k, rev) == g.active # None /\ g.active.kind = k /\ g.active.rev = rev

\* scheduleSearch and scheduleUsage; only Usage is ever rebuilt.
Schedule(g, k, q, rebuild, rev) ==
    IF ~rebuild /\ g.completed[k] = rev THEN Settle(g, {q})
    ELSE IF ~rebuild /\ Joins(g, k, rev)
    THEN [Waiting(g, q) EXCEPT !.active.waiters = @ \cup {q}]
    ELSE IF ~g.opened
    THEN [Waiting(g, q) EXCEPT !.deferred[k] =
             [rebuild |-> @.rebuild \/ rebuild, rev |-> rev, waiters |-> @.waiters \cup {q}]]
    ELSE IF g.startupActive /\ ~rebuild /\ (~g.needed \/ k \in g.kindsRun)
    THEN Settle(g, {q})
    ELSE Enqueue([Waiting(g, q) EXCEPT !.kindsRun =
                     IF g.startupActive /\ ~rebuild THEN @ \cup {k} ELSE @],
                 k, rebuild, rev, {q})

\* open: what was deferred runs if the startup planned full projections, and
\* is let go if it did not, except a rebuild the user asked for.
Open(g) ==
    LET d == g.deferred
        p == [g EXCEPT !.opened = TRUE, !.startupActive = TRUE,
                       !.deferred = NewGate.deferred]
    IN  IF g.opened THEN g
        ELSE IF g.needed
        THEN EnqueueStartup(
                 EnqueueStartup(p, "search", FALSE, d["search"].rev, d["search"].waiters),
                 "usage", d["usage"].rebuild, d["usage"].rev, d["usage"].waiters)
        ELSE IF d["usage"].rebuild
        THEN Enqueue([Settle(p, d["search"].waiters) EXCEPT !.kindsRun = @ \cup {"usage"}],
                     "usage", TRUE, d["usage"].rev, d["usage"].waiters)
        ELSE Settle(p, d["search"].waiters \cup d["usage"].waiters)

Finish(g) == [g EXCEPT !.startupActive = FALSE, !.needed = FALSE, !.kindsRun = {}]

DeferredWaiters(g) == UNION {g.deferred[k].waiters : k \in Kinds}
QueuedWaiters(g) == UNION {g.queue[i].waiters : i \in DOMAIN g.queue}

\* The queue is emptied and the deferred requests are forgotten.
Reset_KeepsDeferred(g) ==
    [Settle(Finish(g), QueuedWaiters(g))
        EXCEPT !.opened = FALSE, !.completed = NewGate.completed,
               !.deferred = NewGate.deferred, !.queue = <<>>]

\* reset: every waiter but those of the running job is rejected.
Reset(g) ==
    [Settle(Finish(g), DeferredWaiters(g) \cup QueuedWaiters(g))
        EXCEPT !.opened = FALSE, !.completed = NewGate.completed,
               !.deferred = NewGate.deferred, !.queue = <<>>]

-----------------------------------------------------------------------------
(* drainOne: the running job, one at a time, each in an idle turn.         *)

EndJob(g, succeeded) ==
    LET k == g.active.kind
        rev == g.active.rev
    IN  RequestDrain([Settle(g, g.active.waiters)
            EXCEPT !.active = None,
                   !.completed[k] = IF succeeded /\ rev # None THEN rev ELSE @])

\* The idle turn that starts the first job, or finds the queue emptied by a
\* reset.  A Usage run reads its snapshot at once; a Search run sets a timer.
\* Bound: the timer of an earlier Search job, one millisecond, has fired
\* before the next Search job starts.
DrainOne ==
    /\ gate.drainScheduled
    /\ LET idle == [gate EXCEPT !.drainScheduled = FALSE]
           k == Head(gate.queue).kind
           read == IF k = "usage" THEN Noted(k) ELSE None
       IN  IF gate.queue = <<>>
           THEN gate' = idle /\ UNCHANGED <<timer, excused>>
           ELSE /\ k = "search" => timer = None
                /\ gate' = [idle EXCEPT !.active = [Head(gate.queue) EXCEPT !.read = read],
                                        !.queue = Tail(@)]
                /\ timer' = IF k = "search" THEN epoch ELSE timer
                /\ excused' = (excused /\ ~(k = "usage" /\ observed = k))
    /\ UNCHANGED <<writer, projected, library, observed, asked>>

\* The writer w is handed a snapshot: behind the one being written, ...
Behind(w, rev) == IF w = <<>> THEN <<rev>> ELSE <<Head(w), rev>>

\* ... or in the place of the only one, when an integrity check has kept that
\* from being written.  Those who wait for a snapshot now wait for the next.
Handed(w, rev) == {Behind(w, rev)} \cup (IF Len(w) = 1 THEN {<<rev>>} ELSE {})

\* The running Search job waits for the last snapshot the writer has; when
\* its sibling has settled it, no job does.
AwaitsSnapshot ==
    gate.active # None /\ gate.active.kind = "search" /\ gate.active.read # None

\* History: the revision g remembers for Search is of something else than rev,
\* which the last run has read.
RemembersOther(g, rev) == observed = "search" /\ g.completed["search"] \notin {None, rev}

\* The timer of scheduleSearchIndexWarmupNow: it hands the sources to the
\* index writer unless the root was replaced or is being replaced.
TimerFires ==
    /\ timer # None
    /\ timer' = None
    /\ IF switch = "none" /\ timer = epoch
       THEN LET own == gate.active # None /\ gate.active.kind = "search"
            IN  /\ writer' \in Handed(writer, Noted("search"))
                /\ gate' = IF own THEN [gate EXCEPT !.active.read = Input] ELSE gate
                /\ excused' = IF observed = "search"
                               THEN ~own /\ RemembersOther(gate, Input) ELSE excused
       ELSE UNCHANGED <<gate, writer, excused>>
    /\ UNCHANGED <<projected, library, observed, asked>>

\* Its sibling settles the job whose timer has not run, or will not.
SiblingFires ==
    /\ gate.active # None
    /\ gate.active.kind = "search"
    /\ gate.active.read = None
    /\ gate' = EndJob(gate, TRUE)
    /\ UNCHANGED <<timer, writer, projected, library, history>>

\* A snapshot is in the index.
SnapshotWritten ==
    /\ writer # <<>>
    /\ writer' = Tail(writer)
    /\ projected' = IF observed = "search" THEN Head(writer) ELSE projected
    /\ gate' = IF writer' = <<>> /\ AwaitsSnapshot THEN EndJob(gate, TRUE) ELSE gate
    /\ excused' = (excused \/ (writer' = <<>> /\ RemembersOther(gate', Head(writer))))
    /\ UNCHANGED <<timer, library, observed, asked>>

\* The last snapshot failed.  A job that waits for it fails; one that its
\* sibling has settled stays done, its revision remembered.
LastSnapshotFails ==
    /\ gate' = IF AwaitsSnapshot THEN EndJob(gate, FALSE) ELSE gate
    /\ excused' = (excused \/ observed = "search")
    /\ UNCHANGED <<timer, projected, library, observed, asked>>

\* The snapshot being written fails, and the pending one is written next.
SnapshotFails ==
    /\ writer # <<>>
    /\ writer' = Tail(writer)
    /\ IF writer' = <<>> THEN LastSnapshotFails
       ELSE UNCHANGED <<gate, timer, projected, library, history>>

\* The database stays busy: both are rejected, and the last is kept, to be
\* replaced, or written when a search is made.
DatabaseBusy ==
    /\ writer # <<>>
    /\ writer' \in {<<>>, <<writer[Len(writer)]>>}
    /\ LastSnapshotFails

\* The usage synchronization succeeds, ...
UsageSucceeds ==
    /\ gate.active # None
    /\ gate.active.kind = "usage"
    /\ LET job == gate.active
       IN  /\ gate' = EndJob(gate, TRUE)
           /\ projected' = IF observed = "usage" THEN job.read ELSE projected
           /\ excused' = (excused \/ (observed = "usage"
                                       /\ gate'.completed["usage"] \notin {None, job.read}))
    /\ UNCHANGED <<timer, writer, library, observed, asked>>

\* ... or fails.
UsageFails ==
    /\ gate.active # None
    /\ gate.active.kind = "usage"
    /\ gate' = EndJob(gate, FALSE)
    /\ excused' = (excused \/ observed = "usage")
    /\ UNCHANGED <<timer, writer, projected, library, observed, asked>>

-----------------------------------------------------------------------------
(* What index.ts asks of the gate, and what changes under it.              *)

Pending(g, k) == g.deferred[k].waiters # {} \/ Queued(g, k) # {}

Busy(k) == Queued(gate, k) # {} \/ (gate.active # None /\ gate.active.kind = k)

\* History: the requests that a call on the gate let go of.
Excuse(g, h) == excused \/ (Pending(g, observed) /\ ~Pending(h, observed))

\* A caller schedules a projection of what it has just published.
Ask(k, q, rebuild, rev) ==
    /\ q \notin gate.waiting
    /\ gate' = Schedule(gate, k, q, rebuild, rev)
    /\ excused' = \/ excused
                  \/ /\ observed = k
                     /\ q \notin gate'.waiting
                     /\ gate.completed[k] # rev \/ Busy(k)

\* scheduleUsageFactSync and reconcileSearchIndexProjection: an adopted tree,
\* a live summary, a settled provider, a changed exclusion, a rebuild.
Request(k, q, rebuild) ==
    /\ rebuild => k = "usage"
    /\ Ask(k, q, rebuild, Input)
    /\ asked' = (asked \/ observed = k)
    /\ UNCHANGED <<timer, writer, projected, library, observed>>

\* A source event, an exclusion or a folder changes what projections read.
ChangeContent ==
    /\ content' \in Contents \ {content}
    /\ asked' = FALSE
    /\ UNCHANGED <<gate, timer, writer, projected, epoch, switch, init, observed, excused>>

-----------------------------------------------------------------------------
(* initLibraryFromSessions.                                                *)

\* It starts, and its batch is planned: the first, or the catch-up one of the
\* sessions that came while the first was running.
PlanInit(dirty) ==
    /\ init \in {"none", "synced"}
    /\ init = "none" => switch = "none"
    /\ init' = "planned"
    /\ gate' = Prepare(gate, dirty)
    /\ UNCHANGED <<timer, writer, projected, epoch, switch, content, history>>

\* The first durable boundary of the batch opens the gate, unless a switch of
\* the root has paused the runtime.
Boundary ==
    /\ init = "planned"
    /\ init' = "synced"
    /\ gate' = IF switch = "none" THEN Open(gate) ELSE gate
    /\ excused' = Excuse(gate, gate')
    /\ UNCHANGED <<timer, writer, projected, epoch, switch, content, observed, asked>>

\* A switch interrupts the batch between two items; the rest of the
\* initialization still runs to its end.
FinishInit ==
    /\ init = "synced" \/ (init = "planned" /\ switch # "none")
    /\ init' = "none"
    /\ gate' = Finish(gate)
    /\ UNCHANGED <<timer, writer, projected, epoch, switch, content, history>>

FailInit ==
    /\ init # "none"
    /\ init' = "none"
    /\ gate' = Reset(gate)
    /\ excused' = Excuse(gate, gate')
    /\ UNCHANGED <<timer, writer, projected, epoch, switch, content, observed, asked>>

-----------------------------------------------------------------------------
(* performLibraryActivation.                                               *)

\* Up to its first await.  The new root has no projections.
BeginSwitch ==
    /\ switch = "none"
    /\ epoch < MaxEpoch
    /\ switch' = "begun"
    /\ epoch' = epoch + 1
    /\ gate' = Prepare(Reset(gate), TRUE)
    /\ excused' = Excuse(gate, gate')
    /\ projected' = None
    /\ asked' = FALSE
    /\ UNCHANGED <<timer, writer, init, content, observed>>

\* It has waited for the initialization in flight and closes the index writer,
\* which drops the pending snapshot and lets the one being written end, ...
WriterCloses ==
    /\ switch = "begun"
    /\ init = "none"
    /\ Len(writer) = 2
    /\ writer' = <<Head(writer)>>
    /\ LastSnapshotFails

\* ... and changes the root.
ChangeRoot ==
    /\ switch = "begun"
    /\ init = "none"
    /\ writer = <<>>
    /\ switch' = "moved"
    /\ UNCHANGED <<gate, timer, writer, projected, epoch, init, content, history>>

\* The sessions are synchronized into the new root, as at a startup.
PlanSwitch(dirty) ==
    /\ switch = "moved"
    /\ gate' = Prepare(gate, dirty)
    /\ UNCHANGED <<timer, writer, projected, library, history>>

CommitSwitch ==
    /\ switch = "moved"
    /\ switch' = "none"
    /\ gate' = Finish(Open(gate))
    /\ excused' = Excuse(gate, gate')
    /\ UNCHANGED <<timer, writer, projected, epoch, init, content, observed, asked>>

FailSwitch ==
    /\ switch # "none"
    /\ init = "none"
    /\ switch' = "none"
    /\ gate' = Reset(gate)
    /\ excused' = Excuse(gate, gate')
    /\ UNCHANGED <<timer, writer, projected, epoch, init, content, observed, asked>>

-----------------------------------------------------------------------------

Init ==
    /\ gate = NewGate
    /\ timer = None
    /\ writer = <<>>
    /\ projected = None
    /\ epoch = 0
    /\ switch = "none"
    /\ init = "none"
    /\ content \in Contents
    /\ observed \in Kinds
    /\ asked = FALSE
    /\ excused = FALSE

RunJob ==
    \/ DrainOne \/ TimerFires \/ SiblingFires \/ UsageSucceeds \/ UsageFails
    \/ SnapshotWritten \/ SnapshotFails \/ DatabaseBusy

Next ==
    \/ RunJob
    \/ \E q \in Requests, k \in Kinds, rebuild \in BOOLEAN : Request(k, q, rebuild)
    \/ ChangeContent
    \/ Boundary \/ FinishInit \/ FailInit
    \/ BeginSwitch \/ WriterCloses \/ ChangeRoot \/ CommitSwitch \/ FailSwitch
    \/ \E dirty \in BOOLEAN : PlanInit(dirty) \/ PlanSwitch(dirty)

Spec == Init /\ [][Next]_vars


(* Properties.                                                             *)

Gates == [opened : BOOLEAN, startupActive : BOOLEAN, needed : BOOLEAN,
          kindsRun : SUBSET Kinds,
          deferred : [Kinds -> [rebuild : BOOLEAN, rev : Revisions \cup {None},
                                waiters : SUBSET Requests]],
          queue : Seq(Jobs), active : Jobs \cup {None}, drainScheduled : BOOLEAN,
          completed : [Kinds -> Revisions \cup {None}],
          waiting : SUBSET Requests]

\* The type of the gate and of what index.ts keeps around it.
TypeOK ==
    /\ gate \in Gates
    /\ Len(gate.queue) <= 2
    /\ timer \in 0..MaxEpoch \cup {None}
    /\ writer \in Seq(Revisions \cup {None}) /\ Len(writer) <= 2
    /\ projected \in Revisions \cup {None}
    /\ epoch \in 0..MaxEpoch
    /\ switch \in {"none", "begun", "moved"}
    /\ init \in {"none", "planned", "synced"}
    /\ content \in Contents
    /\ observed \in Kinds
    /\ asked \in BOOLEAN /\ excused \in BOOLEAN

Places(q) ==
    {k \in Kinds : q \in gate.deferred[k].waiters}
    \cup {i \in DOMAIN gate.queue : q \in gate.queue[i].waiters}
    \cup {a \in {0} : gate.active # None /\ q \in gate.active.waiters}

\* A promise the gate has handed out is held in exactly one place until it
\* settles: deferred while the gate is closed, in one queued job, or in the
\* running one; and a queued job has an idle turn scheduled or a running job
\* before it.  A reset, an open or a job that ends loses none of them.
EveryWaiterHasOnePlace ==
    /\ \A q \in Requests : Cardinality(Places(q)) = IF q \in gate.waiting THEN 1 ELSE 0
    /\ gate.opened => \A k \in Kinds : gate.deferred[k].waiters = {}
    /\ gate.queue # <<>> => gate.drainScheduled \/ gate.active # None

Quiet ==
    /\ gate.opened /\ ~gate.startupActive
    /\ gate.queue = <<>> /\ gate.active = None /\ timer = None /\ writer = <<>>

\* When the gate is open and has nothing left to do, the last projection of a
\* kind has read what it would read now, if anyone asked since that last
\* changed.  Excused, until a next run begins: the request was dropped at a
\* startup, rejected by a reset, or its run failed, for Search also after the
\* job had been answered as done and its revision remembered; it was answered
\* from the remembered revision while a job of its kind was still to end; or
\* the last run left a remembered revision of something else than it had read,
\* because that changed between the request and the run, or its request had none.
QuietIsCurrent ==
    Quiet /\ asked /\ ~excused => projected = Input

\* index.ts:5341: a switch of the root is a projection migration even when
\* nothing of the new root is dirty, so its commit queues both projections.
\* It does not when an initialization was in flight: that one ends after
\* prepareStartup(true) and takes it back.
SwitchMigratesProjections ==
    [][switch = "moved" /\ gate'.opened => \A k \in Kinds : Queued(gate', k) # {}]_vars

=============================================================================
