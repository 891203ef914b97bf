# A verification project for swob

swob is an Electron application that collects the session logs of coding
agents, and keeps them in a *Library*: a directory tree, often on a synced
disk, with one package (transcript, backup, manifest) per session. Several
contexts write it: the main thread, worker threads, the command line, and
other copies of the program. What is hard in swob is this writing. The parsers
of provider files, the search index, the token accounting and the user
interface are data processing or wiring around it.

Paths below are relative to `src/src/main/` unless they say otherwise.

## Inventory

| component | state | operations | partners |
|---|---|---|---|
| writer arbiter, `library-writer-lease.ts` 100-345 | one shared array: owner word, epoch, closed flag, a slot per participant | register a worker, acquire (async and sync), reclaim a dead owner, cancel, advance the epoch, close, release | `library-worker.ts` starts workers and reports their exit; a context takes the arbiter, then the lease |
| writer lease, `library-writer-lease.ts` 690-1472 | the directory `.swob/locks/library-writer.lock`: owner record, heartbeat temporary, recovery claim | mkdir and publish the owner, poll, heartbeat, claim, verify, quarantine by rename, release, manual recovery | every process that opens the Library; `library-path-safety.ts` writes its files |
| write generation, `library-write-coordinator.ts` | two generation files, written in turn | read, reserve the next one under the lease | `library-manager.ts` stamps scans with it; the main thread adopts scans of the worker |
| session registry and scans, `library-manager.ts` | the registry of packages, the applied generation, the prepared scan | `initLibrary`, `scanLibrary`, `applyLibraryTree`, startup plan and batches | worker and main thread each have one |
| session write snapshot, `library-session-write-snapshot.ts` | hard links of a package's files, `snapshot.json`, the marker | begin, commit, roll back, recover | `updateTranscript`, `syncBackup`, the startup projection, transcript rebuild; notes and redaction write beside it |
| session sync coordinator, `session-sync-coordinator.ts` | an entry per key (timer, queued, running, generations), queue, flush waiters | schedule, quiet window, drain, run, flush, stop | watchers schedule; `index.ts` picks the key and runs the synchronization; startup flushes between batches |
| session creation, `session-create-lock.ts`, `library-manager.ts` 2690-3640 | a lock directory per logical session, package id reservations, path claims, publish markers | acquire, recover, reserve, publish, recover an incomplete publish | runs under the writer lease |
| startup projection gate, `startup-projection-gate.ts` | deferred and queued projections, the active job, the completed revisions | prepare, schedule, open, finish, reset | `index.ts`: startup, root change, adoption of a tree; `search-index-writer.ts` |
| rescan and recovery, `index.ts` 539-670, 2382-2870, 2981-3139, 5313-5500, with `library-rescan-controller.ts`, `library-global-recovery-coordinator.ts`, `library-backlog-recovery-queue.ts` | pending faults and the lease, the queue of wakes, the timers of global, automatic and writer recovery, the promises of the work in flight, the health, a rescan under way and one to follow | fail, schedule, dispatch, complete, release; wake; probe and initialize again; mark dirty, pause, resume; switch the root | watchers, startup, live synchronization, the health shown |
| worker client, `library-worker.ts` 600-840 | pending requests, the thread, closing state | request, cancel, retire, close, exit | the arbiter, through the thread's life |
| report jobs, `report-job-manager.ts` | jobs and their persisted state | queue, run, cancel | `index.ts` |
| the rest | `PROJECT.json` lists it | loaders, indexes, resume, shell, renderer, CLI | not concurrent, or I/O only |

Correctness, component by component: the arbiter and the lease exclude (one
writer), do not block for good (a dead owner is reclaimed, shutdown ends the
waiting), and never take the lock from a live owner. The generation orders all
changes and tells which scans are current. A package changes as one, whatever
crashes. The coordinator loses no event, runs a key once at a time, and its
flushes end. A creation leaves a whole session or one that the next operation
finishes or undoes. The gate forgets no promise, and no projection that was
asked for. Recovery leaves no fault, wake or rescan without somebody to attend
to it. `PROJECT.json` lists the hazards with their lines.

## Modules

* `WriterMutex` says what a writer lock promises: one writer at a time, no
  grant after the close.
* `WriterArbiter` is the shared-memory arbiter. A context is a program counter
  in `acquireLibraryWriterArbiter` (or its `Sync` twin, which blocks the main
  thread); `owner`, `epoch`, `closed` and `slots` are the words of the array.
  Each atomic operation on the array is an action of its own. A worker dies at
  any point; the main thread hears of it later (`WorkerExit`). `wire` is what
  `library-worker.ts` sends with a request.
* `WriterLease` is the lock directory. `lock` is what is at the path (identity,
  files, claim); a process has the evidence it read (`seen`, `captured`,
  `claim`) and a program counter in `tryAcquireLibraryWriterLease`,
  `recoverProvenStaleLock` or `recoverLibraryWriterLeaseManually`. Each file
  operation is an action, so that every check and its use are two steps.
  `breach` is history: it records the steps after which a claim no longer has
  its own live claimant (a claimant died, or an operator took its claim over)
  and those in which an operator quarantines a corrupt directory.
* `WriteGeneration` composes the writers of several processes with their scans:
  the lease is a variable (`holder`), as `WriterMutex` promises it; `log` is
  the Library, as the sequence of its changes; `known` is what a process's
  registry shows of it. Acquisition, the two steps of a slot write, the
  operation, the release and the update of the applied generation after it are
  separate actions, and a scan reads its generation and the tree in separate
  steps. `posted` are the trees the worker has sent and the main thread has not
  adopted.
* `PackageTransaction` says what a package promises, `SessionWriteSnapshot` is
  how it is done: link, publish the marker, write the files, unlink the marker,
  and the recovery of what a dead operation left. Notes
  (`setSessionMetaInLibrary`) and redaction
  (`redactLibraryTranscriptsUnderWriter`) are the writers that take no
  snapshot. A file is the transaction that wrote it and its length, since a
  linked snapshot is verified by length only; `shared` are the linked files
  whose live inode is the snapshot's, so that a write in place changes both.
* `SessionSyncCoordinator` is the class of that name on one event loop: an
  action is a callback with everything it calls. `Identify` is the moment a scan
  or a run has put the session into the cache of summaries, from which on
  `scheduleSessionSynchronization` keys its events by the session id. Its queue
  order, running set, generations and waiters are the class's own fields;
  `passedOver` is history.
* `SessionPublish` is the creation of a session under the writer lease, so that
  one operation is active at a time. `disk` holds what the files say: directories,
  path claims, fingerprints, reservations, commit records, create locks and what
  was moved aside; `of` is the session a package id stands for, `op` the
  operation under way with its stage. A file is made and then written: it can be
  torn, or whole and reported as failed. A crash turns what the process owned
  into `Dead` wherever it stands. Whether an issue still has a live owner
  (`live`) is history.
* `StartupProjectionGate` is the class of that name as a record with an operator
  per method, and around it what `index.ts` does with it: an initialization, a
  switch of the root, changes of what the projections read (`content`), the
  requests, the timer of the search warmup and its sibling. A usage run is the
  synchronization itself; a search run only hands a snapshot to the index writer
  (`search-index-writer.ts`), whose queue is `writer`: the one being written and the
  one behind it, which are written, fail, are kept while the database is busy, or are
  dropped at the close. The sibling settles the job when its timer is late, before
  the snapshot is handed over, so a job may be done before its snapshot fails.
  `observed`, `asked` and `excused` are history: they follow one kind of projection,
  either of the two, and what a run reads is kept for that kind only (`Noted`).
* `LibraryRecovery` is how the main process recovers. All of it runs on one
  thread, from an event to the next `await` and with the microtasks that queues;
  so the state is one record (`lib`), a function is an operator from state to
  state, and an action is an event. An error is the policy that
  `libraryBacklogBatchFailurePolicy` gives it (`Kinds`; what ends a recovery for an
  identity is shown as a conflict or as corrupt). Of the health the model keeps what
  the writer may do (`Healths`). A health revision is only compared with the current
  one, so a fault is `latest` until the next transition makes it `older`. The health
  also changes without a revision (`Proven`): when the plan of a startup transaction
  has answered, `beginLibraryBackgroundSync` and `WRITER_PROVEN` forget what was wrong
  with the writer. So a backlog run and an initialization have the stages `planning`,
  `syncing` and then `refreshing` or `hydrating`; one of the two at a time gets past
  its plan (`runLibraryStartupTransaction`). `stranded` is history: what a step leaves
  behind with nobody to attend to it, for as long as it is there; a paused rescan and
  a wake are no longer so when recovery is at work again.
* `MC...` modules give the constants names for TLC; `...Proofs` hold the proofs.

Operators named `X_Suffix` stand before an operator `X` of the same parameters
and are `X` with a plausible mistake in it. Nothing uses them; they are
substituted for `X` to see that the properties notice (`mutants` in
`PROJECT.json`).

## Runs

| run | size | what it shows |
|---|---|---|
| `arbiter` | 2 main contexts, 1 worker, 1 worker slot, 3 generations, 1 epoch advance | `ImplementsMutex`, `HolderOwnsWord`, `GrantsAreCurrent`; `ShutdownEndsWaiting` and `DeadOwnerReclaimed` under `FairSpec` |
| `lease` | 3 processes, 1 of them an operator too, 1 acquisition each, 1 heartbeat | `KeptUnlessBreached`, `MutexUnlessBreached`, `OnlyDeadQuarantined`; `DeadOwnerRecovered` under `FairSpec` |
| `lease_orphaned_claim` | 4 processes, from a dead owner's lock | `HoldersKeepDirectory` is violated |
| `generation` | 2 processes, 3 generations, 2 changes, 1 tree under way | `GenerationsAreUnique`, `NoMutationUnreserved`, `AcceptedScanMissesOnlyTheWriterInFlight`, `BatchMissesNothing` |
| `generation_reused_scan` | the same | `ReusedScanIsCurrent` is violated |
| `snapshot` | 3 operations, 2 changes of the notes, 1 redaction | `ImplementsTransaction`, `SettledIsDescribed`, `SnapshotImmutableUnlessRedacted`, `NotesNeverTakenBack` |
| `coordinator` | 2 sessions (4 keys), 1 run at a time, 1 key per flush, 3 events, 2 flushes | `OnePlace`, `TargetsAreForced`, `RoundRobin`, `NoEventDropped`; `EventsSynchronized` and `FlushesResolve` under `FairSpec` |
| `coordinator_runs_twice` | 2 runs at a time | `SessionRunsOnce` is violated |
| `gate` | 1 request at a time, 2 contents, 1 switch of the root | `EveryWaiterHasOnePlace`, `QuietIsCurrent` |
| `gate_switch_drops_migration` | 1 request, 1 content, 1 switch of the root | `SwitchMigratesProjections` is violated |
| `publish` | 2 sessions, 2 processes, 2 names, 2 package ids | `UnmarkedIsCommitted`, `ContentIsKept`, `RefusedOnlyFor` |
| `recovery` | 2 delays, any number of everything else | `FaultsAreDriven`, `RescanIsResumed`, `WakesAreServed`, `HealthRecovers` |

Each passing run checks its module's `TypeOK` too.

**Bounds.** *Arbiter:* two main contexts are what the shared id of the main
thread needs, and one worker that dies and is started again in the only slot
is what reuse of a slot needs; three generations let the word of each life be
met in the next. *Lease:* a holder, a claimant and a rival meet in every order;
the orphaned claim needs a fourth, because its claimant is one of the dead. One
acquisition each bounds the run, the proof has no such bound. *Generation:* three
generations write each slot at least once and one of them twice, and the third is
the gap of two that the checks look for. *Snapshot:* an operation that is
overtaken by another's recovery and that by a third one; every plan that the
code has is among the choices of each. *Coordinator:* three events cover
schedule, reschedule during a run and reschedule while queued; with one slot
and one key per flush a queued key has something to wait for; with two runs at a
time the violation run finds a session beside itself.

*Publish:* two sessions of the same title want the same name, and a second
process finds what the first has left; with two names and two package ids the
one that finds its name taken can still be published. *Gate:* two
contents are a change and a change back; there is one promise at a time, of either
kind, which is asked for again when it has settled. Two promises at once and two
contents are too many states; with two promises and one content, or two promises and no
switch, the same configuration passes too (0.5 and 3 million states), and
`WaitersHaveOnePlace` and `QuietIsUpToDate` are proved for any number of them. The hydration is part of the change of
`content`; a promise is settled or not, resolved and rejected are not told apart.
*Recovery:* a delay and the last one; the code has five, and its counter is
compared with the last only. The state is finite without other bounds. One switch
of the root is under way at a time; `sessions:loadAll` does not come while a switch
waits for what is in flight; a live synchronization may be in flight whenever the
sessions have been loaded.

`CHECK_DEADLOCK FALSE` is given where all bounded actions may have been used
up and everybody is idle. The arbiter never stops: its run checks deadlock.

**Fairness.** *Arbiter:* a waiting thread goes on (the worker's `Atomics.wait`
and the main thread's timers are bounded), strongly, for the synchronous
acquisition of one context blocks the others of the main thread again and
again; exit events are delivered. The holder's release is fair only for a
synchronous holder on the main thread, which returns or no event loop runs; an
asynchronous holder may hold for good. *Lease:* a process that neither died
nor gave up takes its next step; nobody has to release. *Coordinator:* timers
fire and runs end (the worker's requests have timeouts); events, flushes and
stop need not come. *Publish, gate and recovery* state no liveness. Their
safety properties say instead that what is put off has somebody to attend to it;
that timers fire and requests end is then all that is wanted. After a safety stop
the deferred callers of the gate wait for good, by design.

## What the violations show

1. *A dead claimant's claim can cost a live owner its lock*
   (`lease_orphaned_claim`). `removeUnchangedClaim` compares the claim and then
   unlinks by name. Between the two, another process may have removed the dead
   claim and created its own. Both claimants then verify, one renames the dead
   owner's directory and acquires, the other renames the new directory away
   under its holder. An operator who adopts the claim of a live claimant
   (`recoverLibraryWriterLeaseManually`, 1443) comes to the same end.
   `KeptUnlessBreached` says that there is no third way.
2. *A scan that misses a foreign change is reused* (`generation_reused_scan`).
   The startup plan takes a gap of one between the generation on disk and the
   applied one as a proof that only itself wrote. But `initLibrary`, run for
   every request of the worker, sets the applied generation to the one on disk,
   and so forgets a writer that committed after the scan.
3. *A session runs beside itself* (`coordinator_runs_twice`): under the key of
   its file, and, once it is identified, under that of its id.

4. *A switch of the root loses its projections*
   (`gate_switch_drops_migration`). The switch resets the gate and plans a
   migration (`prepareStartup(true)`) while an initialization is in flight; the
   end of that initialization (`finishStartup`, or the reset of its failure)
   clears the plan. If nothing is dirty under the new root the commit opens the
   gate with no plan, and the deferred requests resolve without a run.

### What the passing properties except

The invariants of the last three modules hold apart from cases they name. They
are what the code does, and each deserves a reader's opinion.

*`QuietIsCurrent`:* (a) a run that failed, for search also after the sibling had
settled its job, and what a reset rejected. That sibling is there for the root that
was replaced or paused, says the comment at `index.ts` 1224; it is an immediate and so
usually comes first (1210 knows). The job is then done and its revision remembered
before the snapshot is handed over; when the snapshot fails, `reject` meets a settled
promise (1218), the index is stale, and a later request for the same revision is
answered as done, although `startup-projection-gate.test.ts` 24 says that what is
remembered are "successful projection revisions"; (b) during startup a second request for a projection is
dropped: a usage synchronization after a hydration is, although `index.ts`
1263-1267 says it "must not be skipped as a repeat of the pre-hydration one";
(c) content that changes and changes back while a job is under way is answered
from the remembered revision, and a run that is labelled with a revision it did
not read is remembered under it. Beside the property: a rebuild during startup is
not counted as that startup's run, and since the sibling timer of the search
warmup usually ends first, a full usage run can overlap the search snapshot, which
the comment at `startup-projection-gate.ts` 325 rules out.

*`RefusedOnlyFor`:* what blocks a creation. A torn reservation, claim, marker or
commit record blocks the creations of all sessions, for good; a crash inside
`recoverDeadOwner` leaves its `recovery.claim` and so blocks its session for good,
as does a torn owner file; an empty lock directory is `Busy` for 30 seconds. A
process that is killed after it claimed a name and before it finds the name taken
leaves a claim on another session's package, which blocks every creation,
although `library-manager.ts` 3556-3558 says "SIGKILL intentionally leaves durable
evidence for the next process to recover." An error between mkdir and the
fingerprint in a process that lives blocks the others until it ends. (Two cleaners
of one empty lock directory, which the lines at `session-create-lock.ts` 226
suggest, never meet: the writer lease is around them.)

*`stranded` in `LibraryRecovery`:*
* `writer-blocked` is set, by a live synchronization say, while a backlog run or an
  initialization awaits its plan. The answer of the plan makes the writer `unproven`
  (2913) and then `available` (2921), although the comment at 599 says that
  `retryLibraryAfterWriterBlocked` is "the only recovery path allowed to clear
  writer-blocked". The armed retry keeps the end of that transaction from resuming the
  rescans and puts off the wakes; then it finds another health (591) and does nothing.
  The rescans stay paused, a wake stays queued, and a Library whose initialization by
  writer recovery had failed stays uninitialized, with a refresh that waits for it.
  The next recovery to begin takes rescans and wakes up again.
* An identity conflict that ends a transaction stops everything it had put off:
  its lease is given back, the other pending faults are dropped, no timer follows.
* A live synchronization that succeeds ends `writer-blocked` and the writer
  recovery with it. Nobody then resumes the rescans or drains the wakes that were
  put off for it, or initializes a Library whose initialization had failed.
* A live failure of another kind replaces `writer-blocked`; the retry that was due
  finds another health and does nothing. The same when a later fault replaces it.
* A live synchronization is `writer-blocked` while writer recovery is in its
  compensation, and its timer fires before that ends: the retry joins the old
  recovery (607) and has none after it.
* After the lease of an initialization nothing drains the queue. The wake that
  ends every initialization ("exactly one bounded replan after initialization",
  3131) runs while the lease is out, is put off, and stays in the queue until some
  later event.
* Two faults pending, the later one repaired first: the last repair finds another
  revision than its own and does not restore the health, which stays an error
  until the next transition.
* An initialization that `sessions:loadAll` begins while a switch of the root is
  under way, which then fails, reports ready and stops the retries of a Library
  that the switch has left uninitialized.

Two weaker facts are visible in the models, without properties of their own (the
first is listed as a hazard): a claimant that lost a race leaves its claim file in the
winner's directory for a moment, and a release in that moment leaves an empty
directory that only an operator clears; and a quarantine between capturing the
directory and validating the new claim ends an acquisition with an error where
a retry is meant. A scan made while a writer is under way may be adopted after it
committed and miss its change: `AcceptedScanMissesOnlyTheWriterInFlight` says
exactly how much can be missed.

## Proofs

`WriterArbiterProofs`, for any number of contexts, slots, generations and epochs
(assumption `ArbiterAssumption`: slots are numbers and 1 is the main thread's, the
kinds of context are disjoint, the bounds are natural
numbers). The inductive invariant is

    ArbiterInv == TypeOK /\ SlotsRegistered /\ WiresRegistered /\ IdsKnown /\ OneOwner

Mutual exclusion is not inductive: that an owner word names one context needs
that no two lives of a slot share an id (`SlotsRegistered`: generations only
grow), that the id a request carries is one that was given out
(`WiresRegistered`, `IdsKnown`), and that of all contexts with that id only one
can be between the compareExchange and the release (`OneOwner`). From it:
`ArbiterTypes`, `ArbiterExcludes`, `ArbiterHolderOwnsWord`,
`ArbiterGrantsAreCurrent` and `ArbiterImplementsMutex`, the refinement of
`WriterMutex`.

`WriterLeaseProofs`, for any number of processes, acquisitions and heartbeats
(assumption `LeaseAssumption`). The inductive invariant is

    LeaseInv == TypeOK /\ Started /\ (breach = {} => Unbreached)
    Unbreached == OneOwnersFiles /\ LiveClaim /\ \A p \in Procs : Proper(p)

`Proper(p)` is what a process may rely on at its program counter: the owner of a
directory finds it at the path (`OwnDirectory`); the evidence of a claimant
proves a death, and death is for good (`EvidenceStale`); a claim it holds is its
own (`ClaimIsOwn`); and between its last look and its rename or unlink the
directory is as it was (`Committed`), because a claim keeps every other claimant
out and a dead owner changes nothing. From it: `LeaseTypes`,
`LeaseKeptUnlessBreached`, `LeaseOnlyDeadQuarantined` and
`LeaseIsMutexUnlessBreached`.

`WriteGenerationProofs`, for any number of processes, generations, mutations and
unread trees (assumption `GenerationAssumption`: the bounds are natural numbers,
`Planner` is one of the processes, `Free` and `NoRuntime` are nobody and no
number). The inductive invariant is

    GenerationInv == TypeOK /\ Len(log) <= MaxMutations /\ SlotsAlternate /\ HolderOperates
                     /\ MutationsReserved /\ GenerationsAreUnique /\ TreesAreCurrent /\ BatchHasPlan

A slot holds only numbers of its own parity (`SlotsAlternate`), so truncating the
next one leaves the last number readable (`TruncateKeepsGeneration`) whoever dies
there; the holder of the lease is the one process in its operation
(`HolderOperates`), so until it mutates nothing bears its number, and after that
only its own mutations do (`MutationsReserved`). A tree misses nothing that is
older than the number it began with (`TreesAreCurrent`), and an accepted one is
not older than the number on disk: what it misses bears just that number. From it:
`GenerationTypes`, `GenerationsUnique`, `MutationsAreReserved`,
`AcceptedScansAreCurrent` and `BatchesMissNothing`: every property of the run
`generation`.

`SessionWriteSnapshotProofs`, for any number of transactions, notes and redactions
(assumption `SnapshotAssumption`: the three bounds are natural numbers). The
inductive invariant is

    SnapshotInv == TypeOK /\ EndsInManifest(todo) /\ CopyDescribed /\ NoneLater /\ MarkerTells
                   /\ SnapshotTaken /\ WritesForward /\ RestoresInOrder /\ MarkerUntouched

That a package that nobody is writing is described by its manifest depends on
what was true several writes ago: the snapshot was taken of the files before any
was replaced (`SnapshotTaken`), each write goes forward and the manifest is
published last (`WritesForward`, `EndsInManifest`), and a recovery puts the
transcript back before the backup and both before the manifest
(`RestoresInOrder`), from a copy that is itself described (`CopyDescribed`).
`MarkerUntouched` says what notes and redaction, which take no snapshot, may have
changed meanwhile. From it: `SnapshotTypes`, `SettledPackages`,
`SnapshotsStay`, the action property about notes (`NotesStay`) and the refinement
of `PackageTransaction` (`SnapshotTransacts`): every property of the run
`snapshot`.

`StartupProjectionGateProofs`, for any requests, contents and number of switches
(assumption `GateAssumption`: `None` is none of the contents, revisions, jobs and
epochs). A method moves waiters through the hands of its caller: `open` takes the
deferred ones out before it queues them. So the invariant is of a gate and the
waiters in hand,

    GateInv == TypeOK /\ Sound(gate, {}) /\ Driven(gate)

each method keeps `Sound(g, W)` with the waiters it takes up or puts down, and
between two actions nothing is in hand. `Driven` adds that a drain is scheduled
only while no job is active, without which "queued has a turn coming" is not
inductive. From it: `GateTypes` and `WaitersHaveOnePlace`.

`QuietIsCurrent` says nothing of a gate that is busy, so a second invariant,
`CurrentInv`, says what becomes of an unexcused request in between: `Answered`,
it is queued or deferred, or its search run has a timer that has not read
(`Live`), or a run has read what there is now, or something other than the
revision it will leave behind, which excuses it when it ends, or what there is now
is projected. `Remembered` is why answering from the remembered revision is
right: while nothing of the kind runs, that revision is of the last projection
or of an earlier root. `Unread` is why joining a search run that has not read is
right: without a timer of this root such a run carries an earlier root's
revision, and no request of this one joins it. `OwnLast` is why the end of the last
snapshot may end the job: a job that waits for a snapshot waits for the last one the
writer has, which is its own. So what counts as projected is `Latest`: what the
writer will have written when it is done. `TimerOfRoot`, `ClosedBySwitch` and `Known`
(no revision of a later root) carry these through a switch. From it,
on top of `GateInv`: `QuietIsUpToDate`.

`SessionSyncCoordinatorProofs`, for any finite set of sessions, number of events
and flushes, size of the pool and `maxEntries` (assumption
`CoordinatorAssumption`). The inductive invariant is

    CoordInv == TypesOfRest /\ SyncInv /\ TurnInv

`SyncInv` says that each entry has one place, that the queue lists each queued key
once, that the runs fit the pool, and that what a flush waits for is owed to it:
queued or running, forced, with a generation through its cutoff. `TurnInv` is
`RoundRobin` with the numbers of the selections. Its argument: when a flush
passes a key over, some key that it has chosen had no later selection
(`SomeoneGoesFirst`) and has one now; so the set of keys selected after the one
passed over grows with each pass, and a key can be passed over only as often as
there are other keys. Where an order is chosen by position, the proof takes a least position,
which a finite set of numbers has, instead of an induction over the queue. From
it: `CoordinatorTypes`, `EntriesHaveOnePlace`, `FlushesAreServed`,
`KeysTakeTurns`, `PoolIsKept` and `EventsAreKept`, which are all safety
properties of the run `coordinator`.

`SessionPublishProofs`, for any number of processes, sessions, packages and names
(assumption `PublishAssumption`: the marks `None`, `Torn` and `Dead` are nothing
else). The inductive invariant is

    PublishInv == FilesOK /\ OpOK

over what the files say (`Named`, `UnmarkedIsCommitted`) and how far the one
operation under way has come. `UnmarkedIsCommitted` alone is not inductive. A
removal is right only in its order, so the list of what is left to remove must be
sane for the files there are (`Sane`: a marker goes only if the package is empty
or committed, a directory only after its marker); a commit record is written only
with a whole manifest (`Made`), by the holder of the lock of its session
(`Holder`), for a session without a package (`Alone`), which is why no session
gets two. From it: `PublishTypes`, `NothingIsHalfPublished` and `ContentStays`.

What an operation refuses for needs a second invariant, which says where every
piece of evidence came from:

    RefusalInv == EvidenceOK /\ WorkOK

`EvidenceOK` is about the files whoever wrote them: a claim outlives its
fingerprint and is of the package that wrote it (`PrintsAreClaims`), a package has
one directory, nothing is put into a package that still has a claim, and a marked
directory loses its claim unless its owner dies first. `WorkOK` is about the
operation: what it removes is in order (`Tidy`: the fingerprint before its claim,
no reservation of a package with a manifest), which claims are its own (`Claims`),
what the walk leaves behind it (`Walks`), and that an issue of a dead owner is
there for a torn manifest or for a claim that stays (`Issued`). That a claim does
stay is why a refusal at the end of the walk is still justified by the files of
that moment. From it: `RefusalsAreExplained`.

`LibraryRecoveryProofs`, for any number of delays (assumption
`RecoveryAssumption`: `MaxAttempts` is a natural number). The functions of the
model go from a state to a state, so the invariant is of a state too:

    RecoveryInv == Good(lib)
    Good(s)  == s \in State /\ Sound(s)
    Sound(s) == Coordinated(s) /\ Latest(s) /\ LeaseHeld(s) /\ InFlight(s)
                /\ Resumed(s) /\ Served(s) /\ Repaired(s) /\ Retried(s) /\ Started(s)

There is a lemma for each function (what it leaves alone, `Keeps`, and which part
it keeps or restores) and one for each event. None of the four properties is
inductive: a fault is driven because the coordinator has never a fault without a
timer or a lease (`Coordinated`), because the lease is that of a transaction in
flight (`LeaseHeld`) and an initialization has somebody who asked for it
(`InFlight`); completing a lease may show `ready` because what is `latest` is the error that is
shown, or one that the plan of a startup transaction has erased since, and never
writer-blocked (`Latest`). `Repaired`, `Retried` and
`Started` are `HealthRecovers` made stronger: an error outside a switch has work
at the coordinator, a safety stop or a name, not merely anything that blocks
recovery; writer-blocked has a retry even while the compensation runs; and a
Library with a fault is initialized, or will be, whether or not anything else is
at work. `Started` says who will do it (an initialization in flight, a fault that
asks for one, an armed retry or a probe) and nothing of the health, because that can
be erased before the retry comes: `StageKeeps` is the lemma that a plan keeps all
nine parts, and what the retry then leaves is named by `TimeToRetry`. From it: `RecoveryTypes`,
`FaultsDriven`, `RescansResumed`, `WakesServed` and `HealthComesRight`: every
property of the run `recovery`.

Model-checked only: all liveness, since the prover does not reach fairness; and
the violations. Every safety invariant and action property of the passing runs
is stated by a theorem.

## What the models leave out

* *Lease:* how staleness is decided. A process is alive or dead, and a dead one
  is known to be; an owner on another host is one that is never stale, and a
  probe that fails is a process that looks alive. Torn heartbeat temporaries,
  the clock.
* *Lease, heartbeat:* it looks for a claim, reads the owner and makes its temporary
  in one step; the directory may be claimed between its write and its rename.
* *Generation:* reading the two slots is one step, and so is reading the
  directory tree; the older one-file record; scans with identity issues, which
  are never reused.
* *Snapshot:* a crash is the death of the process; what a power loss keeps of
  unsynced directory entries is not modelled. Snapshot directories without a
  marker are never read, nor removed. A redaction torn by a crash.
* *Coordinator:* `waitForIdle`, which only tests call. A run that fails is a
  run that ends. The order in which the class lists its running keys is open.
* *Publish:* the batches of a startup, which use the evidence their plan has
  read; remote owners; the update of a package that exists; removals that fail;
  different titles.
* *Gate:* what a projection does; the retries of its callers; the single sources and
  canonical records that live synchronizations give the index writer beside the
  snapshots; the integrity check and the snapshot that its repair hands over without
  the gate (`index.ts` 1292-1304). The check shows only in the two ways a snapshot is
  taken (`Handed`). The guard of `drainOne` against a full run that is active is never
  met.
* *Recovery:* shutdown, onboarding, the background scan at start (its failure is a
  live failure, except that its `writer-blocked` has no retry), duplicate
  recovery, what the transactions do. Of two pending backlog modes either may come
  first, where the code takes the older. A retry of the dispatcher a second later
  is the next attempt of the same step.
* Components with status `not_modelled` in `PROJECT.json`, with the reasons.

## Plan

Done: the writer arbiter, lease, generation, snapshot, coordinator, projection
gate, session creation and recovery, each with the proofs of its safety
properties. Left, in this order:

1. Arbiter and lease composed, the nesting of `runWithLibraryWriter`, with its
   proofs.
2. Live synchronization of `index.ts` composed with the coordinator: deferral,
   drain, recycling of the worker. Its effect on recovery is in `LibraryRecovery`.
3. Worker client, report jobs, watchers; `staleDecision` as an operator checked
   against a table of its evidence.

The loaders, indexes, reports and the user interface, which are most of the lines
of the repository, are data processing and wiring; what is modelled is the part of
the program where several actors share state.
