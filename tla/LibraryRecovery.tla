-------------------------- MODULE LibraryRecovery --------------------------
(***************************************************************************)
(* How the main process (src/main/index.ts) gets the Library going again   *)
(* after a failure.  The coordinator holds the whole transactions that     *)
(* must be repeated (an initialization, a refresh, a backlog run) and      *)
(* leases them one at a time behind a timer; the backlog queue holds the   *)
(* wakes of targeted recovery; writer recovery repeats the initialization  *)
(* while another process has the writer; the rescan controller scans the   *)
(* directory when it changes and is paused while any of these is at work.  *)
(*                                                                         *)
(* All of it is one thread: a step runs from an event (a timer, an answer, *)
(* a call) to the next await, with the microtasks it queues, so the state  *)
(* is one record and the functions are operators from a state to a state.  *)
(*                                                                         *)
(* A health revision is only ever compared with the current one: a fault   *)
(* is "latest" until the next transition makes it "older".                 *)
(*                                                                         *)
(* Of the health the model keeps what the writer may do: "blocked" is      *)
(* writer-blocked, "error" is corrupt or read-only, "well" is the rest, an *)
(* identity conflict included, which leaves the writer available.          *)
(***************************************************************************)
EXTENDS Naturals, FiniteSets

CONSTANT MaxAttempts    \* the delays of libraryBacklogGlobalRetryDelay

ASSUME RecoveryAssumption == MaxAttempts \in Nat

Modes == {"automatic", "provider"}

\* A backlog operation is named by its mode, as its key is.
Ops == {"initial", "refresh"} \cup Modes

\* What libraryBacklogBatchFailurePolicy says of an error: global-retry,
\* writer-recovery, safety-stop, identity-terminal.  The last is shown as an
\* identity conflict, or as corrupt where the identity is ambiguous or missing.
Kinds == {"retry", "writer", "stop", "conflict", "identity"}

NoLease == [id |-> 0]
NoWork == [op |-> "none"]
Leases == 1..2

VARIABLE lib    \* the state of recovery in the main process

\* What may be left behind with nobody to attend to it; see Stranded.
Strands == {"rescan", "wake", "health", "fault"}

Leased == [id : Leases, op : Ops, revision : {"latest", "older"}]
Inits == [stage : {"none", "planning", "syncing", "hydrating"},
          callers : SUBSET {"lease", "loadAll", "writer"}, lease : {0} \cup Leases]
Works == [op : Ops \ {"initial"}, stage : {"planning", "syncing", "refreshing"},
          lease : {0} \cup Leases]
Scans == [dirty : BOOLEAN, timer : BOOLEAN, running : BOOLEAN, paused : BOOLEAN]
Healths == {"well", "error", "blocked"}

State ==
    [initialized : BOOLEAN, inventory : BOOLEAN,
     activation : {"none", "draining", "switching"},
     stopped : {"no", "safety", "exhausted"},
     timer : BOOLEAN, attempts : 0..MaxAttempts,
     pending : [Ops -> {"none", "latest", "older"}], active : {NoLease} \cup Leased,
     queue : SUBSET Modes, autoTimer : BOOLEAN,
     health : Healths, writerTimer : BOOLEAN,
     writer : {"none", "probing", "initializing", "compensating"},
     init : Inits, work : {NoWork} \cup Works, rescan : Scans,
     stranded : SUBSET Strands]

NoInit == [stage |-> "none", callers |-> {}, lease |-> 0]

-----------------------------------------------------------------------------
(* The coordinator, the rescan controller and the health state.            *)

Faults(s) == {o \in Ops : s.pending[o] # "none"}

HasWork(s) == Faults(s) # {} \/ s.active # NoLease

Clear(s) == [s EXCEPT !.pending = [o \in Ops |-> "none"], !.active = NoLease]

\* Another process has the writer, or writer recovery is at work.
WriterRecovering(s) == s.health = "blocked" \/ s.writerTimer \/ s.writer # "none"

\* libraryRescanRecoveryBlocked
RecoveryBlocked(s) ==
    \/ s.activation # "none"
    \/ s.stopped # "no"
    \/ s.timer
    \/ HasWork(s)
    \/ s.init.stage # "none"
    \/ s.work # NoWork
    \/ WriterRecovering(s)

Strand(s, what) == [s EXCEPT !.stranded = @ \cup what]

Pause(s) == [s EXCEPT !.rescan.paused = TRUE, !.rescan.timer = FALSE]

\* schedule, which does not look at paused; flush does.
ScheduleScan(s) ==
    [s EXCEPT !.rescan.timer = @ \/ (s.rescan.dirty /\ ~s.rescan.running)]

Resume(s) == ScheduleScan([s EXCEPT !.rescan.paused = FALSE])

\* resumeLibraryRescanIfSafe
ResumeIfSafe(s) == IF RecoveryBlocked(s) THEN s ELSE Resume(s)

\* transitionLibraryHealth: every transition is a new revision.
Transition(s, h) ==
    LET Older(r) == IF r = "latest" THEN "older" ELSE r
        aged == [s EXCEPT !.health = h, !.pending = [o \in Ops |-> Older(@[o])]]
    IN  IF s.active = NoLease THEN aged ELSE [aged EXCEPT !.active.revision = "older"]

\* beginLibraryBackgroundSync and WRITER_PROVEN, once the plan of a startup
\* transaction has answered: whatever was wrong with the writer is forgotten,
\* and no revision tells.
Proven(s) == [s EXCEPT !.health = "well"]

\* The delays never run out.
Arm_Unbounded(s) ==
    IF \/ s.activation # "none" \/ s.stopped # "no" \/ s.timer
       \/ s.active # NoLease \/ Faults(s) = {}
    THEN s
    ELSE [s EXCEPT !.attempts = @ + 1, !.timer = TRUE, !.autoTimer = FALSE]

\* armLibraryBacklogGlobalRecoveryTimer
Arm(s) ==
    IF \/ s.activation # "none" \/ s.stopped # "no" \/ s.timer
       \/ s.active # NoLease \/ Faults(s) = {}
    THEN s
    ELSE IF s.attempts = MaxAttempts
    THEN Pause(Clear([s EXCEPT !.stopped = "exhausted", !.queue = {}]))
    ELSE [s EXCEPT !.attempts = @ + 1, !.timer = TRUE, !.autoTimer = FALSE]

\* scheduleLibraryBacklogGlobalRecovery: only an initialization helps a
\* Library that is not initialized.
Schedule(s, op) ==
    IF s.stopped # "no" THEN s
    ELSE LET key == IF s.initialized THEN op ELSE "initial"
         IN  Arm([Pause(s) EXCEPT !.pending[key] = "latest"])

\* clearLibraryBacklogGlobalRecoverySchedule: a safety stop outlives it.
ClearSchedule(s) ==
    [Clear(s) EXCEPT !.timer = FALSE, !.attempts = 0,
                     !.stopped = IF @ = "exhausted" THEN "no" ELSE @]

\* enterLibraryBacklogSafetyStop
SafetyStop(s) ==
    [ClearSchedule(Pause(s)) EXCEPT !.stopped = "safety", !.autoTimer = FALSE, !.queue = {}]

\* A recovery in flight is trusted to retry by itself.
ScheduleWriter_WhenIdle(s) ==
    IF s.health # "blocked" THEN s
    ELSE [Pause(s) EXCEPT !.writerTimer = @ \/ (s.activation = "none" /\ s.writer = "none")]

\* scheduleLibraryWriterRecovery
ScheduleWriter(s) ==
    IF s.health # "blocked" THEN s
    ELSE [Pause(s) EXCEPT !.writerTimer = @ \/ s.activation = "none"]

\* classifyLibraryError
Shown(kind) ==
    CASE kind = "writer" -> "blocked"
      [] kind = "conflict" -> "well"
      [] OTHER -> "error"

\* handleLibraryGlobalFailure: nobody retries what an identity conflict ended.
Handle(s, kind, op) ==
    LET failed == Transition(Pause(s), Shown(kind))
    IN  CASE kind = "retry" -> Schedule(failed, op)
          [] kind = "stop" -> SafetyStop(failed)
          [] kind = "writer" -> ScheduleWriter(failed)
          [] OTHER -> Strand(failed, Strands)

-----------------------------------------------------------------------------
(* Wakes, leases and the work they start.                                  *)

\* takeNext: a provider first.
First(Q) == IF "provider" \in Q THEN "provider" ELSE "automatic"

\* The body of runLibraryBacklogRecovery, up to its first await.
StartBacklog(s, mode, id) ==
    IF \/ s.activation # "none" \/ ~s.initialized
       \/ s.init.stage # "none" \/ s.work # NoWork
    THEN s
    ELSE [Pause(s) EXCEPT !.work = [op |-> mode, stage |-> "planning", lease |-> id],
                          !.queue = IF id = 0 THEN @ \ {mode} ELSE @]

\* runLibraryBacklogRecovery without a lease: dropped, coalesced or run.
Wake(s, mode) ==
    LET requested == [s EXCEPT !.queue = @ \cup {mode}]
    IN  IF s.stopped # "no" THEN s
        ELSE IF s.timer \/ HasWork(s) \/ WriterRecovering(s) THEN requested
        ELSE StartBacklog(requested, First(requested.queue), 0)

\* The wake that a finished run queues for what is left of the backlog.
WakeQueued(s) ==
    IF s.queue = {} \/ s.activation # "none" THEN s
    ELSE Wake([s EXCEPT !.queue = @ \ {First(@)}], First(s.queue))

\* completeOwnedLibraryGlobalRecovery: the last fault to be repaired restores
\* the health only if it is also the last that happened.
Complete(s, id) ==
    IF id = 0 \/ s.active.id # id THEN s
    ELSE LET done == [s EXCEPT !.active = NoLease, !.attempts = 0]
         IN  IF Faults(done) # {} THEN Arm(done)
             ELSE ResumeIfSafe(IF s.active.revision = "latest"
                               THEN Transition(done, "well")
                               ELSE Strand(done, {"health"}))

\* The lease of an initialization, after which nothing drains the queue.
CompleteInitial(s, id) ==
    IF s.active.id = id THEN Strand(Complete(s, id), {"wake"}) ELSE s

\* The lease is not given back.
Release_KeepsLease(s, id, kind) == s

\* releaseOwnedLibraryGlobalRecovery
Release(s, id, kind) ==
    IF kind = "stop" \/ id = 0 \/ s.active.id # id THEN s
    ELSE IF kind = "retry" THEN Arm([s EXCEPT !.active = NoLease])
    ELSE [Clear(s) EXCEPT !.attempts = 0]

\* The rescans are resumed while the promise is still there.
EndWork_ResumeFirst(s, blocked) ==
    LET ended == [ResumeIfSafe(s) EXCEPT !.work = NoWork]
    IN  IF blocked THEN ended ELSE WakeQueued(ended)

\* What was put off during the run stays in the queue.
EndWork_NoDrain(s, blocked) == ResumeIfSafe([s EXCEPT !.work = NoWork])

\* The end of the promise of runLibraryBacklogRecovery or ...RefreshRecovery.
EndWork(s, blocked) ==
    LET ended == ResumeIfSafe([s EXCEPT !.work = NoWork])
    IN  IF blocked THEN ended ELSE WakeQueued(ended)

\* A transaction has succeeded: a leased one ends, another takes the next
\* mode of the queue unless a fault is waiting.
WorkSucceeds(s) ==
    LET id == s.work.lease
        more == [s EXCEPT !.work = [op |-> First(s.queue), stage |-> "planning", lease |-> 0],
                          !.queue = @ \ {First(@)}]
    IN  IF id # 0 \/ s.work.op = "refresh" THEN EndWork(Complete(s, id), FALSE)
        ELSE IF HasWork(s) \/ s.queue = {} \/ s.activation # "none" \/ s.stopped = "safety"
        THEN EndWork(s, FALSE)
        ELSE more

\* A failure after the checkpoint was committed needs a refresh only.
WorkFails(s, kind) ==
    LET mode == s.work.op
        handled == Handle(s, kind, IF s.work.stage = "refreshing" THEN "refresh" ELSE mode)
        asked == IF kind = "writer" /\ mode \in Modes
                 THEN [handled EXCEPT !.queue = @ \cup {mode}] ELSE handled
    IN  IF s.activation # "none" THEN EndWork(s, FALSE)
        ELSE EndWork(Release(asked, s.work.lease, kind), TRUE)

-----------------------------------------------------------------------------
(* Initialization and writer recovery.                                     *)

\* initLibraryFromSessions joins an initialization in flight.
BeginInit(s, caller, id) ==
    IF s.init.stage # "none" THEN [s EXCEPT !.init.callers = @ \cup {caller}]
    ELSE [Transition(Pause(s), "well") EXCEPT
            !.init = [stage |-> "planning", callers |-> {caller}, lease |-> id]]

\* The finally of retryLibraryAfterWriterBlocked.
EndWriter(s) ==
    LET ended == ResumeIfSafe([s EXCEPT !.writer = "none"])
    IN  IF s.health = "blocked" THEN ended ELSE WakeQueued(ended)

WriterFails(s, kind) ==
    LET handled == Handle(s, kind, "initial")
    IN  EndWriter(IF s.activation # "none" THEN s
                  ELSE IF kind = "writer" THEN handled
                  ELSE [handled EXCEPT !.writerTimer = FALSE])

\* retryLibraryAfterWriterBlocked, up to the answer of the probe.  One that
\* joins a recovery that is past its initialization has no retry after it.
RetryWriter(s) ==
    IF s.activation # "none" \/ s.health # "blocked" THEN s
    ELSE CASE s.writer = "none" -> [s EXCEPT !.writer = "probing"]
           [] s.writer = "compensating" -> Strand(s, Strands)
           [] OTHER -> s

\* The finally of initLibraryFromSessions: its wake runs before any caller.
SettleInit(s, mode) == Wake(ResumeIfSafe([s EXCEPT !.init = NoInit]), mode)

InitSucceeds(s, mode) ==
    LET settled == SettleInit([Transition(s, "well") EXCEPT !.writerTimer = FALSE], mode)
        leased == IF "lease" \in s.init.callers
                  THEN CompleteInitial(settled, s.init.lease) ELSE settled
    IN  IF "writer" \in s.init.callers
        THEN [ClearSchedule(leased) EXCEPT !.writerTimer = FALSE, !.writer = "compensating"]
        ELSE leased

\* Each caller handles the failure; a switch of the root silences them.
InitFails(s, mode, kind) ==
    LET settled == SettleInit([s EXCEPT !.initialized = FALSE], mode)
        Caller(t, c) == IF c \in s.init.callers /\ s.activation = "none"
                        THEN Handle(t, kind, "initial") ELSE t
        leased == Release(Caller(settled, "lease"), s.init.lease, kind)
        loaded == Caller(leased, "loadAll")
    IN  IF "writer" \in s.init.callers THEN WriterFails(loaded, kind) ELSE loaded

\* scheduleLibraryBacklogRecovery, at the end of syncStartupSessions; an error
\* of that is one of the transport, which plans nothing.
PlanNext(s, planned) == [s EXCEPT !.autoTimer = planned /\ s.activation = "none"]

-----------------------------------------------------------------------------
(* The events.                                                             *)

\* What was left behind and is no longer there needs no name, nor what recovery
\* takes up when it is at work again.
Attended(s) ==
    [s EXCEPT !.stranded =
        {x \in @ : CASE x = "rescan" -> s.rescan.paused /\ ~RecoveryBlocked(s)
                     [] x = "wake" -> s.queue # {} /\ ~RecoveryBlocked(s)
                     [] x = "health" -> s.health # "well"
                     [] x = "fault" -> ~s.initialized}]

Becomes(s) == lib' = Attended(s)

\* sessions:loadAll: the renderer has the sessions, the Library is started.
LoadAll ==
    /\ lib.activation # "draining"
    /\ LET s == [lib EXCEPT !.inventory = TRUE]
       IN  Becomes(IF s.initialized \/ s.stopped # "no" \/ s.timer THEN s
                   ELSE IF s.health = "blocked" THEN RetryWriter(s)
                   ELSE BeginInit(s, "loadAll", 0))

\* settleProviderBootstrap
ProviderSettles == lib.inventory /\ Becomes(Wake(lib, "provider"))

AutomaticRetry ==
    /\ lib.autoTimer /\ lib.init.stage = "none"
    /\ Becomes(Wake([lib EXCEPT !.autoTimer = FALSE], "automatic"))

\* The timer of global recovery; while it cannot go on it only looks again.
Dispatch ==
    /\ lib.timer
    /\ lib.activation = "none" /\ lib.init.stage = "none" /\ lib.work = NoWork
    /\ ~WriterRecovering(lib)
    /\ LET F == Faults(lib)
           narrow == IF "refresh" \in F THEN {"refresh"} ELSE F
           id == CHOOSE i \in Leases : lib.init.lease # i
       IN  \E op \in IF "initial" \in F THEN {"initial"} ELSE narrow :
             /\ IF op = "initial" THEN lib.inventory ELSE lib.initialized
             /\ LET s == [lib EXCEPT
                            !.timer = FALSE,
                            !.active = [id |-> id, op |-> op, revision |-> lib.pending[op]],
                            !.pending = IF op = "initial" THEN [o \in Ops |-> "none"]
                                        ELSE [@ EXCEPT ![op] = "none"]]
                IN  Becomes(CASE op = "initial" /\ s.initialized -> CompleteInitial(s, id)
                              [] op = "initial" /\ ~s.initialized -> BeginInit(s, "lease", id)
                              [] op = "refresh" ->
                                   [s EXCEPT !.work = [op |-> op, stage |-> "refreshing", lease |-> id]]
                              [] op \in Modes -> StartBacklog(s, op, id))

\* syncStartupSessionsUnderProviderBarrier, from the plan to the first batch.
\* One startup transaction at a time gets past its plan.
BacklogPlanned ==
    /\ lib.work # NoWork /\ lib.work.stage = "planning" /\ lib.init.stage # "syncing"
    /\ Becomes([Proven(lib) EXCEPT !.work.stage = "syncing"])

\* syncStartupSessions of a backlog run answers: with batches written there is
\* a refresh to make.
BacklogSynced(committed, planned) ==
    /\ lib.work # NoWork /\ lib.work.stage = "syncing"
    /\ LET s == PlanNext(lib, planned)
       IN  Becomes(IF committed /\ s.activation = "none"
                   THEN [s EXCEPT !.work.stage = "refreshing"] ELSE WorkSucceeds(s))

Refreshed ==
    /\ lib.work # NoWork /\ lib.work.stage = "refreshing"
    /\ Becomes(WorkSucceeds(lib))

TransactionFails(kind) ==
    /\ lib.work # NoWork
    /\ Becomes(WorkFails(lib, kind))

InitPlanned ==
    /\ lib.init.stage = "planning" /\ ~(lib.work # NoWork /\ lib.work.stage = "syncing")
    /\ Becomes([Proven(lib) EXCEPT !.init.stage = "syncing"])

\* Sessions that have arrived meanwhile are planned and synchronized as well.
\* The Library counts as initialized before it is hydrated.
InitSynced(planned, more) ==
    /\ lib.init.stage = "syncing"
    /\ LET s == PlanNext(lib, planned)
       IN  Becomes(IF more THEN [s EXCEPT !.init.stage = "planning"]
                   ELSE [s EXCEPT !.init.stage = "hydrating", !.initialized = TRUE])

InitHydrated(mode) ==
    /\ lib.init.stage = "hydrating"
    /\ Becomes(InitSucceeds(lib, mode))

InitializationFails(mode, kind) ==
    /\ lib.init.stage # "none"
    /\ Becomes(InitFails(lib, mode, kind))

\* A retry that finds another health neither tries nor resumes anything; a
\* Library that was waiting for it stays uninitialized.
TimeToRetry(s) ==
    LET due == [s EXCEPT !.writerTimer = FALSE]
    IN  IF s.health = "blocked" THEN RetryWriter(due)
        ELSE IF s.writerTimer THEN Strand(due, {"rescan", "wake", "fault"}) ELSE due

WriterTimer == lib.writerTimer /\ Becomes(TimeToRetry(lib))

\* library:compensationRetry
RetryByHand == lib.activation = "none" /\ Becomes(TimeToRetry(lib))

Probed ==
    /\ lib.writer = "probing"
    /\ Becomes(IF lib.activation # "none" THEN EndWriter(lib)
               ELSE BeginInit([lib EXCEPT !.writer = "initializing"], "writer", 0))

ProbeFails(kind) ==
    /\ lib.writer = "probing"
    /\ Becomes(WriterFails(lib, kind))

Compensated ==
    /\ lib.writer = "compensating"
    /\ Becomes(EndWriter(lib))

\* The controller of the rescans: a change of the directory, ...
DirectoryChanges ==
    /\ lib.activation # "draining"
    /\ LET s == [lib EXCEPT !.rescan.dirty = TRUE]
       IN  Becomes(IF s.rescan.paused THEN s ELSE ScheduleScan(s))

ScanAgain(s) == ScheduleScan([s EXCEPT !.rescan.running = FALSE])

\* A scan that is not wanted now: the change is kept for the resume.
Postpone(s) == ScanAgain(Pause([s EXCEPT !.rescan.dirty = TRUE]))

\* ... its timer, ...
Flush ==
    /\ lib.rescan.timer
    /\ LET s == [lib EXCEPT !.rescan.timer = FALSE]
           begun == [s EXCEPT !.rescan.dirty = FALSE, !.rescan.running = TRUE]
       IN  Becomes(IF s.rescan.running \/ ~s.rescan.dirty \/ s.rescan.paused THEN s
                   ELSE IF RecoveryBlocked(s) THEN Postpone(begun) ELSE begun)

\* ... and the end of its scan, which a switch of the root makes stale.
Scanned ==
    /\ lib.rescan.running
    /\ Becomes(IF lib.activation = "none" /\ RecoveryBlocked(lib) THEN Postpone(lib)
               ELSE ScanAgain(lib))

ScanFails(kind) ==
    /\ lib.rescan.running
    /\ Becomes(IF lib.activation = "none" THEN ScanAgain(Handle(lib, kind, "refresh"))
               ELSE ScanAgain(lib))

\* A live synchronization, one of which may always be in flight once the
\* Library has been started.  Its success ends writer-blocked, and with it the
\* writer recovery, but attends to nothing that had been put off.
LiveSucceeds(wake) ==
    /\ lib.inventory /\ lib.activation = "none"
    /\ LET unblocked ==
               IF lib.health = "blocked"
               THEN [Transition(Strand(lib, {"rescan", "wake", "fault"}), "well")
                       EXCEPT !.writerTimer = FALSE]
               ELSE lib
       IN  Becomes(IF wake THEN Wake(unblocked, "automatic") ELSE unblocked)

\* A failure outside the transactions only tells the health; it may take the
\* place of writer-blocked, for which a retry was due.
Tell(s, h) ==
    Transition(Strand(s, IF WriterRecovering(s) THEN Strands ELSE {"health"}), h)

LiveFails(h) ==
    /\ lib.inventory /\ lib.activation = "none"
    /\ Becomes(IF h = "blocked" THEN ScheduleWriter(Transition(lib, h)) ELSE Tell(lib, h))

\* performLibraryActivation, up to its first await.
Activate ==
    /\ lib.activation = "none"
    /\ Becomes(
         [ClearSchedule(Pause(lib)) EXCEPT
            !.activation = "draining", !.autoTimer = FALSE, !.stopped = "no",
            !.queue = {}, !.writerTimer = FALSE, !.rescan.dirty = FALSE])

\* It waits for all that is in flight before it takes the runtime down.
SwitchRoot ==
    /\ lib.activation = "draining"
    /\ lib.init.stage = "none" /\ lib.work = NoWork /\ lib.writer = "none"
    /\ ~lib.rescan.running
    /\ Becomes([Transition(lib, "well") EXCEPT
                  !.activation = "switching", !.initialized = FALSE])

\* Its own startup transaction finds the writer well, and so says no more.  The
\* finally of it: the wake of the providers, the rescans, the timer.
EndSwitch(s, settled) ==
    Arm(ResumeIfSafe(WakeQueued(IF settled THEN [s EXCEPT !.queue = @ \cup {"provider"}] ELSE s)))

SwitchCommits(settled) ==
    /\ lib.activation = "switching"
    /\ Becomes(EndSwitch([Transition(lib, "well") EXCEPT
                            !.activation = "none", !.initialized = TRUE], settled))

\* An initialization that sessions:loadAll has begun meanwhile may yet report
\* ready and stop the retries of the Library that this leaves uninitialized.
SwitchFails(kind, settled) ==
    /\ lib.activation = "switching"
    /\ LET down == [lib EXCEPT !.activation = "none", !.initialized = FALSE]
           failed == Handle(IF lib.init = NoInit THEN down ELSE Strand(down, {"fault"}),
                            kind, "initial")
           watched == [failed EXCEPT !.rescan =
                         [dirty |-> FALSE, timer |-> FALSE, running |-> FALSE,
                          paused |-> RecoveryBlocked(failed)]]
       IN  Becomes(EndSwitch(IF kind = "stop" THEN failed ELSE watched, settled))

Init ==
    lib = [initialized |-> FALSE, inventory |-> FALSE, activation |-> "none",
              stopped |-> "no", timer |-> FALSE, attempts |-> 0,
              pending |-> [o \in Ops |-> "none"], active |-> NoLease,
              queue |-> {}, autoTimer |-> FALSE,
              health |-> "well", writerTimer |-> FALSE, writer |-> "none",
              init |-> NoInit, work |-> NoWork,
              rescan |-> [dirty |-> FALSE, timer |-> FALSE, running |-> FALSE, paused |-> FALSE],
              stranded |-> {}]

Next ==
    \/ LoadAll \/ ProviderSettles \/ AutomaticRetry \/ Dispatch
    \/ BacklogPlanned \/ \E c, p \in BOOLEAN : BacklogSynced(c, p)
    \/ Refreshed \/ \E k \in Kinds : TransactionFails(k)
    \/ InitPlanned \/ \E p, m \in BOOLEAN : InitSynced(p, m)
    \/ \E m \in Modes : InitHydrated(m)
    \/ \E m \in Modes, k \in Kinds : InitializationFails(m, k)
    \/ WriterTimer \/ RetryByHand \/ Probed \/ Compensated
    \/ \E k \in Kinds : ProbeFails(k)
    \/ DirectoryChanges \/ Flush \/ Scanned
    \/ \E k \in Kinds : ScanFails(k)
    \/ \E w \in BOOLEAN : LiveSucceeds(w)
    \/ \E h \in Healths : LiveFails(h)
    \/ Activate \/ SwitchRoot
    \/ \E s \in BOOLEAN : SwitchCommits(s)
    \/ \E k \in Kinds, s \in BOOLEAN : SwitchFails(k, s)

Spec == Init /\ [][Next]_lib

-----------------------------------------------------------------------------
(* Properties.                                                             *)

\* The state has its type; in particular the retries of global recovery are
\* bounded, however faults, leases and timers interleave.
TypeOK == lib \in State

\* A fault the coordinator holds is on its way: a timer is armed or a lease
\* is out, a lease is held by a transaction in flight that will give it back,
\* a timer has a fault, and a fault that needs an initialized Library does
\* not wait for one that nobody initializes, apart from the named exceptions.
FaultsAreDriven ==
    LET F == Faults(lib)
        leaseOut == lib.active # NoLease
    IN  /\ F # {} /\ ~leaseOut => lib.timer
        /\ leaseOut => \/ lib.init.stage # "none" /\ lib.init.lease = lib.active.id
                       \/ lib.work # NoWork /\ lib.work.lease = lib.active.id
        /\ lib.timer => F # {} /\ lib.stopped = "no" /\ lib.activation = "none"
        /\ F # {} /\ "initial" \notin F /\ ~lib.initialized =>
             \/ lib.init.stage # "none" \/ leaseOut \/ WriterRecovering(lib)
             \/ "fault" \in lib.stranded

\* The rescans of the directory are paused only while something is at work
\* or due that resumes them, apart from the named exceptions.
RescanIsResumed ==
    lib.rescan.paused /\ ~RecoveryBlocked(lib) => "rescan" \in lib.stranded

\* A wake that was put off in the queue is served when what it waited for is
\* over, apart from the named exceptions.
WakesAreServed ==
    /\ lib.queue # {} /\ lib.initialized
    /\ ~RecoveryBlocked(lib) /\ ~lib.autoTimer
    => "wake" \in lib.stranded

\* The health shown comes right: an error is shown only while it is being
\* recovered from, writer-blocked only while a retry is due, and a Library that
\* should be initialized is, apart from the named exceptions.
HealthRecovers ==
    /\ lib.health = "error" /\ ~RecoveryBlocked(lib) => "health" \in lib.stranded
    /\ lib.health = "blocked" /\ ~lib.writerTimer /\ lib.writer = "none" =>
         lib.activation # "none" \/ "health" \in lib.stranded
    /\ lib.inventory /\ ~lib.initialized /\ ~RecoveryBlocked(lib) =>
         "fault" \in lib.stranded
=============================================================================
