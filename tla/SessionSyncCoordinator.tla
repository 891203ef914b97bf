------------------------ MODULE SessionSyncCoordinator ------------------------
(***************************************************************************)
(* session-sync-coordinator.ts: file events of a session are coalesced     *)
(* over a quiet window, queued, and synchronized by a small pool, one run  *)
(* per key at a time; flushPendingSnapshot forces the newest generation of *)
(* some keys through and waits for it.                                     *)
(*                                                                         *)
(* The coordinator runs on one event loop: each action is one callback,    *)
(* with every call it makes.  A run is over when its promise settles, and  *)
(* failed or not is the same here.  index.ts keys an event by the session  *)
(* id if a scan or a run has found it, else by the file path.              *)
(***************************************************************************)
EXTENDS Naturals, Sequences, FiniteSets

CONSTANTS
    Sessions,       \* physical sessions: a source file each
    concurrency,    \* options.concurrency
    maxEntries,     \* options.maxEntries of a flush
    MaxEvents,      \* bound: calls of schedule
    MaxFlushes,     \* bound: calls of flushPendingSnapshot
    NoEntry         \* entries.get(key) === undefined

Keys == Sessions \X {"file", "session"}
Generations == 0..MaxEvents
Selections  == 0..MaxFlushes * Cardinality(Keys)
Entries == [timer : BOOLEAN, queued : BOOLEAN, running : BOOLEAN, rerunRequested : BOOLEAN,
            latestGeneration : Generations, runningGeneration : Generations,
            completedGeneration : Generations, forceThroughGeneration : Generations]

ASSUME CoordinatorAssumption ==
    /\ concurrency \in Nat \ {0}
    /\ maxEntries \in Nat \ {0}
    /\ MaxEvents \in Nat
    /\ MaxFlushes \in Nat
    /\ NoEntry \notin Entries
    /\ IsFiniteSet(Sessions)

VARIABLES
    entries,    \* key -> PendingSessionSync
    queue,
    targets,    \* of each flush: key -> the generation it waits for, 0 for none
    flush,      \* each flush: not called, waiting, or resolved
    lastSelection,  \* lastSnapshotSelectionByKey
    generation, \* the last generation given out
    selection,  \* the last selection number given out
    deferred,   \* deferredDrainTimer is set
    stopped,
    identified, \* sessions whose id is in the cache of summaries
    passedOver  \* history: flushes a waiting key has been left out of, in a row

vars == <<entries, queue, targets, flush, lastSelection, generation, selection, deferred,
          stopped, identified, passedOver>>

Flushes == 1..MaxFlushes

TypeOK ==
    /\ entries \in [Keys -> Entries \cup {NoEntry}]
    /\ queue \in Seq(Keys)
    /\ targets \in [Flushes -> [Keys -> Generations]]
    /\ flush \in [Flushes -> {"none", "waiting", "resolved"}]
    /\ lastSelection \in [Keys -> Selections]
    /\ generation \in Generations
    /\ selection \in Selections
    /\ deferred \in BOOLEAN
    /\ stopped \in BOOLEAN
    /\ identified \subseteq Sessions
    /\ passedOver \in [Keys -> Nat]

NoTargets == [k \in Keys |-> 0]

Init ==
    /\ entries = [k \in Keys |-> NoEntry]
    /\ queue = <<>>
    /\ targets = [w \in Flushes |-> NoTargets]
    /\ flush = [w \in Flushes |-> "none"]
    /\ lastSelection = [k \in Keys |-> 0]
    /\ generation = 0
    /\ selection = 0
    /\ deferred = FALSE
    /\ stopped = FALSE
    /\ identified \in SUBSET Sessions
    /\ passedOver = [k \in Keys |-> 0]

------------------------------------------------------------------------------
Present(es) == {k \in Keys : es[k] # NoEntry}
Running(es) == {k \in Present(es) : es[k].running}

Lesser(m, n) == IF m < n THEN m ELSE n
Larger(m, n) == IF m > n THEN m ELSE n

Forced(e) == e.forceThroughGeneration > e.completedGeneration

\* The elements of q that are in ks, in order.  (A function and no SelectSeq:
\* the proofs unfold it.)
Filter(q, ks) ==
    LET kept[n \in 0..Len(q)] ==
          IF n = 0 THEN <<>> ELSE IF q[n] \in ks THEN Append(kept[n - 1], q[n]) ELSE kept[n - 1]
    IN  kept[Len(q)]
Without(q, ks) == Filter(q, Keys \ ks)

NewEntry_PreIncrement(n) ==
    [timer |-> TRUE, queued |-> FALSE, running |-> FALSE, rerunRequested |-> FALSE,
     latestGeneration |-> n + 1, runningGeneration |-> 0,
     completedGeneration |-> 0, forceThroughGeneration |-> 0]

NewEntry(n) ==
    [timer |-> TRUE, queued |-> FALSE, running |-> FALSE, rerunRequested |-> FALSE,
     latestGeneration |-> n, runningGeneration |-> 0,
     completedGeneration |-> 0, forceThroughGeneration |-> 0]

Waiting(fl) == \E w \in Flushes : fl[w] = "waiting"

\* The keys drain takes from the queue: the first ones there is room for, and
\* while a flush waits only those forced. (None of them has to be passed over
\* as not queued, running or in its quiet window: OnePlace.)
Drainable(es, q, fl) ==
    LET eligible == Filter(q, {k \in Present(es) : Waiting(fl) => Forced(es[k])})
        room == IF stopped THEN 0 ELSE concurrency - Cardinality(Running(es))
    IN  {eligible[i] : i \in 1..Lesser(room, Len(eligible))}

\* drain: their runs begin, with the newest generation.
Drain(es, q, fl) ==
    LET started == Drainable(es, q, fl) IN
    /\ entries' = [k \in Keys |->
         IF k \in started
         THEN [es[k] EXCEPT !.queued = FALSE, !.running = TRUE,
                            !.runningGeneration = es[k].latestGeneration]
         ELSE es[k]]
    /\ queue' = Without(q, started)

\* resolveSnapshotWaiters
Outstanding(es, w) ==
    [k \in Keys |-> IF es[k] # NoEntry /\ es[k].completedGeneration >= targets[w][k]
                    THEN 0 ELSE targets[w][k]]
Resolve(es) ==
    [w \in Flushes |-> IF flush[w] = "waiting" /\ Outstanding(es, w) = NoTargets
                       THEN "resolved" ELSE flush[w]]

------------------------------------------------------------------------------
KeyOf(s) == <<s, IF s \in identified THEN "session" ELSE "file">>

Rescheduled_Unqueued(e, n) ==
    IF e.running THEN [e EXCEPT !.latestGeneration = n, !.rerunRequested = TRUE]
    ELSE [e EXCEPT !.latestGeneration = n, !.queued = FALSE, !.timer = TRUE]

Rescheduled_RunningOnly(e, n) ==
    IF e.running THEN [e EXCEPT !.latestGeneration = n]
    ELSE IF e.queued /\ Forced(e) THEN [e EXCEPT !.latestGeneration = n]
    ELSE [e EXCEPT !.latestGeneration = n, !.queued = FALSE, !.timer = TRUE]

\* What an event does to an entry: a running one will run again, a forced one
\* in the queue stays there, any other begins its quiet window anew.
Rescheduled(e, n) ==
    IF e.running THEN [e EXCEPT !.latestGeneration = n, !.rerunRequested = TRUE]
    ELSE IF e.queued /\ Forced(e) THEN [e EXCEPT !.latestGeneration = n]
    ELSE [e EXCEPT !.latestGeneration = n, !.queued = FALSE, !.timer = TRUE]

Schedule(s) ==
    /\ ~stopped
    /\ generation < MaxEvents
    /\ generation' = generation + 1
    /\ LET k == KeyOf(s)
           e == IF entries[k] = NoEntry THEN NewEntry(generation')
                ELSE Rescheduled(entries[k], generation')
       IN  /\ entries' = [entries EXCEPT ![k] = e]
           /\ queue' = IF e.queued THEN queue ELSE Without(queue, {k})
    /\ UNCHANGED <<targets, flush, lastSelection, selection, deferred, stopped, identified, passedOver>>

\* A scan or a run finds the id of a session.
Identify(s) ==
    /\ s \notin identified
    /\ identified' = identified \cup {s}
    /\ UNCHANGED <<entries, queue, targets, flush, lastSelection, generation, selection, deferred,
                   stopped, passedOver>>

\* The quiet window of a key is over.
TimerFires(k) ==
    /\ entries[k] # NoEntry
    /\ entries[k].timer
    /\ Drain([entries EXCEPT ![k] = [@ EXCEPT !.timer = FALSE, !.queued = TRUE]], Append(queue, k), flush)
    /\ UNCHANGED <<targets, flush, lastSelection, generation, selection, deferred, stopped,
                   identified, passedOver>>

ForceThrough_KeepsTimer(e, n) ==
    IF e.running THEN [e EXCEPT !.forceThroughGeneration = Larger(@, n), !.rerunRequested = TRUE]
    ELSE [e EXCEPT !.forceThroughGeneration = Larger(@, n), !.queued = TRUE]

\* forceThrough: out of its quiet window and into the queue, or run again.
ForceThrough(e, n) ==
    LET through == Larger(e.forceThroughGeneration, n) IN
    IF e.running
    THEN [e EXCEPT !.forceThroughGeneration = through,
                   !.rerunRequested = (@ \/ e.runningGeneration < through)]
    ELSE [e EXCEPT !.forceThroughGeneration = through, !.timer = FALSE, !.queued = TRUE]

Before_Newest(j, k) == entries[j].latestGeneration > entries[k].latestGeneration

\* The order in which flushes select: the longest unselected first, then the
\* newest.
Before(j, k) ==
    \/ lastSelection[j] < lastSelection[k]
    \/ /\ lastSelection[j] = lastSelection[k]
       /\ entries[j].latestGeneration > entries[k].latestGeneration

Pending == {k \in Present(entries) : entries[k].latestGeneration > entries[k].completedGeneration}
Unstarted == Pending \ Running(entries)

\* The idle keys a flush selects: the first maxEntries in that order.
Chosen == {k \in Unstarted : Cardinality({j \in Unstarted : Before(j, k)}) < maxEntries}

Orders(ks) == {q \in [1..Cardinality(ks) -> ks] : \A i, j \in DOMAIN q : i # j => q[i] # q[j]}

\* Those that run, in the order of the map, here any.
RunningFirst == Orders(Pending \cap Running(entries))

\* Then the chosen ones, sorted.
ChosenNext == {q \in Orders(Chosen) : \A i, j \in DOMAIN q : i < j => Before(q[i], q[j])}

\* flushPendingSnapshot, up to the wait. (Nothing is complete by then.)
FlushPendingSnapshot(w) ==
    /\ ~stopped
    /\ flush[w] = "none"
    /\ \A v \in Flushes : v < w => flush[v] # "none"
    /\ Pending # {}
    /\ \E running \in RunningFirst, idle \in ChosenNext :
         LET order == running \o idle
             place(k) == {i \in DOMAIN order : order[i] = k}
             forced == [k \in Keys |-> IF place(k) = {} THEN entries[k]
                                       ELSE ForceThrough(entries[k], entries[k].latestGeneration)]
             added == Filter(order, {k \in Present(entries) : forced[k].queued /\ ~entries[k].queued})
         IN
         /\ flush' = [flush EXCEPT ![w] = "waiting"]
         /\ targets' = [targets EXCEPT ![w] =
              [k \in Keys |-> IF place(k) = {} THEN 0 ELSE entries[k].latestGeneration]]
         /\ selection' = selection + Len(order)
         /\ lastSelection' = [k \in Keys |-> IF place(k) = {} THEN lastSelection[k]
                                             ELSE selection + CHOOSE i \in place(k) : TRUE]
         /\ passedOver' = [k \in Keys |-> IF k \in Unstarted /\ place(k) = {}
                                          THEN passedOver[k] + 1 ELSE 0]
         /\ Drain(forced, queue \o added, flush')
    /\ UNCHANGED <<generation, deferred, stopped, identified>>

\* The entry of a run that is over, before it is decided what becomes of it.
Completed(e) ==
    [e EXCEPT !.running = FALSE, !.runningGeneration = 0,
              !.completedGeneration = Larger(@, e.runningGeneration)]

Followup_NoRerun(e) ==
    IF ~stopped /\ Forced(e) THEN ForceThrough([e EXCEPT !.rerunRequested = FALSE], 0) ELSE NoEntry

Followup_RerunFirst(e) ==
    IF stopped THEN NoEntry
    ELSE IF e.rerunRequested
    THEN [e EXCEPT !.forceThroughGeneration = 0, !.rerunRequested = FALSE, !.timer = TRUE]
    ELSE IF Forced(e) THEN ForceThrough(e, 0)
    ELSE NoEntry

\* It is queued again at once if a flush waits for a later generation, after a
\* quiet window if there were events, and forgotten if there were none.
Followup(e) ==
    IF stopped THEN NoEntry
    ELSE IF Forced(e) THEN ForceThrough([e EXCEPT !.rerunRequested = FALSE], 0)
    ELSE IF e.rerunRequested
    THEN [e EXCEPT !.forceThroughGeneration = 0, !.rerunRequested = FALSE, !.timer = TRUE]
    ELSE NoEntry

\* The last waiter is served: what else is in the queue starts in a task of its
\* own.
DefersDrain == Waiting(flush) /\ ~Waiting(flush')

\* The promise of a run settles.
RunSettles(k) ==
    /\ entries[k] # NoEntry
    /\ entries[k].running
    /\ LET done == [entries EXCEPT ![k] = Completed(@)]
           next == [done EXCEPT ![k] = Followup(@)]
           line == IF next[k] # NoEntry /\ next[k].queued THEN Append(queue, k) ELSE queue
       IN
       /\ targets' = [w \in Flushes |-> Outstanding(done, w)]
       /\ flush' = Resolve(done)
       /\ IF DefersDrain
          THEN entries' = next /\ queue' = line /\ deferred' = (deferred \/ ~stopped)
          ELSE Drain(next, line, flush') /\ UNCHANGED deferred
    /\ UNCHANGED <<lastSelection, generation, selection, stopped, identified, passedOver>>

DeferredDrain_Forgets ==
    /\ deferred
    /\ deferred' = FALSE
    /\ UNCHANGED <<entries, queue, targets, flush, lastSelection, generation, selection, stopped,
                   identified, passedOver>>

\* deferNormalDrain's timer.
DeferredDrain ==
    /\ deferred
    /\ deferred' = FALSE
    /\ Drain(entries, queue, flush)
    /\ UNCHANGED <<targets, flush, lastSelection, generation, selection, stopped, identified, passedOver>>

\* Only the runs under way are left; all flushes resolve.
Stop ==
    /\ ~stopped
    /\ stopped' = TRUE
    /\ entries' = [k \in Keys |->
         IF k \in Running(entries) THEN [entries[k] EXCEPT !.rerunRequested = FALSE] ELSE NoEntry]
    /\ queue' = <<>>
    /\ deferred' = FALSE
    /\ flush' = [w \in Flushes |-> IF flush[w] = "waiting" THEN "resolved" ELSE flush[w]]
    /\ lastSelection' = [k \in Keys |-> 0]
    /\ UNCHANGED <<targets, generation, selection, identified, passedOver>>

Next ==
    \/ Stop \/ DeferredDrain
    \/ \E s \in Sessions : Schedule(s) \/ Identify(s)
    \/ \E k \in Keys : TimerFires(k) \/ RunSettles(k)
    \/ \E w \in Flushes : FlushPendingSnapshot(w)

Spec == Init /\ [][Next]_vars

\* Timers fire and runs end. Events, flushes and stop need not come.
FairSpec ==
    /\ Spec
    /\ WF_vars(DeferredDrain)
    /\ \A k \in Keys : WF_vars(TimerFires(k)) /\ WF_vars(RunSettles(k))

------------------------------------------------------------------------------
(* Properties *)

\* An entry waits for its quiet window, or is in the queue once, or runs: in
\* two places it would run twice, and in none never again (schedule,
\* armQuietWindow, forceThrough, drain and run each move it).
OnePlace ==
    ~stopped =>
      \A k \in Keys :
        LET e == entries[k]
            places == {i \in DOMAIN queue : queue[i] = k}
        IN  IF e = NoEntry THEN places = {}
            ELSE /\ e.queued <=> places # {}
                 /\ Cardinality(places) <= 1
                 /\ Cardinality({x \in {"timer", "queued", "running"} : e[x]}) = 1

\* An entry is only forgotten once its newest event has been synchronized by a
\* run that began after it, unless the coordinator stopped.
NoEventDropped ==
    [][\A k \in Keys : (entries[k] # NoEntry /\ entries'[k] = NoEntry /\ ~stopped') =>
         entries[k].runningGeneration = entries[k].latestGeneration]_vars

\* A key that a flush waits for is queued or running and forced through the
\* generation of the cutoff: no event puts it back into a quiet window, and
\* two runs serve the flush (flushPendingSnapshot: "Events after the cutoff
\* remain queued").
TargetsAreForced ==
    \A w \in Flushes, k \in Keys :
      (flush[w] = "waiting" /\ targets[w][k] > 0) =>
        /\ entries[k] # NoEntry
        /\ entries[k].queued \/ entries[k].running
        /\ entries[k].forceThroughGeneration >= targets[w][k]
        /\ entries[k].completedGeneration < targets[w][k]

\* A key that waits is passed over at most once for each other key, however
\* often those have new events ("neither startup nor a quieter live key can be
\* starved by one continuously active transcript").
RoundRobin ==
    ~stopped => \A k \in Keys :
      passedOver[k] <= Cardinality({j \in Keys : lastSelection[j] > lastSelection[k]})

\* Whatever is pending is synchronized, also what a flush kept in the queue.
EventsSynchronized == \A k \in Keys : (entries[k] # NoEntry) ~> (entries[k] = NoEntry)

\* A flush returns.
FlushesResolve == \A w \in Flushes : (flush[w] = "waiting") ~> (flush[w] = "resolved")

\* No session is synchronized by two runs at a time (the class comment: "A
\* physical session can never run twice concurrently").
SessionRunsOnce ==
    \A s \in Sessions : ~({<<s, "file">>, <<s, "session">>} \subseteq Running(entries))
==============================================================================
