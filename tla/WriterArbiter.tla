---------------------------- MODULE WriterArbiter ----------------------------
(***************************************************************************)
(* The in-process writer arbiter of library-writer-lease.ts: Int32 words   *)
(* in one SharedArrayBuffer (owner, epoch, closed, participant slots) that *)
(* the main thread and the library workers operate on with Atomics.        *)
(*                                                                         *)
(* A step is one Atomics operation, except that assertArbiterWaitCurrent   *)
(* is one step: its failure conditions never become false again while the  *)
(* caller waits, so its loads take effect together at the first of them.   *)
(* Contexts of the main thread share its participant id and interleave     *)
(* only where the code yields; a worker runs one request at a time.        *)
(***************************************************************************)
EXTENDS Naturals

CONSTANTS
    MainContexts,   \* async contexts of the main thread
    Workers,        \* LibraryWorkerClient instances
    Control,        \* the main-thread code that closes or advances the epoch
    Slots,          \* ARBITER_PARTICIPANT_SLOTS, as 1..n
    MaxGeneration,  \* ARBITER_MAX_PARTICIPANT_GENERATION
    MaxEpoch,       \* bound on AdvanceEpoch (the code has none)
    NoId            \* the word 0

Writers  == MainContexts \cup Workers
Contexts == Writers \cup {Control}
Ids      == [gen : 1..MaxGeneration, slot : Slots]
MainId   == [gen |-> 1, slot |-> 1]

ASSUME ArbiterAssumption ==
    /\ MaxGeneration \in Nat \ {0}
    /\ MaxEpoch \in Nat
    /\ Slots \subseteq Nat
    /\ 1 \in Slots
    /\ NoId \notin Ids
    /\ MainContexts \cap Workers = {}
    /\ Control \notin Writers

VARIABLES
    owner,          \* ARBITER_OWNER_INDEX
    epoch,          \* ARBITER_EPOCH_INDEX
    closed,         \* ARBITER_CLOSED_INDEX
    slots,          \* the participant words
    nextGeneration, \* nextArbiterParticipantGeneration
    participant,    \* LibraryWorkerClient.workerArbiterParticipant
    wire,           \* the LibraryWriterArbiterWire a context runs under
    cancelled,      \* the workers whose request has its cancelBuffer set
    seen,           \* ownerId, as reclaimDeadArbiterOwner loaded it
    pc              \* where a context is

words == <<owner, epoch, closed, slots>>
table == <<nextGeneration, participant, cancelled>>
vars  == <<owner, epoch, closed, slots, nextGeneration, participant, wire,
           cancelled, seen, pc>>

Waiting == {"assert", "observe", "check", "clear", "peek", "cas", "recheck", "backoff"}
Wires   == [id : Ids \cup {NoId}, epoch : Nat, sync : BOOLEAN]
NoWire  == [id |-> NoId, epoch |-> 0, sync |-> FALSE]

TypeOK ==
    /\ owner \in Ids \cup {NoId}
    /\ epoch \in Nat
    /\ closed \in BOOLEAN
    /\ slots \in [Slots -> Ids \cup {NoId}]
    /\ nextGeneration \in Nat
    /\ participant \in [Workers -> Ids \cup {NoId}]
    /\ wire \in [Contexts -> Wires]
    /\ cancelled \subseteq Workers
    /\ seen \in [Contexts -> Ids \cup {NoId}]
    /\ pc \in [Contexts -> Waiting \cup {"idle", "held", "bump", "dead", "off"}]

Init ==
    /\ owner = NoId
    /\ epoch = 0
    /\ closed = FALSE
    /\ slots = [s \in Slots |-> IF s = 1 THEN MainId ELSE NoId]
    /\ nextGeneration = 2
    /\ participant = [w \in Workers |-> NoId]
    /\ wire = [c \in Contexts |-> NoWire]
    /\ cancelled = {}
    /\ seen = [c \in Contexts |-> NoId]
    /\ pc = [c \in Contexts |-> IF c \in Workers THEN "off" ELSE "idle"]


\* A context keeps its wire until its acquisition ends, and what it loaded of
\* the owner word until the reclaim that loaded it is over.
Goto(c, l) ==
    /\ pc' = [pc EXCEPT ![c] = l]
    /\ wire' = IF l \in {"idle", "dead", "off"} THEN [wire EXCEPT ![c] = NoWire] ELSE wire
    /\ seen' = IF l = "clear" THEN seen ELSE [seen EXCEPT ![c] = NoId]

------------------------------------------------------------------------------
\* The main thread is one JavaScript thread: a context of it that has not
\* yielded (it yields idle, in the 10 ms wait, and while an async writer
\* works) excludes the others and the event handlers.
Yielded(c) ==
    \/ pc[c] \in {"idle", "backoff"}
    \/ pc[c] = "held" /\ c \in MainContexts /\ ~wire[c].sync

MainFree(c) == \A d \in (MainContexts \cup {Control}) \ {c} : Yielded(d)

OnItsThread(c) == c \in Workers \/ MainFree(c)

CurrentWire(id, sync) == [id |-> id, epoch |-> epoch, sync |-> sync]

SlotHolds(id) == id # NoId /\ slots[id.slot] = id

\* Atomics.compareExchange(state, ARBITER_OWNER_INDEX, id, 0)
ClearOwnerIs_Stored(id) == owner' = NoId
ClearOwnerIs(id) == owner' = IF owner = id THEN NoId ELSE owner

GenerationLeft_OffByOne == nextGeneration <= MaxGeneration + 1
GenerationLeft == nextGeneration <= MaxGeneration

TakeGeneration == nextGeneration' = nextGeneration + 1

------------------------------------------------------------------------------
(* Participants: registered and released by the main thread only. *)

\* claimArbiterParticipant, from ensureWorker: the first free slot and a
\* generation no participant had before. With no free slot or no generation
\* left the call throws and nothing changes.
StartWorker(w) ==
    /\ MainFree(w)
    /\ pc[w] = "off"
    /\ GenerationLeft
    /\ \E s \in Slots :
         /\ slots[s] = NoId
         /\ \A t \in Slots : t < s => slots[t] # NoId
         /\ LET id == [gen |-> nextGeneration, slot |-> s] IN
              /\ slots' = [slots EXCEPT ![s] = id]
              /\ participant' = [participant EXCEPT ![w] = id]
    /\ TakeGeneration
    /\ Goto(w, "idle")
    /\ UNCHANGED <<owner, epoch, closed, cancelled>>

\* The thread ends where it is: a crash, or terminate().
WorkerDies(w) ==
    /\ pc[w] \notin {"off", "dead"}
    /\ Goto(w, "dead")
    /\ UNCHANGED <<words, table>>

\* The 'exit' handler: the slot is cleared, the owner word is left alone.
WorkerExit(w) ==
    /\ MainFree(w)
    /\ pc[w] = "dead"
    /\ slots' = [slots EXCEPT ![participant[w].slot] = IF @ = participant[w] THEN NoId ELSE @]
    /\ participant' = [participant EXCEPT ![w] = NoId]
    /\ Goto(w, "off")
    /\ UNCHANGED <<owner, epoch, closed, nextGeneration, cancelled>>

\* A request carries the wire of the moment the main thread posts it.
PostRequest(w) ==
    /\ MainFree(w)
    /\ pc[w] = "idle"
    /\ \E sync \in BOOLEAN : wire' = [wire EXCEPT ![w] = CurrentWire(participant[w], sync)]
    /\ cancelled' = cancelled \ {w}
    /\ pc' = [pc EXCEPT ![w] = "assert"]
    /\ UNCHANGED <<words, nextGeneration, participant, seen>>

\* cancelPending, for the worker's request.
CancelRequest(w) ==
    /\ MainFree(w)
    /\ pc[w] \in Waiting \cup {"held"}
    /\ w \notin cancelled
    /\ cancelled' = cancelled \cup {w}
    /\ UNCHANGED <<words, nextGeneration, participant, wire, seen, pc>>

\* A context of the main thread takes its wire as it starts to acquire.
BeginMain(c) ==
    /\ MainFree(c)
    /\ pc[c] = "idle"
    /\ \E sync \in BOOLEAN : wire' = [wire EXCEPT ![c] = CurrentWire(MainId, sync)]
    /\ pc' = [pc EXCEPT ![c] = "assert"]
    /\ UNCHANGED <<words, table, seen>>

------------------------------------------------------------------------------
(* acquireLibraryWriterArbiter and its Sync form. *)

WaitCurrent(c) ==
    /\ ~closed
    /\ c \notin cancelled
    /\ epoch = wire[c].epoch
    /\ SlotHolds(wire[c].id)

AfterReclaim(c) ==
    IF c = Control THEN "idle" ELSE IF wire[c].sync THEN "peek" ELSE "cas"

AtLoopTop(c) == OnItsThread(c) /\ pc[c] \in {"assert", "backoff"}

AssertCurrent_Hoisted(c) ==
    /\ AtLoopTop(c)
    /\ Goto(c, IF pc[c] = "backoff" \/ WaitCurrent(c) THEN "observe" ELSE "idle")
    /\ UNCHANGED <<words, table>>

AssertCurrent_NoReclaim(c) ==
    /\ AtLoopTop(c)
    /\ Goto(c, IF WaitCurrent(c) THEN AfterReclaim(c) ELSE "idle")
    /\ UNCHANGED <<words, table>>

\* assertArbiterWaitCurrent at the top of the loop, also after the 10 ms wait.
AssertCurrent(c) ==
    /\ AtLoopTop(c)
    /\ Goto(c, IF WaitCurrent(c) THEN "observe" ELSE "idle")
    /\ UNCHANGED <<words, table>>

\* reclaimDeadArbiterOwner: load the owner word, then its slot, then clear.
ObserveOwner(c) ==
    /\ pc[c] = "observe"
    /\ \/ owner = NoId /\ Goto(c, AfterReclaim(c))
       \/ /\ owner # NoId
          /\ seen' = [seen EXCEPT ![c] = owner]
          /\ pc' = [pc EXCEPT ![c] = "check"]
          /\ UNCHANGED wire
    /\ UNCHANGED <<words, table>>

CheckParticipant(c) ==
    /\ pc[c] = "check"
    /\ Goto(c, IF SlotHolds(seen[c]) THEN AfterReclaim(c) ELSE "clear")
    /\ UNCHANGED <<words, table>>

ClearDeadOwner(c) ==
    /\ pc[c] = "clear"
    /\ ClearOwnerIs(seen[c])
    /\ Goto(c, AfterReclaim(c))
    /\ UNCHANGED <<epoch, closed, slots, table>>

\* The synchronous form refuses to wait: any other owner makes it throw.
PeekOwner(c) ==
    /\ pc[c] = "peek"
    /\ Goto(c, IF owner = NoId THEN "cas" ELSE "idle")
    /\ UNCHANGED <<words, table>>

TryOwn(c) ==
    /\ pc[c] = "cas"
    /\ \/ /\ owner = NoId
          /\ owner' = wire[c].id
          /\ Goto(c, "recheck")
       \/ /\ owner # NoId
          /\ owner' = owner
          /\ Goto(c, IF wire[c].sync THEN "assert" ELSE "backoff")
    /\ UNCHANGED <<epoch, closed, slots, table>>

Recheck_Skipped(c) ==
    /\ pc[c] = "recheck"
    /\ Goto(c, "held")
    /\ UNCHANGED <<words, table>>

\* The second assert, after the word is owned: only now is the handle given.
Recheck(c) ==
    /\ pc[c] = "recheck"
    /\ \/ /\ WaitCurrent(c)
          /\ Goto(c, "held")
          /\ owner' = owner
       \/ /\ ~WaitCurrent(c)
          /\ ClearOwnerIs(wire[c].id)
          /\ Goto(c, "idle")
    /\ UNCHANGED <<epoch, closed, slots, table>>

\* LibraryWriterArbiterHandle.release.
Release(c) ==
    /\ OnItsThread(c)
    /\ pc[c] = "held"
    /\ ClearOwnerIs(wire[c].id)
    /\ Goto(c, "idle")
    /\ UNCHANGED <<epoch, closed, slots, table>>

------------------------------------------------------------------------------
(* Closing and the epoch, on the main thread. *)

\* closeLibraryWriterArbiter stores the word and goes on to advance the epoch.
CloseArbiter ==
    /\ MainFree(Control)
    /\ pc[Control] = "idle"
    /\ ~closed
    /\ closed' = TRUE
    /\ Goto(Control, "bump")
    /\ UNCHANGED <<owner, epoch, slots, table>>

\* advanceLibraryWriterArbiterEpoch, called by itself (MaxEpoch bounds it) or
\* by the close; the reclaim of a dead owner follows.
AdvanceEpoch ==
    /\ MainFree(Control)
    /\ \/ pc[Control] = "idle" /\ epoch < MaxEpoch
       \/ pc[Control] = "bump"
    /\ epoch' = epoch + 1
    /\ Goto(Control, "observe")
    /\ UNCHANGED <<owner, closed, slots, table>>

Acquiring(c) == AssertCurrent(c) \/ PeekOwner(c) \/ TryOwn(c) \/ Recheck(c)
Reclaiming(c) == ObserveOwner(c) \/ CheckParticipant(c) \/ ClearDeadOwner(c)

Next ==
    \/ \E w \in Workers :
         StartWorker(w) \/ WorkerDies(w) \/ WorkerExit(w) \/ PostRequest(w) \/ CancelRequest(w)
    \/ \E c \in MainContexts : BeginMain(c)
    \/ \E c \in Writers : Acquiring(c) \/ Release(c)
    \/ \E c \in Contexts : Reclaiming(c)
    \/ CloseArbiter \/ AdvanceEpoch

Spec == Init /\ [][Next]_vars

\* Threads run and exit events are delivered, although the main thread is
\* busy now and then. An asynchronous writer may hold the arbiter forever; a
\* synchronous one on the main thread returns, or no event loop would run.
Fairness ==
    /\ \A c \in Writers : SF_vars(Acquiring(c))
    /\ \A c \in Contexts : WF_vars(Reclaiming(c))
    /\ \A c \in MainContexts : WF_vars(wire[c].sync /\ Release(c))
    /\ \A w \in Workers : SF_vars(WorkerExit(w))
    /\ WF_vars(pc[Control] = "bump" /\ AdvanceEpoch)

FairSpec == Spec /\ Fairness

------------------------------------------------------------------------------
(* Properties *)

Holders == {c \in Writers : pc[c] = "held"}

\* Two contexts never hold the arbiter together, although all contexts of the
\* main thread share one participant id, ids of dead workers are reclaimed by
\* anyone, and slots are reused (acquireLibraryWriterArbiter, release).
MutualExclusion == \A c, d \in Holders : c = d

\* A context that was told it holds the arbiter still has its id in the owner
\* word: no reclaim, epoch advance or failed recheck took it away
\* (reclaimDeadArbiterOwner, acquiredArbiterHandle).
HolderOwnsWord == \A c \in Holders : owner = wire[c].id

\* No grant after close, none for a cancelled request and none under an old
\* epoch, even when the close or the cancel falls between the loop's assert
\* and the compareExchange (the assert repeated after the CAS).
GrantsAreCurrent ==
    [][\A c \in Writers : (pc[c] # "held" /\ pc'[c] = "held")
         => ~closed /\ c \notin cancelled /\ wire[c].epoch = epoch]_vars

\* The arbiter implements the writer mutex with closing.
Mutex == INSTANCE WriterMutex WITH holders <- Holders
ImplementsMutex == Mutex!MutexSpec

\* After close, and after the cancel of its request, a waiter is turned away
\* even if the owner never releases (closeLibraryWriterArbiter, cancelPending:
\* quitting waits for the workers' pending requests).
ShutdownEndsWaiting ==
    \A c \in Writers : ((closed \/ c \in cancelled) /\ pc[c] \in Waiting) ~> pc[c] \notin Waiting

\* The owner word of a dead worker does not stay while someone waits for it
\* (release leaves the word; the waiters' reclaim must clear it).
DeadOwnerReclaimed ==
    \A i \in Ids, c \in MainContexts :
      (owner = i /\ i # MainId /\ (\A w \in Workers : participant[w] = i => pc[w] = "dead")
         /\ pc[c] = "backoff")
        ~> (owner # i \/ pc[c] \notin Waiting)
==============================================================================
