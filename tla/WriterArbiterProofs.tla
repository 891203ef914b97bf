------------------------- MODULE WriterArbiterProofs -------------------------
(***************************************************************************)
(* The arbiter is a writer mutex, for any number of main-thread contexts,  *)
(* workers, slots and generations.                                         *)
(*                                                                         *)
(* MutualExclusion is not inductive: that nobody's reclaim clears the word *)
(* of a live owner rests on the ids in the slots being those of the        *)
(* running threads, on a generation never being handed out twice, and on   *)
(* an id that was once found missing from its slot never coming back.      *)
(***************************************************************************)
EXTENDS WriterArbiter, TLAPS

Running(w) == pc[w] # "off"

Requesting(w) == pc[w] \in Waiting \cup {"held"}

\* The participant slots are the main thread's and those of the workers that
\* have not exited, each with an id of its own.
SlotsRegistered ==
    /\ nextGeneration >= 2
    /\ slots[1] = MainId
    /\ \A w \in Workers : Running(w) =>
         /\ participant[w] \in Ids
         /\ participant[w].gen \in 2 .. (nextGeneration - 1)
         /\ slots[participant[w].slot] = participant[w]
    /\ \A v, w \in Workers : Running(v) /\ Running(w) /\ participant[v] = participant[w] => v = w

\* A context acquires under the id its thread is registered with.
WiresRegistered ==
    /\ \A c \in MainContexts : pc[c] # "idle" => wire[c].id = MainId
    /\ \A c \in MainContexts : pc[c] \notin {"off", "dead"}
    /\ \A w \in Workers : Requesting(w) => wire[w].id = participant[w]

\* Every id that is still somewhere was handed out before; one that a reclaim
\* did not find in its slot is gone for good.
IdsKnown ==
    /\ owner # NoId => owner.gen < nextGeneration
    /\ \A c \in Contexts : seen[c] # NoId => seen[c].gen < nextGeneration
    /\ \A c \in Contexts : pc[c] \in {"check", "clear"} => seen[c] # NoId
    /\ \A c \in Contexts : pc[c] = "clear" => slots[seen[c].slot] # seen[c]

Owning == {c \in Writers : pc[c] \in {"recheck", "held"}}

\* The context whose id was stored in the owner word finds it there.
OneOwner ==
    /\ \A c \in Owning : owner = wire[c].id
    /\ \A c, d \in Owning : c = d

ArbiterInv == TypeOK /\ SlotsRegistered /\ WiresRegistered /\ IdsKnown /\ OneOwner

------------------------------------------------------------------------------
LEMMA InitEstablishes == Init => ArbiterInv
<1> SUFFICES ASSUME Init PROVE ArbiterInv
  OBVIOUS
<1> USE ArbiterAssumption DEF Init
<1>1. MainId \in Ids
  BY DEF MainId, Ids
<1>2. TypeOK
  BY <1>1 DEF TypeOK, Wires, NoWire, Waiting
<1>3. SlotsRegistered
  BY DEF SlotsRegistered, Running, Contexts, Writers
<1>4. WiresRegistered
  BY DEF WiresRegistered, Requesting, Contexts, Writers, Waiting
<1>5. IdsKnown
  BY DEF IdsKnown
<1>6. OneOwner
  BY DEF OneOwner, Owning, Contexts, Writers
<1> QED BY <1>2, <1>3, <1>4, <1>5, <1>6 DEF ArbiterInv

LEMMA StartWorkerKeeps ==
  ASSUME ArbiterInv, NEW w \in Workers, StartWorker(w)
  PROVE  ArbiterInv'
<1> USE ArbiterAssumption
<1>0. PICK s \in Slots :
        /\ slots[s] = NoId
        /\ slots' = [slots EXCEPT ![s] = [gen |-> nextGeneration, slot |-> s]]
        /\ participant' = [participant EXCEPT ![w] = [gen |-> nextGeneration, slot |-> s]]
  BY DEF StartWorker
<1>1. TypeOK'
  BY <1>0 DEF ArbiterInv, SlotsRegistered, StartWorker, GenerationLeft, TakeGeneration, Goto,
     TypeOK, Ids, Wires, NoWire, Contexts, Writers, Waiting
<1>2. SlotsRegistered'
  BY <1>0 DEF ArbiterInv, SlotsRegistered, StartWorker, GenerationLeft, TakeGeneration, Goto,
     TypeOK, Ids, Running, Contexts, Writers, MainId
<1>3. WiresRegistered'
  BY DEF ArbiterInv, WiresRegistered, StartWorker, Goto, TypeOK, Requesting, Contexts, Writers, Waiting
<1>4. IdsKnown'
  BY <1>0 DEF ArbiterInv, IdsKnown, StartWorker, TakeGeneration, Goto, TypeOK, Ids, Contexts, Writers
<1>5. OneOwner'
  BY DEF ArbiterInv, OneOwner, Owning, StartWorker, Goto, TypeOK, Contexts, Writers
<1> QED BY <1>1, <1>2, <1>3, <1>4, <1>5 DEF ArbiterInv

\* A step of a waiting context that touches no shared word.
LEMMA MovingKeeps ==
  ASSUME ArbiterInv, NEW c \in Contexts, pc[c] \in Waiting,
         NEW l \in {"idle", "assert", "observe", "peek", "cas", "backoff"}, Goto(c, l),
         UNCHANGED <<words, table>>
  PROVE  ArbiterInv'
  BY ArbiterAssumption
  DEF ArbiterInv, TypeOK, SlotsRegistered, WiresRegistered, IdsKnown, OneOwner, Owning, Running,
      Requesting, Ids, MainId, Wires, NoWire, Contexts, Writers, Waiting, Goto, words, table

LEMMA StepKeeps == ArbiterInv /\ [Next]_vars => ArbiterInv'
<1> SUFFICES ASSUME ArbiterInv, [Next]_vars PROVE ArbiterInv'
  OBVIOUS
<1> USE ArbiterAssumption
  DEF ArbiterInv, TypeOK, SlotsRegistered, WiresRegistered, IdsKnown, OneOwner, Owning, Running,
      Requesting, Ids, MainId, Wires, NoWire, Contexts, Writers, Waiting
<1>1. ASSUME NEW w \in Workers, WorkerDies(w) PROVE ArbiterInv'
  BY <1>1 DEF WorkerDies, Goto, words, table
<1>2. ASSUME NEW w \in Workers, WorkerExit(w) PROVE ArbiterInv'
  BY <1>2 DEF WorkerExit, Goto
<1>3. ASSUME NEW w \in Workers, PostRequest(w) PROVE ArbiterInv'
  BY <1>3 DEF PostRequest, CurrentWire, words
<1>4. ASSUME NEW w \in Workers, CancelRequest(w) PROVE ArbiterInv'
  BY <1>4 DEF CancelRequest, words
<1>5. ASSUME NEW c \in MainContexts, BeginMain(c) PROVE ArbiterInv'
  BY <1>5 DEF BeginMain, CurrentWire, words, table
<1>6. ASSUME NEW c \in Writers, AssertCurrent(c) PROVE ArbiterInv'
  BY <1>6, MovingKeeps DEF AssertCurrent, AtLoopTop
<1>7. ASSUME NEW c \in Contexts, ObserveOwner(c) PROVE ArbiterInv'
  <2>1. CASE owner = NoId
    BY <1>7, <2>1, MovingKeeps DEF ObserveOwner, AfterReclaim
  <2>2. CASE owner # NoId
    <3>1. /\ seen' = [seen EXCEPT ![c] = owner]
          /\ pc' = [pc EXCEPT ![c] = "check"]
          /\ UNCHANGED <<owner, epoch, closed, slots, nextGeneration, participant, wire, cancelled>>
      BY <1>7, <2>2 DEF ObserveOwner, words, table
    <3>2. owner \in Ids /\ owner.gen < nextGeneration
      BY <2>2
    <3>3. Owning' = Owning
      BY <1>7, <3>1 DEF ObserveOwner
    <3>4. TypeOK'
      BY <3>1, <3>2
    <3>5. \A w \in Workers : Running(w)' <=> Running(w)
      BY <1>7, <3>1 DEF ObserveOwner
    <3>6. SlotsRegistered'
      BY <3>1, <3>5
    <3>7. WiresRegistered'
      BY <1>7, <3>1 DEF ObserveOwner
    <3>8. IdsKnown'
      BY <2>2, <3>1, <3>2
    <3>9. OneOwner'
      BY <3>1, <3>3
    <3> QED BY <3>4, <3>6, <3>7, <3>8, <3>9
  <2> QED BY <2>1, <2>2
<1>8. ASSUME NEW c \in Contexts, CheckParticipant(c) PROVE ArbiterInv'
  BY <1>8 DEF CheckParticipant, SlotHolds, AfterReclaim, Goto, words, table
<1>9. ASSUME NEW c \in Contexts, ClearDeadOwner(c) PROVE ArbiterInv'
  BY <1>9 DEF ClearDeadOwner, ClearOwnerIs, AfterReclaim, Goto, table
<1>10. ASSUME NEW c \in Writers, PeekOwner(c) PROVE ArbiterInv'
  BY <1>10, MovingKeeps DEF PeekOwner
<1>11. ASSUME NEW c \in Writers, TryOwn(c) PROVE ArbiterInv'
  <2>1. CASE owner = NoId
    <3>1. pc[c] = "cas" /\ owner' = wire[c].id /\ Goto(c, "recheck")
      BY <1>11, <2>1 DEF TryOwn
    <3>2. wire[c].id \in Ids /\ wire[c].id.gen < nextGeneration
      BY <3>1, ArbiterAssumption
    <3>3. Owning' = {c}
      BY <1>11, <2>1, <3>1 DEF Goto
    <3> QED BY <1>11, <3>1, <3>2, <3>3 DEF TryOwn, Goto, table
  <2>2. CASE owner # NoId
    BY <1>11, <2>2, MovingKeeps DEF TryOwn, words
  <2> QED BY <2>1, <2>2
<1>12. ASSUME NEW c \in Writers, Recheck(c) PROVE ArbiterInv'
  <2>1. CASE WaitCurrent(c)
    <3>1. owner' = owner /\ Goto(c, "held")
      BY <1>12, <2>1 DEF Recheck
    <3>2. Owning' = Owning
      BY <1>12, <3>1 DEF Recheck, Goto
    <3> QED BY <1>12, <3>1, <3>2 DEF Recheck, Goto, table
  <2>2. CASE ~WaitCurrent(c)
    <3>1. owner' = NoId /\ Goto(c, "idle")
      BY <1>12, <2>2 DEF Recheck, ClearOwnerIs
    <3>2. Owning' = {}
      BY <1>12, <3>1 DEF Recheck, Goto
    <3> QED BY <1>12, <3>1, <3>2 DEF Recheck, Goto, table
  <2> QED BY <2>1, <2>2
<1>13. ASSUME NEW c \in Writers, Release(c) PROVE ArbiterInv'
  BY <1>13 DEF Release, ClearOwnerIs, Goto, table
<1>14. ASSUME CloseArbiter PROVE ArbiterInv'
  BY <1>14 DEF CloseArbiter, Goto, table
<1>15. ASSUME AdvanceEpoch PROVE ArbiterInv'
  BY <1>15 DEF AdvanceEpoch, Goto, table
<1>16. CASE UNCHANGED vars
  BY <1>16 DEF vars
<1> QED
  BY StartWorkerKeeps, <1>1, <1>2, <1>3, <1>4, <1>5, <1>6, <1>7, <1>8, <1>9, <1>10, <1>11, <1>12,
     <1>13, <1>14, <1>15, <1>16
  DEF Next, Acquiring, Reclaiming

------------------------------------------------------------------------------
\* The inductive invariant of the arbiter: registered slots, ids on the wire
\* that were really given out, and one participant behind every owner word
\* (claimArbiterParticipant, acquireLibraryWriterArbiter, release).
THEOREM ArbiterInvariant == Spec => []ArbiterInv
  BY InitEstablishes, StepKeeps, PTL DEF Spec

\* Every state of the arbiter is well typed; in particular generations stay
\* within MaxGeneration, the ids that fit a word (claimArbiterParticipant).
THEOREM ArbiterTypes == Spec => []TypeOK
  BY ArbiterInvariant, PTL DEF ArbiterInv

\* Two contexts never hold the arbiter together.
THEOREM ArbiterExcludes == Spec => []MutualExclusion
<1>1. ArbiterInv => MutualExclusion
  BY DEF ArbiterInv, OneOwner, Owning, MutualExclusion, Holders
<1> QED BY <1>1, ArbiterInvariant, PTL

\* A holder's id stays in the owner word until the holder releases it or dies.
THEOREM ArbiterHolderOwnsWord == Spec => []HolderOwnsWord
<1>1. ArbiterInv => HolderOwnsWord
  BY DEF ArbiterInv, OneOwner, Owning, HolderOwnsWord, Holders
<1> QED BY <1>1, ArbiterInvariant, PTL

LEMMA OnlyRecheckGrants ==
  ASSUME TypeOK, [Next]_vars, NEW c \in Writers, pc[c] # "held", pc'[c] = "held"
  PROVE  Recheck(c) /\ WaitCurrent(c)
  BY ArbiterAssumption
  DEF TypeOK, Next, vars, Acquiring, Reclaiming, Contexts, Writers, Goto, StartWorker, WorkerDies,
      WorkerExit, PostRequest, CancelRequest, BeginMain, AssertCurrent, ObserveOwner,
      CheckParticipant, ClearDeadOwner, PeekOwner, TryOwn, Recheck, Release, CloseArbiter,
      AdvanceEpoch, AfterReclaim

\* No grant after close, to a cancelled request or under an old epoch.
THEOREM ArbiterGrantsAreCurrent == Spec => GrantsAreCurrent
<1>1. TypeOK /\ [Next]_vars =>
        \A c \in Writers : (pc[c] # "held" /\ pc'[c] = "held")
           => ~closed /\ c \notin cancelled /\ wire[c].epoch = epoch
  BY OnlyRecheckGrants DEF WaitCurrent
<1> QED BY <1>1, ArbiterTypes, PTL DEF Spec, GrantsAreCurrent

LEMMA HoldersStep ==
  ASSUME ArbiterInv, [Next]_vars
  PROVE  [Mutex!MutexNext]_Mutex!mvars
<1> USE ArbiterAssumption DEF Holders, Mutex!mvars, Mutex!MutexNext
<1> DEFINE Stutter == Holders' = Holders /\ closed' = closed
<1>1. ASSUME NEW c \in Writers, pc[c] # "held", pc'[c] = "held" PROVE Mutex!Grant(c)
  <2>1. Recheck(c) /\ WaitCurrent(c) /\ closed' = closed
    BY <1>1, OnlyRecheckGrants DEF ArbiterInv, Recheck
  <2>2. Holders = {}
    BY <2>1 DEF ArbiterInv, OneOwner, Owning, Recheck
  <2>3. Holders' = {c}
    BY <1>1, <2>1, <2>2 DEF ArbiterInv, TypeOK, Contexts, Recheck, Goto
  <2> QED BY <2>1, <2>2, <2>3 DEF Mutex!Grant, WaitCurrent
<1>2. ASSUME NEW c \in Writers, Release(c) \/ (c \in Workers /\ WorkerDies(c))
      PROVE  Mutex!Leave(c) \/ Stutter
  <2>1. Holders' = Holders \ {c} /\ closed' = closed
    BY <1>2 DEF ArbiterInv, TypeOK, Contexts, Writers, Release, WorkerDies, Goto, words
  <2> QED BY <2>1 DEF Mutex!Leave
<1>3. CASE CloseArbiter
  <2>1. Holders' = Holders
    BY <1>3 DEF ArbiterInv, TypeOK, Contexts, CloseArbiter, Goto
  <2> QED BY <1>3, <2>1 DEF CloseArbiter, Mutex!Close
<1>4. ASSUME ~CloseArbiter, \A c \in Writers : pc[c] # "held" => pc'[c] # "held",
             \A c \in Writers : ~Release(c), \A w \in Workers : ~WorkerDies(w)
      PROVE  Stutter
  BY <1>4
  DEF ArbiterInv, TypeOK, Next, vars, words, Acquiring, Reclaiming, Contexts, Writers, Goto,
      StartWorker, WorkerExit, PostRequest, CancelRequest, BeginMain, AssertCurrent,
      ObserveOwner, CheckParticipant, ClearDeadOwner, PeekOwner, TryOwn, Recheck,
      AdvanceEpoch, AfterReclaim, AtLoopTop, Waiting
<1> QED
  BY <1>1, <1>2, <1>3, <1>4 DEF Writers

\* The arbiter implements the writer mutex: a grant is a grant, a release or
\* the death of a holder is a leave, and all else stutters.
THEOREM ArbiterImplementsMutex == Spec => ImplementsMutex
<1>1. Init => Mutex!MutexInit
  BY ArbiterAssumption DEF Init, Mutex!MutexInit, Holders, Contexts, Writers
<1> QED BY <1>1, HoldersStep, ArbiterInvariant, PTL DEF Spec, ImplementsMutex, Mutex!MutexSpec
==============================================================================
