-------------------------- MODULE WriterLeaseProofs --------------------------
(***************************************************************************)
(* As long as every claim has its own live claimant, no recovery takes the *)
(* directory of a live holder, for any number of processes, crashes and    *)
(* heartbeats.                                                             *)
(*                                                                         *)
(* KeptUnlessBreached is not inductive: that a rename is harmless rests on *)
(* what the claimant read before it.  Between its last look at the         *)
(* directory and the rename, the claim keeps every other claimant out, and *)
(* the death of the owner keeps the files as they were.                    *)
(***************************************************************************)
EXTENDS WriterLease, TLAPS

\* A process between its mkdir and its rmdir.
Owning == {"openOwner", "writeOwner", "held", "publish", "unlinkOwner", "rmdir"}

Started == \A p \in Procs : pc[p] # "idle" => p \in alive /\ round[p] # 0

OneOwnersFiles == lock # NoDir => \A f \in lock.files : f.nonce = lock.id

LiveClaim == (lock # NoDir /\ lock.claim # NoClaim) => lock.claim.by[1] \in alive

OwnDirectory(p) ==
    pc[p] \in Owning =>
      /\ lock # NoDir
      /\ lock.id = Me(p)
      /\ pc[p] = "writeOwner" => OwnerFile(Me(p), 0, FALSE) \in lock.files

\* What a claimant read proves its owner dead, and stays a proof.
EvidenceStale(p) ==
    \/ pc[p] \in {"openClaim", "writeClaim", "verify", "rename"}
    \/ pc[p] = "readClaim" /\ (manual[p] => Valid(seen[p]))
    => Stale(seen[p])

ClaimIsOwn(p) ==
    pc[p] \in {"verify", "rename", "unclaim", "unlinkClaim"} => claim[p] # NoClaim /\ claim[p].by = Me(p)

\* What a claimant compared is still so when it renames or unlinks.
Committing(p) == pc[p] \in {"rename", "unlinkClaim"}
Committed(p) ==
    /\ Committing(p) => lock # NoDir /\ lock.claim = claim[p]
    /\ pc[p] = "rename" => lock.files = seen[p]

ByHand(p) == pc[p] = "confirm" => manual[p]

Proper(p) == OwnDirectory(p) /\ EvidenceStale(p) /\ ByHand(p) /\ ClaimIsOwn(p) /\ Committed(p)

Unbreached == OneOwnersFiles /\ LiveClaim /\ \A p \in Procs : Proper(p)

LeaseInv == TypeOK /\ Started /\ (breach = {} => Unbreached)

------------------------------------------------------------------------------
(* Types *)

LockTypeOK == lock \in Dirs \cup {NoDir}

LocalTypeOK ==
    /\ alive \subseteq Procs
    /\ round \in [Procs -> 0..MaxRounds]
    /\ manual \in [Procs -> BOOLEAN]
    /\ seen \in [Procs -> SUBSET Files]
    /\ captured \in [Procs -> Nonces \cup {NoDir}]
    /\ claim \in [Procs -> Claims \cup {NoClaim}]
    /\ pc \in [Procs -> Labels]
    /\ breach \subseteq Breaches
    /\ Started

LEMMA TypesInit == Init => TypeOK /\ Started
  BY LeaseAssumption DEF Init, TypeOK, Started, Labels, Breaches

LEMMA MyNonce == ASSUME TypeOK, Started, NEW p \in Procs, pc[p] # "idle" PROVE Me(p) \in Nonces
  BY LeaseAssumption DEF TypeOK, Started, Me, Nonces

LEMMA FileTypes ==
  ASSUME NEW n \in Nonces, NEW b \in 0..MaxBeats, NEW w \in BOOLEAN
  PROVE  OwnerFile(n, b, w) \in Files /\ TempFile(n, b) \in Files
  BY DEF OwnerFile, TempFile, Files

LEMMA ClaimTypes ==
  ASSUME TypeOK, Started, NEW p \in Procs, pc[p] # "idle", NEW w \in BOOLEAN
  PROVE  MyClaim(p, w) \in Claims
  BY MyNonce DEF MyClaim, Claims, TypeOK

LEMMA DirTypes ==
  ASSUME NEW d \in Dirs
  PROVE  /\ d.id \in Nonces /\ d.files \subseteq Files /\ d.claim \in Claims \cup {NoClaim}
         /\ \A F \in SUBSET Files : [d EXCEPT !.files = F] \in Dirs
         /\ \A c \in Claims \cup {NoClaim} : [d EXCEPT !.claim = c] \in Dirs
  BY DEF Dirs

LEMMA GotoTypes ==
  ASSUME LocalTypeOK, NEW p \in alive, pc[p] # "idle", NEW l \in Labels, Goto(p, l) \/ Restart(p, l),
         breach' \subseteq Breaches
  PROVE  LocalTypeOK'
<1> USE DEF LocalTypeOK
<1>1. CASE Goto(p, l)
  BY <1>1 DEF Goto, Started
<1>2. CASE Restart(p, l)
  <2>1. UNCHANGED <<round, alive>> /\ pc' = [pc EXCEPT ![p] = l]
    BY <1>2 DEF Restart, Reset
  <2>2. seen' \in [Procs -> SUBSET Files]
    BY <1>2 DEF Restart, Reset
  <2>3. captured' \in [Procs -> Nonces \cup {NoDir}]
    BY <1>2 DEF Restart, Reset
  <2>4. claim' \in [Procs -> Claims \cup {NoClaim}]
    BY <1>2 DEF Restart, Reset
  <2>5. manual' \in [Procs -> BOOLEAN]
    BY <1>2 DEF Restart, Reset
  <2> QED BY <2>1, <2>2, <2>3, <2>4, <2>5 DEF Started
<1> QED BY <1>1, <1>2

LEMMA LocalTypesStep ==
  ASSUME TypeOK, Started, [Next]_vars
  PROVE  LocalTypeOK'
<1> USE LeaseAssumption, DirTypes
<1>0. LocalTypeOK /\ LockTypeOK
  BY DEF LocalTypeOK, LockTypeOK, TypeOK
<1>1. ASSUME NEW p \in Procs, Begin(p) PROVE LocalTypeOK'
  BY <1>0, <1>1, ClaimTypes DEF Begin, Step, Labels, LocalTypeOK, LockTypeOK, Started, Goto, Reset, Restart, Breaches
<1>2. ASSUME NEW p \in Procs, MakeDirectory(p) PROVE LocalTypeOK'
  BY <1>0, <1>2, GotoTypes DEF MakeDirectory, Step, Labels, LocalTypeOK
<1>3. ASSUME NEW p \in Procs, OpenOwner(p) PROVE LocalTypeOK'
  BY <1>0, <1>3, GotoTypes DEF OpenOwner, Step, Labels, LocalTypeOK
<1>4. ASSUME NEW p \in Procs, WriteOwner(p) PROVE LocalTypeOK'
  BY <1>0, <1>4, GotoTypes DEF WriteOwner, Step, Labels, LocalTypeOK
<1>5. ASSUME NEW p \in Procs, ReadOwner(p) PROVE LocalTypeOK'
  BY <1>0, <1>5, ClaimTypes DEF ReadOwner, Step, Labels, LocalTypeOK, LockTypeOK, Started, Goto, Reset, Restart, Breaches
<1>6. ASSUME NEW p \in Procs, PollAgain(p) PROVE LocalTypeOK'
  BY <1>0, <1>6, GotoTypes DEF PollAgain, Step, Labels, LocalTypeOK
<1>7. ASSUME NEW p \in Procs, GiveUp(p) PROVE LocalTypeOK'
  BY <1>0, <1>7, GotoTypes DEF GiveUp, Step, Labels, LocalTypeOK
<1>8. ASSUME NEW p \in Procs, ReadClaim(p) PROVE LocalTypeOK'
  BY <1>0, <1>8, ClaimTypes DEF ReadClaim, Step, Labels, LocalTypeOK, LockTypeOK, Started, Goto, Reset, Restart, Breaches
<1>9. ASSUME NEW p \in Procs, OpenClaim(p) PROVE LocalTypeOK'
  BY <1>0, <1>9, GotoTypes DEF OpenClaim, Step, Labels, LocalTypeOK, Retry
<1>10. ASSUME NEW p \in Procs, WriteClaim(p) PROVE LocalTypeOK'
  <2>1. CASE pc' = [pc EXCEPT ![p] = "verify"] /\ claim' = [claim EXCEPT ![p] = MyClaim(p, TRUE)]
              /\ UNCHANGED <<alive, round, manual, seen, captured, breach>>
    BY <1>0, <1>10, <2>1, ClaimTypes DEF WriteClaim, Step, Labels, LocalTypeOK, Started
  <2>2. CASE Retry(p) \/ Restart(p, "idle")
    BY <1>0, <1>10, <2>2, GotoTypes DEF WriteClaim, Step, Labels, LocalTypeOK, Retry
  <2> QED BY <1>10, <2>1, <2>2 DEF WriteClaim
<1>11. ASSUME NEW p \in Procs, Verify(p) PROVE LocalTypeOK'
  BY <1>0, <1>11, GotoTypes DEF Verify, Step, Labels, LocalTypeOK
<1>12. ASSUME NEW p \in Procs, Quarantine(p) PROVE LocalTypeOK'
  BY <1>0, <1>12, GotoTypes DEF Quarantine, Step, Labels, LocalTypeOK, Retry
<1>13. ASSUME NEW p \in Procs, CompareClaim(p) PROVE LocalTypeOK'
  BY <1>0, <1>13, GotoTypes DEF CompareClaim, Step, Labels, LocalTypeOK, Retry
<1>14. ASSUME NEW p \in Procs, UnlinkClaim(p) PROVE LocalTypeOK'
  BY <1>0, <1>14, GotoTypes DEF UnlinkClaim, Step, Labels, LocalTypeOK, Retry
<1>15. ASSUME NEW p \in Procs, Inspect(p) PROVE LocalTypeOK'
  BY <1>0, <1>15, ClaimTypes DEF Inspect, Step, Labels, LocalTypeOK, LockTypeOK, Started, Goto, Reset, Restart, Breaches
<1>16. ASSUME NEW p \in Procs, Confirm(p) PROVE LocalTypeOK'
  BY <1>0, <1>16, GotoTypes DEF Confirm, Step, Labels, LocalTypeOK
<1>17. ASSUME NEW p \in Procs, ReadClaimManually(p) PROVE LocalTypeOK'
  <2>1. CASE lock = NoDir
    BY <1>0, <1>17, <2>1, GotoTypes DEF ReadClaimManually, Step, Labels, LocalTypeOK
  <2>2. CASE lock # NoDir
    BY <1>0, <1>17, <2>2
    DEF ReadClaimManually, Step, Labels, Breaches, LocalTypeOK, LockTypeOK, Started
  <2> QED BY <2>1, <2>2
<1>18. ASSUME NEW p \in Procs, Heartbeat(p) PROVE LocalTypeOK'
  BY <1>0, <1>18, GotoTypes DEF Heartbeat, Step, Labels, LocalTypeOK
<1>19. ASSUME NEW p \in Procs, Publish(p) PROVE LocalTypeOK'
  BY <1>0, <1>19, GotoTypes DEF Publish, Step, Labels, LocalTypeOK
<1>20. ASSUME NEW p \in Procs, BeginRelease(p) PROVE LocalTypeOK'
  BY <1>0, <1>20, GotoTypes DEF BeginRelease, Step, Labels, LocalTypeOK
<1>21. ASSUME NEW p \in Procs, UnlinkOwner(p) PROVE LocalTypeOK'
  BY <1>0, <1>21, GotoTypes DEF UnlinkOwner, Step, Labels, LocalTypeOK
<1>22. ASSUME NEW p \in Procs, RemoveDirectory(p) PROVE LocalTypeOK'
  BY <1>0, <1>22, GotoTypes DEF RemoveDirectory, Step, Labels, LocalTypeOK
<1>23. ASSUME NEW p \in Procs, Crash(p) PROVE LocalTypeOK'
  BY <1>0, <1>23, ClaimTypes DEF Crash, Step, Labels, LocalTypeOK, LockTypeOK, Started, Goto, Reset, Restart, Breaches
<1>24. CASE UNCHANGED vars
  BY <1>0, <1>24 DEF vars, LocalTypeOK, Started
<1> QED
  BY <1>1, <1>2, <1>3, <1>4, <1>5, <1>6, <1>7, <1>8, <1>9, <1>10, <1>11, <1>12, <1>13, <1>14, <1>15, <1>16, <1>17, <1>18, <1>19, <1>20, <1>21, <1>22, <1>23, <1>24
  DEF Next, Acquiring, Recovering, Releasing

\* The steps that change what is in the directory leave a directory there.
LEMMA DirStaysDir ==
  ASSUME TypeOK, Started, lock # NoDir, NEW p \in Procs,
         \/ OpenOwner(p) \/ Heartbeat(p) \/ Publish(p) \/ UnlinkOwner(p) \/ OpenClaim(p)
         \/ WriteClaim(p) \/ UnlinkClaim(p)
         \/ WriteOwner(p) /\ OwnerFile(Me(p), 0, FALSE) \in lock.files
  PROVE  lock' \in Dirs
<1> USE LeaseAssumption, DirTypes
<1>0. lock \in Dirs /\ 0 \in 0..MaxBeats /\ Me(p) \in Nonces
  <2>1. pc[p] # "idle"
    BY DEF Step, OpenOwner, Heartbeat, Publish, UnlinkOwner, OpenClaim, WriteClaim, UnlinkClaim,
       WriteOwner
  <2> QED BY <2>1, MyNonce DEF TypeOK
<1>1. OwnerFile(Me(p), 0, FALSE) \in Files /\ OwnerFile(Me(p), 0, TRUE) \in Files
  BY <1>0, FileTypes
<1>2. CASE OpenOwner(p)
  BY <1>0, <1>1, <1>2 DEF OpenOwner
<1>3. CASE Heartbeat(p)
  <2>1. PICK f \in OwnerFiles(lock.files) :
          f.beat < MaxBeats /\ lock' = [lock EXCEPT !.files = @ \cup {TempFile(Me(p), f.beat + 1)}]
    BY <1>3 DEF Heartbeat
  <2>2. f.beat + 1 \in 0..MaxBeats
    BY <1>0, <2>1 DEF OwnerFiles, Files
  <2>3. TempFile(Me(p), f.beat + 1) \in Files
    BY <1>0, <2>2, FileTypes
  <2> QED BY <1>0, <2>1, <2>3
<1>4. CASE Publish(p)
  <2>1. ASSUME NEW F, F \subseteq lock.files
        PROVE  {OwnerFile(Me(p), f.beat, TRUE) : f \in F} \subseteq Files
    <3>1. ASSUME NEW f \in F PROVE f.beat \in 0..MaxBeats
      BY <1>0, <2>1 DEF Files
    <3> QED BY <1>0, <3>1, FileTypes
  <2> QED BY <1>0, <1>4, <2>1 DEF Publish
<1>5. CASE UnlinkOwner(p)
  BY <1>0, <1>5 DEF UnlinkOwner
<1>6. CASE OpenClaim(p)
  BY <1>0, <1>6, ClaimTypes DEF OpenClaim, ClaimCreatable, Step
<1>7. CASE WriteClaim(p)
  <2>1. MyClaim(p, TRUE) \in Claims
    BY <1>7, ClaimTypes DEF WriteClaim, Step
  <2>2. \/ lock' = lock
        \/ lock' = [lock EXCEPT !.claim = MyClaim(p, TRUE)]
        \/ lock' = [lock EXCEPT !.claim = NoClaim]
    BY <1>7 DEF WriteClaim
  <2> QED BY <1>0, <2>1, <2>2
<1>8. CASE UnlinkClaim(p)
  BY <1>0, <1>8 DEF UnlinkClaim
<1>9. CASE WriteOwner(p) /\ OwnerFile(Me(p), 0, FALSE) \in lock.files
  BY <1>0, <1>1, <1>9 DEF WriteOwner
<1> QED BY <1>2, <1>3, <1>4, <1>5, <1>6, <1>7, <1>8, <1>9

LEMMA NewDirectory == ASSUME TypeOK, Started, NEW p \in Procs, MakeDirectory(p) PROVE lock' \in Dirs
  BY MyNonce DEF MakeDirectory, Step, Dirs

LEMMA LockTypesStep ==
  ASSUME TypeOK, Started, [Next]_vars
  PROVE  LockTypeOK'
<1> USE DEF LockTypeOK, TypeOK
<1>1. ASSUME NEW p \in Procs, WriteOwner(p) \/ Quarantine(p) \/ RemoveDirectory(p)
      PROVE  LockTypeOK'
  BY <1>1, DirStaysDir DEF WriteOwner, Quarantine, RemoveDirectory
<1>2. ASSUME NEW p \in Procs, lock = NoDir,
             OpenOwner(p) \/ Publish(p) \/ UnlinkOwner(p) \/ OpenClaim(p) \/ WriteClaim(p) \/ UnlinkClaim(p)
      PROVE  lock' = NoDir
  BY <1>2 DEF OpenOwner, Publish, UnlinkOwner, OpenClaim, ClaimCreatable, WriteClaim, UnlinkClaim
<1> QED
  BY <1>1, <1>2, NewDirectory, DirStaysDir
  DEF Next, Acquiring, Recovering, Releasing, vars, Begin, ReadOwner, PollAgain, GiveUp, ReadClaim,
      Verify, CompareClaim, Inspect, Confirm, ReadClaimManually, Heartbeat, IsMine, BeginRelease, Crash

LEMMA TypesStep == ASSUME TypeOK, Started, [Next]_vars PROVE TypeOK' /\ Started'
  BY LocalTypesStep, LockTypesStep DEF TypeOK, LocalTypeOK, LockTypeOK

\* Every reachable state is well typed.
THEOREM LeaseTypes == Spec => []TypeOK
<1>1. Spec => [](TypeOK /\ Started)
  BY TypesInit, TypesStep, PTL DEF Spec
<1> QED BY <1>1, PTL

------------------------------------------------------------------------------
(* Unbreached *)

LEMMA BreachGrows == ASSUME [Next]_vars, breach' = {} PROVE breach = {}
  BY DEF Next, vars, Acquiring, Recovering, Releasing, Begin, MakeDirectory, OpenOwner, WriteOwner,
     ReadOwner, PollAgain, GiveUp, ReadClaim, OpenClaim, WriteClaim, Verify, Quarantine,
     CompareClaim, UnlinkClaim, Inspect, Confirm, ReadClaimManually, Heartbeat, BeginRelease,
     Publish, UnlinkOwner, RemoveDirectory, Crash

LEMMA DeadOwner ==
  ASSUME OneOwnersFiles, lock # NoDir, Stale(lock.files)
  PROVE  lock.id[1] \notin alive
  BY DEF OneOwnersFiles, Stale, Valid, OwnerNonce, OwnerFiles

LEMMA StaleStays ==
  ASSUME alive' \subseteq alive, NEW files, Stale(files)
  PROVE  Valid(files) /\ OwnerNonce(files)[1] \notin alive'
  BY DEF Stale

LEMMA MeIsMine == ASSUME NEW p \in Procs, NEW q \in Procs, Me(p) = Me(q) PROVE p = q
  BY DEF Me

\* While a directory has an owner at work, nobody else owns it and nobody is
\* about to rename it.
LEMMA Undisturbed ==
  ASSUME Started, Unbreached, NEW p \in Procs, pc[p] \in Owning
  PROVE  \A q \in Procs : pc[q] # "rename" /\ (pc[q] \in Owning => q = p)
<1>1. lock # NoDir /\ lock.id = Me(p) /\ lock.id[1] = p /\ p \in alive
  <2>1. lock # NoDir /\ lock.id = Me(p)
    BY DEF Unbreached, Proper, OwnDirectory
  <2>2. p \in alive
    BY DEF Started, Owning
  <2> QED BY <2>1, <2>2 DEF Me
<1>2. ASSUME NEW q \in Procs, pc[q] = "rename" PROVE FALSE
  BY <1>1, <1>2, DeadOwner DEF Unbreached, Proper, EvidenceStale, Committed
<1>3. ASSUME NEW q \in Procs, pc[q] \in Owning PROVE q = p
  BY <1>1, <1>3, MeIsMine DEF Unbreached, Proper, OwnDirectory
<1> QED BY <1>2, <1>3

\* Only one claimant at a time is about to act on the claim it compared.
LEMMA OneCommitter ==
  ASSUME Unbreached, NEW p \in Procs, NEW q \in Procs, Committing(p), Committing(q)
  PROVE  p = q
  BY MeIsMine DEF Unbreached, Proper, Committed, ClaimIsOwn, Committing

\* A step of p, as the other processes see it.
StepOf(p) ==
    /\ alive' \subseteq alive
    /\ \A q \in Procs \ {p} :
         /\ pc'[q] = pc[q] /\ round'[q] = round[q] /\ manual'[q] = manual[q]
         /\ seen'[q] = seen[q] /\ claim'[q] = claim[q]

\* It leaves q what q relies on.
Spares(q) ==
    /\ pc[q] \in Owning => lock' # NoDir /\ lock'.id = lock.id /\ lock'.files = lock.files
    /\ Committing(q) => lock' # NoDir /\ lock'.claim = lock.claim
    /\ pc[q] = "rename" => lock'.files = lock.files

LEMMA OthersStayProper ==
  ASSUME NEW p \in Procs, StepOf(p), NEW q \in Procs, q # p, Proper(q), Spares(q)
  PROVE  Proper(q)'
<1> USE DEF StepOf, Spares, Proper
<1>1. OwnDirectory(q)'
  BY DEF OwnDirectory, Owning, Me
<1>2. EvidenceStale(q)'
  <2>1. seen'[q] = seen[q] /\ pc'[q] = pc[q] /\ manual'[q] = manual[q]
    OBVIOUS
  <2> QED BY <2>1, StaleStays DEF EvidenceStale, Stale
<1>3. ClaimIsOwn(q)'
  BY DEF ClaimIsOwn, Me
<1>4. Committed(q)'
  BY DEF Committed, Committing
<1>5. ByHand(q)'
  BY DEF ByHand
<1> QED BY <1>1, <1>2, <1>3, <1>4, <1>5

LEMMA GotoIsStep ==
  ASSUME TypeOK, NEW p \in Procs, NEW l, Goto(p, l) \/ Restart(p, l)
  PROVE  StepOf(p) /\ pc'[p] = l /\ round' = round /\ alive' = alive
  BY DEF TypeOK, Goto, Restart, Reset, StepOf

\* A move that leaves the directory alone.
LEMMA QuietStep ==
  ASSUME TypeOK, Unbreached, NEW p \in Procs, StepOf(p), lock' = lock, alive' = alive, Proper(p)'
  PROVE  Unbreached'
<1>1. ASSUME NEW q \in Procs, q # p PROVE Proper(q)'
  BY <1>1, OthersStayProper
  DEF Unbreached, Spares, Proper, OwnDirectory, Committed
<1> QED BY <1>1 DEF Unbreached, OneOwnersFiles, LiveClaim

\* So does one to where nothing is relied on.
LEMMA FreeStep ==
  ASSUME TypeOK, Unbreached, NEW p \in Procs, NEW l \in {"idle", "mkdir", "poll"},
         Goto(p, l) \/ Restart(p, l), lock' = lock
  PROVE  Unbreached'
<1>1. StepOf(p) /\ pc'[p] = l /\ alive' = alive
  BY GotoIsStep
<1>2. Proper(p)'
  BY <1>1 DEF Proper, OwnDirectory, EvidenceStale, ByHand, ClaimIsOwn, Committed, Committing, Owning
<1> QED BY <1>1, <1>2, QuietStep

\* A step that changes the directory.
LEMMA ChangeStep ==
  ASSUME Unbreached, NEW p \in Procs, StepOf(p), Proper(p)', OneOwnersFiles', LiveClaim',
         \A q \in Procs \ {p} : Spares(q)
  PROVE  Unbreached'
  BY OthersStayProper DEF Unbreached

\* An owner changes the files of its own directory.
LEMMA OwnerStep ==
  ASSUME TypeOK, Started, Unbreached, NEW p \in Procs, pc[p] \in Owning, NEW l \in Owning, Goto(p, l),
         lock' \in Dirs, lock'.id = lock.id, lock'.claim = lock.claim,
         \A f \in lock'.files : f \in lock.files \/ f.nonce = Me(p),
         l = "writeOwner" => OwnerFile(Me(p), 0, FALSE) \in lock'.files
  PROVE  Unbreached'
<1>1. StepOf(p) /\ alive' = alive /\ pc'[p] = l /\ Me(p)' = Me(p)
  BY GotoIsStep DEF Me
<1>2. lock' # NoDir /\ lock # NoDir /\ lock.id = Me(p)
  BY LeaseSentinels DEF Unbreached, Proper, OwnDirectory
<1>3. ASSUME NEW q \in Procs \ {p} PROVE Spares(q)
  BY <1>2, Undisturbed DEF Spares
<1>4. LiveClaim'
  BY <1>1, <1>2 DEF Unbreached, LiveClaim
<1>5. OneOwnersFiles'
  BY <1>1, <1>2 DEF Unbreached, OneOwnersFiles
<1>6. Proper(p)'
  <2>1. OwnerFile(Me(p), 0, FALSE)' = OwnerFile(Me(p), 0, FALSE)
    BY <1>1 DEF OwnerFile
  <2> QED
    BY <1>1, <1>2, <2>1
    DEF Proper, OwnDirectory, EvidenceStale, ByHand, ClaimIsOwn, Committed, Committing, Owning
<1> QED BY <1>1, <1>3, <1>4, <1>5, <1>6, ChangeStep

\* A claimant that is done changes the directory.
LEMMA DoneStep ==
  ASSUME Unbreached, NEW p \in Procs, StepOf(p), pc'[p] \in {"idle", "mkdir", "poll"},
         OneOwnersFiles', LiveClaim', \A q \in Procs \ {p} : Spares(q)
  PROVE  Unbreached'
<1>1. Proper(p)'
  BY DEF Proper, OwnDirectory, EvidenceStale, ByHand, ClaimIsOwn, Committed, Committing, Owning
<1> QED BY <1>1, ChangeStep

LEMMA UnbreachedStep ==
  ASSUME TypeOK, Started, Unbreached, [Next]_vars, breach = {}, breach' = {}
  PROVE  Unbreached'
<1> USE LeaseSentinels
<1>0. ASSUME NEW p \in Procs PROVE Proper(p)
  BY DEF Unbreached
<1>1. ASSUME NEW p \in Procs, Begin(p) PROVE Unbreached'
  <2>1. StepOf(p) /\ lock' = lock /\ alive' = alive
    BY <1>1 DEF Begin, TypeOK, StepOf, Goto, Restart, Reset
  <2>2. Proper(p)'
    BY <1>0, <1>1
    DEF Begin, TypeOK, Step, Goto, Proper, OwnDirectory, EvidenceStale, ByHand, ClaimIsOwn,
           Committed, Committing, Owning, Stale, Me
  <2> QED BY <2>1, <2>2, QuietStep
<1>2. ASSUME NEW p \in Procs, Inspect(p) PROVE Unbreached'
  <2>1. StepOf(p) /\ lock' = lock /\ alive' = alive
    BY <1>2 DEF Inspect, TypeOK, StepOf, Goto, Restart, Reset
  <2>2. Proper(p)'
    BY <1>0, <1>2
    DEF Inspect, TypeOK, Step, Goto, Proper, OwnDirectory, EvidenceStale, ByHand, ClaimIsOwn,
           Committed, Committing, Owning, Stale, Me
  <2> QED BY <2>1, <2>2, QuietStep
<1>3. ASSUME NEW p \in Procs, PollAgain(p) PROVE Unbreached'
  BY <1>3, FreeStep DEF PollAgain
<1>4. ASSUME NEW p \in Procs, GiveUp(p) PROVE Unbreached'
  BY <1>4, FreeStep DEF GiveUp
<1>5. ASSUME NEW p \in Procs, ReadOwner(p) PROVE Unbreached'
  <2>1. CASE Stale(lock.files)
    <3>1. StepOf(p) /\ lock' = lock /\ alive' = alive
      BY <1>5, <2>1 DEF ReadOwner, TypeOK, StepOf, Goto, Restart, Reset
    <3>2. Proper(p)'
      BY <1>0, <1>5, <2>1
      DEF ReadOwner, TypeOK, Step, Goto, Proper, OwnDirectory, EvidenceStale, ByHand, ClaimIsOwn,
           Committed, Committing, Owning, Stale, Me
    <3> QED BY <3>1, <3>2, QuietStep
  <2>2. CASE ~Stale(lock.files)
    BY <1>5, <2>2, FreeStep DEF ReadOwner
  <2> QED BY <2>1, <2>2
<1>6. ASSUME NEW p \in Procs, Verify(p) PROVE Unbreached'
  <2>1. CASE VerifiedEvidence(p)
    <3>1. StepOf(p) /\ lock' = lock /\ alive' = alive
      BY <1>6, <2>1 DEF Verify, TypeOK, StepOf, Goto, Restart, Reset, VerifiedEvidence
    <3>2. Proper(p)'
      BY <1>0, <1>6, <2>1
      DEF Verify, TypeOK, Step, Goto, Proper, OwnDirectory, EvidenceStale, ByHand, ClaimIsOwn,
           Committed, Committing, Owning, Stale, Me, VerifiedEvidence
    <3> QED BY <3>1, <3>2, QuietStep
  <2>2. CASE ~VerifiedEvidence(p)
    <3>1. StepOf(p) /\ lock' = lock /\ alive' = alive
      BY <1>6, <2>2 DEF Verify, TypeOK, StepOf, Goto, Restart, Reset
    <3>2. Proper(p)'
      BY <1>0, <1>6, <2>2
      DEF Verify, TypeOK, Step, Goto, Proper, OwnDirectory, EvidenceStale, ByHand, ClaimIsOwn,
           Committed, Committing, Owning, Stale, Me
    <3> QED BY <3>1, <3>2, QuietStep
  <2> QED BY <2>1, <2>2
<1>7. ASSUME NEW p \in Procs, CompareClaim(p) PROVE Unbreached'
  <2>1. CASE lock # NoDir /\ lock.claim = claim[p]
    <3>1. StepOf(p) /\ lock' = lock /\ alive' = alive
      BY <1>7, <2>1 DEF CompareClaim, TypeOK, StepOf, Goto, Restart, Reset
    <3>2. Proper(p)'
      BY <1>0, <1>7, <2>1
      DEF CompareClaim, TypeOK, Step, Goto, Proper, OwnDirectory, EvidenceStale, ByHand, ClaimIsOwn,
           Committed, Committing, Owning, Stale, Me
    <3> QED BY <3>1, <3>2, QuietStep
  <2>2. CASE ~(lock # NoDir /\ lock.claim = claim[p])
    BY <1>7, <2>2, FreeStep DEF CompareClaim, Retry
  <2> QED BY <2>1, <2>2
<1>8. ASSUME NEW p \in Procs, Confirm(p) PROVE Unbreached'
  <2>1. CASE lock # NoDir /\ lock.files = seen[p] /\ (~Valid(lock.files) \/ Stale(lock.files))
    <3>1. StepOf(p) /\ lock' = lock /\ alive' = alive
      BY <1>8, <2>1 DEF Confirm, TypeOK, StepOf, Goto, Restart, Reset
    <3>2. /\ pc'[p] = "readClaim" /\ manual'[p] /\ seen'[p] = seen[p]
          /\ Valid(seen[p]) => Stale(seen[p])
      BY <1>0, <1>8, <2>1 DEF Confirm, TypeOK, Step, Goto, Proper, ByHand
    <3>3. EvidenceStale(p)'
      BY <3>1, <3>2 DEF EvidenceStale, Stale
    <3>4. Proper(p)'
      BY <3>2, <3>3 DEF Proper, OwnDirectory, ByHand, ClaimIsOwn, Committed, Committing, Owning
    <3> QED BY <3>1, <3>4, QuietStep
  <2>2. CASE ~(lock # NoDir /\ lock.files = seen[p] /\ (~Valid(lock.files) \/ Stale(lock.files)))
    BY <1>8, <2>2, FreeStep DEF Confirm
  <2> QED BY <2>1, <2>2
<1>9. ASSUME NEW p \in Procs, BeginRelease(p) PROVE Unbreached'
  <2>1. CASE IsMine(p)
    <3>1. StepOf(p) /\ lock' = lock /\ alive' = alive
      BY <1>9, <2>1 DEF BeginRelease, TypeOK, StepOf, Goto, Restart, Reset
    <3>2. Proper(p)'
      BY <1>0, <1>9, <2>1
      DEF BeginRelease, TypeOK, Step, Goto, Proper, OwnDirectory, EvidenceStale, ByHand, ClaimIsOwn,
           Committed, Committing, Owning, Stale, Me
    <3> QED BY <3>1, <3>2, QuietStep
  <2>2. CASE ~IsMine(p)
    BY <1>9, <2>2, FreeStep DEF BeginRelease
  <2> QED BY <2>1, <2>2
<1>10. ASSUME NEW p \in Procs, ReadClaimManually(p) PROVE Unbreached'
  <2>1. CASE lock # NoDir
    <3>1. StepOf(p) /\ lock' = lock /\ alive' = alive
      BY <1>10, <2>1 DEF ReadClaimManually, TypeOK, StepOf, Goto, Restart, Reset
    <3>2. Proper(p)'
      BY <1>0, <1>10, <2>1
      DEF ReadClaimManually, TypeOK, Step, Goto, Proper, OwnDirectory, EvidenceStale, ByHand, ClaimIsOwn,
           Committed, Committing, Owning, Stale, Me
    <3> QED BY <3>1, <3>2, QuietStep
  <2>2. CASE lock = NoDir
    BY <1>10, <2>2, FreeStep DEF ReadClaimManually
  <2> QED BY <2>1, <2>2
<1>11. ASSUME NEW p \in Procs, ReadClaim(p) PROVE Unbreached'
  <2>1. CASE lock # NoDir /\ lock.claim = NoClaim
    <3>1. StepOf(p) /\ lock' = lock /\ alive' = alive
      BY <1>11, <2>1 DEF ReadClaim, TypeOK, StepOf, Goto, Restart, Reset
    <3>2. Proper(p)'
      BY <1>0, <1>11, <2>1
      DEF ReadClaim, TypeOK, Step, Goto, Proper, OwnDirectory, EvidenceStale, ByHand, ClaimIsOwn,
           Committed, Committing, Owning, Stale, Me
    <3> QED BY <3>1, <3>2, QuietStep
  <2>2. CASE lock = NoDir \/ lock.claim # NoClaim
    <3>1. lock # NoDir => lock.claim.by[1] \in alive
      BY <2>2 DEF Unbreached, LiveClaim
    <3> QED BY <1>11, <2>2, <3>1, FreeStep DEF ReadClaim
  <2> QED BY <2>1, <2>2
<1>12. ASSUME NEW p \in Procs, MakeDirectory(p) PROVE Unbreached'
  <2>1. /\ StepOf(p) /\ pc'[p] = "openOwner" /\ round'[p] = round[p]
        /\ lock' = [id |-> Me(p), files |-> {}, claim |-> NoClaim]
    BY <1>12, GotoIsStep DEF MakeDirectory
  <2>2. ASSUME NEW q \in Procs PROVE Spares(q)
    <3>1. lock = NoDir /\ Proper(q)
      BY <1>12, <1>0 DEF MakeDirectory
    <3> QED BY <3>1 DEF Spares, Proper, OwnDirectory, Committed, Committing
  <2>3. lock' # NoDir
    BY <1>12, NewDirectory
  <2>4. Proper(p)'
    BY <2>1, <2>3 DEF Proper, OwnDirectory, EvidenceStale, ByHand,
         ClaimIsOwn, Committed, Committing, Owning, Me
  <2>5. OneOwnersFiles' /\ LiveClaim'
    BY <2>1 DEF OneOwnersFiles, LiveClaim
  <2> QED BY <2>1, <2>2, <2>4, <2>5, ChangeStep
<1>13. ASSUME NEW p \in Procs, OpenOwner(p) PROVE Unbreached'
  <2>1. pc[p] = "openOwner" /\ lock # NoDir /\ lock.id = Me(p) /\ lock \in Dirs
    BY <1>13, <1>0 DEF OpenOwner, Step, Owning, Proper, OwnDirectory, TypeOK
  <2>2. Goto(p, "writeOwner") /\ lock' = [lock EXCEPT !.files = @ \cup {OwnerFile(Me(p), 0, FALSE)}]
    BY <1>13, <2>1 DEF OpenOwner
  <2>3. lock' \in Dirs
    BY <1>13, <2>1, DirStaysDir
  <2>4. /\ lock'.id = lock.id /\ lock'.claim = lock.claim
        /\ lock'.files = lock.files \cup {OwnerFile(Me(p), 0, FALSE)}
    BY <2>1, <2>2 DEF Dirs
  <2>5. \A f \in lock'.files : f \in lock.files \/ f.nonce = Me(p)
    BY <2>4 DEF OwnerFile, TempFile
  <2> QED BY <2>1, <2>2, <2>3, <2>4, <2>5, OwnerStep DEF Owning
<1>14. ASSUME NEW p \in Procs, WriteOwner(p) PROVE Unbreached'
  <2>1. pc[p] = "writeOwner" /\ lock # NoDir /\ lock.id = Me(p) /\ lock \in Dirs
    BY <1>14, <1>0 DEF WriteOwner, Step, Owning, Proper, OwnDirectory, TypeOK
  <2>6. OwnerFile(Me(p), 0, FALSE) \in lock.files
    BY <1>0, <2>1 DEF Proper, OwnDirectory, Owning
  <2>2. Goto(p, "held") /\ lock' = [lock EXCEPT !.files = (@ \ {OwnerFile(Me(p), 0, FALSE)}) \cup {OwnerFile(Me(p), 0, TRUE)}]
    BY <1>14, <2>1, <2>6 DEF WriteOwner
  <2>3. lock' \in Dirs
    BY <1>14, <2>1, <2>6, DirStaysDir
  <2>4. /\ lock'.id = lock.id /\ lock'.claim = lock.claim
        /\ lock'.files = (lock.files \ {OwnerFile(Me(p), 0, FALSE)}) \cup {OwnerFile(Me(p), 0, TRUE)}
    BY <2>1, <2>2 DEF Dirs
  <2>5. \A f \in lock'.files : f \in lock.files \/ f.nonce = Me(p)
    BY <2>4 DEF OwnerFile, TempFile
  <2> QED BY <2>1, <2>2, <2>3, <2>4, <2>5, OwnerStep DEF Owning
<1>15. ASSUME NEW p \in Procs, Heartbeat(p) PROVE Unbreached'
  <2>1. pc[p] = "held" /\ lock # NoDir /\ lock \in Dirs /\ Goto(p, "publish")
    BY <1>15 DEF Heartbeat, Step, IsMine, TypeOK
  <2>2. PICK b : lock' = [lock EXCEPT !.files = @ \cup {TempFile(Me(p), b)}]
    BY <1>15 DEF Heartbeat
  <2>3. lock' \in Dirs
    BY <1>15, <2>1, DirStaysDir
  <2>4. /\ lock'.id = lock.id /\ lock'.claim = lock.claim
        /\ lock'.files = lock.files \cup {TempFile(Me(p), b)}
    BY <2>1, <2>2 DEF Dirs
  <2>5. \A f \in lock'.files : f \in lock.files \/ f.nonce = Me(p)
    BY <2>4 DEF TempFile
  <2> QED BY <2>1, <2>3, <2>4, <2>5, OwnerStep DEF Owning
<1>16. ASSUME NEW p \in Procs, Publish(p) PROVE Unbreached'
  <2>1. pc[p] = "publish" /\ lock # NoDir /\ lock \in Dirs /\ Goto(p, "held")
    BY <1>0, <1>16 DEF Publish, Step, Proper, OwnDirectory, Owning, TypeOK
  <2>2. PICK T \in SUBSET lock.files, G \in SUBSET lock.files :
          \/ lock' = lock
          \/ lock' = [lock EXCEPT !.files = (@ \ G) \cup {OwnerFile(Me(p), f.beat, TRUE) : f \in T}]
    <3> DEFINE mine == {f \in lock.files : f.nonce = Me(p)}
    <3> DEFINE temps == {f \in mine : f.kind = "temp"}
    <3>1. temps \in SUBSET lock.files /\ mine \in SUBSET lock.files
      OBVIOUS
    <3>2. \/ lock' = lock
          \/ lock' = [lock EXCEPT !.files = (@ \ mine) \cup {OwnerFile(Me(p), f.beat, TRUE) : f \in temps}]
      BY <1>16 DEF Publish
    <3> QED BY <3>1, <3>2
  <2>3. lock' \in Dirs
    BY <1>16, <2>1, DirStaysDir
  <2>4. /\ lock'.id = lock.id /\ lock'.claim = lock.claim
        /\ lock'.files \subseteq lock.files \cup {OwnerFile(Me(p), f.beat, TRUE) : f \in T}
    BY <2>1, <2>2 DEF Dirs
  <2>5. \A f \in lock'.files : f \in lock.files \/ f.nonce = Me(p)
    BY <2>4 DEF OwnerFile
  <2> QED BY <2>1, <2>3, <2>4, <2>5, OwnerStep DEF Owning
<1>17. ASSUME NEW p \in Procs, UnlinkOwner(p) PROVE Unbreached'
  <2> DEFINE Present == lock # NoDir /\ \E f \in OwnerFiles(lock.files) : f.nonce = Me(p)
  <2>1. CASE ~Present
    BY <1>17, <2>1, FreeStep DEF UnlinkOwner
  <2>2. CASE Present
    <3>1. pc[p] = "unlinkOwner" /\ lock # NoDir /\ lock.id = Me(p) /\ lock \in Dirs
      BY <1>17, <1>0 DEF UnlinkOwner, Step, Owning, Proper, OwnDirectory, TypeOK
    <3>2. Goto(p, "rmdir") /\ lock' = [lock EXCEPT !.files = {f \in @ : ~(f.kind = "owner" /\ f.nonce = Me(p))}]
      BY <1>17, <2>2 DEF UnlinkOwner
    <3>3. lock' \in Dirs
      BY <1>17, <3>1, DirStaysDir
    <3>4. /\ lock'.id = lock.id /\ lock'.claim = lock.claim
          /\ lock'.files = {f \in lock.files : ~(f.kind = "owner" /\ f.nonce = Me(p))}
      BY <3>1, <3>2 DEF Dirs
    <3>5. \A f \in lock'.files : f \in lock.files \/ f.nonce = Me(p)
      BY <3>4 DEF OwnerFile, TempFile
    <3> QED BY <3>1, <3>2, <3>3, <3>4, <3>5, OwnerStep DEF Owning
  <2> QED BY <2>1, <2>2
<1>18. ASSUME NEW p \in Procs, RemoveDirectory(p) PROVE Unbreached'
  <2> DEFINE Empty == lock # NoDir /\ lock.files = {} /\ lock.claim = NoClaim
  <2>1. CASE ~Empty
    BY <1>18, <2>1, FreeStep DEF RemoveDirectory
  <2>2. CASE Empty
    <3>1. StepOf(p) /\ pc'[p] = "idle" /\ lock' = NoDir
      BY <1>18, <2>2, GotoIsStep DEF RemoveDirectory
    <3>2. ASSUME NEW q \in Procs \ {p} PROVE Spares(q)
      <4>1. pc[q] \notin Owning /\ pc[q] # "rename"
        BY <1>18, Undisturbed DEF RemoveDirectory, Step, Owning
      <4>2. ~Committing(q)
        BY <1>0, <2>2, <4>1 DEF Proper, ClaimIsOwn, Committed, Committing
      <4> QED BY <4>1, <4>2 DEF Spares
    <3> QED BY <3>1, <3>2, DoneStep DEF OneOwnersFiles, LiveClaim
  <2> QED BY <2>1, <2>2
<1>19. ASSUME NEW p \in Procs, Quarantine(p) PROVE Unbreached'
  <2>1. StepOf(p) /\ pc'[p] \in {"idle", "mkdir", "poll"} /\ lock' = NoDir /\ pc[p] = "rename"
    BY <1>19, GotoIsStep DEF Quarantine, Retry, Step
  <2>2. ASSUME NEW q \in Procs \ {p} PROVE Spares(q)
    <3>1. pc[q] \notin Owning
      BY <2>1, Undisturbed
    <3>2. ~Committing(q)
      BY <2>1, OneCommitter DEF Committing
    <3> QED BY <3>1, <3>2 DEF Spares, Committing
  <2> QED BY <2>1, <2>2, DoneStep DEF OneOwnersFiles, LiveClaim
<1>20. ASSUME NEW p \in Procs, UnlinkClaim(p) PROVE Unbreached'
  <2>1. StepOf(p) /\ pc'[p] \in {"idle", "mkdir", "poll"} /\ alive' = alive /\ pc[p] = "unlinkClaim"
    BY <1>20, GotoIsStep DEF UnlinkClaim, Retry, Step
  <2>2. lock # NoDir /\ lock \in Dirs
    BY <1>0, <2>1 DEF Proper, Committed, Committing, TypeOK
  <2>3. lock' \in Dirs /\ lock' = [lock EXCEPT !.claim = NoClaim]
    BY <1>20, <2>2, DirStaysDir DEF UnlinkClaim
  <2>4. lock'.id = lock.id /\ lock'.files = lock.files /\ lock'.claim = NoClaim
    BY <2>2, <2>3 DEF Dirs
  <2>5. ASSUME NEW q \in Procs \ {p} PROVE Spares(q)
    <3>1. ~Committing(q)
      BY <2>1, OneCommitter DEF Committing
    <3> QED BY <2>3, <2>4, <3>1 DEF Spares, Committing
  <2>6. OneOwnersFiles' /\ LiveClaim'
    BY <2>2, <2>4 DEF Unbreached, OneOwnersFiles, LiveClaim
  <2> QED BY <2>1, <2>5, <2>6, DoneStep
<1>21. ASSUME NEW p \in Procs, OpenClaim(p) PROVE Unbreached'
  <2>1. CASE ~ClaimCreatable
    BY <1>21, <2>1, FreeStep DEF OpenClaim, Retry
  <2>2. CASE ClaimCreatable
    <3>1. lock \in Dirs /\ lock # NoDir /\ lock.claim = NoClaim
      BY <2>2 DEF ClaimCreatable, TypeOK
    <3>2. /\ StepOf(p) /\ alive' = alive /\ pc'[p] = "writeClaim" /\ seen'[p] = seen[p]
          /\ p \in alive /\ pc[p] = "openClaim"
      BY <1>21, <2>2, GotoIsStep DEF OpenClaim, Step, Goto
    <3>3. lock' \in Dirs /\ lock' = [lock EXCEPT !.claim = MyClaim(p, FALSE)]
      BY <1>21, <2>2, <3>1, DirStaysDir DEF OpenClaim
    <3>4. lock'.id = lock.id /\ lock'.files = lock.files /\ lock'.claim = MyClaim(p, FALSE)
      BY <3>1, <3>3 DEF Dirs
    <3>5. ASSUME NEW q \in Procs \ {p} PROVE Spares(q)
      <4>1. ~Committing(q)
        BY <1>0, <3>1 DEF Proper, ClaimIsOwn, Committed, Committing
      <4> QED BY <3>3, <3>4, <4>1 DEF Spares, Committing
    <3>6. OneOwnersFiles' /\ LiveClaim'
      BY <3>1, <3>2, <3>4 DEF Unbreached, OneOwnersFiles, LiveClaim, MyClaim, Me
    <3>7. Proper(p)'
      BY <1>0, <3>2
      DEF Proper, OwnDirectory, EvidenceStale, ByHand, ClaimIsOwn, Committed, Committing, Owning, Stale
    <3> QED BY <3>2, <3>5, <3>6, <3>7, ChangeStep
  <2> QED BY <2>1, <2>2
<1>22. ASSUME NEW p \in Procs, WriteClaim(p) PROVE Unbreached'
  <2>0. pc[p] = "writeClaim" /\ p \in alive
    BY <1>22 DEF WriteClaim, Step
  <2>1. CASE lock' = lock /\ (Retry(p) \/ Restart(p, "idle"))
    BY <2>1, FreeStep DEF Retry
  <2>2. CASE ~(lock' = lock /\ (Retry(p) \/ Restart(p, "idle")))
    <3>1. lock # NoDir /\ lock \in Dirs /\ lock.claim = MyClaim(p, FALSE) /\ lock' \in Dirs
      BY <1>22, <2>2, DirStaysDir DEF WriteClaim, TypeOK
    <3>2. ASSUME NEW q \in Procs \ {p} PROVE ~Committing(q)
      BY <1>0, <3>1, MeIsMine DEF Proper, ClaimIsOwn, Committed, Committing, MyClaim
    <3>3. CASE lock' = [lock EXCEPT !.claim = NoClaim] /\ Restart(p, "idle")
      <4>1. lock'.id = lock.id /\ lock'.files = lock.files /\ lock'.claim = NoClaim
        BY <3>1, <3>3 DEF Dirs
      <4>2. ASSUME NEW q \in Procs \ {p} PROVE Spares(q)
        BY <3>1, <3>2, <4>1 DEF Spares, Committing
      <4>3. OneOwnersFiles' /\ LiveClaim'
        BY <3>1, <4>1 DEF Unbreached, OneOwnersFiles, LiveClaim
      <4> QED BY <3>3, <4>2, <4>3, GotoIsStep, DoneStep
    <3>4. CASE /\ lock' = [lock EXCEPT !.claim = MyClaim(p, TRUE)]
               /\ claim' = [claim EXCEPT ![p] = MyClaim(p, TRUE)]
               /\ pc' = [pc EXCEPT ![p] = "verify"]
               /\ UNCHANGED <<alive, round, manual, seen, captured>>
      <4>1. lock'.id = lock.id /\ lock'.files = lock.files /\ lock'.claim = MyClaim(p, TRUE)
        BY <3>1, <3>4 DEF Dirs
      <4>2. ASSUME NEW q \in Procs \ {p} PROVE Spares(q)
        BY <3>1, <3>2, <4>1 DEF Spares, Committing
      <4>3. OneOwnersFiles' /\ LiveClaim'
        BY <2>0, <3>1, <3>4, <4>1 DEF Unbreached, OneOwnersFiles, LiveClaim, MyClaim, Me
      <4>4. StepOf(p) /\ pc'[p] = "verify" /\ seen'[p] = seen[p] /\ claim'[p] = MyClaim(p, TRUE)
            /\ Me(p)' = Me(p) /\ alive' = alive
        BY <3>4 DEF StepOf, TypeOK, Me
      <4>5. MyClaim(p, TRUE) # NoClaim /\ MyClaim(p, TRUE).by = Me(p)
        BY <2>0, ClaimTypes DEF MyClaim
      <4>6. Proper(p)'
        BY <1>0, <2>0, <4>4, <4>5
        DEF Proper, OwnDirectory, EvidenceStale, ByHand, ClaimIsOwn, Committed, Committing, Owning, Stale
      <4> QED BY <4>2, <4>3, <4>4, <4>6, ChangeStep
    <3> QED BY <1>22, <2>2, <3>3, <3>4 DEF WriteClaim
  <2> QED BY <2>1, <2>2
<1>23. ASSUME NEW p \in Procs, Crash(p) PROVE Unbreached'
  <2>1. StepOf(p) /\ pc'[p] = "idle" /\ lock' = lock /\ alive' = alive \ {p}
    BY <1>23 DEF Crash, Reset, StepOf, TypeOK
  <2>2. ASSUME NEW q \in Procs \ {p} PROVE Spares(q)
    BY <1>0, <2>1 DEF Spares, Proper, OwnDirectory, Committed
  <2>3. OneOwnersFiles' /\ LiveClaim'
    BY <1>23, <2>1 DEF Crash, Unbreached, OneOwnersFiles, LiveClaim
  <2> QED BY <2>1, <2>2, <2>3, DoneStep
<1>24. CASE UNCHANGED vars
  BY <1>24 DEF vars, Unbreached, OneOwnersFiles, LiveClaim, Proper, OwnDirectory, EvidenceStale, ByHand,
     ClaimIsOwn, Committed, Committing, Stale, Me
<1> QED
  BY <1>1, <1>2, <1>3, <1>4, <1>5, <1>6, <1>7, <1>8, <1>9, <1>10, <1>11, <1>12, <1>13, <1>14, <1>15, <1>16, <1>17, <1>18, <1>19, <1>20, <1>21, <1>22, <1>23, <1>24
  DEF Next, Acquiring, Recovering, Releasing

------------------------------------------------------------------------------
\* The inductive invariant of the lease: while no claim was orphaned or taken
\* over, a directory holds one owner's files, a claim there is that of its own
\* live claimant, and every process is where its evidence allows it to be
\* (tryAcquire, createRecoveryClaim, quarantineClaimedLock, release).
THEOREM LeaseInvariant == Spec => []LeaseInv
<1>1. Init => LeaseInv
  BY TypesInit
  DEF Init, LeaseInv, Unbreached, OneOwnersFiles, LiveClaim, Proper, OwnDirectory, EvidenceStale, ByHand,
      ClaimIsOwn, Committed, Committing, Owning
<1>2. LeaseInv /\ [Next]_vars => LeaseInv'
  BY TypesStep, BreachGrows, UnbreachedStep DEF LeaseInv
<1> QED BY <1>1, <1>2, PTL DEF Spec

\* A live holder finds its own directory at the path until it releases it, as
\* long as every claim has its own live claimant.
THEOREM LeaseKeptUnlessBreached == Spec => []KeptUnlessBreached
<1>1. LeaseInv => KeptUnlessBreached
  BY DEF LeaseInv, TypeOK, Unbreached, Proper, OwnDirectory, KeptUnlessBreached, HoldersKeepDirectory,
     Holders, Owning
<1> QED BY <1>1, LeaseInvariant, PTL

\* Who leaves the "rename" step alive renamed a dead owner's directory.
THEOREM LeaseOnlyDeadQuarantined == Spec => OnlyDeadQuarantined
<1>1. ASSUME LeaseInv, [Next]_vars, NEW p \in Procs, breach' = {}, pc[p] = "rename"
      PROVE  lock # NoDir /\ Stale(lock.files)
  BY <1>1, BreachGrows DEF LeaseInv, Unbreached, Proper, EvidenceStale, Committed, Committing
<1>2. LeaseInv /\ [Next]_vars =>
        \A p \in Procs :
          (breach' = {} /\ p \in alive' /\ pc[p] = "rename" /\ pc'[p] # "rename")
            => lock # NoDir /\ Stale(lock.files)
  BY <1>1
<1> QED BY <1>2, LeaseInvariant, PTL DEF Spec, OnlyDeadQuarantined

LEMMA OneMoves ==
  ASSUME TypeOK, Started, [Next]_vars
  PROVE  \/ Holders' = Holders
         \/ \E p \in Holders : Holders' = Holders \ {p}
         \/ \E p \in Procs : pc[p] = "writeOwner" /\ Holders' = Holders \cup {p}
<1> DEFINE Moves(p) ==
      /\ \A q \in Procs \ {p} : pc'[q] = pc[q] /\ (q \in alive' <=> q \in alive)
      /\ p \in Holders' => p \in Holders \/ pc[p] = "writeOwner"
<1>1. ASSUME NEW p \in Procs, Crash(p) PROVE Moves(p)
  BY <1>1 DEF TypeOK, Crash, Reset, Holders
<1>2. ASSUME NEW p \in Procs, Begin(p) \/ Inspect(p) \/ Heartbeat(p) \/ GiveUp(p) \/ BeginRelease(p)
      PROVE  Moves(p)
  BY <1>2
  DEF TypeOK, Holders, Step, Goto, Reset, Restart, Begin, Inspect, Heartbeat, GiveUp, BeginRelease
<1>3. ASSUME NEW p \in Procs, Acquiring(p) \/ Releasing(p) PROVE Moves(p)
  BY <1>3
  DEF TypeOK, Holders, Acquiring, Releasing, Step, Goto, Reset, Restart, MakeDirectory, OpenOwner,
      WriteOwner, ReadOwner, PollAgain, Publish, UnlinkOwner, RemoveDirectory
<1>4. ASSUME NEW p \in Procs, Recovering(p) PROVE Moves(p)
  <2> DEFINE Lands(L) == alive' = alive /\ \E l \in L : pc' = [pc EXCEPT ![p] = l]
  <2>1. ASSUME NEW l, Goto(p, l) \/ Restart(p, l) PROVE Lands({l})
    BY <2>1 DEF Goto, Restart, Reset
  <2>2. Lands(Labels \ {"held", "publish"})
    <3>1. CASE ReadClaim(p) \/ ReadClaimManually(p)
      BY <2>1, <3>1 DEF ReadClaim, ReadClaimManually, Labels
    <3>2. CASE OpenClaim(p) \/ Verify(p) \/ Quarantine(p)
      <4>1. \E l \in {"idle", "mkdir", "poll", "writeClaim", "rename", "unclaim"} :
              Goto(p, l) \/ Restart(p, l)
        BY <3>2 DEF OpenClaim, Verify, Quarantine, Retry
      <4> QED BY <2>1, <4>1 DEF Labels
    <3>4. CASE WriteClaim(p)
      <4>1. \/ Retry(p) \/ Restart(p, "idle")
            \/ pc' = [pc EXCEPT ![p] = "verify"] /\ alive' = alive
        BY <3>4 DEF WriteClaim
      <4> QED BY <2>1, <4>1 DEF Retry, Labels
    <3>3. CASE CompareClaim(p) \/ UnlinkClaim(p) \/ Confirm(p)
      BY <2>1, <3>3 DEF CompareClaim, UnlinkClaim, Confirm, Retry, Labels
    <3> QED BY <1>4, <3>1, <3>2, <3>3, <3>4 DEF Recovering
  <2> QED BY <2>2 DEF TypeOK, Holders
<1>5. ASSUME NEW p \in Procs, Moves(p)
      PROVE  \/ Holders' = Holders
             \/ p \in Holders /\ Holders' = Holders \ {p}
             \/ pc[p] = "writeOwner" /\ Holders' = Holders \cup {p}
  <2>1. Holders' \subseteq Procs /\ Holders \subseteq Procs
    BY TypesStep DEF Holders, TypeOK
  <2>2. \A q \in Procs \ {p} : q \in Holders' <=> q \in Holders
    BY <1>5 DEF Holders
  <2>3. CASE p \in Holders'
    <3>1. CASE p \in Holders
      <4>1. Holders' = Holders
        BY <2>1, <2>2, <2>3, <3>1
      <4> QED BY <4>1
    <3>2. CASE pc[p] = "writeOwner"
      <4>1. Holders' = Holders \cup {p}
        BY <2>1, <2>2, <2>3
      <4> QED BY <3>2, <4>1
    <3> QED BY <1>5, <2>3, <3>1, <3>2
  <2>4. CASE p \notin Holders'
    BY <2>1, <2>2, <2>4
  <2> QED BY <2>3, <2>4
<1>6. CASE UNCHANGED vars
  BY <1>6 DEF vars, Holders
<1>7. CASE \E p \in Procs : Moves(p)
  BY <1>5, <1>7 DEF Holders
<1> QED BY <1>1, <1>2, <1>3, <1>4, <1>6, <1>7 DEF Next

\* As long as every claim has its own live claimant, the lease is a mutex.
THEOREM LeaseIsMutexUnlessBreached == Spec => MutexUnlessBreached
<1>1. Init => Mutex!MutexInit
  BY DEF Init, Mutex!MutexInit, Holders
<1>2. ASSUME LeaseInv, [Next]_vars, breach' = {}
      PROVE  Mutex!MutexNext \/ UNCHANGED Mutex!mvars
  <2>1. TypeOK /\ Started /\ Unbreached
    BY <1>2, BreachGrows DEF LeaseInv
  <2>2. CASE Holders' = Holders
    BY <2>2 DEF Mutex!mvars
  <2>3. ASSUME NEW p \in Holders, Holders' = Holders \ {p} PROVE Mutex!Leave(p)
    BY <2>3 DEF Mutex!Leave
  <2>4. ASSUME NEW p \in Procs, pc[p] = "writeOwner", Holders' = Holders \cup {p}
        PROVE  Mutex!Grant(p)
    <3>1. Holders = {}
      BY <2>1, <2>4, Undisturbed DEF TypeOK, Holders, Owning
    <3> QED BY <2>4, <3>1 DEF Mutex!Grant
  <2>5. Holders \subseteq Procs
    BY <2>1 DEF TypeOK, Holders
  <2> QED BY <1>2, <2>1, <2>2, <2>3, <2>4, <2>5, OneMoves DEF Mutex!MutexNext
<1> QED BY <1>1, <1>2, LeaseInvariant, PTL DEF Spec, MutexUnlessBreached
==============================================================================
