----------------------------- MODULE WriterLease -----------------------------
(***************************************************************************)
(* The cross-process Library writer lease of library-writer-lease.ts: the  *)
(* directory .swob/locks/library-writer, its owner record and heartbeats,  *)
(* the recovery claim, and the rename that takes a dead owner's directory  *)
(* away.                                                                   *)
(*                                                                         *)
(* A step is one file-system operation that others can observe, or one     *)
(* read of the directory together with the decision taken on it.  Files    *)
(* are named by what the code can tell apart: whose they are, which        *)
(* heartbeat they carry, and whether their content has been written yet.   *)
(* The evidence hash is the set of files; claims are not part of it.       *)
(***************************************************************************)
EXTENDS Naturals

CONSTANTS
    Procs,          \* writer processes of one machine and boot
    Operators,      \* those that also run the manual recovery
    MaxRounds,      \* bound: acquisitions and recoveries a process starts
    MaxBeats,       \* bound: heartbeats of one owner
    NoDir, NoClaim  \* ENOENT

ASSUME LeaseAssumption ==
    /\ Operators \subseteq Procs
    /\ MaxRounds \in Nat
    /\ MaxBeats \in Nat

Nonces == Procs \X (1..MaxRounds)
Files  == [kind : {"owner", "temp"}, nonce : Nonces, beat : 0..MaxBeats, whole : BOOLEAN]
Claims == [by : Nonces, evidence : SUBSET Files, whole : BOOLEAN]
Dirs   == [id : Nonces, files : SUBSET Files, claim : Claims \cup {NoClaim}]

ASSUME LeaseSentinels == NoDir \notin Dirs /\ NoClaim \notin Claims

VARIABLES
    lock,       \* what is at the path of the lock directory
    alive,      \* the processes whose pid is alive
    round,      \* acquisitions started by each process; <<p, round>> is its nonce
    manual,     \* whether the current round is a manual recovery
    seen,       \* the evidence the process read before it decided to recover
    captured,   \* the lock directory writeSafeLibraryFileSync captured
    claim,      \* the claim content the process compares with
    pc,
    breach      \* history: how a claim came to have no live owner of its own

vars  == <<lock, alive, round, manual, seen, captured, claim, pc, breach>>

Breaches == {"orphaned-claim", "adopted-claim", "corrupt-quarantined"}
Labels == {"idle", "mkdir", "openOwner", "writeOwner", "held", "publish", "unlinkOwner", "rmdir",
           "readClaim", "openClaim", "writeClaim", "verify", "rename", "unclaim", "unlinkClaim",
           "poll", "confirm"}

TypeOK ==
    /\ lock \in Dirs \cup {NoDir}
    /\ alive \subseteq Procs
    /\ round \in [Procs -> 0..MaxRounds]
    /\ manual \in [Procs -> BOOLEAN]
    /\ seen \in [Procs -> SUBSET Files]
    /\ captured \in [Procs -> Nonces \cup {NoDir}]
    /\ claim \in [Procs -> Claims \cup {NoClaim}]
    /\ pc \in [Procs -> Labels]
    /\ breach \subseteq Breaches

Init ==
    /\ lock = NoDir
    /\ alive = Procs
    /\ round = [p \in Procs |-> 0]
    /\ manual = [p \in Procs |-> FALSE]
    /\ seen = [p \in Procs |-> {}]
    /\ captured = [p \in Procs |-> NoDir]
    /\ claim = [p \in Procs |-> NoClaim]
    /\ pc = [p \in Procs |-> "idle"]
    /\ breach = {}

------------------------------------------------------------------------------
Me(p) == <<p, round[p]>>

OwnerFile(n, b, w) == [kind |-> "owner", nonce |-> n, beat |-> b, whole |-> w]
TempFile(n, b)     == [kind |-> "temp", nonce |-> n, beat |-> b, whole |-> TRUE]

OwnerFiles(files) == {f \in files : f.kind = "owner"}

Valid_NoTemps(files) == \E f \in OwnerFiles(files) : f.whole /\ files = {f}

\* readDirectoryOwner finds one readable owner, with nothing beside it but
\* temporaries of that owner's heartbeats; anything else is 'corrupt'.
Valid(files) ==
    \E f \in OwnerFiles(files) :
      f.whole /\ \A g \in files : g = f \/ (g.kind = "temp" /\ g.nonce = f.nonce)

OwnerNonce(files) == (CHOOSE f \in OwnerFiles(files) : TRUE).nonce

\* staleDecision for an owner of this boot: 'recover' when its pid is gone.
Stale(files) == Valid(files) /\ OwnerNonce(files)[1] \notin alive

IsMine(p) == lock # NoDir /\ Valid(lock.files) /\ OwnerNonce(lock.files) = Me(p)

Step(p, from) == p \in alive /\ pc[p] = from

\* What a process read is dropped when its attempt is over.
Goto(p, l) ==
    /\ pc' = [pc EXCEPT ![p] = l]
    /\ UNCHANGED <<alive, round, manual, seen, captured, claim>>

Reset(p, l) ==
    /\ pc' = [pc EXCEPT ![p] = l]
    /\ seen' = [seen EXCEPT ![p] = {}]
    /\ captured' = [captured EXCEPT ![p] = NoDir]
    /\ claim' = [claim EXCEPT ![p] = NoClaim]
    /\ manual' = [manual EXCEPT ![p] = FALSE]
    /\ UNCHANGED round

Restart(p, l) == Reset(p, l) /\ UNCHANGED alive

\* 'retry': an acquisition polls on, a manual recovery reports evidence-changed.
Retry(p) == Restart(p, IF manual[p] THEN "idle" ELSE "poll")

------------------------------------------------------------------------------
(* acquireLibraryWriterLease: one tryAcquire after the other. *)

Begin(p) ==
    /\ Step(p, "idle")
    /\ round[p] < MaxRounds
    /\ round' = [round EXCEPT ![p] = @ + 1]
    /\ pc' = [pc EXCEPT ![p] = "mkdir"]
    /\ UNCHANGED <<lock, alive, manual, seen, captured, claim, breach>>

MakeDirectory(p) ==
    /\ Step(p, "mkdir")
    /\ lock = NoDir
    /\ lock' = [id |-> Me(p), files |-> {}, claim |-> NoClaim]
    /\ Goto(p, "openOwner")
    /\ UNCHANGED breach

\* The exclusive create of <nonce>.owner.json; without a directory it fails,
\* and the acquisition with it.
OpenOwner(p) ==
    /\ Step(p, "openOwner")
    /\ \/ /\ lock # NoDir
          /\ lock' = [lock EXCEPT !.files = @ \cup {OwnerFile(Me(p), 0, FALSE)}]
          /\ Goto(p, "writeOwner")
       \/ /\ lock = NoDir
          /\ lock' = lock
          /\ Restart(p, "idle")
    /\ UNCHANGED breach

\* The content, once the created file is found still in place; otherwise the
\* directory is removed if it is empty, and the acquisition fails.
WriteOwner(p) ==
    /\ Step(p, "writeOwner")
    /\ LET torn == OwnerFile(Me(p), 0, FALSE) IN
       IF lock # NoDir /\ torn \in lock.files
       THEN /\ lock' = [lock EXCEPT !.files = (@ \ {torn}) \cup {OwnerFile(Me(p), 0, TRUE)}]
            /\ Goto(p, "held")
       ELSE /\ lock' = IF lock # NoDir /\ lock.files = {} /\ lock.claim = NoClaim THEN NoDir ELSE lock
            /\ Restart(p, "idle")
    /\ UNCHANGED breach

\* mkdir meets EEXIST and reads the directory: a dead owner is recovered, a
\* live or a corrupt one is waited for.
ReadOwner(p) ==
    /\ Step(p, "mkdir")
    /\ lock # NoDir
    /\ IF Stale(lock.files)
       THEN /\ pc' = [pc EXCEPT ![p] = "readClaim"]
            /\ seen' = [seen EXCEPT ![p] = lock.files]
            /\ UNCHANGED <<alive, round, manual, captured, claim>>
       ELSE Restart(p, "poll")
    /\ UNCHANGED <<lock, breach>>

PollAgain(p) == Step(p, "poll") /\ Goto(p, "mkdir") /\ UNCHANGED <<lock, breach>>

\* The bounded wait is over: LibraryWriterBusyError.
GiveUp(p) == Step(p, "poll") /\ Restart(p, "idle") /\ UNCHANGED <<lock, breach>>

------------------------------------------------------------------------------
(* Recovery of a dead owner: claim, verify, rename. *)

\* readClaim, and what existingClaimDecision makes of a claim it finds: one
\* for other evidence, or not readable, or of a live claimant, is waited for;
\* one of a dead claimant is removed.  Without a claim, the directory that
\* will hold our own is captured.
ReadClaim(p) ==
    /\ Step(p, "readClaim")
    /\ ~manual[p]
    /\ IF lock # NoDir /\ lock.claim # NoClaim
       THEN IF lock.claim.whole /\ lock.claim.evidence = seen[p] /\ lock.claim.by[1] \notin alive
            THEN /\ claim' = [claim EXCEPT ![p] = lock.claim]
                 /\ pc' = [pc EXCEPT ![p] = "unclaim"]
                 /\ UNCHANGED <<alive, round, manual, seen, captured>>
            ELSE Restart(p, "poll")
       ELSE IF lock = NoDir
            THEN Restart(p, "poll")
            ELSE /\ captured' = [captured EXCEPT ![p] = lock.id]
                 /\ pc' = [pc EXCEPT ![p] = "openClaim"]
                 /\ UNCHANGED <<alive, round, manual, seen, claim>>
    /\ UNCHANGED <<lock, breach>>

MyClaim_NoNonce(p, w) == [by |-> p, evidence |-> seen[p], whole |-> w]
MyClaim(p, w) == [by |-> Me(p), evidence |-> seen[p], whole |-> w]

ClaimCreatable_Overwrites == lock # NoDir
ClaimCreatable == lock # NoDir /\ lock.claim = NoClaim

\* The exclusive create of recovery.claim: ENOENT and EEXIST are a retry.
OpenClaim(p) ==
    /\ Step(p, "openClaim")
    /\ IF ClaimCreatable
       THEN lock' = [lock EXCEPT !.claim = MyClaim(p, FALSE)] /\ Goto(p, "writeClaim")
       ELSE lock' = lock /\ Retry(p)
    /\ UNCHANGED breach

\* Its content, once the directory is found to be the captured one. In another
\* directory the empty file is removed and LibraryPathUnsafeError ends the
\* acquisition; a directory or a file that is gone (ENOENT) is a retry.
WriteClaim(p) ==
    /\ Step(p, "writeClaim")
    /\ IF lock = NoDir \/ (lock.id = captured[p] /\ lock.claim = NoClaim)
       THEN lock' = lock /\ Retry(p)
       ELSE IF lock.id = captured[p] /\ lock.claim = MyClaim(p, FALSE)
       THEN /\ lock' = [lock EXCEPT !.claim = MyClaim(p, TRUE)]
            /\ claim' = [claim EXCEPT ![p] = MyClaim(p, TRUE)]
            /\ pc' = [pc EXCEPT ![p] = "verify"]
            /\ UNCHANGED <<alive, round, manual, seen, captured>>
       ELSE /\ lock' = IF lock.claim = MyClaim(p, FALSE)
                       THEN [lock EXCEPT !.claim = NoClaim] ELSE lock
            /\ Restart(p, "idle")
    /\ UNCHANGED breach

VerifiedEvidence_ClaimOnly(p) == lock # NoDir /\ lock.claim = claim[p]

\* quarantineClaimedLock reads everything again before it commits. A manual
\* recovery requires no proof of death, and of a corrupt directory only that
\* it is still the same corrupt directory.
VerifiedEvidence(p) ==
    /\ lock # NoDir
    /\ lock.files = seen[p]
    /\ lock.claim = claim[p]
    /\ manual[p] \/ Stale(lock.files)

Verify(p) ==
    /\ Step(p, "verify")
    /\ Goto(p, IF VerifiedEvidence(p) THEN "rename" ELSE "unclaim")
    /\ UNCHANGED <<lock, breach>>

\* The directory rename. Whatever is at the path goes to the quarantine.
Quarantine(p) ==
    /\ Step(p, "rename")
    /\ lock' = NoDir
    /\ IF lock = NoDir THEN Retry(p) ELSE Restart(p, IF manual[p] THEN "idle" ELSE "mkdir")
    /\ UNCHANGED breach

\* removeUnchangedClaim: compare, then unlink what is there by then.
CompareClaim(p) ==
    /\ Step(p, "unclaim")
    /\ IF lock # NoDir /\ lock.claim = claim[p] THEN Goto(p, "unlinkClaim") ELSE Retry(p)
    /\ UNCHANGED <<lock, breach>>

UnlinkClaim(p) ==
    /\ Step(p, "unlinkClaim")
    /\ lock' = IF lock = NoDir THEN NoDir ELSE [lock EXCEPT !.claim = NoClaim]
    /\ Retry(p)
    /\ UNCHANGED breach

------------------------------------------------------------------------------
(* recoverLibraryWriterLeaseManually, after an inspection. *)

\* The operator has the evidence hash of an inspection that was not
\* active-owner.
Inspect(p) ==
    /\ Step(p, "idle")
    /\ p \in Operators
    /\ round[p] < MaxRounds
    /\ lock # NoDir
    /\ ~Valid(lock.files) \/ Stale(lock.files)
    /\ round' = [round EXCEPT ![p] = @ + 1]
    /\ manual' = [manual EXCEPT ![p] = TRUE]
    /\ seen' = [seen EXCEPT ![p] = lock.files]
    /\ pc' = [pc EXCEPT ![p] = "confirm"]
    /\ UNCHANGED <<lock, alive, captured, claim, breach>>

Confirm(p) ==
    /\ Step(p, "confirm")
    /\ IF lock # NoDir /\ lock.files = seen[p] /\ (~Valid(lock.files) \/ Stale(lock.files))
       THEN Goto(p, "readClaim")
       ELSE Restart(p, "idle")
    /\ UNCHANGED <<lock, breach>>

\* A claim that is already there is taken over, whoever it belongs to.
ReadClaimManually(p) ==
    /\ Step(p, "readClaim")
    /\ manual[p]
    /\ IF lock = NoDir
       THEN Restart(p, "idle") /\ UNCHANGED breach
       ELSE IF lock.claim # NoClaim
       THEN /\ claim' = [claim EXCEPT ![p] = lock.claim]
            /\ pc' = [pc EXCEPT ![p] = "verify"]
            /\ breach' = breach \cup {"adopted-claim"}
            /\ UNCHANGED <<alive, round, manual, seen, captured>>
       ELSE /\ captured' = [captured EXCEPT ![p] = lock.id]
            /\ pc' = [pc EXCEPT ![p] = "openClaim"]
            /\ breach' = IF Valid(seen[p]) THEN breach ELSE breach \cup {"corrupt-quarantined"}
            /\ UNCHANGED <<alive, round, manual, seen, claim>>
    /\ UNCHANGED lock

------------------------------------------------------------------------------
(* The holder: heartbeats and release. *)

\* A heartbeat is skipped while a claim is there or the record is not ours;
\* else the new record is written to a temporary...
Heartbeat(p) ==
    /\ Step(p, "held")
    /\ IsMine(p)
    /\ lock.claim = NoClaim
    /\ \E f \in OwnerFiles(lock.files) :
         /\ f.beat < MaxBeats
         /\ lock' = [lock EXCEPT !.files = @ \cup {TempFile(Me(p), f.beat + 1)}]
    /\ Goto(p, "publish")
    /\ UNCHANGED breach

\* ...and renamed over the old one. If the temporary is gone nothing happens.
Publish(p) ==
    /\ Step(p, "publish")
    /\ LET mine == {f \in lock.files : f.nonce = Me(p)} IN
       lock' = IF lock = NoDir \/ {f \in mine : f.kind = "temp"} = {} THEN lock
               ELSE [lock EXCEPT !.files = (@ \ mine) \cup
                       {OwnerFile(Me(p), f.beat, TRUE) : f \in {g \in mine : g.kind = "temp"}}]
    /\ Goto(p, "held")
    /\ UNCHANGED breach

\* release gives up silently on a directory that is not its own any more.
BeginRelease(p) ==
    /\ Step(p, "held")
    /\ IF IsMine(p) THEN Goto(p, "unlinkOwner") ELSE Restart(p, "idle")
    /\ UNCHANGED <<lock, breach>>

\* (When the record is gone the unlink throws, and nothing more is done.)
UnlinkOwner(p) ==
    /\ Step(p, "unlinkOwner")
    /\ IF lock # NoDir /\ \E f \in OwnerFiles(lock.files) : f.nonce = Me(p)
       THEN /\ lock' = [lock EXCEPT !.files = {f \in @ : ~(f.kind = "owner" /\ f.nonce = Me(p))}]
            /\ Goto(p, "rmdir")
       ELSE lock' = lock /\ Restart(p, "idle")
    /\ UNCHANGED breach

\* rmdir fails on a directory with anything left in it, and is not repeated.
RemoveDirectory(p) ==
    /\ Step(p, "rmdir")
    /\ lock' = IF lock # NoDir /\ lock.files = {} /\ lock.claim = NoClaim THEN NoDir ELSE lock
    /\ Restart(p, "idle")
    /\ UNCHANGED breach

------------------------------------------------------------------------------
\* A process dies where it is.
Crash(p) ==
    /\ p \in alive
    /\ alive' = alive \ {p}
    /\ breach' = IF lock # NoDir /\ lock.claim # NoClaim /\ lock.claim.by[1] = p
                 THEN breach \cup {"orphaned-claim"} ELSE breach
    /\ Reset(p, "idle")
    /\ UNCHANGED lock

Acquiring(p) ==
    MakeDirectory(p) \/ OpenOwner(p) \/ WriteOwner(p) \/ ReadOwner(p) \/ PollAgain(p)
Recovering(p) ==
    \/ ReadClaim(p) \/ OpenClaim(p) \/ WriteClaim(p) \/ Verify(p) \/ Quarantine(p)
    \/ CompareClaim(p) \/ UnlinkClaim(p) \/ Confirm(p) \/ ReadClaimManually(p)
Releasing(p) == UnlinkOwner(p) \/ RemoveDirectory(p) \/ Publish(p)

Next ==
    \E p \in Procs :
      \/ Begin(p) \/ Acquiring(p) \/ GiveUp(p) \/ Recovering(p) \/ Inspect(p)
      \/ Heartbeat(p) \/ BeginRelease(p) \/ Releasing(p) \/ Crash(p)

Spec == Init /\ [][Next]_vars

\* A contender that has not given up keeps trying; nobody has to release.
FairSpec ==
    /\ Spec
    /\ \A p \in Procs : WF_vars(Acquiring(p) \/ Recovering(p) \/ Releasing(p))

------------------------------------------------------------------------------
(* Properties *)

Holders == {p \in alive : pc[p] \in {"held", "publish"}}

\* A process that was given the lease finds its own directory at the path
\* until it releases it: no recovery of an older owner takes it away
\* (quarantineClaimedLock: "a losing claimant cannot remove a replacement").
HoldersKeepDirectory == \A p \in Holders : lock # NoDir /\ lock.id = Me(p)

\* That holds, with any number of crashes, while every claim has its own live
\* claimant (recoverProvenStaleLock, removeUnchangedClaim).
KeptUnlessBreached == breach = {} => HoldersKeepDirectory

\* Then the lease is a mutex: two processes never write the Library together.
Mutex == INSTANCE WriterMutex WITH Writers <- Procs, holders <- Holders, closed <- FALSE
MutexUnlessBreached ==
    /\ Mutex!MutexInit
    /\ [][breach' = {} => Mutex!MutexNext \/ UNCHANGED Mutex!mvars]_vars

\* Unless breached, only a complete record of a dead owner is ever renamed
\* away, whatever happened between the claimant's checks and its rename.
OnlyDeadQuarantined ==
    [][\A p \in Procs :
         (breach' = {} /\ p \in alive' /\ pc[p] = "rename" /\ pc'[p] # "rename")
           => lock # NoDir /\ Stale(lock.files)]_vars

\* The lock of an owner that died while it held it, a heartbeat temporary
\* beside its record or not, does not outlast a contender that keeps trying
\* (tryAcquire, recoverProvenStaleLock; a torn claim or a breach excepted).
DeadOwnerRecovered ==
    \A p \in Procs, n \in Nonces :
      (pc[p] = "mkdir" /\ lock # NoDir /\ lock.id = n /\ n[1] \notin alive
         /\ \E b \in 0..MaxBeats : OwnerFile(n, b, TRUE) \in lock.files)
        ~> (lock = NoDir \/ lock.id # n \/ pc[p] = "idle" \/ breach # {})
==============================================================================
