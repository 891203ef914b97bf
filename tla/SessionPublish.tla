--------------------------- MODULE SessionPublish ---------------------------
(***************************************************************************)
(* How a session becomes a package of the Library                          *)
(* (ensureSessionInLibraryUnderWriter of src/main/library-manager.ts with  *)
(* the lock of src/main/session-create-lock.ts): a lock directory, the     *)
(* reservation of a package id, the claim of a path, the directory and its *)
(* fingerprint, the incomplete marker, the content, the manifest that      *)
(* commits, the commit record; and the recovery that comes first and deals *)
(* with whatever a process that died, or an error, has left.               *)
(*                                                                         *)
(* All of it runs under the writer lease (WriterLease), one operation at a *)
(* time, and stops at any step.  Files are created exclusively and then    *)
(* written, so one may be torn: there, and unreadable.  A removal does not *)
(* fail.  All sessions have the same title: they want the same names.      *)
(* Left out: the batches of a startup, which use what their plan has read. *)
(***************************************************************************)
EXTENDS Naturals, Sequences

CONSTANTS Sessions, Processes,
          MaxName,     \* bound on the directory names tried, 10000 in the code
          MaxPackage,  \* bound on the package ids
          None,        \* there is nothing
          Torn,        \* a file that was created and not, or not wholly, written
          Dead         \* the owner of what a dead process wrote

Names == 1..MaxName
Packages == 1..MaxPackage

\* A claim, a fingerprint or a marker that can be read names its package.
Files == {None, Torn, "whole"}
Directories == [pkg : Packages, marker : Files, content : BOOLEAN, manifest : Files]
Locks == [owner : Processes \cup {None, Dead, Torn}, claim : BOOLEAN]
Records == [key : Sessions, owner : Processes \cup {Dead}]
Issues == [key : Sessions \cup {None}, live : BOOLEAN]

Disks ==
    [dir    : [Names -> Directories \cup {None}],
     claim  : [Names -> {None, Torn} \cup Packages],
     print  : [Names -> {None, Torn} \cup Packages],
     res    : [Packages -> Files],
     commit : [Packages -> Files],
     lock   : [Sessions -> Locks \cup {None}],
     aside  : SUBSET Packages]

Stages == {"locks", "walk", "finish", "claims", "resolve", "lock", "own", "evidence", "reserve",
           "claim", "mkdir", "print", "mark", "content", "manifest", "commit", "release"}
Effects ==
    [do : {"unmark", "rmdir", "quarantine", "unprint", "unclaim"}, at : Names]
    \cup [do : {"unreserve"}, at : Packages]
    \cup [do : {"claimLock", "unown", "freeClaim", "unlock"}, at : Sessions]
Operations ==
    [by : Processes, key : Sessions \cup {None}, stage : Stages, locked : BOOLEAN,
     pkg : Packages \cup {None}, name : 1..(MaxName + 1), left : SUBSET (Names \cup Sessions),
     issues : SUBSET Issues, todo : Seq(Effects)]

ASSUME PublishAssumption ==
    /\ MaxName \in Nat /\ MaxPackage \in Nat
    /\ {None, Torn, Dead} \cap (Processes \cup Sessions \cup Packages) = {}
    /\ None # Torn /\ "whole" \notin {None, Torn}
    /\ None \notin Directories \cup Locks \cup Records \cup Operations

VARIABLES
    disk,   \* the files
    of,     \* what the records of a package id say: its session and its owner
    op      \* the operation under the writer lease, or None

vars == <<disk, of, op>>

EmptyDisk ==
    [dir    |-> [d \in Names |-> None],
     claim  |-> [d \in Names |-> None],
     print  |-> [d \in Names |-> None],
     res    |-> [p \in Packages |-> None],
     commit |-> [p \in Packages |-> None],
     lock   |-> [s \in Sessions |-> None],
     aside  |-> {}]     \* packages in incomplete-session-quarantine

NewDir(p) == [pkg |-> p, marker |-> None, content |-> FALSE, manifest |-> None]
NewLock == [owner |-> None, claim |-> FALSE]

Gone(p) == of[p].owner = Dead       \* incompleteOwnerIsProvablyDead

IsEmpty(x) == x.marker = None /\ ~x.content /\ x.manifest = None

Published(s) == \E d \in Names : /\ disk.dir[d] # None
                                 /\ disk.dir[d].manifest = "whole"
                                 /\ of[disk.dir[d].pkg].key = s

-----------------------------------------------------------------------------
(* What is left to remove, one file at a time.                             *)

Do(what, at) == [do |-> what, at |-> at]

Perform(k, e) ==
    CASE e.do = "unmark"     -> [k EXCEPT !.dir[e.at].marker = None]
      [] e.do = "rmdir"      -> [k EXCEPT !.dir[e.at] = IF IsEmpty(@) THEN None ELSE @]
      [] e.do = "quarantine" -> [k EXCEPT !.dir[e.at] = None, !.aside = @ \cup {k.dir[e.at].pkg}]
      [] e.do = "unprint"    -> [k EXCEPT !.print[e.at] = None]
      [] e.do = "unclaim"    -> [k EXCEPT !.claim[e.at] = None]
      [] e.do = "unreserve"  -> [k EXCEPT !.res[e.at] =
                                     IF @ = "whole" /\ k.commit[e.at] = None THEN None ELSE @]
      [] e.do = "claimLock"  -> [k EXCEPT !.lock[e.at].claim = TRUE]
      [] e.do = "unown"      -> [k EXCEPT !.lock[e.at].owner = None]
      [] e.do = "freeClaim"  -> [k EXCEPT !.lock[e.at].claim = FALSE]
      [] e.do = "unlock"     -> [k EXCEPT !.lock[e.at] = IF @ = NewLock THEN None ELSE @]

\* removeOwnedPublishDirectoryClaim: not if the fingerprint is unreadable.
RemoveClaim(d, p) ==
    IF disk.claim[d] # p \/ disk.print[d] \notin {None, p} THEN <<>>
    ELSE (IF disk.print[d] = p THEN <<Do("unprint", d)>> ELSE <<>>) \o <<Do("unclaim", d)>>

RemoveEmpty(d, p) == <<Do("unmark", d), Do("rmdir", d), Do("unreserve", p)>>

SetAside(d, p) == <<Do("quarantine", d), Do("unreserve", p)>>

RemoveIncomplete(d) ==
    LET x == disk.dir[d]
    IN  IF x.content THEN SetAside(d, x.pkg) ELSE RemoveEmpty(d, x.pkg)

RecoverLock(s) ==
    <<Do("claimLock", s), Do("unown", s), Do("freeClaim", s), Do("unlock", s)>>

\* The operation goes on at a stage, after it has removed what todo says.
Goto(stage, todo) == op' = [op EXCEPT !.stage = stage, !.todo = todo]

\* Its finally clause, if it has the lock of the session.
Leave(todo) ==
    IF op.locked
    THEN Goto("release", todo \o <<Do("unown", op.key), Do("unlock", op.key)>>)
    ELSE op' = None

At(stage) == op # None /\ op.todo = <<>> /\ op.stage = stage

Remove ==
    /\ op # None /\ op.todo # <<>>
    /\ disk' = Perform(disk, Head(op.todo))
    /\ op' = [op EXCEPT !.todo = Tail(@)]
    /\ UNCHANGED of

Released == At("release") /\ op' = None /\ UNCHANGED <<disk, of>>

-----------------------------------------------------------------------------
(* recoverIncompleteSessionPublishes: every directory, then every claim.   *)

NewOp(p, s, stage) ==
    [by |-> p, key |-> s, stage |-> stage, locked |-> FALSE, pkg |-> None, name |-> 1,
     left |-> IF stage = "locks" THEN Sessions ELSE Names, issues |-> {}, todo |-> <<>>]

Visited(d, stage, todo, issues) ==
    op' = [op EXCEPT !.stage = stage, !.name = d, !.left = @ \ {d},
                     !.todo = todo, !.issues = @ \cup issues]

\* An issue names its session if its evidence can be read.  History: whether
\* the owner was alive when it was found.
IssueOf_PackageId(p) == [key |-> p, live |-> ~Gone(p)]    \* not its session

IssueOf(p) == [key |-> of[p].key, live |-> ~Gone(p)]
Unreadable == [key |-> None, live |-> FALSE]

\* The manifest is not looked for.
Undoable_AnyManifest(x) == x.marker = "whole" /\ Gone(x.pkg)

\* The owner is dead and the package was not committed.
Undoable(x) == x.marker = "whole" /\ x.manifest = None /\ Gone(x.pkg)

\* A marker: the package is finished, undone, set aside, or left as an issue.
VisitDir(d) ==
    LET x == disk.dir[d]
    IN  /\ At("walk") /\ d \in op.left
        /\ IF x = None \/ x.marker = None THEN Visited(d, "walk", <<>>, {})
           ELSE IF Undoable(x) THEN Visited(d, "walk", RemoveIncomplete(d), {})
           ELSE IF x.marker = "whole" /\ x.manifest = "whole" THEN Visited(d, "finish", <<>>, {})
           ELSE Visited(d, "walk", <<>>, {IF x.marker = "whole" THEN IssueOf(x.pkg) ELSE Unreadable})
        /\ UNCHANGED <<disk, of>>

\* Writes the file that f is on the disk as whole, or fails: with no file, a
\* torn one, or a whole one whose directory could not be flushed.
Writing(f(_), next, fail(_)) ==
    \/ f("whole") /\ next
    \/ \E left \in Files : f(left) /\ fail(left)

SetCommit(p, left) == disk' = [disk EXCEPT !.commit[p] = left]

\* The package is complete, so the marker goes.
Finish_MarkerOnly ==
    At("finish") /\ Goto("walk", <<Do("unmark", op.name)>>) /\ UNCHANGED <<disk, of>>

\* markPackageReservationCommitted, then the marker goes.
Finish ==
    LET p == disk.dir[op.name].pkg
        write(left) == SetCommit(p, left)
        fail(left) == Leave(<<>>)
    IN  /\ At("finish")
        /\ disk.res[p] = "whole"
        /\ disk.commit[p] # Torn
        /\ IF disk.commit[p] = "whole"
           THEN Goto("walk", <<Do("unmark", op.name)>>) /\ UNCHANGED disk
           ELSE Writing(write, Goto("walk", <<Do("unmark", op.name)>>), fail)
        /\ UNCHANGED of

\* The directory is removed only with its fingerprint.
Owned_Fingerprinted(d, p) == disk.print[d] = p /\ disk.dir[d].pkg = p

\* A fingerprint must match the directory; without one the claim is enough.
Owned(d, p) == disk.print[d] = None \/ (disk.print[d] = p /\ disk.dir[d].pkg = p)

\* recoverPublishDirectoryClaims.
VisitClaim(d) ==
    LET p == disk.claim[d]
        x == disk.dir[d]
    IN  /\ At("claims") /\ d \in op.left
        /\ IF p = None THEN Visited(d, "claims", <<>>, {})
           ELSE IF p = Torn THEN Visited(d, "claims", <<>>, {Unreadable})
           ELSE IF ~Gone(p) THEN Visited(d, "claims", <<>>, {IssueOf(p)})
           ELSE IF x = None
           THEN Visited(d, "claims", RemoveClaim(d, p) \o <<Do("unreserve", p)>>, {})
           ELSE IF IsEmpty(x) /\ Owned(d, p)
           THEN Visited(d, "claims",
                        <<Do("rmdir", d)>> \o RemoveClaim(d, p) \o <<Do("unreserve", p)>>, {})
           ELSE Visited(d, "claims", <<>>, {IssueOf(p)})
        /\ UNCHANGED <<disk, of>>

Walked ==
    /\ (At("walk") \/ At("claims"))
    /\ op.left = {}
    /\ op' = IF op.stage = "walk" THEN [op EXCEPT !.stage = "claims", !.left = Names]
             ELSE [op EXCEPT !.stage = "resolve"]
    /\ UNCHANGED <<disk, of>>

\* unresolvedIssuesForEnsure: before the lock, those of its own session pass.
Unresolved ==
    {i \in op.issues : op.key = None \/ op.locked \/ i.key # op.key}

\* The scan finds the session bound to a package, or free to be created.
Resolve ==
    /\ At("resolve")
    /\ Unresolved = {}
    /\ IF op.key # None /\ Published(op.key) THEN Leave(<<>>)
       ELSE Goto(IF op.key = None \/ op.locked THEN "evidence" ELSE "lock", <<>>)
    /\ UNCHANGED <<disk, of>>

-----------------------------------------------------------------------------
(* acquireSessionCreateLock, and recoverStaleSessionCreateLocks.           *)

Recoverable(s) == disk.lock[s] = [owner |-> Dead, claim |-> FALSE]

MakeLock ==
    /\ At("lock")
    /\ disk.lock[op.key] = None
    /\ disk' = [disk EXCEPT !.lock[op.key] = NewLock]
    /\ Goto("own", <<>>)
    /\ UNCHANGED of

\* With the lock the recovery is made again.  An owner that cannot be written
\* takes the directory back, if that is still empty.
OwnLock ==
    LET write(left) == disk' = [disk EXCEPT !.lock[op.key] =
                IF left = None THEN None
                ELSE [NewLock EXCEPT !.owner = IF left = "whole" THEN op.by ELSE left]]
        fail(left) == op' = None
    IN  /\ At("own")
        /\ Writing(write, op' = [NewOp(op.by, op.key, "walk") EXCEPT !.locked = TRUE], fail)
        /\ UNCHANGED of

\* An empty directory older than the grace period, or the lock of a dead owner.
ClearLock(s) ==
    /\ (At("lock") /\ s = op.key) \/ (At("locks") /\ s \in op.left)
    /\ disk.lock[s] = NewLock \/ Recoverable(s)
    /\ op' = [op EXCEPT !.left = IF op.stage = "locks" THEN @ \ {s} ELSE @,
                        !.todo = IF Recoverable(s) THEN RecoverLock(s) ELSE <<Do("unlock", s)>>]
    /\ UNCHANGED <<disk, of>>

\* The recovery claim cannot be written, whole or at all: the lock stays.
ClaimLockFails ==
    /\ op # None /\ op.todo # <<>>
    /\ Head(op.todo).do = "claimLock"
    /\ \E left \in BOOLEAN : disk' = [disk EXCEPT !.lock[Head(op.todo).at].claim = left]
    /\ op' = IF op.key = None THEN [op EXCEPT !.todo = <<>>] ELSE None
    /\ UNCHANGED of

\* A plan passes over the locks it may not recover, or not yet.
LocksDone ==
    /\ At("locks")
    /\ \A s \in op.left : ~Recoverable(s)
    /\ op' = NewOp(op.by, None, "walk")
    /\ UNCHANGED <<disk, of>>

-----------------------------------------------------------------------------
(* throwIfDurableIdentityWasPreviouslySeen, and for the plan of a startup  *)
(* prepareStartupIdentityEvidenceIndex: the reservations.                  *)

OfInterest(p) ==
    disk.res[p] = "whole" /\ (op.key = None \/ of[p].key = op.key)

Abandoned(p) == OfInterest(p) /\ disk.commit[p] = None /\ Gone(p)

Evidence ==
    {p \in Packages : \/ disk.res[p] = Torn
                      \/ /\ OfInterest(p) /\ ~Abandoned(p)
                         /\ (op.key # None \/ disk.commit[p] = Torn)}

DropReservation ==
    /\ At("evidence")
    /\ \E p \in Packages : Abandoned(p) /\ Goto("evidence", <<Do("unreserve", p)>>)
    /\ UNCHANGED <<disk, of>>

Proven ==
    /\ At("evidence")
    /\ Evidence = {}
    /\ \A p \in Packages : ~Abandoned(p)
    /\ IF op.key = None THEN op' = None ELSE Goto("reserve", <<>>)
    /\ UNCHANGED <<disk, of>>

-----------------------------------------------------------------------------
(* The creation.                                                           *)

\* reserveUniquePackageId: an id nobody has used, or, at the bound, none.
Reserve ==
    LET free == {p \in Packages : of[p] = None}
        p == CHOOSE q \in free : \A r \in free : q <= r
        write(left) == disk' = [disk EXCEPT !.res[p] = left]
        fail(left) == op' = [op EXCEPT !.stage = "release",
                                       !.todo = <<Do("unown", op.key), Do("unlock", op.key)>>]
    IN  /\ At("reserve")
        /\ IF free = {} THEN Leave(<<>>) /\ UNCHANGED <<disk, of>>
           ELSE /\ of' = [of EXCEPT ![p] = [key |-> op.key, owner |-> op.by]]
                /\ Writing(write, op' = [op EXCEPT !.stage = "claim", !.pkg = p, !.name = 1], fail)

\* reserveSessionPublishDir: the claim of a name; one that is claimed is
\* passed over.
ClaimName ==
    LET write(left) == disk' = [disk EXCEPT !.claim[op.name] =
                                    IF left = "whole" THEN op.pkg ELSE left]
        fail(left) == Leave(<<Do("unreserve", op.pkg)>>)
    IN  /\ At("claim")
        /\ IF op.name > MaxName THEN fail(None) /\ UNCHANGED disk
           ELSE IF disk.claim[op.name] # None
           THEN op' = [op EXCEPT !.name = @ + 1] /\ UNCHANGED disk
           ELSE Writing(write, Goto("mkdir", <<>>), fail)
        /\ UNCHANGED of

\* Its directory; one that exists gives the claim back and passes over.
MakeDir ==
    LET unclaim == RemoveClaim(op.name, op.pkg)
    IN  /\ At("mkdir")
        /\ \/ /\ disk.dir[op.name] # None
              /\ op' = [op EXCEPT !.stage = "claim", !.name = @ + 1, !.todo = unclaim]
              /\ UNCHANGED disk
           \/ /\ disk.dir[op.name] = None
              /\ disk' = [disk EXCEPT !.dir[op.name] = NewDir(op.pkg)]
              /\ Goto("print", <<>>)
           \/ Leave(unclaim \o <<Do("unreserve", op.pkg)>>) /\ UNCHANGED disk
        /\ UNCHANGED of

\* Its fingerprint.  Without a readable one an error leaves the directory.
WritePrint ==
    LET write(left) == disk' = [disk EXCEPT !.print[op.name] =
                                    IF left = "whole" THEN op.pkg ELSE left]
        undo == <<Do("rmdir", op.name), Do("unprint", op.name), Do("unclaim", op.name)>>
        fail(left) == Leave((IF left = "whole" THEN undo ELSE <<>>)
                            \o <<Do("unreserve", op.pkg)>>)
    IN  At("print") /\ Writing(write, Goto("mark", <<>>), fail) /\ UNCHANGED of

\* The marker, and then the claim and the fingerprint go.
WriteMarker ==
    LET write(left) == disk' = [disk EXCEPT !.dir[op.name].marker = left]
        unclaim == RemoveClaim(op.name, op.pkg)
        fail(left) == Leave(CASE left = None    -> <<>>
                              [] left = Torn  -> unclaim
                              [] left = "whole" -> RemoveEmpty(op.name, op.pkg) \o unclaim)
    IN  At("mark") /\ Writing(write, Goto("content", unclaim), fail) /\ UNCHANGED of

\* beforeManifest: what the caller wants in the package from the beginning.
WriteContent ==
    /\ At("content")
    /\ \E some \in BOOLEAN :
          /\ disk' = [disk EXCEPT !.dir[op.name].content = some]
          /\ \/ Goto("manifest", <<>>)
             \/ Leave(IF some THEN SetAside(op.name, op.pkg) ELSE RemoveEmpty(op.name, op.pkg))
    /\ UNCHANGED of

\* The manifest: the session is created, whatever happens from here.
WriteManifest ==
    LET write(left) == disk' = [disk EXCEPT !.dir[op.name].manifest = left]
        fail(left) == Leave(IF left = None THEN RemoveIncomplete(op.name) ELSE <<>>)
    IN  At("manifest") /\ Writing(write, Goto("commit", <<>>), fail) /\ UNCHANGED of

\* markPackageReservationCommitted, the marker, and the registry.
Commit ==
    LET write(left) == SetCommit(op.pkg, left)
        fail(left) == Leave(<<>>)
    IN  At("commit") /\ Writing(write, Leave(<<Do("unmark", op.name)>>), fail) /\ UNCHANGED of

-----------------------------------------------------------------------------

\* An error the code raises because of what it finds: unresolved evidence, a
\* torn commit record, a lock that is not free, or another reservation.
Refuse ==
    /\ \/ (At("resolve") /\ Unresolved # {})
       \/ (At("finish") /\ LET p == disk.dir[op.name].pkg
                           IN  disk.res[p] # "whole" \/ disk.commit[p] = Torn)
       \/ (At("lock") /\ disk.lock[op.key] # None /\ ~Recoverable(op.key))
       \/ (At("evidence") /\ Evidence # {})
    /\ Leave(<<>>)
    /\ UNCHANGED <<disk, of>>

\* ensureSessionInLibrary, and planLibraryStartupSync.
Begin(p, s) == op = None /\ op' = NewOp(p, s, "walk") /\ UNCHANGED <<disk, of>>
BeginPlan(p) == op = None /\ op' = NewOp(p, None, "locks") /\ UNCHANGED <<disk, of>>

\* The process dies, or ends: nothing but its files is left of it.
Crash(p) ==
    LET heir(o) == IF o = p THEN Dead ELSE o
        inherited(x) == IF x = None THEN None ELSE [x EXCEPT !.owner = heir(@)]
    IN  /\ of' = [q \in Packages |-> inherited(of[q])]
        /\ disk' = [disk EXCEPT !.lock = [s \in Sessions |-> inherited(disk.lock[s])]]
        /\ op' = IF op # None /\ op.by = p THEN None ELSE op
        /\ vars' # vars

Init == disk = EmptyDisk /\ of = [p \in Packages |-> None] /\ op = None

Next ==
    \/ Remove \/ Released
    \/ \E d \in Names : VisitDir(d) \/ VisitClaim(d)
    \/ Finish \/ Walked \/ Resolve
    \/ MakeLock \/ OwnLock \/ ClaimLockFails \/ LocksDone
    \/ \E s \in Sessions : ClearLock(s)
    \/ DropReservation \/ Proven
    \/ Reserve \/ ClaimName \/ MakeDir \/ WritePrint \/ WriteMarker
    \/ WriteContent \/ WriteManifest \/ Commit
    \/ Refuse
    \/ \E p \in Processes : Crash(p) \/ BeginPlan(p) \/ \E s \in Sessions : Begin(p, s)

Spec == Init /\ [][Next]_vars

-----------------------------------------------------------------------------
(* Properties.                                                             *)

\* The files, what their records say, and the operation have their types.
TypeOK ==
    /\ disk \in Disks
    /\ of \in [Packages -> Records \cup {None}]
    /\ op \in Operations \cup {None}
    /\ op # None => Len(op.todo) <= 7    \* at most an undo and its unlocking

\* A directory with anything in it and no marker is a whole package with its
\* reservation and its commit record; a commit record has its package; and
\* no session has two.  So an unfinished package is never taken for a folder
\* of the user or for a session, and a session that has no package is never
\* refused as one that had.
UnmarkedIsCommitted ==
    /\ \A d \in Names : LET x == disk.dir[d] IN
          x # None /\ ~IsEmpty(x) /\ x.marker = None =>
             x.manifest = "whole" /\ disk.res[x.pkg] = "whole" /\ disk.commit[x.pkg] = "whole"
    /\ \A p \in Packages : disk.commit[p] # None =>
          \E d \in Names : disk.dir[d] # None /\ disk.dir[d].pkg = p
                           /\ disk.dir[d].manifest = "whole"
    /\ \A d, e \in Names :
          d # e /\ disk.dir[d] # None /\ disk.dir[e] # None
          /\ disk.dir[d].manifest = "whole" /\ disk.dir[e].manifest = "whole"
             => of[disk.dir[d].pkg].key # of[disk.dir[e].pkg].key

\* Nothing deletes content: what a directory holds stays there, or, if its
\* manifest was never begun, is renamed into the quarantine.
ContentIsKept ==
    [][\A d \in Names : LET x == disk.dir[d] IN
          x # None /\ (x.content \/ x.manifest # None) =>
             \/ /\ disk'.dir[d] # None /\ disk'.dir[d].pkg = x.pkg
                /\ x.content => disk'.dir[d].content
                /\ x.manifest # None => disk'.dir[d].manifest = x.manifest
             \/ x.manifest = None /\ x.pkg \in disk'.aside]_vars

\* Why an issue is still one after the recovery.
Explained(i) ==
    \/ i.live                 \* an error left it in a process that was still there
    \/ i = Unreadable         \* a marker or a claim was torn
    \/ \E d \in Names :       \* a manifest or a fingerprint was
          \/ /\ disk.dir[d] # None /\ disk.dir[d].manifest = Torn
             /\ of[disk.dir[d].pkg].key = i.key
          \/ /\ disk.claim[d] \in Packages /\ of[disk.claim[d]].key = i.key
             /\ \/ disk.print[d] = Torn
                \/ disk.dir[d].marker = Torn
                \/ disk.dir[d].pkg # disk.claim[d]  \* the name was taken

\* The next operation recovers whatever a process has left when it died,
\* except: a file torn in the middle of its write, the claim of a name that
\* turned out to be another package's, and a lock directory whose owner file
\* is lost or that another recovery has died in.  What an error leaves in a
\* live process waits for its end.  Each refusal is for one of these.
RefusedOnlyFor ==
    [][Refuse =>
        /\ op.stage = "resolve" => \A i \in Unresolved : Explained(i)
        /\ op.stage = "finish" => disk.commit[disk.dir[op.name].pkg] = Torn
        /\ op.stage = "evidence" => \E p \in Packages :
              \/ Torn \in {disk.res[p], disk.commit[p]}
              \/ disk.res[p] = "whole" /\ of[p].key = op.key /\ disk.commit[p] = None /\ ~Gone(p)
        /\ op.stage = "lock" => \/ disk.lock[op.key].owner \in {None, Torn} \cup Processes
                                \/ disk.lock[op.key].claim]_vars

=============================================================================
