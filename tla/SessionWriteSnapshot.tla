------------------------- MODULE SessionWriteSnapshot -------------------------
(***************************************************************************)
(* The durable write snapshot of library-session-write-snapshot.ts: a      *)
(* session package's three files are linked aside, a marker is published,  *)
(* the operation replaces the files one by one, and the removal of the     *)
(* marker commits; whoever finds the marker of a dead operation restores   *)
(* the links.  With it, the operations of library-manager.ts on a package: *)
(* those that take a snapshot, and those that write without one.           *)
(*                                                                         *)
(* All run under the writer lease, one at a time; a crash is the death of  *)
(* the process, or an exception nothing rolls back, at any step.  A file   *)
(* is the transaction that wrote it (0: there is none) and its length, the *)
(* only thing a linked snapshot is verified by; the manifest is the        *)
(* transactions it describes and the user's notes.  A snapshot directory   *)
(* without a marker is never read: it is left out.                         *)
(***************************************************************************)
EXTENDS Naturals, Sequences

CONSTANTS
    MaxTransactions,    \* bound: operations that take a snapshot
    MaxNotes,           \* bound: changes of the notes
    MaxRedactions       \* bound: redactions of the transcript

ASSUME SnapshotAssumption ==
    MaxTransactions \in Nat /\ MaxNotes \in Nat /\ MaxRedactions \in Nat

VARIABLES
    live,       \* the three files
    marker,     \* .swob-write-transaction.json: none, torn (no readable content) or whole
    snapshot,   \* the files in the snapshot directory the marker names
    recorded,   \* what its snapshot.json says of them
    linked,     \* the files it holds a hard link of; of the others it holds a copy
    shared,     \* the linked files whose live inode is still the snapshot's
    now,        \* the last transaction begun
    todo,       \* the files the operation has yet to write
    meta,       \* the manifest the operation has in memory
    restored,   \* how many files a recovery has put back
    after,      \* where a recovery returns to
    redactions,
    spoiled,    \* history: a redaction met the marker of a dead operation
    overlaid,   \* history: a change of the notes did
    pc

vars == <<live, marker, snapshot, recorded, linked, shared, now, todo, meta, restored, after,
          redactions, spoiled, overlaid, pc>>

Files == {"transcript", "backup", "manifest"}
PROTECTED_FILES == <<"transcript", "backup", "manifest">>

\* The files the operations publish, in order: updateTranscript, syncBackup,
\* the startup projection (whatever is out of date), and rebuildSessionTranscript.
Plans == {<<"manifest">>, <<"transcript", "manifest">>, <<"backup", "manifest">>,
          <<"transcript", "backup", "manifest">>,
          <<"transcript", "manifest", "backup", "manifest">>}

Transactions == 0..MaxTransactions
Contents  == [txn : Transactions, length : 0..2]
Manifests == [t : Transactions, b : Transactions, note : 0..MaxNotes]
Packages  == [transcript : Contents, backup : Contents, manifest : Manifests]

Empty  == 0     \* length of a truncated file
Usual  == 1     \* length of a file as its transaction wrote it
Masked == 2     \* another length, after a redaction

\* What may be left of a plan.
Suffixes(plan) == {SubSeq(plan, i, Len(plan)) : i \in 1..(Len(plan) + 1)}
Remainders == UNION {Suffixes(plan) : plan \in Plans}

TypeOK ==
    /\ live \in Packages
    /\ marker \in {"none", "torn", "whole"}
    /\ snapshot \in Packages
    /\ recorded \in Packages
    /\ shared \subseteq linked
    /\ linked \subseteq Files
    /\ now \in Transactions
    /\ todo \in Remainders
    /\ meta \in Manifests
    /\ restored \in 0..3
    /\ after \in {"idle", "read"}
    /\ redactions \in 0..MaxRedactions
    /\ spoiled \in BOOLEAN
    /\ overlaid \in BOOLEAN
    /\ pc \in {"idle", "recover", "restore", "unmark", "read", "link", "mark", "marking",
               "write", "redacting"}

File(n) == [txn |-> n, length |-> IF n = 0 THEN Empty ELSE Usual]
NoPackage == [transcript |-> File(0), backup |-> File(0), manifest |-> [t |-> 0, b |-> 0, note |-> 0]]

Init ==
    /\ live = NoPackage
    /\ marker = "none"
    /\ snapshot = NoPackage
    /\ recorded = NoPackage
    /\ linked = {}
    /\ shared = {}
    /\ now = 0
    /\ todo = <<>>
    /\ meta = NoPackage.manifest
    /\ restored = 0
    /\ after = "idle"
    /\ redactions = 0
    /\ spoiled = FALSE
    /\ overlaid = FALSE
    /\ pc = "idle"

evidence == <<snapshot, recorded, linked>>
history  == <<redactions, spoiled, overlaid>>

------------------------------------------------------------------------------
(* The operations that take a snapshot. *)

\* recoverIncompleteSessionWriteSnapshot comes first, before the manifest is
\* read.
Start ==
    /\ pc = "idle"
    /\ now < MaxTransactions
    /\ now' = now + 1
    /\ \E plan \in Plans : todo' = plan
    /\ after' = "read"
    /\ pc' = "recover"
    /\ UNCHANGED <<live, marker, evidence, shared, meta, restored, history>>

ReadMeta_Cached ==
    /\ pc = "read"
    /\ pc' = "link"
    /\ UNCHANGED <<live, marker, evidence, shared, now, todo, meta, restored, after, history>>

\* The manifest is read from disk, after the recovery.
ReadMeta ==
    /\ pc = "read"
    /\ meta' = live.manifest
    /\ pc' = "link"
    /\ UNCHANGED <<live, marker, evidence, shared, now, todo, restored, after, history>>

\* beginSessionWriteSnapshot (whose own recovery finds no marker): each file
\* that is there is hard-linked, or copied where a link is refused.
Link ==
    /\ pc = "link"
    /\ snapshot' = live
    /\ recorded' = live
    /\ \E links \in SUBSET Files : linked' = links /\ shared' = links
    /\ pc' = "mark"
    /\ UNCHANGED <<live, marker, now, todo, meta, restored, after, history>>

CreateMarker ==
    /\ pc = "mark"
    /\ marker' = "torn"
    /\ pc' = "marking"
    /\ UNCHANGED <<live, evidence, shared, now, todo, meta, restored, after, history>>

WriteMarker ==
    /\ pc = "marking"
    /\ marker' = "whole"
    /\ pc' = "write"
    /\ UNCHANGED <<live, evidence, shared, now, todo, meta, restored, after, history>>

\* What replacing a file does to the snapshot: nothing, the live file has a
\* new inode.
Detach_InPlace(f) ==
    /\ UNCHANGED shared
    /\ snapshot' = IF f \in shared THEN [snapshot EXCEPT ![f] = live'[f]] ELSE snapshot

Detach(f) == shared' = shared \ {f} /\ UNCHANGED snapshot

\* The operation publishes its next file, and keeps the manifest in step.
Publish(f) ==
    /\ live' = IF f = "manifest" THEN [live EXCEPT !.manifest = meta] ELSE [live EXCEPT ![f] = File(now)]
    /\ meta' = CASE f = "transcript" -> [meta EXCEPT !.t = now]
                 [] f = "backup"     -> [meta EXCEPT !.b = now]
                 [] f = "manifest"   -> meta
    /\ Detach(f)

Write ==
    /\ pc = "write"
    /\ todo # <<>>
    /\ Publish(Head(todo))
    /\ todo' = Tail(todo)
    /\ UNCHANGED <<marker, recorded, linked, now, restored, after, history, pc>>

Commit ==
    /\ pc = "write"
    /\ todo = <<>>
    /\ marker' = "none"
    /\ pc' = "idle"
    /\ UNCHANGED <<live, evidence, shared, now, todo, meta, restored, after, history>>

Throw_Finally ==
    /\ pc = "write"
    /\ marker' = "none"
    /\ pc' = "idle"
    /\ UNCHANGED <<live, evidence, shared, now, todo, meta, restored, after, history>>

\* The operation throws: rollback.
Throw ==
    /\ pc = "write"
    /\ after' = "idle"
    /\ pc' = "recover"
    /\ UNCHANGED <<live, marker, evidence, shared, now, todo, meta, restored, history>>

------------------------------------------------------------------------------
(* recoverIncompleteSessionWriteSnapshot *)

\* readValidatedSnapshot: a linked file is verified by its length (and inode),
\* a copied one by its hash.
Validated ==
    /\ \A f \in {"transcript", "backup"} :
         IF f \in linked THEN snapshot[f].length = recorded[f].length ELSE snapshot[f] = recorded[f]
    /\ snapshot.manifest = recorded.manifest

\* An unreadable marker, or evidence that does not verify, stops the operation
\* and stays.
Recover ==
    /\ pc = "recover"
    /\ pc' = CASE marker = "none"                -> after
               [] marker = "torn"                -> "idle"
               [] marker = "whole" /\ Validated  -> "restore"
               [] marker = "whole" /\ ~Validated -> "idle"
    /\ restored' = 0
    /\ UNCHANGED <<live, marker, evidence, shared, now, todo, meta, after, history>>

Restored_IfPresent(i) ==
    IF snapshot[PROTECTED_FILES[i]] = File(0) THEN live
    ELSE [live EXCEPT ![PROTECTED_FILES[i]] = snapshot[PROTECTED_FILES[i]]]

\* The live files once the i-th is restored: one that was absent is unlinked.
Restored(i) == [live EXCEPT ![PROTECTED_FILES[i]] = snapshot[PROTECTED_FILES[i]]]

Relinked_Always(i) == {PROTECTED_FILES[i]}

\* A linked file is restored by another link to the same inode.
Relinked(i) == {PROTECTED_FILES[i]} \cap linked

Restore ==
    /\ pc = "restore"
    /\ live' = Restored(restored + 1)
    /\ shared' = shared \cup Relinked(restored + 1)
    /\ restored' = restored + 1
    /\ pc' = IF restored + 1 = Len(PROTECTED_FILES) THEN "unmark" ELSE "restore"
    /\ UNCHANGED <<marker, evidence, now, todo, meta, after, history>>

Unmark ==
    /\ pc = "unmark"
    /\ marker' = "none"
    /\ pc' = after
    /\ UNCHANGED <<live, evidence, shared, now, todo, meta, restored, after, history>>

------------------------------------------------------------------------------
(* The operations that write without a snapshot, and without recovery. *)

\* setSessionMetaInLibrary, and the other callers of writeSessionMeta: the
\* manifest is read, changed and published as a new inode.
SetSessionMeta ==
    /\ pc = "idle"
    /\ live.manifest.note < MaxNotes
    /\ live' = [live EXCEPT !.manifest.note = @ + 1]
    /\ Detach("manifest")
    /\ overlaid' = (overlaid \/ marker = "whole")
    /\ UNCHANGED <<marker, recorded, linked, now, todo, meta, restored, after,
                   redactions, spoiled, pc>>

\* A write into the live transcript itself; a snapshot that shares its inode
\* changes with it.
InPlace(length) ==
    /\ live' = [live EXCEPT !.transcript.length = length]
    /\ snapshot' = IF "transcript" \in shared
                    THEN [snapshot EXCEPT !.transcript.length = length] ELSE snapshot

\* redactLibraryTranscripts finds a secret: the transcript is truncated...
Redact ==
    /\ pc = "idle"
    /\ live.transcript.length = Usual
    /\ redactions < MaxRedactions
    /\ redactions' = redactions + 1
    /\ InPlace(Empty)
    /\ spoiled' = (spoiled \/ marker = "whole")
    /\ pc' = "redacting"
    /\ UNCHANGED <<marker, recorded, linked, shared, now, todo, meta, restored, after, overlaid>>

\* ...and written again, masked.
WriteRedacted ==
    /\ pc = "redacting"
    /\ \E length \in {Usual, Masked} : InPlace(length)
    /\ pc' = "idle"
    /\ UNCHANGED <<marker, recorded, linked, shared, now, todo, meta, restored, after, history>>

------------------------------------------------------------------------------
Crash ==
    /\ pc # "idle"
    /\ pc' = "idle"
    /\ UNCHANGED <<live, marker, evidence, shared, now, todo, meta, restored, after, history>>

Transacting == Start \/ ReadMeta \/ Link \/ CreateMarker \/ WriteMarker \/ Write \/ Commit \/ Throw
Recovering  == Recover \/ Restore \/ Unmark
Unprotected == SetSessionMeta \/ Redact \/ WriteRedacted

Next == Transacting \/ Recovering \/ Unprotected \/ Crash

Spec == Init /\ [][Next]_vars

------------------------------------------------------------------------------
(* Properties *)

\* What the package is once whatever is left of a dead operation has been
\* recovered.
Recovered == IF marker = "whole" THEN snapshot ELSE live
Package ==
    [transcript |-> Recovered.transcript.txn,
     backup |-> Recovered.backup.txn,
     manifest |-> Recovered.manifest]

\* An operation replaces the three files together or not at all, wherever it
\* or its recovery crashes, throws or is blocked (the test's "SIGKILL at three
\* publish points", at every point).
Transaction == INSTANCE PackageTransaction WITH package <- Package
ImplementsTransaction == Transaction!PackageSpec

\* Between operations the manifest describes the files that are there, unless
\* a whole marker says otherwise: a marker that cannot be read any more never
\* hides a change (readMarker's 'corrupt-marker').
SettledIsDescribed ==
    (pc = "idle" /\ marker # "whole") =>
      /\ live.manifest.t = live.transcript.txn
      /\ live.manifest.b = live.backup.txn

\* No write through the package's own files reaches the snapshot (begin: "A hard
\* link is an O(1) immutable snapshot because every protected writer
\* publishes a new inode").
SnapshotImmutable == marker = "whole" => snapshot = recorded

\* That holds unless a redaction met the marker of a dead operation.
SnapshotImmutableUnlessRedacted == ~spoiled => SnapshotImmutable

\* The notes the user saved are never taken back, unless they were saved over
\* the marker of a dead operation (setSessionMetaInLibrary does not recover).
NotesNeverTakenBack ==
    [][~overlaid => live'.manifest.note >= live.manifest.note]_vars
==============================================================================
