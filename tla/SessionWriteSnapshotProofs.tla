---------------------- MODULE SessionWriteSnapshotProofs ----------------------
(***************************************************************************)
(* The snapshot keeps a package whole, for any number of operations,       *)
(* changes of the notes and redactions, whichever step each of them stops  *)
(* at.                                                                     *)
(*                                                                         *)
(* None of it is inductive as it stands.  What an operation has half       *)
(* written may be anything, so the argument is about the one of the two    *)
(* copies that counts: the live files until the marker is whole, and the   *)
(* snapshot from then on until the marker is gone.                         *)
(***************************************************************************)
EXTENDS SessionWriteSnapshot, SequenceTheorems, TLAPS

\* The manifest of a package names the transactions of its files.
Describes(p) == p.manifest.t = p.transcript.txn /\ p.manifest.b = p.backup.txn

\* The files that count are described by the manifest beside them.
CopyDescribed ==
    /\ marker # "whole" => Describes(live)
    /\ marker = "whole" => Describes(snapshot)

\* No file is of an operation that has not begun.
NoneLater ==
    /\ live.transcript.txn <= now /\ live.backup.txn <= now
    /\ snapshot.transcript.txn <= now /\ snapshot.backup.txn <= now

\* The marker says how far an operation or a recovery has come.
MarkerTells ==
    /\ pc \in {"read", "link", "mark"} => marker = "none"
    /\ pc = "marking" => marker = "torn"
    /\ pc \in {"write", "restore", "unmark"} => marker = "whole"

EndsInManifest(q) == q = <<>> \/ q[Len(q)] = "manifest"

\* The snapshot is taken of the files, and the manifest read, before any of
\* them is replaced.
SnapshotTaken ==
    /\ pc \in {"link", "mark", "marking"} => meta = live.manifest
    /\ pc \in {"mark", "marking"} => snapshot = live /\ recorded = live
    /\ \/ pc \in {"read", "link", "mark", "marking"}
       \/ pc \in {"recover", "restore", "unmark"} /\ after = "read"
       => todo # <<>>

\* While it writes, an operation moves each file forward and takes the notes
\* along; the manifest is published last.
WritesForward ==
    pc = "write" =>
      /\ meta.t = live.transcript.txn /\ meta.b = live.backup.txn
      /\ meta.note = live.manifest.note /\ meta.note = snapshot.manifest.note
      /\ live.transcript.txn >= snapshot.transcript.txn
      /\ live.backup.txn >= snapshot.backup.txn
      /\ todo = <<>> => live.manifest = meta

\* A recovery has put back the files before the one it is at.
RestoresInOrder ==
    /\ pc = "restore" =>
         /\ restored \in 0..2
         /\ restored >= 1 => live.transcript = snapshot.transcript
         /\ restored >= 2 => live.backup = snapshot.backup
    /\ pc = "unmark" => live = snapshot

\* The notes are the same in both copies unless they were saved over a marker,
\* and the snapshot is as recorded unless a redaction met it.
MarkerUntouched ==
    /\ marker = "whole" /\ ~overlaid => live.manifest.note = snapshot.manifest.note
    /\ SnapshotImmutableUnlessRedacted
    /\ pc = "redacting" /\ marker = "whole" => spoiled

SnapshotInv ==
    /\ TypeOK
    /\ EndsInManifest(todo)
    /\ CopyDescribed
    /\ NoneLater
    /\ MarkerTells
    /\ SnapshotTaken
    /\ WritesForward
    /\ RestoresInOrder
    /\ MarkerUntouched

------------------------------------------------------------------------------
(* The files an operation has yet to write *)

LEMMA NothingLeft == Len(<<>>) = 0
  OBVIOUS

LEMMA PlansEndInManifest ==
  ASSUME NEW plan \in Plans
  PROVE  plan \in Seq(Files) /\ Len(plan) \in 1..4 /\ plan[Len(plan)] = "manifest"
<1>1. CASE plan = <<"manifest">>
  BY <1>1 DEF Files
<1>2. CASE plan = <<"transcript", "manifest">>
  BY <1>2 DEF Files
<1>3. CASE plan = <<"backup", "manifest">>
  BY <1>3 DEF Files
<1>4. CASE plan = <<"transcript", "backup", "manifest">>
  BY <1>4 DEF Files
<1>5. CASE plan = <<"transcript", "manifest", "backup", "manifest">>
  BY <1>5 DEF Files
<1> QED BY <1>1, <1>2, <1>3, <1>4, <1>5 DEF Plans

LEMMA WholePlan ==
  ASSUME NEW plan \in Plans
  PROVE  plan \in Remainders /\ plan # <<>> /\ EndsInManifest(plan)
<1>1. Len(plan) \in 1..4
  BY PlansEndInManifest
<1>2. SubSeq(plan, 1, Len(plan)) = plan
  BY PlansEndInManifest, SubSeqFull
<1>3. 1 \in 1..(Len(plan) + 1) /\ Len(plan) # 0
  BY <1>1
<1>4. plan \in Suffixes(plan)
  BY <1>2, <1>3 DEF Suffixes
<1>5. plan # <<>>
  BY <1>3, NothingLeft, Zenon
<1> QED BY <1>4, <1>5, PlansEndInManifest DEF Remainders, EndsInManifest

LEMMA NothingRemains == <<>> \in Remainders
<1>1. <<"manifest">> \in Plans
  BY DEF Plans
<1>2. SubSeq(<<"manifest">>, 2, 1) = <<>> /\ Len(<<"manifest">>) = 1
  BY SubSeqEmpty
<1>3. <<>> \in Suffixes(<<"manifest">>)
  BY <1>2 DEF Suffixes
<1> QED BY <1>1, <1>3 DEF Remainders

\* After the next file the rest is still the end of a plan; the last file of a
\* plan is the manifest.
LEMMA NextFile ==
  ASSUME NEW q \in Remainders, EndsInManifest(q), q # <<>>
  PROVE  /\ Head(q) \in Files
         /\ Tail(q) \in Remainders /\ EndsInManifest(Tail(q))
         /\ Tail(q) = <<>> => Head(q) = "manifest"
<1>1. PICK plan \in Plans : q \in Suffixes(plan)
  BY DEF Remainders
<1>2. PICK i \in 1..(Len(plan) + 1) : q = SubSeq(plan, i, Len(plan))
  BY <1>1 DEF Suffixes
<1>3. plan \in Seq(Files) /\ Len(plan) \in 1..4
  BY PlansEndInManifest
<1>4. i \in 1..Len(plan)
  BY <1>2, <1>3, SubSeqEmpty
<1>5. q \in Seq(Files)
  BY <1>2, <1>3, <1>4, SubSeqProperties
<1>6. Tail(q) \in Remainders
  <2>1. Tail(q) = SubSeq(plan, i + 1, Len(plan))
    BY <1>2, <1>3, <1>4, HeadTailOfSubSeq
  <2>2. i + 1 \in 1..(Len(plan) + 1)
    BY <1>3, <1>4
  <2>3. Tail(q) \in Suffixes(plan)
    BY <2>1, <2>2 DEF Suffixes
  <2> QED BY <2>3 DEF Remainders
<1>7. /\ Head(q) \in Files /\ Tail(q) \in Seq(Files) /\ Len(Tail(q)) = Len(q) - 1
      /\ \A j \in 1..Len(Tail(q)) : Tail(q)[j] = q[j + 1]
  BY <1>5, HeadTailProperties
<1>8. Len(q) \in Nat \ {0}
  BY <1>5, EmptySeq
<1>9. EndsInManifest(Tail(q))
  BY <1>7, <1>8 DEF EndsInManifest
<1>10. Tail(q) = <<>> => Head(q) = "manifest"
  <2>1. Tail(q) = <<>> => Len(Tail(q)) = 0
    BY NothingLeft, Zenon
  <2>2. Tail(q) = <<>> => Len(q) = 1
    BY <1>7, <1>8, <2>1
  <2>3. q[Len(q)] = "manifest"
    BY DEF EndsInManifest
  <2> QED BY <1>5, <2>2, <2>3
<1> QED BY <1>6, <1>7, <1>9, <1>10

------------------------------------------------------------------------------
(* The invariant *)

LEMMA PackageTypes ==
  ASSUME NEW p \in Packages
  PROVE  /\ p.transcript \in Contents /\ p.backup \in Contents /\ p.manifest \in Manifests
         /\ p.transcript.txn \in Nat /\ p.backup.txn \in Nat /\ p.manifest.note \in Nat
  BY DEF Packages, Contents, Manifests, Transactions

LEMMA InitEstablishes == Init => SnapshotInv
<1> SUFFICES ASSUME Init PROVE SnapshotInv
  OBVIOUS
<1> USE DEF Init
<1>1. NoPackage \in Packages /\ NoPackage.manifest \in Manifests
  BY SnapshotAssumption DEF NoPackage, File, Empty, Packages, Contents, Manifests, Transactions
<1>2. TypeOK
  <2>1. todo \in Remainders
    BY NothingRemains
  <2>2. 0 \in Transactions /\ 0 \in 0..MaxRedactions
    BY SnapshotAssumption DEF Transactions
  <2>3. meta \in Manifests
    BY <1>1
  <2>4. live \in Packages /\ snapshot \in Packages /\ recorded \in Packages
    BY <1>1
  <2>5. shared \subseteq linked /\ linked \subseteq Files
    OBVIOUS
  <2>6. marker = "none" /\ restored \in 0..3 /\ after = "idle" /\ pc = "idle"
    OBVIOUS
  <2>8. spoiled \in BOOLEAN /\ overlaid \in BOOLEAN
    BY Zenon
  <2>7. now \in Transactions /\ redactions \in 0..MaxRedactions
    BY <2>2
  <2> HIDE DEF Init
  <2> QED BY <2>1, <2>3, <2>4, <2>5, <2>6, <2>7, <2>8 DEF TypeOK
<1> USE DEF NoPackage, File
<1>3. EndsInManifest(todo) /\ CopyDescribed /\ NoneLater /\ MarkerTells /\ SnapshotTaken
      /\ WritesForward /\ RestoresInOrder
  BY DEF EndsInManifest, CopyDescribed, Describes, NoneLater, MarkerTells, SnapshotTaken,
     WritesForward, RestoresInOrder
<1>4. MarkerUntouched
  BY DEF MarkerUntouched, SnapshotImmutableUnlessRedacted, SnapshotImmutable
<1> QED BY <1>2, <1>3, <1>4 DEF SnapshotInv

\* The parts of the invariant that are about what the steps outside Write,
\* Restore and the redaction leave alone.
LEMMA StartKeeps == SnapshotInv /\ Start => SnapshotInv'
<1> SUFFICES ASSUME SnapshotInv, Start PROVE SnapshotInv'
  OBVIOUS
<1> USE DEF SnapshotInv, Start, evidence, history
<1>1. TypeOK
  OBVIOUS
<1>2. todo' \in Remainders /\ todo' # <<>> /\ EndsInManifest(todo')
  BY WholePlan
<1>3. now \in Nat /\ now' = now + 1 /\ now' \in Transactions
  BY <1>1, SnapshotAssumption DEF TypeOK, Transactions
<1>4. TypeOK'
  BY <1>1, <1>2, <1>3 DEF TypeOK
<1>5. NoneLater'
  <2>1. live.transcript.txn \in Nat /\ live.backup.txn \in Nat
        /\ snapshot.transcript.txn \in Nat /\ snapshot.backup.txn \in Nat
    BY <1>1, PackageTypes DEF TypeOK
  <2> QED BY <1>3, <2>1 DEF NoneLater
<1>6. CopyDescribed' /\ MarkerTells' /\ SnapshotTaken' /\ WritesForward' /\ RestoresInOrder'
  BY <1>2 DEF CopyDescribed, MarkerTells, SnapshotTaken, WritesForward, RestoresInOrder
<1>7. MarkerUntouched'
  BY DEF MarkerUntouched, SnapshotImmutableUnlessRedacted, SnapshotImmutable
<1>8. EndsInManifest(todo)'
  BY <1>2 DEF EndsInManifest
<1> QED BY <1>4, <1>5, <1>6, <1>7, <1>8

LEMMA ReadMetaKeeps == SnapshotInv /\ ReadMeta => SnapshotInv'
<1> SUFFICES ASSUME SnapshotInv, ReadMeta PROVE SnapshotInv'
  OBVIOUS
<1> USE DEF SnapshotInv, ReadMeta, evidence, history
<1>1. TypeOK'
  BY PackageTypes DEF TypeOK
<1>2. EndsInManifest(todo)' /\ CopyDescribed' /\ NoneLater'
  BY DEF EndsInManifest, CopyDescribed, Describes, NoneLater, MarkerTells, SnapshotTaken, WritesForward
<1>3. MarkerTells' /\ SnapshotTaken'
  BY DEF MarkerTells, SnapshotTaken
<1>4. WritesForward' /\ RestoresInOrder'
  BY DEF WritesForward, RestoresInOrder, MarkerTells, SnapshotTaken, CopyDescribed, Describes
<1>5. MarkerUntouched'
  BY DEF MarkerUntouched, SnapshotImmutableUnlessRedacted, SnapshotImmutable, MarkerTells, SnapshotTaken
<1> QED BY <1>1, <1>2, <1>3, <1>4, <1>5

LEMMA LinkKeeps == SnapshotInv /\ Link => SnapshotInv'
<1> SUFFICES ASSUME SnapshotInv, Link PROVE SnapshotInv'
  OBVIOUS
<1> USE DEF SnapshotInv, Link, evidence, history
<1>1. TypeOK'
  BY DEF TypeOK
<1>2. EndsInManifest(todo)' /\ CopyDescribed' /\ NoneLater'
  BY DEF EndsInManifest, CopyDescribed, Describes, NoneLater, MarkerTells, SnapshotTaken, WritesForward
<1>3. MarkerTells' /\ SnapshotTaken'
  BY DEF MarkerTells, SnapshotTaken
<1>4. WritesForward' /\ RestoresInOrder'
  BY DEF WritesForward, RestoresInOrder, MarkerTells, SnapshotTaken, CopyDescribed, Describes
<1>5. MarkerUntouched'
  BY DEF MarkerUntouched, SnapshotImmutableUnlessRedacted, SnapshotImmutable, MarkerTells, SnapshotTaken
<1> QED BY <1>1, <1>2, <1>3, <1>4, <1>5

LEMMA CreateMarkerKeeps == SnapshotInv /\ CreateMarker => SnapshotInv'
<1> SUFFICES ASSUME SnapshotInv, CreateMarker PROVE SnapshotInv'
  OBVIOUS
<1> USE DEF SnapshotInv, CreateMarker, evidence, history
<1>1. TypeOK'
  BY DEF TypeOK
<1>2. EndsInManifest(todo)' /\ CopyDescribed' /\ NoneLater'
  BY DEF EndsInManifest, CopyDescribed, Describes, NoneLater, MarkerTells, SnapshotTaken, WritesForward
<1>3. MarkerTells' /\ SnapshotTaken'
  BY DEF MarkerTells, SnapshotTaken
<1>4. WritesForward' /\ RestoresInOrder'
  BY DEF WritesForward, RestoresInOrder, MarkerTells, SnapshotTaken, CopyDescribed, Describes
<1>5. MarkerUntouched'
  BY DEF MarkerUntouched, SnapshotImmutableUnlessRedacted, SnapshotImmutable, MarkerTells, SnapshotTaken
<1> QED BY <1>1, <1>2, <1>3, <1>4, <1>5

LEMMA WriteMarkerKeeps == SnapshotInv /\ WriteMarker => SnapshotInv'
<1> SUFFICES ASSUME SnapshotInv, WriteMarker PROVE SnapshotInv'
  OBVIOUS
<1> USE DEF SnapshotInv, WriteMarker, evidence, history
<1>1. TypeOK'
  BY DEF TypeOK
<1>2. EndsInManifest(todo)' /\ CopyDescribed' /\ NoneLater'
  BY DEF EndsInManifest, CopyDescribed, Describes, NoneLater, MarkerTells, SnapshotTaken, WritesForward
<1>3. MarkerTells' /\ SnapshotTaken'
  BY DEF MarkerTells, SnapshotTaken
<1>4. WritesForward' /\ RestoresInOrder'
  BY PackageTypes DEF TypeOK, WritesForward, RestoresInOrder, MarkerTells, SnapshotTaken, CopyDescribed, Describes
<1>5. MarkerUntouched'
  BY DEF MarkerUntouched, SnapshotImmutableUnlessRedacted, SnapshotImmutable, MarkerTells, SnapshotTaken
<1> QED BY <1>1, <1>2, <1>3, <1>4, <1>5

LEMMA CommitKeeps == SnapshotInv /\ Commit => SnapshotInv'
<1> SUFFICES ASSUME SnapshotInv, Commit PROVE SnapshotInv'
  OBVIOUS
<1> USE DEF SnapshotInv, Commit, evidence, history
<1>1. TypeOK'
  BY DEF TypeOK
<1>2. EndsInManifest(todo)' /\ CopyDescribed' /\ NoneLater'
  BY DEF EndsInManifest, CopyDescribed, Describes, NoneLater, MarkerTells, SnapshotTaken, WritesForward
<1>3. MarkerTells' /\ SnapshotTaken'
  BY DEF MarkerTells, SnapshotTaken
<1>4. WritesForward' /\ RestoresInOrder'
  BY DEF WritesForward, RestoresInOrder, MarkerTells, SnapshotTaken, CopyDescribed, Describes
<1>5. MarkerUntouched'
  BY DEF MarkerUntouched, SnapshotImmutableUnlessRedacted, SnapshotImmutable, MarkerTells, SnapshotTaken
<1> QED BY <1>1, <1>2, <1>3, <1>4, <1>5

LEMMA ThrowKeeps == SnapshotInv /\ Throw => SnapshotInv'
<1> SUFFICES ASSUME SnapshotInv, Throw PROVE SnapshotInv'
  OBVIOUS
<1> USE DEF SnapshotInv, Throw, evidence, history
<1>1. TypeOK'
  BY DEF TypeOK
<1>2. EndsInManifest(todo)' /\ CopyDescribed' /\ NoneLater'
  BY DEF EndsInManifest, CopyDescribed, Describes, NoneLater, MarkerTells, SnapshotTaken, WritesForward
<1>3. MarkerTells' /\ SnapshotTaken'
  BY DEF MarkerTells, SnapshotTaken
<1>4. WritesForward' /\ RestoresInOrder'
  BY DEF WritesForward, RestoresInOrder, MarkerTells, SnapshotTaken, CopyDescribed, Describes
<1>5. MarkerUntouched'
  BY DEF MarkerUntouched, SnapshotImmutableUnlessRedacted, SnapshotImmutable, MarkerTells, SnapshotTaken
<1> QED BY <1>1, <1>2, <1>3, <1>4, <1>5

LEMMA RecoverKeeps == SnapshotInv /\ Recover => SnapshotInv'
<1> SUFFICES ASSUME SnapshotInv, Recover PROVE SnapshotInv'
  OBVIOUS
<1> USE DEF SnapshotInv, Recover, evidence, history
<1>1. TypeOK'
  BY DEF TypeOK
<1>2. EndsInManifest(todo)' /\ CopyDescribed' /\ NoneLater'
  BY DEF EndsInManifest, CopyDescribed, Describes, NoneLater, MarkerTells, SnapshotTaken, WritesForward
<1>3. MarkerTells' /\ SnapshotTaken'
  BY DEF TypeOK, MarkerTells, SnapshotTaken
<1>4. WritesForward' /\ RestoresInOrder'
  BY DEF TypeOK, WritesForward, RestoresInOrder, MarkerTells, SnapshotTaken, CopyDescribed, Describes
<1>5. MarkerUntouched'
  BY DEF MarkerUntouched, SnapshotImmutableUnlessRedacted, SnapshotImmutable, MarkerTells, SnapshotTaken
<1> QED BY <1>1, <1>2, <1>3, <1>4, <1>5

LEMMA UnmarkKeeps == SnapshotInv /\ Unmark => SnapshotInv'
<1> SUFFICES ASSUME SnapshotInv, Unmark PROVE SnapshotInv'
  OBVIOUS
<1> USE DEF SnapshotInv, Unmark, evidence, history
<1>1. TypeOK'
  BY DEF TypeOK
<1>2. EndsInManifest(todo)' /\ CopyDescribed' /\ NoneLater'
  BY DEF EndsInManifest, CopyDescribed, Describes, NoneLater, MarkerTells, SnapshotTaken, RestoresInOrder
<1>3. MarkerTells' /\ SnapshotTaken'
  BY DEF TypeOK, MarkerTells, SnapshotTaken
<1>4. WritesForward' /\ RestoresInOrder'
  BY DEF TypeOK, WritesForward, RestoresInOrder, MarkerTells, SnapshotTaken, CopyDescribed, Describes
<1>5. MarkerUntouched'
  BY DEF MarkerUntouched, SnapshotImmutableUnlessRedacted, SnapshotImmutable, MarkerTells, SnapshotTaken
<1> QED BY <1>1, <1>2, <1>3, <1>4, <1>5

LEMMA CrashKeeps == SnapshotInv /\ Crash => SnapshotInv'
<1> SUFFICES ASSUME SnapshotInv, Crash PROVE SnapshotInv'
  OBVIOUS
<1> USE DEF SnapshotInv, Crash, evidence, history
<1>1. TypeOK'
  BY DEF TypeOK
<1>2. EndsInManifest(todo)' /\ CopyDescribed' /\ NoneLater'
  BY DEF EndsInManifest, CopyDescribed, Describes, NoneLater, MarkerTells, SnapshotTaken, WritesForward
<1>3. MarkerTells' /\ SnapshotTaken'
  BY DEF MarkerTells, SnapshotTaken
<1>4. WritesForward' /\ RestoresInOrder'
  BY DEF WritesForward, RestoresInOrder, MarkerTells, SnapshotTaken, CopyDescribed, Describes
<1>5. MarkerUntouched'
  BY DEF MarkerUntouched, SnapshotImmutableUnlessRedacted, SnapshotImmutable, MarkerTells, SnapshotTaken
<1> QED BY <1>1, <1>2, <1>3, <1>4, <1>5

LEMMA WriteKeeps == SnapshotInv /\ Write => SnapshotInv'
<1> SUFFICES ASSUME SnapshotInv, Write PROVE SnapshotInv'
  OBVIOUS
<1> DEFINE f == Head(todo)
<1> USE DEF SnapshotInv
<1>1. /\ pc = "write" /\ pc' = "write" /\ marker = "whole" /\ marker' = "whole"
      /\ snapshot' = snapshot /\ shared' \subseteq shared
      /\ now' = now /\ todo # <<>> /\ todo' = Tail(todo)
      /\ recorded' = recorded /\ linked' = linked /\ restored' = restored /\ after' = after
      /\ redactions' = redactions /\ spoiled' = spoiled /\ overlaid' = overlaid
  BY DEF Write, Publish, Detach, MarkerTells, history
<1>2. f \in Files /\ todo' \in Remainders /\ EndsInManifest(todo')
      /\ (todo' = <<>> => f = "manifest")
  BY <1>1, NextFile DEF TypeOK
<1>3. /\ live' = IF f = "manifest" THEN [live EXCEPT !.manifest = meta] ELSE [live EXCEPT ![f] = File(now)]
      /\ meta' = CASE f = "transcript" -> [meta EXCEPT !.t = now]
                   [] f = "backup"     -> [meta EXCEPT !.b = now]
                   [] f = "manifest"   -> meta
  BY DEF Write, Publish
<1>4. /\ live \in Packages /\ snapshot \in Packages /\ meta \in Manifests
      /\ now \in Transactions /\ now \in Nat
  BY DEF TypeOK, Transactions
<1>5. File(now) \in Contents /\ File(now).txn = now
  BY <1>4 DEF File, Contents, Empty, Usual
<1>6. /\ live' \in Packages /\ meta' \in Manifests
      /\ live'.transcript.txn = IF f = "transcript" THEN now ELSE live.transcript.txn
      /\ live'.backup.txn = IF f = "backup" THEN now ELSE live.backup.txn
      /\ live'.manifest = IF f = "manifest" THEN meta ELSE live.manifest
      /\ meta'.t = IF f = "transcript" THEN now ELSE meta.t
      /\ meta'.b = IF f = "backup" THEN now ELSE meta.b
      /\ meta'.note = meta.note
  <2>1. CASE f = "transcript"
    BY <2>1, <1>3, <1>4, <1>5 DEF Packages, Manifests
  <2>2. CASE f = "backup"
    BY <2>2, <1>3, <1>4, <1>5 DEF Packages, Manifests
  <2>3. CASE f = "manifest"
    BY <2>3, <1>3, <1>4, <1>5 DEF Packages, Manifests
  <2> HIDE DEF f
  <2> QED BY <2>1, <2>2, <2>3, <1>2 DEF Files
<1> HIDE DEF f
<1>7. TypeOK'
  BY <1>1, <1>2, <1>6 DEF TypeOK
<1>8. /\ live.transcript.txn \in Nat /\ live.backup.txn \in Nat
      /\ snapshot.transcript.txn \in Nat /\ snapshot.backup.txn \in Nat
  BY <1>4, PackageTypes
<1>9. CopyDescribed' /\ NoneLater' /\ MarkerTells' /\ SnapshotTaken' /\ RestoresInOrder'
  BY <1>1, <1>4, <1>6, <1>8 DEF CopyDescribed, Describes, NoneLater, MarkerTells, SnapshotTaken,
     RestoresInOrder
<1>10. WritesForward'
  <2>1. todo' = <<>> => live'.manifest = meta'
    BY <1>2, <1>3, <1>6
  <2> QED BY <1>1, <1>4, <1>6, <1>8, <2>1 DEF WritesForward, NoneLater
<1>11. MarkerUntouched'
  BY <1>1, <1>6 DEF MarkerUntouched, WritesForward, SnapshotImmutableUnlessRedacted,
     SnapshotImmutable
<1> QED BY <1>2, <1>7, <1>9, <1>10, <1>11

LEMMA RestoreKeeps == SnapshotInv /\ Restore => SnapshotInv'
<1> SUFFICES ASSUME SnapshotInv, Restore PROVE SnapshotInv'
  OBVIOUS
<1> USE DEF SnapshotInv
<1>1. /\ pc = "restore" /\ marker = "whole" /\ marker' = "whole" /\ restored \in 0..2
      /\ live \in Packages /\ snapshot \in Packages
      /\ snapshot' = snapshot /\ recorded' = recorded /\ linked' = linked /\ now' = now
      /\ todo' = todo /\ meta' = meta /\ after' = after
      /\ redactions' = redactions /\ spoiled' = spoiled /\ overlaid' = overlaid
      /\ restored' = restored + 1
  BY DEF Restore, evidence, history, TypeOK, MarkerTells, RestoresInOrder
<1>2. /\ live' \in Packages
      /\ live'.transcript = IF restored = 0 THEN snapshot.transcript ELSE live.transcript
      /\ live'.backup = IF restored = 1 THEN snapshot.backup ELSE live.backup
      /\ live'.manifest = IF restored = 2 THEN snapshot.manifest ELSE live.manifest
      /\ pc' = IF restored = 2 THEN "unmark" ELSE "restore"
  <2>1. CASE restored = 0
    BY <2>1, <1>1 DEF Restore, Restored, PROTECTED_FILES, Packages
  <2>2. CASE restored = 1
    BY <2>2, <1>1 DEF Restore, Restored, PROTECTED_FILES, Packages
  <2>3. CASE restored = 2
    BY <2>3, <1>1 DEF Restore, Restored, PROTECTED_FILES, Packages
  <2> QED BY <1>1, <2>1, <2>2, <2>3
<1>3. shared' \subseteq linked'
  BY <1>1 DEF Restore, Relinked, TypeOK
<1>4. TypeOK'
  BY <1>1, <1>2, <1>3 DEF TypeOK
<1>5. RestoresInOrder'
  <2>1. restored = 2 => live' = snapshot
    BY <1>1, <1>2 DEF RestoresInOrder, Packages
  <2> QED BY <1>1, <1>2, <2>1 DEF RestoresInOrder
<1>6. EndsInManifest(todo)' /\ CopyDescribed' /\ MarkerTells' /\ SnapshotTaken' /\ WritesForward'
  BY <1>1, <1>2 DEF EndsInManifest, CopyDescribed, Describes, MarkerTells, SnapshotTaken, WritesForward
<1>7. NoneLater'
  BY <1>1, <1>2 DEF NoneLater
<1>8. MarkerUntouched'
  BY <1>1, <1>2 DEF MarkerUntouched, SnapshotImmutableUnlessRedacted, SnapshotImmutable
<1> QED BY <1>4, <1>5, <1>6, <1>7, <1>8

LEMMA SetSessionMetaKeeps == SnapshotInv /\ SetSessionMeta => SnapshotInv'
<1> SUFFICES ASSUME SnapshotInv, SetSessionMeta PROVE SnapshotInv'
  OBVIOUS
<1> USE DEF SnapshotInv
<1>1. /\ pc = "idle" /\ pc' = "idle" /\ marker' = marker /\ snapshot' = snapshot
      /\ shared' \subseteq shared /\ recorded' = recorded /\ linked' = linked /\ now' = now
      /\ todo' = todo /\ meta' = meta /\ restored' = restored /\ after' = after
      /\ redactions' = redactions /\ spoiled' = spoiled
      /\ overlaid' = (overlaid \/ marker = "whole")
      /\ live \in Packages
  BY DEF SetSessionMeta, Detach, TypeOK
<1>2. /\ live' \in Packages
      /\ live'.transcript = live.transcript /\ live'.backup = live.backup
      /\ live'.manifest.t = live.manifest.t /\ live'.manifest.b = live.manifest.b
  <2>1. live.manifest.note + 1 \in 0..MaxNotes
    BY <1>1, PackageTypes, SnapshotAssumption DEF SetSessionMeta
  <2> QED BY <1>1, <2>1 DEF SetSessionMeta, Packages, Manifests
<1>3. TypeOK'
  BY <1>1, <1>2 DEF TypeOK
<1>4. EndsInManifest(todo)' /\ CopyDescribed' /\ NoneLater' /\ MarkerTells' /\ SnapshotTaken'
      /\ WritesForward' /\ RestoresInOrder'
  BY <1>1, <1>2 DEF EndsInManifest, CopyDescribed, Describes, NoneLater, MarkerTells, SnapshotTaken,
     WritesForward, RestoresInOrder
<1>5. MarkerUntouched'
  BY <1>1 DEF MarkerUntouched, SnapshotImmutableUnlessRedacted, SnapshotImmutable
<1> QED BY <1>3, <1>4, <1>5

\* A write into the transcript changes its length only, in both copies.
LEMMA InPlaceKeeps ==
  ASSUME NEW length \in 0..2, live \in Packages, snapshot \in Packages, InPlace(length)
  PROVE  /\ live' \in Packages /\ snapshot' \in Packages
         /\ live'.transcript.txn = live.transcript.txn /\ live'.backup = live.backup
         /\ live'.manifest = live.manifest
         /\ snapshot'.transcript.txn = snapshot.transcript.txn
         /\ snapshot'.backup = snapshot.backup /\ snapshot'.manifest = snapshot.manifest
<1>1. /\ live' \in Packages
      /\ live'.transcript.txn = live.transcript.txn /\ live'.backup = live.backup
      /\ live'.manifest = live.manifest
  BY DEF InPlace, Packages, Contents
<1>2. /\ snapshot' \in Packages
      /\ snapshot'.transcript.txn = snapshot.transcript.txn
      /\ snapshot'.backup = snapshot.backup /\ snapshot'.manifest = snapshot.manifest
  BY DEF InPlace, Packages, Contents
<1> QED BY <1>1, <1>2

LEMMA RedactKeeps == SnapshotInv /\ Redact => SnapshotInv'
<1> SUFFICES ASSUME SnapshotInv, Redact PROVE SnapshotInv'
  OBVIOUS
<1> USE DEF SnapshotInv
<1>1. /\ pc = "idle" /\ pc' = "redacting" /\ marker' = marker
      /\ shared' = shared /\ recorded' = recorded /\ linked' = linked /\ now' = now
      /\ todo' = todo /\ meta' = meta /\ restored' = restored /\ after' = after
      /\ redactions' \in 0..MaxRedactions /\ overlaid' = overlaid
      /\ spoiled' = (spoiled \/ marker = "whole")
  BY SnapshotAssumption DEF Redact, TypeOK
<1>2. /\ live' \in Packages /\ snapshot' \in Packages
      /\ live'.transcript.txn = live.transcript.txn /\ live'.backup = live.backup
      /\ live'.manifest = live.manifest
      /\ snapshot'.transcript.txn = snapshot.transcript.txn
      /\ snapshot'.backup = snapshot.backup /\ snapshot'.manifest = snapshot.manifest
  BY InPlaceKeeps DEF Redact, TypeOK, Empty
<1>3. TypeOK'
  BY <1>1, <1>2 DEF TypeOK
<1>4. EndsInManifest(todo)' /\ CopyDescribed' /\ NoneLater' /\ MarkerTells' /\ SnapshotTaken'
      /\ WritesForward' /\ RestoresInOrder'
  BY <1>1, <1>2 DEF EndsInManifest, CopyDescribed, Describes, NoneLater, MarkerTells, SnapshotTaken,
     WritesForward, RestoresInOrder
<1>5. MarkerUntouched'
  BY <1>1, <1>2 DEF MarkerUntouched, SnapshotImmutableUnlessRedacted, SnapshotImmutable
<1> QED BY <1>3, <1>4, <1>5

LEMMA WriteRedactedKeeps == SnapshotInv /\ WriteRedacted => SnapshotInv'
<1> SUFFICES ASSUME SnapshotInv, WriteRedacted PROVE SnapshotInv'
  OBVIOUS
<1> USE DEF SnapshotInv
<1>1. /\ pc = "redacting" /\ pc' = "idle" /\ marker' = marker
      /\ shared' = shared /\ recorded' = recorded /\ linked' = linked /\ now' = now
      /\ todo' = todo /\ meta' = meta /\ restored' = restored /\ after' = after
      /\ redactions' = redactions /\ overlaid' = overlaid /\ spoiled' = spoiled
  BY DEF WriteRedacted, history
<1>2. /\ live' \in Packages /\ snapshot' \in Packages
      /\ live'.transcript.txn = live.transcript.txn /\ live'.backup = live.backup
      /\ live'.manifest = live.manifest
      /\ snapshot'.transcript.txn = snapshot.transcript.txn
      /\ snapshot'.backup = snapshot.backup /\ snapshot'.manifest = snapshot.manifest
  <2>1. PICK length \in {Usual, Masked} : InPlace(length)
    BY DEF WriteRedacted
  <2>2. length \in 0..2
    BY DEF Usual, Masked
  <2> QED BY <2>1, <2>2, InPlaceKeeps DEF TypeOK
<1>3. TypeOK'
  BY <1>1, <1>2 DEF TypeOK
<1>4. EndsInManifest(todo)' /\ CopyDescribed' /\ NoneLater' /\ MarkerTells' /\ SnapshotTaken'
      /\ WritesForward' /\ RestoresInOrder'
  BY <1>1, <1>2 DEF EndsInManifest, CopyDescribed, Describes, NoneLater, MarkerTells, SnapshotTaken,
     WritesForward, RestoresInOrder
<1>5. MarkerUntouched'
  BY <1>1, <1>2 DEF MarkerUntouched, SnapshotImmutableUnlessRedacted, SnapshotImmutable
<1> QED BY <1>3, <1>4, <1>5

LEMMA StutterKeeps == SnapshotInv /\ UNCHANGED vars => SnapshotInv'
  BY DEF SnapshotInv, vars, TypeOK, EndsInManifest, CopyDescribed, Describes, NoneLater,
     MarkerTells, SnapshotTaken, WritesForward, RestoresInOrder, MarkerUntouched,
     SnapshotImmutableUnlessRedacted, SnapshotImmutable

LEMMA StepKeeps == SnapshotInv /\ [Next]_vars => SnapshotInv'
  BY StartKeeps, ReadMetaKeeps, LinkKeeps, CreateMarkerKeeps, WriteMarkerKeeps, WriteKeeps,
     CommitKeeps, ThrowKeeps, RecoverKeeps, RestoreKeeps, UnmarkKeeps, SetSessionMetaKeeps,
     RedactKeeps, WriteRedactedKeeps, CrashKeeps, StutterKeeps
     DEF Next, Transacting, Recovering, Unprotected

LEMMA Invariant == Spec => []SnapshotInv
  BY InitEstablishes, StepKeeps, PTL DEF Spec

------------------------------------------------------------------------------
(* The theorems *)

\* The files keep their types.
THEOREM SnapshotTypes == Spec => []TypeOK
  BY Invariant, PTL DEF SnapshotInv

\* Between operations a manifest without a whole marker beside it describes the
\* files that are there.
THEOREM SettledPackages == Spec => []SettledIsDescribed
<1>1. SnapshotInv => SettledIsDescribed
  BY DEF SnapshotInv, CopyDescribed, Describes, SettledIsDescribed
<1> QED BY <1>1, Invariant, PTL

\* A snapshot a marker names stays as it was recorded unless a redaction met
\* the marker of a dead operation.
THEOREM SnapshotsStay == Spec => []SnapshotImmutableUnlessRedacted
<1>1. SnapshotInv => SnapshotImmutableUnlessRedacted
  BY DEF SnapshotInv, MarkerUntouched
<1> QED BY <1>1, Invariant, PTL

NotesKept == ~overlaid => live'.manifest.note >= live.manifest.note

LEMMA StepKeepsNotes == SnapshotInv /\ [Next]_vars => NotesKept
<1> SUFFICES ASSUME SnapshotInv, [Next]_vars, ~overlaid
             PROVE  live'.manifest.note >= live.manifest.note
  BY DEF NotesKept
<1> USE DEF SnapshotInv
<1>1. live \in Packages /\ live.manifest.note \in Nat
  BY PackageTypes DEF TypeOK
<1>2. CASE live' = live
  BY <1>1, <1>2
<1>3. CASE Write
  <2>1. Head(todo) \in Files
    BY <1>3, NextFile DEF Write, TypeOK
  <2>2. CASE Head(todo) = "manifest"
    <3>1. live'.manifest = meta
      BY <1>1, <1>3, <2>2 DEF Write, Publish, Packages
    <3>2. meta.note = live.manifest.note
      BY <1>3 DEF Write, WritesForward
    <3> QED BY <1>1, <3>1, <3>2
  <2>3. CASE Head(todo) # "manifest"
    <3>1. live'.manifest = live.manifest
      BY <1>1, <1>3, <2>1, <2>3 DEF Write, Publish, Packages, Files
    <3> QED BY <1>1, <3>1
  <2> QED BY <2>2, <2>3
<1>4. CASE Restore
  <2>1. marker = "whole" /\ restored \in 0..2 /\ live.manifest.note = snapshot.manifest.note
    BY <1>4 DEF Restore, MarkerTells, RestoresInOrder, MarkerUntouched
  <2>2. live'.manifest \in {live.manifest, snapshot.manifest}
    BY <1>1, <1>4, <2>1 DEF Restore, Restored, PROTECTED_FILES, Packages
  <2> QED BY <1>1, <2>1, <2>2
<1>5. CASE SetSessionMeta
  <2>1. live'.manifest.note = live.manifest.note + 1
    BY <1>1, <1>5 DEF SetSessionMeta, Packages, Manifests
  <2> QED BY <1>1, <2>1
<1>6. CASE Redact \/ WriteRedacted
  <2>1. live'.manifest = live.manifest
    BY <1>1, <1>6 DEF Redact, WriteRedacted, InPlace, Packages
  <2> QED BY <1>1, <2>1
<1> QED
  BY <1>2, <1>3, <1>4, <1>5, <1>6 DEF Next, Transacting, Recovering, Unprotected, Start, ReadMeta,
     Link, CreateMarker, WriteMarker, Commit, Throw, Recover, Unmark, Crash, vars

\* No step takes back the notes, unless they were saved over the marker of a
\* dead operation.
THEOREM NotesStay == Spec => NotesNeverTakenBack
  BY Invariant, StepKeepsNotes, PTL DEF Spec, NotesNeverTakenBack, NotesKept

------------------------------------------------------------------------------
(* The refinement *)

\* The package as PackageTransaction sees it, of each copy.
Seen(p) == [transcript |-> p.transcript.txn, backup |-> p.backup.txn, manifest |-> p.manifest]

LEMMA PackageOf == Package = Seen(IF marker = "whole" THEN snapshot ELSE live)
  BY DEF Package, Recovered, Seen

LEMMA InitIsPackageInit == Init => Transaction!PackageInit
<1> SUFFICES ASSUME Init PROVE Transaction!PackageInit
  OBVIOUS
<1>1. Package = Seen(NoPackage)
  BY PackageOf DEF Init
<1> QED BY <1>1 DEF Seen, NoPackage, File, Transaction!PackageInit, Transaction!Described

\* The copy that counts is the same before and after: the abstract package
\* does not change.
LEMMA SameCopy ==
  ASSUME IF marker = "whole" THEN marker' = "whole" /\ Seen(snapshot)' = Seen(snapshot)
         ELSE marker' # "whole" /\ Seen(live)' = Seen(live)
  PROVE  UNCHANGED Package
  BY DEF Package, Recovered, Seen

LEMMA CommitTransacts == SnapshotInv /\ Commit => Transaction!Transact
<1> SUFFICES ASSUME SnapshotInv, Commit PROVE Transaction!Transact
  OBVIOUS
<1> USE DEF SnapshotInv
<1>1. /\ marker = "whole" /\ marker' = "none" /\ live' = live
      /\ live.manifest = meta
      /\ meta.t = live.transcript.txn /\ meta.b = live.backup.txn
      /\ meta.note = snapshot.manifest.note
      /\ live.transcript.txn >= snapshot.transcript.txn
      /\ live.backup.txn >= snapshot.backup.txn
  BY DEF Commit, MarkerTells, WritesForward
<1>2. Package = Seen(snapshot) /\ Package' = Seen(live)
  BY <1>1 DEF Package, Recovered, Seen
<1> QED BY <1>1, <1>2 DEF Seen, Transaction!Transact, Transaction!Described

LEMMA SetSessionMetaAnnotates ==
  SnapshotInv /\ SetSessionMeta /\ marker # "whole" => Transaction!Annotate
<1> SUFFICES ASSUME SnapshotInv, SetSessionMeta, marker # "whole" PROVE Transaction!Annotate
  OBVIOUS
<1>1. live \in Packages /\ live.manifest.note \in Nat /\ marker' = marker
  BY PackageTypes DEF SnapshotInv, TypeOK, SetSessionMeta
<1>2. live' = [live EXCEPT !.manifest.note = @ + 1]
  BY DEF SetSessionMeta
<1>3. Package = Seen(live) /\ Package' = Seen(live')
  BY <1>1 DEF Package, Recovered, Seen
<1>4. Seen(live') = [Seen(live) EXCEPT !.manifest.note = live.manifest.note + 1]
  BY <1>1, <1>2 DEF Seen, Packages, Manifests
<1>5. Seen(live).manifest.note = live.manifest.note
      /\ Seen(live').manifest.note = live.manifest.note + 1
  BY <1>1, <1>2 DEF Seen, Packages, Manifests
<1> QED BY <1>1, <1>3, <1>4, <1>5 DEF Transaction!Annotate

LEMMA StepImplements ==
  SnapshotInv /\ [Next]_vars =>
    [Transaction!Transact \/ Transaction!Annotate]_Package
<1> SUFFICES ASSUME SnapshotInv, [Next]_vars
             PROVE  Transaction!Transact \/ Transaction!Annotate \/ UNCHANGED Package
  OBVIOUS
<1> USE DEF SnapshotInv
<1>1. CASE Start \/ ReadMeta \/ Throw \/ Recover \/ Crash \/ UNCHANGED vars
  BY <1>1, SameCopy DEF Start, ReadMeta, Throw, Recover, Crash, vars, evidence, Seen
<1>2. CASE Link
  BY <1>2, SameCopy DEF Link, MarkerTells, Seen
<1>3. CASE CreateMarker
  BY <1>3, SameCopy DEF CreateMarker, MarkerTells, evidence, Seen
<1>4. CASE WriteMarker
  BY <1>4 DEF WriteMarker, MarkerTells, SnapshotTaken, evidence, Package, Recovered
<1>5. CASE Write
  BY <1>5, SameCopy DEF Write, Publish, Detach, MarkerTells, Seen
<1>6. CASE Commit
  BY <1>6, CommitTransacts
<1>7. CASE Restore
  BY <1>7, SameCopy DEF Restore, MarkerTells, evidence, Seen
<1>8. CASE Unmark
  BY <1>8 DEF Unmark, MarkerTells, RestoresInOrder, evidence, Package, Recovered
<1>9. CASE SetSessionMeta
  <2>1. CASE marker = "whole"
    BY <1>9, <2>1, SameCopy DEF SetSessionMeta, Detach, Seen
  <2> QED BY <1>9, <2>1, SetSessionMetaAnnotates
<1>10. ASSUME NEW length \in 0..2, InPlace(length), UNCHANGED marker PROVE UNCHANGED Package
  <2>1. /\ live'.transcript.txn = live.transcript.txn /\ live'.backup = live.backup
        /\ live'.manifest = live.manifest
        /\ snapshot'.transcript.txn = snapshot.transcript.txn
        /\ snapshot'.backup = snapshot.backup /\ snapshot'.manifest = snapshot.manifest
    BY <1>10, InPlaceKeeps DEF TypeOK
  <2> QED BY <1>10, <2>1, SameCopy DEF Seen
<1>11. CASE Redact
  BY <1>10, <1>11 DEF Redact, Empty
<1>12. CASE WriteRedacted
  BY <1>10, <1>12 DEF WriteRedacted, Usual, Masked
<1> QED
  BY <1>1, <1>2, <1>3, <1>4, <1>5, <1>6, <1>7, <1>8, <1>9, <1>11, <1>12
     DEF Next, Transacting, Recovering, Unprotected

\* Whatever is left of a dead operation recovered, the three files of a package
\* change together or not at all, and the notes are carried along.
THEOREM SnapshotTransacts == Spec => ImplementsTransaction
  BY Invariant, InitIsPackageInit, StepImplements, PTL
     DEF Spec, ImplementsTransaction, Transaction!PackageSpec
==============================================================================
