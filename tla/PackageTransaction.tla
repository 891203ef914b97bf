-------------------------- MODULE PackageTransaction --------------------------
(***************************************************************************)
(* What a Library session package promises: its transcript, its backup and *)
(* the manifest that describes them change together or not at all, and the *)
(* notes in the manifest are carried along.  SessionWriteSnapshot is shown *)
(* to implement it.                                                        *)
(***************************************************************************)
EXTENDS Naturals

VARIABLE package    \* the transaction each file is from, and what the manifest says

\* The manifest describes the files that are there.
Described(p) == p.manifest.t = p.transcript /\ p.manifest.b = p.backup

PackageInit == Described(package) /\ package.manifest.note = 0

\* A transaction replaces the transcript, the backup or both, by later ones.
Transact ==
    /\ Described(package')
    /\ package'.transcript >= package.transcript
    /\ package'.backup >= package.backup
    /\ package'.manifest.note = package.manifest.note

\* The notes change, and nothing else.
Annotate ==
    /\ package'.manifest.note > package.manifest.note
    /\ package' = [package EXCEPT !.manifest.note = package'.manifest.note]

PackageSpec == PackageInit /\ [][Transact \/ Annotate]_package
===============================================================================
