------------------------ MODULE WriteGenerationProofs ------------------------
(***************************************************************************)
(* What a write generation proves, for any number of processes, reserved   *)
(* generations, mutations and unread answers of the worker.                *)
(*                                                                         *)
(* None of the properties is inductive.  Uniqueness rests on the slots     *)
(* alternating (so that a half-written one is never the larger), on one    *)
(* process at a time being between the two halves of a reservation, and on *)
(* nobody having used a generation before its holder mutates.  What a scan *)
(* may miss rests on every mutation since its look being no older than it. *)
(***************************************************************************)
EXTENDS WriteGeneration, TLAPS

\* A slot holds generations of its own parity only.
SlotsAlternate == \A i \in 0..1 : slot[i] # 0 => SlotOf(slot[i]) = i

Operating(p) == pc[p] \in {"reserving", "writing", "deciding", "mutating"}

\* The lease is held by the process that is in its operation, and by no other;
\* there is room for the number it is about to write.
HolderOperates ==
    /\ \A p \in Procs : Operating(p) <=> holder = p
    /\ \A p \in Procs : pc[p] = "writing" => Generation < MaxGeneration

\* The generation that was reserved last is only in the mutations of the
\* operation it was reserved for.
MutationsReserved ==
    /\ NoMutationUnreserved
    /\ \A p \in Procs : pc[p] \in {"deciding", "mutating"} => Generation > 0
    /\ \A p \in Procs : pc[p] = "deciding" => \A i \in Library : log[i].generation < Generation
    /\ \A p \in Procs : pc[p] = "mutating" =>
         \A i \in Library : log[i].generation = Generation => log[i].by = p

MissesNothingOlder(tree) ==
    \A i \in Library \ tree.shows : log[i].generation >= tree.writeGeneration

\* A tree on its way misses nothing that is older than it.
TreesAreCurrent ==
    /\ \A p \in Procs : pc[p] \in {"scanning", "looked"} => scan[p].writeGeneration <= Generation
    /\ \A p \in Procs : pc[p] = "looked" => MissesNothingOlder(scan[p])
    /\ \A tree \in posted : tree.writeGeneration <= Generation /\ MissesNothingOlder(tree)

\* A batch is asked for after a plan.
BatchHasPlan == \A p \in Procs : op[p] = "batch" => p = Planner /\ runtime # NoRuntime

GenerationInv ==
    /\ TypeOK
    /\ Len(log) <= MaxMutations
    /\ SlotsAlternate
    /\ HolderOperates
    /\ MutationsReserved
    /\ GenerationsAreUnique
    /\ TreesAreCurrent
    /\ BatchHasPlan

------------------------------------------------------------------------------
(* The generation and the two slots *)

LEMMA ParityAlternates == \A n \in Nat : SlotOf(n) \in 0..1 /\ SlotOf(n + 1) # SlotOf(n)
  BY DEF SlotOf

LEMMA GenerationBounds ==
  ASSUME TypeOK
  PROVE  /\ Generation \in Numbers /\ Generation \in Nat
         /\ \A i \in 0..1 : slot[i] <= Generation
         /\ Generation # 0 => \E i \in 0..1 : slot[i] = Generation
  BY GenerationAssumption DEF TypeOK, Numbers, Generation, Larger

\* Truncating the slot of the next generation leaves the last one in place:
\* a writer that dies between the halves of bumpLibraryWriteGeneration takes
\* no generation back.
LEMMA TruncateKeepsGeneration ==
  ASSUME TypeOK, SlotsAlternate, slot' = [slot EXCEPT ![SlotOf(Generation + 1)] = 0]
  PROVE  Generation' = Generation
<1>1. Generation \in Nat /\ SlotOf(Generation + 1) \in 0..1
  BY GenerationBounds, ParityAlternates
<1>2. CASE Generation = 0
  <2>1. slot[0] = 0 /\ slot[1] = 0
    BY <1>2, GenerationBounds DEF TypeOK, Numbers
  <2> QED BY <1>1, <1>2, <2>1 DEF Generation, Larger, TypeOK, Numbers
<1>3. CASE Generation # 0
  <2>1. PICK i \in 0..1 : slot[i] = Generation
    BY <1>3, GenerationBounds
  <2>2. SlotOf(Generation) = i
    BY <1>3, <2>1 DEF SlotsAlternate
  <2>3. SlotOf(Generation + 1) # i
    BY <1>1, <2>2, ParityAlternates
  <2>4. slot'[i] = Generation /\ \A j \in 0..1 : slot'[j] \in Nat /\ slot'[j] <= Generation
    BY <1>1, <2>1, <2>3, GenerationBounds DEF TypeOK, Numbers
  <2>5. Generation' = Larger(slot'[0], slot'[1])
    BY DEF Generation, Larger
  <2> QED BY <1>1, <2>4, <2>5 DEF Larger
<1> QED BY <1>2, <1>3

\* The slot that was written holds the larger number.
LEMMA WritingBumpsGeneration ==
  ASSUME TypeOK, slot' = [slot EXCEPT ![SlotOf(Generation + 1)] = Generation + 1]
  PROVE  Generation' = Generation + 1
<1>1. Generation \in Nat /\ SlotOf(Generation + 1) \in 0..1
  BY GenerationBounds, ParityAlternates
<1>2. slot'[SlotOf(Generation + 1)] = Generation + 1
  BY <1>1 DEF TypeOK
<1>3. \A j \in 0..1 : slot'[j] \in Nat /\ slot'[j] <= Generation + 1
  BY <1>1, GenerationBounds DEF TypeOK, Numbers
<1>4. Generation' = Larger(slot'[0], slot'[1])
  BY DEF Generation, Larger
<1> QED BY <1>1, <1>2, <1>3, <1>4 DEF Larger

------------------------------------------------------------------------------
(* The invariant *)

LEMMA InitEstablishes == Init => GenerationInv
<1> SUFFICES ASSUME Init PROVE GenerationInv
  OBVIOUS
<1> USE GenerationAssumption DEF Init
<1>1. TypeOK
  BY DEF TypeOK, Numbers, Trees, NoTree, Mutations, Ops
<1>2. SlotsAlternate /\ HolderOperates
  BY DEF SlotsAlternate, HolderOperates, Operating
<1>3. Library = {}
  BY DEF Library
<1>4. MutationsReserved /\ GenerationsAreUnique /\ TreesAreCurrent
  BY <1>3 DEF MutationsReserved, NoMutationUnreserved, GenerationsAreUnique, TreesAreCurrent
<1>5. BatchHasPlan
  BY DEF BatchHasPlan
<1> QED BY <1>1, <1>2, <1>4, <1>5 DEF GenerationInv

LEMMA LibraryType ==
  ASSUME GenerationInv
  PROVE  /\ Library \subseteq Mutations
         /\ \A i \in Library : log[i].generation \in Nat /\ log[i].by \in Procs
         /\ Generation \in Numbers /\ Generation \in Nat
<1>1. Generation \in Numbers /\ Generation \in Nat
  BY GenerationBounds DEF GenerationInv
<1>2. Len(log) \in Nat /\ Len(log) <= MaxMutations /\ Library = 1..Len(log)
  BY DEF GenerationInv, TypeOK, Library
<1>3. Library \subseteq Mutations
  BY <1>2, GenerationAssumption DEF Mutations
<1>4. log \in Seq([generation : Numbers, by : Procs])
  BY DEF GenerationInv, TypeOK
<1>5. ASSUME NEW i \in Library PROVE log[i] \in [generation : Numbers, by : Procs]
  <2> DEFINE Entry == [generation : Numbers, by : Procs]
  <2>1. log \in Seq(Entry)
    BY <1>4
  <2> HIDE DEF Entry
  <2>2. log[i] \in Entry
    BY <1>2, <2>1
  <2> QED BY <2>2 DEF Entry
<1> QED BY <1>1, <1>3, <1>5, GenerationAssumption DEF Numbers

\* A step that leaves the Library and the slots alone, and with them every
\* process that is in its operation.
LEMMA LibraryUntouched ==
  ASSUME GenerationInv, UNCHANGED library,
         \A q \in Procs : pc'[q] = pc[q] \/ (~Operating(q) /\ ~Operating(q)')
  PROVE  /\ SlotsAlternate' /\ HolderOperates' /\ MutationsReserved' /\ GenerationsAreUnique'
         /\ (Len(log) <= MaxMutations)'
  BY DEF GenerationInv, SlotsAlternate, HolderOperates, MutationsReserved, Operating,
     NoMutationUnreserved, GenerationsAreUnique, library, Library, Generation

\* A step that leaves the Library, the scans and the trees alone.
LEMMA TreesUntouched ==
  ASSUME GenerationInv, UNCHANGED <<log, scanning>>, Generation' \in Nat, Generation <= Generation',
         \A q \in Procs : pc'[q] = pc[q] \/ pc'[q] \notin {"scanning", "looked"}
  PROVE  TreesAreCurrent'
<1>1. Generation \in Nat
  BY LibraryType
<1>2. Library' = Library
  BY DEF Library
<1>3. \A q \in Procs : scan[q].writeGeneration \in Nat
  BY GenerationAssumption DEF GenerationInv, TypeOK, Trees, Numbers
<1>4. \A tree \in posted : tree.writeGeneration \in Nat
  BY GenerationAssumption DEF GenerationInv, TypeOK, Trees, Numbers
<1> QED
  BY <1>1, <1>2, <1>3, <1>4 DEF GenerationInv, TreesAreCurrent, MissesNothingOlder, scanning

LEMMA WantKeeps == ASSUME GenerationInv, NEW p \in Procs, Want(p) PROVE GenerationInv'
<1> USE DEF Want, InitLibrary, Goto
<1>1. TypeOK'
  BY LibraryType DEF GenerationInv, TypeOK, Ops, library, scanning
<1>2. \A q \in Procs : pc'[q] = pc[q] \/ (pc[q] = "idle" /\ pc'[q] = "wanting")
  BY DEF GenerationInv, TypeOK
<1>3. Generation' = Generation
  BY DEF Generation, library
<1>4. /\ SlotsAlternate' /\ HolderOperates' /\ MutationsReserved' /\ GenerationsAreUnique'
      /\ (Len(log) <= MaxMutations)'
  BY <1>2, LibraryUntouched DEF Operating
<1>5. TreesAreCurrent'
  BY <1>2, <1>3, LibraryType, TreesUntouched DEF library
<1>6. BatchHasPlan'
  BY DEF GenerationInv, TypeOK, BatchHasPlan
<1> QED BY <1>1, <1>4, <1>5, <1>6 DEF GenerationInv

LEMMA AcquireKeeps == ASSUME GenerationInv, NEW p \in Procs, Acquire(p) PROVE GenerationInv'
<1> USE DEF Acquire, Goto
<1>1. TypeOK'
  BY DEF GenerationInv, TypeOK, registry, scanning
<1>2. \A q \in Procs : pc'[q] = IF q = p THEN "reserving" ELSE pc[q]
  BY DEF GenerationInv, TypeOK
<1>3. Generation' = Generation /\ Library' = Library
  BY DEF Generation, Library
<1>4. HolderOperates'
  BY <1>2, <1>3, GenerationAssumption DEF GenerationInv, HolderOperates, Operating
<1>5. SlotsAlternate' /\ MutationsReserved' /\ GenerationsAreUnique'
  BY <1>2, <1>3 DEF GenerationInv, SlotsAlternate, MutationsReserved, NoMutationUnreserved,
     GenerationsAreUnique
<1>6. TreesAreCurrent'
  BY <1>2, <1>3, LibraryType, TreesUntouched
<1>7. BatchHasPlan'
  BY DEF GenerationInv, BatchHasPlan
<1> QED BY <1>1, <1>4, <1>5, <1>6, <1>7 DEF GenerationInv

LEMMA TruncateSlotKeeps == ASSUME GenerationInv, NEW p \in Procs, TruncateSlot(p) PROVE GenerationInv'
<1> USE DEF TruncateSlot, Goto
<1>1. TypeOK'
  <2>1. 0 \in Numbers
    BY GenerationAssumption DEF Numbers
  <2> QED BY <2>1 DEF GenerationInv, TypeOK, registry, scanning
<1>2. \A q \in Procs : pc'[q] = IF q = p THEN "writing" ELSE pc[q]
  BY DEF GenerationInv, TypeOK
<1>3. Generation' = Generation /\ Library' = Library
  BY TruncateKeepsGeneration DEF GenerationInv, Library
<1>4. HolderOperates'
  BY <1>2, <1>3 DEF GenerationInv, HolderOperates, Operating
<1>5. SlotsAlternate'
  BY DEF GenerationInv, TypeOK, SlotsAlternate
<1>6. MutationsReserved' /\ GenerationsAreUnique'
  BY <1>2, <1>3 DEF GenerationInv, MutationsReserved, NoMutationUnreserved, GenerationsAreUnique
<1>7. TreesAreCurrent'
  BY <1>2, <1>3, LibraryType, TreesUntouched
<1>8. BatchHasPlan'
  BY DEF GenerationInv, BatchHasPlan
<1> QED BY <1>1, <1>4, <1>5, <1>6, <1>7, <1>8 DEF GenerationInv

LEMMA WriteSlotKeeps == ASSUME GenerationInv, NEW p \in Procs, WriteSlot(p) PROVE GenerationInv'
<1> USE DEF WriteSlot, Goto
<1>1. CASE slot' = [slot EXCEPT ![SlotOf(Generation + 1)] = Generation + 1]
           /\ pc' = [pc EXCEPT ![p] = IF op[p] = "write" THEN "mutating" ELSE "deciding"]
           /\ UNCHANGED holder
  <2>1. Generation' = Generation + 1 /\ Library' = Library
    BY <1>1, WritingBumpsGeneration DEF GenerationInv, Library
  <2>2. \A q \in Procs : q # p => pc'[q] = pc[q]
    BY <1>1 DEF GenerationInv, TypeOK
  <2>3. pc'[p] \in {"mutating", "deciding"}
    BY <1>1 DEF GenerationInv, TypeOK
  <2>4. TypeOK'
    <3>1. Generation + 1 \in Numbers
      BY GenerationAssumption, LibraryType DEF GenerationInv, HolderOperates, Numbers
    <3> QED BY <1>1, <3>1 DEF GenerationInv, TypeOK, registry, scanning
  <2>5. SlotsAlternate'
    <3>1. \A i \in 0..1 : slot'[i] = IF i = SlotOf(Generation + 1) THEN Generation + 1 ELSE slot[i]
      BY <1>1 DEF GenerationInv, TypeOK
    <3> QED BY <3>1 DEF GenerationInv, SlotsAlternate
  <2>6. holder = p /\ \A q \in Procs : q # p => ~Operating(q)
    BY DEF GenerationInv, HolderOperates, Operating
  <2>7. HolderOperates'
    BY <1>1, <2>2, <2>3, <2>6 DEF HolderOperates, Operating
  <2>8. \A i \in Library : log[i].generation < Generation'
    BY <2>1, LibraryType DEF GenerationInv, MutationsReserved, NoMutationUnreserved
  <2>9. \A i \in Library : log[i].generation > 0
    BY DEF GenerationInv, MutationsReserved, NoMutationUnreserved
  <2>10. MutationsReserved'
    BY <2>1, <2>8, <2>9, LibraryType DEF MutationsReserved, NoMutationUnreserved
  <2>11. GenerationsAreUnique'
    BY <2>1 DEF GenerationInv, GenerationsAreUnique
  <2>12. TreesAreCurrent'
    BY <2>1, <2>2, <2>3, LibraryType, TreesUntouched
  <2>13. BatchHasPlan'
    BY DEF GenerationInv, BatchHasPlan
  <2> QED BY <2>4, <2>5, <2>7, <2>10, <2>11, <2>12, <2>13 DEF GenerationInv
<1>2. CASE pc' = [pc EXCEPT ![p] = "settling"] /\ holder' = Free /\ UNCHANGED slot
  <2>1. TypeOK'
    BY <1>2 DEF GenerationInv, TypeOK, registry, scanning
  <2>2. \A q \in Procs : pc'[q] = IF q = p THEN "settling" ELSE pc[q]
    BY <1>2 DEF GenerationInv, TypeOK
  <2>3. Generation' = Generation /\ Library' = Library
    BY <1>2 DEF Generation, Library
  <2>4. HolderOperates'
    BY <1>2, <2>2, <2>3, GenerationAssumption DEF GenerationInv, HolderOperates, Operating
  <2>5. SlotsAlternate' /\ MutationsReserved' /\ GenerationsAreUnique'
    BY <1>2, <2>2, <2>3 DEF GenerationInv, SlotsAlternate, MutationsReserved, NoMutationUnreserved,
       GenerationsAreUnique
  <2>6. TreesAreCurrent'
    BY <2>2, <2>3, LibraryType, TreesUntouched
  <2>7. BatchHasPlan'
    BY DEF GenerationInv, BatchHasPlan
  <2> QED BY <2>1, <2>4, <2>5, <2>6, <2>7 DEF GenerationInv
<1> QED BY <1>1, <1>2

LEMMA MutateKeeps == ASSUME GenerationInv, NEW p \in Procs, Mutate(p) PROVE GenerationInv'
<1> USE DEF Mutate
<1> DEFINE entry == [generation |-> Generation, by |-> p]
<1>1. Len(log) \in Nat /\ Library = 1..Len(log)
  BY DEF GenerationInv, TypeOK, Library
<1>2. entry \in [generation : Numbers, by : Procs]
  BY LibraryType
<1>3. log' \in Seq([generation : Numbers, by : Procs]) /\ Len(log') = Len(log) + 1
  BY <1>2 DEF GenerationInv, TypeOK
<1>4. Library' = Library \cup {Len(log) + 1} /\ Len(log) + 1 \notin Library
  BY <1>1, <1>3 DEF Library
<1>5. log'[Len(log) + 1] = entry /\ \A i \in Library : log'[i] = log[i]
  BY <1>1, <1>2 DEF GenerationInv, TypeOK
<1>6. Generation' = Generation /\ Generation \in Nat
  BY LibraryType DEF Generation
<1> HIDE DEF entry
<1>7. entry.generation = Generation /\ entry.by = p
  BY DEF entry
<1>8. TypeOK'
  <2>1. Len(log) + 1 \in Mutations
    BY <1>1, GenerationAssumption DEF Mutations
  <2>2. known' \in [Procs -> SUBSET Mutations]
    BY <2>1 DEF GenerationInv, TypeOK
  <2>3. UNCHANGED <<slot, holder, applied, prepared, runtime, scan, posted, op, pc>>
    BY DEF scanning
  <2> QED BY <1>3, <2>2, <2>3 DEF GenerationInv, TypeOK
<1>9. (Len(log) <= MaxMutations)'
  BY <1>1, <1>3, GenerationAssumption
<1>10. SlotsAlternate' /\ HolderOperates' /\ BatchHasPlan'
  BY <1>6 DEF GenerationInv, SlotsAlternate, HolderOperates, Operating, BatchHasPlan
<1>11. Generation > 0 /\ \A q \in Procs : pc[q] \in {"deciding", "mutating"} => q = p
  BY DEF GenerationInv, MutationsReserved, HolderOperates, Operating
<1>12. \A i \in Library : log[i].generation = Generation => log[i].by = p
  BY DEF GenerationInv, MutationsReserved
<1>13. MutationsReserved'
  <2>1. \A i \in Library' : log'[i].generation <= Generation /\ log'[i].generation > 0
    <3>1. \A i \in Library : log[i].generation <= Generation /\ log[i].generation > 0
      BY DEF GenerationInv, MutationsReserved, NoMutationUnreserved
    <3>2. Generation <= Generation
      BY <1>6
    <3> QED BY <1>4, <1>5, <1>7, <1>11, <3>1, <3>2
  <2>2. \A i \in Library' : log'[i].generation = Generation => log'[i].by = p
    BY <1>4, <1>5, <1>7, <1>12
  <2>3. \A q \in Procs : pc'[q] \in {"deciding", "mutating"} => q = p /\ pc'[q] = "mutating"
    BY <1>11
  <2> QED BY <1>6, <1>11, <2>1, <2>2, <2>3 DEF MutationsReserved, NoMutationUnreserved
<1>14. GenerationsAreUnique'
  <2> SUFFICES ASSUME NEW i \in Library', NEW j \in Library', i < j
               PROVE  \/ log'[i].generation < log'[j].generation
                      \/ log'[i].generation = log'[j].generation /\ log'[i].by = log'[j].by
    BY DEF GenerationsAreUnique
  <2>1. i \in Library
    BY <1>1, <1>4
  <2>2. CASE j \in Library
    BY <1>5, <2>1, <2>2 DEF GenerationInv, GenerationsAreUnique
  <2>3. CASE j = Len(log) + 1
    <3>1. log[i].generation <= Generation /\ log[i].generation \in Nat
      BY <2>1, LibraryType DEF GenerationInv, MutationsReserved, NoMutationUnreserved
    <3>2. log'[i] = log[i] /\ log'[j].generation = Generation /\ log'[j].by = p
      BY <1>5, <1>7, <2>1, <2>3
    <3>3. CASE log[i].generation = Generation
      BY <1>12, <2>1, <3>2, <3>3
    <3>4. CASE log[i].generation # Generation
      <4>1. log[i].generation < Generation
        BY <1>6, <3>1, <3>4
      <4> QED BY <3>2, <4>1
    <3> QED BY <3>3, <3>4
  <2> QED BY <1>4, <2>2, <2>3
<1>15. TreesAreCurrent'
  <2>1. UNCHANGED <<scan, posted, pc>>
    BY DEF scanning
  <2>2. ASSUME NEW tree, tree.writeGeneration <= Generation, MissesNothingOlder(tree)
        PROVE  \A i \in Library' \ tree.shows : log'[i].generation >= tree.writeGeneration
    BY <1>4, <1>5, <1>7, <2>2 DEF MissesNothingOlder
  <2> QED BY <1>6, <2>1, <2>2 DEF GenerationInv, TreesAreCurrent, MissesNothingOlder
<1> QED BY <1>8, <1>9, <1>10, <1>13, <1>14, <1>15 DEF GenerationInv

LEMMA ReleaseKeeps == ASSUME GenerationInv, NEW p \in Procs, Release(p) PROVE GenerationInv'
<1> USE DEF Release, Goto
<1>1. TypeOK'
  BY DEF GenerationInv, TypeOK, registry, scanning
<1>2. \A q \in Procs : pc'[q] = IF q = p THEN "settling" ELSE pc[q]
  BY DEF GenerationInv, TypeOK
<1>3. Generation' = Generation /\ Library' = Library
  BY DEF Generation, Library
<1>4. HolderOperates'
  BY <1>2, <1>3, GenerationAssumption DEF GenerationInv, HolderOperates, Operating
<1>5. SlotsAlternate' /\ MutationsReserved' /\ GenerationsAreUnique'
  BY <1>2, <1>3 DEF GenerationInv, SlotsAlternate, MutationsReserved, NoMutationUnreserved,
     GenerationsAreUnique
<1>6. TreesAreCurrent'
  BY <1>2, <1>3, LibraryType, TreesUntouched
<1>7. BatchHasPlan'
  BY DEF GenerationInv, BatchHasPlan
<1> QED BY <1>1, <1>4, <1>5, <1>6, <1>7 DEF GenerationInv

LEMMA SettleKeeps == ASSUME GenerationInv, NEW p \in Procs, Settle(p) PROVE GenerationInv'
<1> USE DEF Settle, Goto
<1>1. TypeOK'
  <2>1. applied' \in [Procs -> Numbers]
    BY LibraryType DEF GenerationInv, TypeOK, Larger
  <2> QED BY <2>1 DEF GenerationInv, TypeOK, Ops, library, scanning
<1>2. \A q \in Procs : pc'[q] = pc[q] \/ (pc[q] = "settling" /\ pc'[q] = "idle")
  BY DEF GenerationInv, TypeOK
<1>3. Generation' = Generation
  BY DEF Generation, library
<1>4. /\ SlotsAlternate' /\ HolderOperates' /\ MutationsReserved' /\ GenerationsAreUnique'
      /\ (Len(log) <= MaxMutations)'
  BY <1>2, LibraryUntouched DEF Operating
<1>5. TreesAreCurrent'
  BY <1>2, <1>3, LibraryType, TreesUntouched DEF library
<1>6. BatchHasPlan'
  BY DEF GenerationInv, TypeOK, BatchHasPlan
<1> QED BY <1>1, <1>4, <1>5, <1>6 DEF GenerationInv

\* A plan or a batch, which scans or not before it mutates.
LEMMA DecisionKeeps ==
  ASSUME GenerationInv, NEW p \in Procs, pc[p] = "deciding", Goto(p, "mutating"),
         UNCHANGED registry \/ ScanUnderLease(p),
         runtime' = Generation, UNCHANGED <<library, scanning, op>>
  PROVE  GenerationInv'
<1>1. TypeOK'
  <2>1. CASE UNCHANGED registry
    BY <2>1, LibraryType DEF GenerationInv, TypeOK, Goto, library, registry, scanning
  <2>2. CASE ScanUnderLease(p)
    BY <2>2, LibraryType DEF GenerationInv, TypeOK, Goto, ScanUnderLease, library, scanning
  <2> QED BY <2>1, <2>2
<1>2. \A q \in Procs : pc'[q] = IF q = p THEN "mutating" ELSE pc[q]
  BY DEF GenerationInv, TypeOK, Goto
<1>3. Generation' = Generation /\ Library' = Library /\ UNCHANGED <<slot, holder, log, op>>
  BY DEF Generation, Library, library
<1>4. HolderOperates'
  BY <1>2, <1>3 DEF GenerationInv, HolderOperates, Operating
<1>5. Generation \in Nat /\ \A i \in Library : log[i].generation \in Nat
  BY LibraryType
<1>6. SlotsAlternate' /\ GenerationsAreUnique'
  BY <1>3 DEF GenerationInv, SlotsAlternate, GenerationsAreUnique
<1>7. \A i \in Library : log[i].generation # Generation
  BY <1>5 DEF GenerationInv, MutationsReserved
<1>8. MutationsReserved'
  BY <1>2, <1>3, <1>7 DEF GenerationInv, MutationsReserved, NoMutationUnreserved
<1>9. TreesAreCurrent'
  BY <1>2, <1>3, <1>5, TreesUntouched
<1>10. BatchHasPlan'
  BY <1>3, <1>5, GenerationAssumption DEF GenerationInv, BatchHasPlan
<1> QED BY <1>1, <1>3, <1>4, <1>6, <1>8, <1>9, <1>10 DEF GenerationInv

LEMMA ApplyTypes ==
  ASSUME GenerationInv, NEW p \in Procs, NEW tree \in Trees, Apply(p, tree, Generation)
  PROVE  applied' \in [Procs -> Numbers] /\ prepared' \in [Procs -> BOOLEAN]
         /\ known' \in [Procs -> SUBSET Mutations]
<1>1. tree.writeGeneration \in Numbers /\ tree.shows \in SUBSET Mutations
  BY DEF Trees
<1> QED BY <1>1 DEF GenerationInv, TypeOK, Apply, registry

LEMMA BeginScanKeeps == ASSUME GenerationInv, NEW p \in Procs, BeginScan(p) PROVE GenerationInv'
<1> USE DEF BeginScan, InitLibrary, Goto
<1> DEFINE tree == [NoTree EXCEPT !.writeGeneration = Generation]
<1>1. Generation \in Numbers /\ Generation \in Nat
  BY LibraryType
<1>2. tree \in Trees /\ tree.writeGeneration = Generation
  BY <1>1 DEF NoTree, Trees
<1>3. \A q \in Procs : scan'[q] = (IF q = p THEN tree ELSE scan[q])
  BY DEF GenerationInv, TypeOK
<1> HIDE DEF tree
<1>4. TypeOK'
  <2>1. scan' \in [Procs -> Trees]
    BY <1>2 DEF GenerationInv, TypeOK, tree
  <2>2. applied' \in [Procs -> Numbers]
    BY <1>1 DEF GenerationInv, TypeOK
  <2> QED BY <2>1, <2>2 DEF GenerationInv, TypeOK, library
<1>5. \A q \in Procs : pc'[q] = IF q = p THEN "scanning" ELSE pc[q]
  BY DEF GenerationInv, TypeOK
<1>6. Generation' = Generation /\ Library' = Library /\ log' = log
  BY DEF Generation, Library, library
<1>7. /\ SlotsAlternate' /\ HolderOperates' /\ MutationsReserved' /\ GenerationsAreUnique'
      /\ (Len(log) <= MaxMutations)'
  BY <1>5, LibraryUntouched DEF Operating
<1>8. TreesAreCurrent'
  BY <1>1, <1>2, <1>3, <1>5, <1>6 DEF GenerationInv, TreesAreCurrent, MissesNothingOlder
<1>9. BatchHasPlan'
  BY DEF GenerationInv, BatchHasPlan
<1> QED BY <1>4, <1>7, <1>8, <1>9 DEF GenerationInv

LEMMA LookKeeps == ASSUME GenerationInv, NEW p \in Procs, Look(p) PROVE GenerationInv'
<1> USE DEF Look, Goto
<1>1. Library \in SUBSET Mutations
  BY LibraryType
<1>2. scan[p] \in Trees
  BY DEF GenerationInv, TypeOK
<1>3. scan' \in [Procs -> Trees] /\ scan'[p].shows = Library
      /\ scan'[p].writeGeneration = scan[p].writeGeneration
  BY <1>1, <1>2 DEF GenerationInv, TypeOK, Trees
<1>4. \A q \in Procs : q # p => scan'[q] = scan[q]
  BY DEF GenerationInv, TypeOK
<1>5. TypeOK'
  BY <1>3 DEF GenerationInv, TypeOK, library, registry
<1>6. \A q \in Procs : pc'[q] = IF q = p THEN "looked" ELSE pc[q]
  BY DEF GenerationInv, TypeOK
<1>7. Generation' = Generation /\ Library' = Library /\ log' = log
  BY DEF Generation, Library, library
<1>8. /\ SlotsAlternate' /\ HolderOperates' /\ MutationsReserved' /\ GenerationsAreUnique'
      /\ (Len(log) <= MaxMutations)'
  BY <1>6, LibraryUntouched DEF Operating
<1>9. TreesAreCurrent'
  BY <1>3, <1>4, <1>6, <1>7 DEF GenerationInv, TreesAreCurrent, MissesNothingOlder
<1>10. BatchHasPlan'
  BY DEF GenerationInv, BatchHasPlan
<1> QED BY <1>5, <1>8, <1>9, <1>10 DEF GenerationInv

LEMMA FinishScanKeeps == ASSUME GenerationInv, NEW p \in Procs, FinishScan(p) PROVE GenerationInv'
<1> USE DEF FinishScan, Goto
<1> DEFINE tree == [scan[p] EXCEPT !.scanStale = (Generation # scan[p].writeGeneration)]
<1>1. scan[p] \in Trees /\ NoTree \in Trees
  BY GenerationAssumption DEF GenerationInv, TypeOK, Trees, NoTree, Numbers
<1>2. tree \in Trees /\ tree.shows = scan[p].shows /\ tree.writeGeneration = scan[p].writeGeneration
  BY <1>1 DEF Trees
<1>3. Apply(p, tree, Generation) /\ posted' \subseteq posted \cup {tree}
  OBVIOUS
<1>4. tree.writeGeneration <= Generation /\ MissesNothingOlder(tree)
  BY <1>2 DEF GenerationInv, TreesAreCurrent, MissesNothingOlder
<1> HIDE DEF tree
<1>5. TypeOK'
  <2>1. scan' \in [Procs -> Trees] /\ posted' \subseteq Trees
    BY <1>1, <1>2, <1>3 DEF GenerationInv, TypeOK
  <2>2. /\ applied' \in [Procs -> Numbers] /\ prepared' \in [Procs -> BOOLEAN]
        /\ known' \in [Procs -> SUBSET Mutations]
    BY <1>2, <1>3, ApplyTypes
  <2> QED BY <2>1, <2>2 DEF GenerationInv, TypeOK, library
<1>6. /\ \A q \in Procs : pc'[q] = IF q = p THEN "idle" ELSE pc[q]
      /\ \A q \in Procs : q # p => scan'[q] = scan[q]
  BY DEF GenerationInv, TypeOK
<1>7. Generation' = Generation /\ Library' = Library /\ log' = log
  BY DEF Generation, Library, library
<1>8. /\ SlotsAlternate' /\ HolderOperates' /\ MutationsReserved' /\ GenerationsAreUnique'
      /\ (Len(log) <= MaxMutations)'
  BY <1>6, LibraryUntouched DEF Operating
<1>9. TreesAreCurrent'
  BY <1>3, <1>4, <1>6, <1>7 DEF GenerationInv, TreesAreCurrent, MissesNothingOlder
<1>10. BatchHasPlan'
  BY DEF GenerationInv, BatchHasPlan
<1> QED BY <1>5, <1>8, <1>9, <1>10 DEF GenerationInv

LEMMA AdoptKeeps == ASSUME GenerationInv, NEW p \in Procs, Adopt(p) PROVE GenerationInv'
<1> USE DEF Adopt
<1>1. PICK tree \in posted : Apply(p, tree, Generation) /\ posted' = posted \ {tree}
  OBVIOUS
<1>2. TypeOK'
  <2>1. tree \in Trees
    BY DEF GenerationInv, TypeOK
  <2>2. /\ applied' \in [Procs -> Numbers] /\ prepared' \in [Procs -> BOOLEAN]
        /\ known' \in [Procs -> SUBSET Mutations]
    BY <1>1, <2>1, ApplyTypes
  <2> QED BY <1>1, <2>2 DEF GenerationInv, TypeOK, library
<1>3. Generation' = Generation /\ Library' = Library /\ log' = log
  BY DEF Generation, Library, library
<1>4. /\ SlotsAlternate' /\ HolderOperates' /\ MutationsReserved' /\ GenerationsAreUnique'
      /\ (Len(log) <= MaxMutations)'
  BY LibraryUntouched
<1>5. TreesAreCurrent'
  BY <1>1, <1>3 DEF GenerationInv, TreesAreCurrent, MissesNothingOlder
<1>6. BatchHasPlan'
  BY DEF GenerationInv, BatchHasPlan
<1> QED BY <1>2, <1>4, <1>5, <1>6 DEF GenerationInv

LEMMA CrashKeeps == ASSUME GenerationInv, NEW p \in Procs, Crash(p) PROVE GenerationInv'
<1> USE DEF Crash, Goto
<1>1. TypeOK'
  <2>1. NoTree \in Trees
    BY GenerationAssumption DEF Trees, NoTree, Numbers
  <2> QED BY <2>1, LibraryType DEF GenerationInv, TypeOK, Ops
<1>2. /\ \A q \in Procs : pc'[q] = IF q = p THEN "idle" ELSE pc[q]
      /\ \A q \in Procs : q # p => scan'[q] = scan[q]
  BY DEF GenerationInv, TypeOK
<1>3. Generation' = Generation /\ Library' = Library
  BY DEF Generation, Library
<1>4. HolderOperates'
  BY <1>2, <1>3, GenerationAssumption DEF GenerationInv, HolderOperates, Operating
<1>5. SlotsAlternate' /\ MutationsReserved' /\ GenerationsAreUnique'
  BY <1>2, <1>3 DEF GenerationInv, SlotsAlternate, MutationsReserved, NoMutationUnreserved,
     GenerationsAreUnique
<1>6. TreesAreCurrent'
  BY <1>2, <1>3 DEF GenerationInv, TreesAreCurrent, MissesNothingOlder
<1>7. BatchHasPlan'
  BY DEF GenerationInv, TypeOK, BatchHasPlan
<1> QED BY <1>1, <1>4, <1>5, <1>6, <1>7 DEF GenerationInv

LEMMA StepKeeps == GenerationInv /\ [Next]_vars => GenerationInv'
<1> SUFFICES ASSUME GenerationInv, [Next]_vars PROVE GenerationInv'
  OBVIOUS
<1>1. ASSUME NEW p \in Procs, Writing(p) PROVE GenerationInv'
  <2>1. CASE Plan(p)
    BY <2>1, DecisionKeeps DEF Plan
  <2>2. CASE Batch(p)
    BY <2>2, DecisionKeeps DEF Batch
  <2> QED
    BY <1>1, <2>1, <2>2, WantKeeps, AcquireKeeps, TruncateSlotKeeps, WriteSlotKeeps, MutateKeeps,
       ReleaseKeeps, SettleKeeps DEF Writing
<1>2. ASSUME NEW p \in Procs, Scanning(p) PROVE GenerationInv'
  BY <1>2, BeginScanKeeps, LookKeeps, FinishScanKeeps, AdoptKeeps DEF Scanning
<1>3. CASE UNCHANGED vars
  <2>1. UNCHANGED <<slot, holder, log, applied, prepared, known, runtime, scan, posted, op, pc>>
    BY <1>3 DEF vars
  <2>2. Generation' = Generation /\ Library' = Library
    BY <2>1 DEF Generation, Library
  <2>3. TypeOK' /\ SlotsAlternate' /\ HolderOperates' /\ BatchHasPlan'
    BY <2>1, <2>2 DEF GenerationInv, TypeOK, SlotsAlternate, HolderOperates, Operating, BatchHasPlan
  <2>4. MutationsReserved' /\ GenerationsAreUnique' /\ TreesAreCurrent'
    BY <2>1, <2>2 DEF GenerationInv, MutationsReserved, NoMutationUnreserved, GenerationsAreUnique,
       TreesAreCurrent, MissesNothingOlder
  <2> QED BY <2>1, <2>3, <2>4 DEF GenerationInv
<1> QED BY <1>1, <1>2, <1>3, CrashKeeps DEF Next

LEMMA GenerationInvariant == Spec => []GenerationInv
  BY InitEstablishes, StepKeeps, PTL DEF Spec

------------------------------------------------------------------------------
(* The theorems *)

\* The variables of a write generation keep their types, and no step takes the
\* generation past its bound.
THEOREM GenerationTypes == Spec => []TypeOK
<1>1. GenerationInv => TypeOK
  BY DEF GenerationInv
<1> QED BY <1>1, GenerationInvariant, PTL

\* However many processes reserve, fail or die between the two halves of a
\* reservation, no number is handed out twice: mutations of different processes
\* have different generations, in the order they were made
\* (bumpLibraryWriteGeneration's alternating slots).
THEOREM GenerationsUnique == Spec => []GenerationsAreUnique
<1>1. GenerationInv => GenerationsAreUnique
  BY DEF GenerationInv
<1> QED BY <1>1, GenerationInvariant, PTL

\* No mutation is ahead of the generation on disk, at any moment a writer can
\* die in (runWithLibraryWriter's durable reservation).
THEOREM MutationsAreReserved == Spec => []NoMutationUnreserved
<1>1. GenerationInv => NoMutationUnreserved
  BY DEF GenerationInv, MutationsReserved
<1> QED BY <1>1, GenerationInvariant, PTL

\* A tree that misses nothing older than itself, and is not older than the
\* generation on disk, misses only the operation that generation is of.
LEMMA AcceptedMissesInFlight ==
  ASSUME GenerationInv, NEW p \in Procs, NEW tree \in Trees, MissesNothingOlder(tree),
         Apply(p, tree, Generation), known' # known
  PROVE  \A i \in Library \ known'[p] : log[i].generation = applied'[p]
<1>1. tree.writeGeneration \in Nat /\ applied[p] \in Nat
  BY GenerationAssumption DEF GenerationInv, TypeOK, Trees, Numbers
<1>2. Accepts(p, tree, Generation)
  BY DEF Apply, registry
<1>3. tree.writeGeneration >= Generation
  BY <1>1, <1>2, LibraryType DEF Accepts, Larger
<1>4. known'[p] = tree.shows /\ applied'[p] = tree.writeGeneration
  BY <1>2 DEF Apply, GenerationInv, TypeOK
<1>5. \A i \in Library : log[i].generation <= Generation
  BY DEF GenerationInv, MutationsReserved, NoMutationUnreserved
<1> QED BY <1>1, <1>3, <1>4, <1>5, LibraryType DEF MissesNothingOlder

AcceptedScanStep ==
    \A p \in Procs : (known'[p] # known[p] /\ known'[p] # {} /\ log' = log) =>
      \A i \in Library \ known'[p] : log[i].generation = applied'[p]

LEMMA AcceptedScanSteps == GenerationInv /\ [Next]_vars => AcceptedScanStep
<1> SUFFICES ASSUME GenerationInv, [Next]_vars, NEW q \in Procs,
                    known'[q] # known[q], known'[q] # {}, log' = log
             PROVE  \A i \in Library \ known'[q] : log[i].generation = applied'[q]
  BY DEF AcceptedScanStep
<1>1. known' # known
  OBVIOUS
<1>2. PICK p \in Procs : Writing(p) \/ Scanning(p) \/ Crash(p)
  BY <1>1 DEF Next, vars
<1>3. known \in [Procs -> SUBSET Mutations] /\ log \in Seq([generation : Numbers, by : Procs])
  BY DEF GenerationInv, TypeOK
<1>4. CASE Writing(p)
  <2>1. CASE Mutate(p)
    <3>1. Len(log') = Len(log) + 1 /\ Len(log) \in Nat
      BY <1>3, <2>1, LibraryType DEF Mutate
    <3> QED BY <3>1
  <2>2. CASE ScanUnderLease(p)
    <3>1. \A o \in Procs : o # p => known'[o] = known[o]
      BY <1>3, <2>2 DEF ScanUnderLease
    <3>2. known'[p] = Library
      BY <1>3, <2>2 DEF ScanUnderLease
    <3> QED BY <3>1, <3>2
  <2> QED
    BY <1>1, <1>4, <2>1, <2>2 DEF Writing, Want, Acquire, TruncateSlot, WriteSlot, Plan, Batch,
       Release, Settle, registry
<1>5. CASE FinishScan(p)
  <2> DEFINE tree == [scan[p] EXCEPT !.scanStale = (Generation # scan[p].writeGeneration)]
  <2>1. scan[p] \in Trees
    BY DEF GenerationInv, TypeOK
  <2>2. tree \in Trees /\ tree.shows = scan[p].shows /\ tree.writeGeneration = scan[p].writeGeneration
    BY <2>1 DEF Trees
  <2>3. MissesNothingOlder(tree) /\ Apply(p, tree, Generation)
    BY <1>5, <2>2 DEF FinishScan, GenerationInv, TreesAreCurrent, MissesNothingOlder
  <2> HIDE DEF tree
  <2>4. p = q
    BY <1>3, <2>3 DEF Apply, registry
  <2> QED BY <1>1, <2>2, <2>3, <2>4, AcceptedMissesInFlight
<1>6. CASE Adopt(p)
  <2>1. PICK tree \in posted : Apply(p, tree, Generation)
    BY <1>6 DEF Adopt
  <2>2. tree \in Trees /\ MissesNothingOlder(tree)
    BY DEF GenerationInv, TypeOK, TreesAreCurrent
  <2>3. p = q
    BY <1>3, <2>1 DEF Apply, registry
  <2> QED BY <1>1, <2>1, <2>2, <2>3, AcceptedMissesInFlight
<1>7. CASE Crash(p)
  BY <1>3, <1>7 DEF Crash
<1> QED BY <1>1, <1>2, <1>4, <1>5, <1>6, <1>7 DEF Scanning, BeginScan, Look, registry

\* However late a tree of the worker arrives, and whatever was written or
\* adopted meanwhile, a scan that replaces the registry misses at most the
\* operation that was under way when it began (applyLibraryTree's rejection).
THEOREM AcceptedScansAreCurrent == Spec => AcceptedScanMissesOnlyTheWriterInFlight
  BY AcceptedScanSteps, GenerationInvariant, PTL
  DEF Spec, AcceptedScanMissesOnlyTheWriterInFlight, AcceptedScanStep

BatchStep ==
    \A p \in Procs : (pc[p] = "deciding" /\ op[p] = "batch" /\ pc'[p] = "mutating") =>
      \A i \in Library \ known'[p] : log[i].generation <= runtime

LEMMA BatchSteps == GenerationInv /\ [Next]_vars => BatchStep
<1> SUFFICES ASSUME GenerationInv, [Next]_vars, NEW q \in Procs,
                    pc[q] = "deciding", op[q] = "batch", pc'[q] = "mutating"
             PROVE  \A i \in Library \ known'[q] : log[i].generation <= runtime
  BY DEF BatchStep
<1>1. known \in [Procs -> SUBSET Mutations] /\ pc' # pc
  BY DEF GenerationInv, TypeOK
<1>2. PICK p \in Procs : Writing(p) \/ Scanning(p) \/ Crash(p)
  BY <1>1 DEF Next, vars
<1>3. Batch(q)
  BY <1>2 DEF GenerationInv, TypeOK, Writing, Scanning, Want, Acquire, TruncateSlot, WriteSlot, Plan,
     Batch, Mutate, Release, Settle, BeginScan, Look, FinishScan, Adopt, Crash, Goto
<1>4. CASE BatchFollows
  <2>1. runtime \in Nat /\ Generation = runtime + 1
    BY <1>4, GenerationAssumption DEF GenerationInv, TypeOK, BatchHasPlan, BatchFollows, Numbers
  <2>2. \A i \in Library : log[i].generation < Generation
    BY DEF GenerationInv, MutationsReserved
  <2> QED BY <2>1, <2>2, LibraryType
<1>5. CASE ~BatchFollows
  <2>1. known'[q] = Library
    BY <1>1, <1>3, <1>5 DEF Batch, ScanUnderLease
  <2> QED BY <2>1
<1> QED BY <1>4, <1>5

\* Wherever another process writes between the transactions of a startup
\* synchronization, the batch that follows scans again (syncLibraryStartupBatch:
\* "Another writer committed between bounded startup transactions").
THEOREM BatchesMissNothing == Spec => BatchMissesNothing
  BY BatchSteps, GenerationInvariant, PTL DEF Spec, BatchMissesNothing, BatchStep
==============================================================================
