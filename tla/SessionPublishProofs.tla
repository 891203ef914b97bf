------------------------ MODULE SessionPublishProofs ------------------------
(***************************************************************************)
(* Proofs about SessionPublish, for any number of names, packages,         *)
(* sessions and processes.                                                 *)
(***************************************************************************)
EXTENDS SessionPublish, SequenceTheorems, WellFoundedInduction, TLAPS

Creating == {"claim", "mkdir", "print", "mark", "content", "manifest", "commit"}

\* The marker of d may go: there is nothing else, or the package is whole.
Unmarkable(k, d) ==
    /\ k.dir[d] # None
    /\ \/ ~k.dir[d].content /\ k.dir[d].manifest = None
       \/ /\ k.dir[d].manifest = "whole"
          /\ k.res[k.dir[d].pkg] = "whole"
          /\ k.commit[k.dir[d].pkg] = "whole"

\* What t removes can be removed from the disk k, in this order.
Sane(k, t) == \A i \in 1..Len(t) :
    /\ t[i].do = "unmark" => i = 1 /\ Unmarkable(k, t[i].at)
    /\ t[i].do = "quarantine" => i = 1 /\ k.dir[t[i].at] # None /\ k.dir[t[i].at].manifest = None
    /\ t[i].do = "rmdir" => /\ k.dir[t[i].at] # None
                            /\ i = 1 \/ (i = 2 /\ t[1] = Do("unmark", t[i].at))
    /\ t[i].do \in {"claimLock", "unown", "freeClaim"} => k.lock[t[i].at] # None
    /\ t[i].do = "unlock" => i = Len(t)

Does(t, S) == \A i \in 1..Len(t) : t[i].do \in S

OfLocks == {"claimLock", "unown", "freeClaim", "unlock"}
OfClaims == {"unprint", "unclaim"}
OfPackages == {"unmark", "rmdir", "quarantine", "unprint", "unclaim", "unreserve"}

\* Of at most n effects that leave the locks alone.
Ready(k, t, n) == t \in Seq(Effects) /\ Len(t) <= n /\ Sane(k, t) /\ Does(t, OfPackages)

Calm(t, n) == t \in Seq(Effects) /\ Len(t) <= n /\ Does(t, OfClaims \cup {"unreserve"})

-----------------------------------------------------------------------------
(* What is left to remove.                                                 *)

LEMMA EffectsAreTyped ==
    ASSUME NEW d \in Names, NEW p \in Packages, NEW s \in Sessions
    PROVE  /\ \A w \in {"unmark", "rmdir", "quarantine", "unprint", "unclaim"} : Do(w, d) \in Effects
           /\ Do("unreserve", p) \in Effects
           /\ \A w \in OfLocks : Do(w, s) \in Effects
BY DEF Do, Effects, OfLocks

LEMMA ReadyThenCalm ==
    ASSUME NEW k, NEW m \in Nat, NEW n \in Nat, NEW t, NEW u, Ready(k, t, m), Calm(u, n)
    PROVE  Ready(k, t \o u, m + n)
<1>1. /\ t \o u \in Seq(Effects) /\ Len(t \o u) = Len(t) + Len(u)
      /\ \A i \in 1..Len(t) : (t \o u)[i] = t[i]
      /\ \A i \in (Len(t) + 1)..(Len(t) + Len(u)) :
            (t \o u)[i] = u[i - Len(t)] /\ i - Len(t) \in 1..Len(u)
  BY DEF Ready, Calm
<1> DEFINE v == t \o u
<1>2. ASSUME NEW i \in 1..Len(v) PROVE
      \/ i \in 1..Len(t) /\ v[i] = t[i] 
      \/ v[i].do \in OfClaims \cup {"unreserve"}
  BY <1>1 DEF Ready, Calm, Does
<1>3. ASSUME NEW i \in 1..Len(t) PROVE v[i] = t[i]
  BY <1>1
<1>4. Len(v) <= m + n /\ v \in Seq(Effects)
  BY <1>1 DEF Ready, Calm
<1>5. Does(v, OfPackages)
  BY <1>2 DEF Does, Ready, OfClaims, OfPackages
<1>6. Len(t) \in Nat
  BY DEF Ready
<1> HIDE DEF v
<1>7. Sane(k, v)
  <2> SUFFICES ASSUME NEW i \in 1..Len(v), i \in 1..Len(t), v[i] = t[i]
               PROVE /\ v[i].do = "unmark" => i = 1 /\ Unmarkable(k, v[i].at)
                     /\ v[i].do = "quarantine" => i = 1 /\ k.dir[v[i].at] # None /\ k.dir[v[i].at].manifest = None
                     /\ v[i].do = "rmdir" => /\ k.dir[v[i].at] # None
                                             /\ i = 1 \/ (i = 2 /\ v[1] = Do("unmark", v[i].at))
                     /\ v[i].do \in {"claimLock", "unown", "freeClaim"} => k.lock[v[i].at] # None
                     /\ v[i].do = "unlock" => i = Len(v)
    BY <1>2 DEF Sane, OfClaims
  <2>1. v[1] = t[1] /\ 1 \in 1..Len(t)
    BY <1>3, <1>6
  <2>2. v[i].do # "unlock"
    BY DEF Ready, Does, OfPackages
  <2> QED BY <2>1, <2>2 DEF Sane, Ready
<1> QED BY <1>4, <1>5, <1>7 DEF Ready, v

LEMMA CalmIsReady ==
    ASSUME NEW k, NEW n, NEW t, Calm(t, n)
    PROVE  Ready(k, t, n)
BY DEF Calm, Ready, Does, Sane, OfClaims, OfPackages

LEMMA CalmThenCalm ==
    ASSUME NEW m \in Nat, NEW n \in Nat, NEW t, NEW u, Calm(t, m), Calm(u, n)
    PROVE  Calm(t \o u, m + n)
<1>1. /\ t \o u \in Seq(Effects) /\ Len(t \o u) = Len(t) + Len(u)
      /\ \A i \in 1..Len(t) : (t \o u)[i] = t[i]
      /\ \A i \in (Len(t) + 1)..(Len(t) + Len(u)) :
            (t \o u)[i] = u[i - Len(t)] /\ i - Len(t) \in 1..Len(u)
  BY DEF Calm
<1>2. Len(t) \in Nat /\ Len(u) \in Nat
  BY DEF Calm
<1> QED BY <1>1, <1>2 DEF Calm, Does

\* After what is ready the lock of the session goes.
LEMMA ReadyThenUnlock ==
    ASSUME NEW k, NEW t, NEW s \in Sessions, Ready(k, t, 5), k.lock[s] # None
    PROVE  LET u == t \o <<Do("unown", s), Do("unlock", s)>>
           IN  u \in Seq(Effects) /\ Len(u) <= 7 /\ Sane(k, u)
<1> DEFINE l == <<Do("unown", s), Do("unlock", s)>>
           u == t \o l
<1>0. Do("unown", s) \in Effects /\ Do("unlock", s) \in Effects
  BY DEF Do, Effects
<1>1. /\ u \in Seq(Effects) /\ Len(u) = Len(t) + 2
      /\ \A i \in 1..Len(t) : u[i] = t[i]
      /\ u[Len(t) + 1] = Do("unown", s)
      /\ u[Len(t) + 2] = Do("unlock", s)
      /\ Len(t) \in Nat /\ Len(t) <= 5
  BY <1>0 DEF Ready
<1> HIDE DEF u
<1>2. ASSUME NEW i \in 1..Len(u)
      PROVE  \/ i \in 1..Len(t) \/ i = Len(t) + 1 \/ i = Len(t) + 2
  BY <1>1
<1>3. Sane(k, u)
  <2> SUFFICES ASSUME NEW i \in 1..Len(u)
               PROVE /\ u[i].do = "unmark" => i = 1 /\ Unmarkable(k, u[i].at)
                     /\ u[i].do = "quarantine" => i = 1 /\ k.dir[u[i].at] # None /\ k.dir[u[i].at].manifest = None
                     /\ u[i].do = "rmdir" => /\ k.dir[u[i].at] # None
                                             /\ i = 1 \/ (i = 2 /\ u[1] = Do("unmark", u[i].at))
                     /\ u[i].do \in {"claimLock", "unown", "freeClaim"} => k.lock[u[i].at] # None
                     /\ u[i].do = "unlock" => i = Len(u)
    BY DEF Sane
  <2>1. CASE i \in 1..Len(t)
    <3>1. u[i] = t[i] /\ u[1] = t[1]
      BY <1>1, <2>1
    <3>2. t[i].do \notin OfLocks
      BY <2>1 DEF Ready, Does, OfLocks, OfPackages
    <3> QED BY <3>1, <3>2, <2>1 DEF Ready, Sane, OfLocks
  <2>2. CASE i = Len(t) + 1
    BY <2>2, <1>1 DEF Do
  <2>3. CASE i = Len(t) + 2
    BY <2>3, <1>1 DEF Do
  <2> QED BY <2>1, <2>2, <2>3, <1>2
<1> QED BY <1>1, <1>3 DEF u

LEMMA RemoveClaimIsCalm ==
    ASSUME NEW d \in Names, NEW p \in Packages
    PROVE  Calm(RemoveClaim(d, p), 2) /\ Does(RemoveClaim(d, p), OfClaims)
<1> DEFINE a == Do("unprint", d)
           b == Do("unclaim", d)
           t == <<>> \o <<b>>
           u == <<a>> \o <<b>>
<1>1. a \in Effects /\ b \in Effects /\ a.do \in OfClaims /\ b.do \in OfClaims
  BY DEF Do, Effects, OfClaims
<1>2. RemoveClaim(d, p) \in {<<>>, t, u}
  BY DEF RemoveClaim
<1> HIDE DEF a, b
<1>3. t \in Seq(Effects) /\ Len(t) = 1 /\ t[1] = b
  BY <1>1
<1>4. u \in Seq(Effects) /\ Len(u) = 2 /\ u[1] = a /\ u[2] = b
  BY <1>1
<1> HIDE DEF t, u
<1>5. Does(<<>>, OfClaims)
  BY DEF Does
<1>6. Does(t, OfClaims)
  BY <1>1, <1>3 DEF Does
<1>7. Does(u, OfClaims)
  <2>1. \A i \in 1..Len(u) : i = 1 \/ i = 2
    BY <1>4
  <2> QED BY <1>1, <1>4, <2>1 DEF Does
<1>8. <<>> \in Seq(Effects) /\ Len(<<>>) = 0
  OBVIOUS
<1> DEFINE v == RemoveClaim(d, p)
<1>9. v = <<>> \/ v = t \/ v = u
  BY <1>2
<1> HIDE DEF v
<1>10. v \in Seq(Effects) /\ Len(v) <= 2
  <2>1. Len(<<>>) <= 2 /\ Len(t) <= 2 /\ Len(u) <= 2
    BY <1>3, <1>4
  <2> QED BY <1>9, <2>1, <1>3, <1>4, <1>8, Zenon
<1>11. Does(v, OfClaims)
  BY <1>9, <1>5, <1>6, <1>7, Zenon
<1>12. Does(v, OfClaims \cup {"unreserve"})
  BY <1>11 DEF Does
<1> QED BY <1>10, <1>11, <1>12, Zenon DEF Calm, v

LEMMA UnreserveIsCalm ==
    ASSUME NEW p \in Packages
    PROVE  Calm(<<Do("unreserve", p)>>, 1)
<1>0. Do("unreserve", p) \in Effects
  BY DEF Do, Effects
<1> QED BY <1>0 DEF Calm, Does, Do

LEMMA RemoveEmptyIsReady ==
    ASSUME NEW k, NEW d \in Names, NEW p \in Packages, Unmarkable(k, d)
    PROVE  Ready(k, RemoveEmpty(d, p), 3)
<1>0. Do("unmark", d) \in Effects /\ Do("rmdir", d) \in Effects /\ Do("unreserve", p) \in Effects
  BY DEF Do, Effects
<1>1. k.dir[d] # None
  BY DEF Unmarkable
<1> DEFINE t == <<Do("unmark", d), Do("rmdir", d), Do("unreserve", p)>>
<1>2. t \in Seq(Effects) /\ Len(t) = 3
  BY <1>0
<1>3. t[1] = Do("unmark", d) /\ t[2] = Do("rmdir", d) /\ t[3] = Do("unreserve", p)
  OBVIOUS
<1> HIDE DEF t
<1>4. /\ t[1].do = "unmark" /\ t[1].at = d
      /\ t[2].do = "rmdir" /\ t[2].at = d
      /\ t[3].do = "unreserve" /\ t[3].at = p
  BY <1>3 DEF Do
<1>5. Sane(k, t) /\ Does(t, OfPackages)
  <2>1. \A i \in 1..Len(t) : i = 1 \/ i = 2 \/ i = 3
    BY <1>2
  <2> QED BY <1>1, <1>2, <1>3, <1>4, <2>1 DEF Sane, Does, OfPackages
<1> QED BY <1>2, <1>5 DEF t, Ready, RemoveEmpty

LEMMA SetAsideIsReady ==
    ASSUME NEW k, NEW d \in Names, NEW p \in Packages, k.dir[d] # None, k.dir[d].manifest = None
    PROVE  Ready(k, SetAside(d, p), 3)
<1>0. Do("quarantine", d) \in Effects /\ Do("unreserve", p) \in Effects
  BY DEF Do, Effects
<1>1. k.dir[d] # None /\ k.dir[d].manifest = None
  OBVIOUS
<1> DEFINE t == <<Do("quarantine", d), Do("unreserve", p)>>
<1>2. t \in Seq(Effects) /\ Len(t) = 2
  BY <1>0
<1>3. t[1] = Do("quarantine", d) /\ t[2] = Do("unreserve", p)
  OBVIOUS
<1> HIDE DEF t
<1>4. /\ t[1].do = "quarantine" /\ t[1].at = d
      /\ t[2].do = "unreserve" /\ t[2].at = p
  BY <1>3 DEF Do
<1>5. Sane(k, t) /\ Does(t, OfPackages)
  <2>1. \A i \in 1..Len(t) : i = 1 \/ i = 2
    BY <1>2
  <2> QED BY <1>1, <1>2, <1>3, <1>4, <2>1 DEF Sane, Does, OfPackages
<1> QED BY <1>2, <1>5 DEF t, Ready, SetAside

LEMMA UnmarkIsReady ==
    ASSUME NEW k, NEW d \in Names, Unmarkable(k, d)
    PROVE  Ready(k, <<Do("unmark", d)>>, 3)
<1>0. Do("unmark", d) \in Effects
  BY DEF Do, Effects
<1>1. Unmarkable(k, d)
  OBVIOUS
<1> DEFINE t == <<Do("unmark", d)>>
<1>2. t \in Seq(Effects) /\ Len(t) = 1
  BY <1>0
<1>3. t[1] = Do("unmark", d)
  OBVIOUS
<1> HIDE DEF t
<1>4. /\ t[1].do = "unmark" /\ t[1].at = d
  BY <1>3 DEF Do
<1>5. Sane(k, t) /\ Does(t, OfPackages)
  <2>1. \A i \in 1..Len(t) : i = 1
    BY <1>2
  <2> QED BY <1>1, <1>2, <1>3, <1>4, <2>1 DEF Sane, Does, OfPackages
<1> QED BY <1>2, <1>5 DEF t, Ready

LEMMA RmdirIsReady ==
    ASSUME NEW k, NEW d \in Names, k.dir[d] # None
    PROVE  Ready(k, <<Do("rmdir", d)>>, 1)
<1>0. Do("rmdir", d) \in Effects
  BY DEF Do, Effects
<1>1. k.dir[d] # None
  OBVIOUS
<1> DEFINE t == <<Do("rmdir", d)>>
<1>2. t \in Seq(Effects) /\ Len(t) = 1
  BY <1>0
<1>3. t[1] = Do("rmdir", d)
  OBVIOUS
<1> HIDE DEF t
<1>4. /\ t[1].do = "rmdir" /\ t[1].at = d
  BY <1>3 DEF Do
<1>5. Sane(k, t) /\ Does(t, OfPackages)
  <2>1. \A i \in 1..Len(t) : i = 1
    BY <1>2
  <2> QED BY <1>1, <1>2, <1>3, <1>4, <2>1 DEF Sane, Does, OfPackages
<1> QED BY <1>2, <1>5 DEF t, Ready

LEMMA PrintUndoIsReady ==
    ASSUME NEW k, NEW d \in Names, k.dir[d] # None
    PROVE  Ready(k, <<Do("rmdir", d), Do("unprint", d), Do("unclaim", d)>>, 3)
<1>0. Do("rmdir", d) \in Effects /\ Do("unprint", d) \in Effects /\ Do("unclaim", d) \in Effects
  BY DEF Do, Effects
<1>1. k.dir[d] # None
  OBVIOUS
<1> DEFINE t == <<Do("rmdir", d), Do("unprint", d), Do("unclaim", d)>>
<1>2. t \in Seq(Effects) /\ Len(t) = 3
  BY <1>0
<1>3. t[1] = Do("rmdir", d) /\ t[2] = Do("unprint", d) /\ t[3] = Do("unclaim", d)
  OBVIOUS
<1> HIDE DEF t
<1>4. /\ t[1].do = "rmdir" /\ t[1].at = d /\ t[2].do = "unprint" /\ t[3].do = "unclaim"
  BY <1>3 DEF Do
<1>5. Sane(k, t) /\ Does(t, OfPackages)
  <2>1. \A i \in 1..Len(t) : i = 1 \/ i = 2 \/ i = 3
    BY <1>2
  <2> QED BY <1>1, <1>2, <1>3, <1>4, <2>1 DEF Sane, Does, OfPackages
<1> QED BY <1>2, <1>5 DEF t, Ready

LEMMA NothingIsReady ==
    ASSUME NEW k
    PROVE  Ready(k, <<>>, 0) /\ Calm(<<>>, 0)
BY DEF Ready, Calm, Sane, Does

LEMMA RecoverLockIsSane ==
    ASSUME NEW k, NEW s \in Sessions, k.lock[s] # None
    PROVE  /\ RecoverLock(s) \in Seq(Effects) /\ Len(RecoverLock(s)) <= 7 /\ Sane(k, RecoverLock(s))
           /\ <<Do("unlock", s)>> \in Seq(Effects) /\ Len(<<Do("unlock", s)>>) <= 7
           /\ Sane(k, <<Do("unlock", s)>>)
<1>0. \A w \in OfLocks : Do(w, s) \in Effects
  BY DEF Do, Effects, OfLocks
<1> DEFINE t == <<Do("claimLock", s), Do("unown", s), Do("freeClaim", s), Do("unlock", s)>>
           u == <<Do("unlock", s)>>
<1>1. t \in Seq(Effects) /\ Len(t) = 4 /\ u \in Seq(Effects) /\ Len(u) = 1
  BY <1>0 DEF OfLocks
<1>2. t = RecoverLock(s)
  BY DEF RecoverLock
<1>3. /\ t[1] = Do("claimLock", s) /\ t[2] = Do("unown", s)
      /\ t[3] = Do("freeClaim", s) /\ t[4] = Do("unlock", s) /\ u[1] = Do("unlock", s)
  OBVIOUS
<1> HIDE DEF t, u
<1>4. /\ t[1].do = "claimLock" /\ t[1].at = s /\ t[2].do = "unown" /\ t[2].at = s
      /\ t[3].do = "freeClaim" /\ t[3].at = s /\ t[4].do = "unlock" /\ u[1].do = "unlock"
  BY <1>3 DEF Do
<1>5. Sane(k, t)
  <2>1. \A i \in 1..Len(t) : i = 1 \/ i = 2 \/ i = 3 \/ i = 4
    BY <1>1
  <2> QED BY <1>1, <1>4, <2>1 DEF Sane
<1>6. Sane(k, u)
  BY <1>1, <1>4 DEF Sane
<1>7. Len(t) <= 7 /\ Len(u) <= 7
  BY <1>1
<1>8. u = <<Do("unlock", s)>>
  BY DEF u
<1> QED BY <1>1, <1>2, <1>5, <1>6, <1>7, <1>8, Zenon

-----------------------------------------------------------------------------
(* The invariant.                                                          *)

\* What a directory or a claim names has records.
Named ==
    /\ \A d \in Names : disk.dir[d] # None => of[disk.dir[d].pkg] # None
    /\ \A d \in Names : disk.claim[d] \in Packages => of[disk.claim[d]] # None

FilesOK ==
    /\ disk \in Disks
    /\ of \in [Packages -> Records \cup {None}]
    /\ Named
    /\ UnmarkedIsCommitted

\* From the lock to its release an operation has the lock of its session.
Holder ==
    /\ op.locked => op.key \in Sessions /\ op.stage \notin {"locks", "lock", "own"}
    /\ op.locked /\ op.stage # "release" => disk.lock[op.key] # None
    /\ op.stage \in {"lock", "own"} => op.key \in Sessions
    /\ op.stage = "evidence" => op.key = None \/ op.locked
    /\ op.stage \in Creating \cup {"reserve"} => op.locked
    /\ op.stage \notin {"release", "lock", "locks"} => Does(op.todo, OfPackages)
    /\ op.stage \in Creating => Does(op.todo, OfClaims)
    /\ op.stage = "finish" => op.todo = <<>>

\* A session that is being created has no package.
Alone ==
    op.key # None /\ op.stage \in {"evidence", "reserve"} \cup (Creating \ {"commit"})
       => ~Published(op.key)

\* How far the creation has come, and what a package to finish is.
Made ==
    /\ op.stage \in Creating => /\ op.pkg \in Packages
                                /\ of[op.pkg] # None /\ of[op.pkg].key = op.key
                                /\ disk.res[op.pkg] = "whole" /\ disk.commit[op.pkg] = None
    /\ op.stage \in Creating \ {"claim"} => op.name \in Names
    /\ op.stage \in Creating \ {"claim", "mkdir"} =>
          /\ disk.dir[op.name] # None
          /\ disk.dir[op.name].pkg = op.pkg
          /\ op.stage \in {"print", "mark"} => disk.dir[op.name].marker = None
          /\ op.stage \in {"content", "manifest", "commit"} => disk.dir[op.name].marker = "whole"
          /\ op.stage \in {"print", "mark", "content"} => ~disk.dir[op.name].content
          /\ op.stage # "commit" => disk.dir[op.name].manifest = None
          /\ op.stage = "commit" => disk.dir[op.name].manifest = "whole"
    /\ op.stage = "finish" => /\ op.name \in Names
                              /\ disk.dir[op.name] # None
                              /\ disk.dir[op.name].marker = "whole"
                              /\ disk.dir[op.name].manifest = "whole"

OpOK ==
    op # None => /\ op \in Operations
                 /\ Len(op.todo) <= 7
                 /\ Sane(disk, op.todo)
                 /\ Holder /\ Alone /\ Made

PublishInv == FilesOK /\ OpOK

LEMMA TypesFollow == PublishInv => TypeOK
BY DEF PublishInv, FilesOK, OpOK, TypeOK

LEMMA Still ==
    ASSUME FilesOK, UNCHANGED <<disk, of>>
    PROVE  FilesOK'
BY DEF FilesOK, Named, UnmarkedIsCommitted, IsEmpty

LEMMA NoneIsNothing ==
    /\ None \notin Operations /\ None \notin Directories /\ None \notin Locks /\ None \notin Records
    /\ None \notin Sessions /\ None \notin Packages /\ Torn \notin Packages /\ None # "whole" /\ Torn # "whole" /\ None # Torn
BY PublishAssumption

LEMMA InitInv == Init => PublishInv
<1> SUFFICES ASSUME Init PROVE PublishInv
  OBVIOUS
<1>1. disk \in Disks /\ of \in [Packages -> Records \cup {None}]
  BY DEF Init, EmptyDisk, Disks, Files
<1>2. Named
  BY NoneIsNothing DEF Init, EmptyDisk, Named
<1>3. UnmarkedIsCommitted
  BY DEF Init, EmptyDisk, UnmarkedIsCommitted
<1> QED BY <1>1, <1>2, <1>3 DEF PublishInv, FilesOK, OpOK, Init

-----------------------------------------------------------------------------
(* What a step makes of the operation.                                     *)

LEMMA Went ==
    ASSUME op \in Operations, NEW s \in Stages, NEW t \in Seq(Effects), Goto(s, t)
    PROVE  /\ op' \in Operations /\ op' # None /\ op'.stage = s /\ op'.todo = t
           /\ op'.key = op.key /\ op'.locked = op.locked /\ op'.pkg = op.pkg /\ op'.name = op.name
<1>1. op' = [op EXCEPT !.stage = s, !.todo = t]
  BY DEF Goto
<1>2. op' \in Operations
  BY <1>1 DEF Operations
<1> QED BY <1>1, <1>2, NoneIsNothing DEF Operations

LEMMA LeaveKeeps ==
    ASSUME op \in Operations, op.locked => op.key \in Sessions /\ disk'.lock[op.key] # None,
           NEW t, Ready(disk', t, 5), Leave(t)
    PROVE  OpOK'
<1>1. CASE ~op.locked
  BY <1>1 DEF Leave, OpOK
<1>2. CASE op.locked
  <2> DEFINE u == t \o <<Do("unown", op.key), Do("unlock", op.key)>>
  <2>1. op.key \in Sessions /\ disk'.lock[op.key] # None
    BY <1>2
  <2>2. u \in Seq(Effects) /\ Len(u) <= 7 /\ Sane(disk', u)
    BY <2>1, ReadyThenUnlock
  <2>3. Goto("release", u)
    BY <1>2 DEF Leave
  <2> HIDE DEF u
  <2>4. "release" \in Stages
    BY DEF Stages
  <2>5. /\ op' \in Operations /\ op' # None /\ op'.stage = "release" /\ op'.todo = u
        /\ op'.key = op.key
    BY <2>2, <2>3, <2>4, Went
  <2>6. Holder' /\ Alone' /\ Made'
    BY <2>1, <2>5 DEF Holder, Alone, Made, Creating
  <2> QED BY <2>2, <2>5, <2>6 DEF OpOK
<1>3. op.locked \in BOOLEAN
  BY DEF Operations
<1> QED BY <1>1, <1>2

\* A visit of the walk, or of the claims.
LEMMA VisitKeeps ==
    ASSUME PublishInv, UNCHANGED <<disk, of>>, op # None, op.stage \in {"walk", "claims"},
           NEW d \in Names, NEW stage \in {"walk", "claims"}, NEW t, Ready(disk, t, 7),
           NEW issues \in SUBSET Issues, Visited(d, stage, t, issues)
    PROVE  PublishInv'
<1>1. op \in Operations /\ Holder /\ FilesOK
  BY DEF PublishInv, OpOK
<1>2. t \in Seq(Effects) /\ Len(t) <= 7 /\ Sane(disk, t) /\ Does(t, OfPackages)
  BY DEF Ready
<1>3. d \in 1..(MaxName + 1)
  BY PublishAssumption DEF Names
<1>4. op' = [op EXCEPT !.stage = stage, !.name = d, !.left = @ \ {d},
                       !.todo = t, !.issues = @ \cup issues]
  BY DEF Visited
<1>5. op' \in Operations
  BY <1>1, <1>2, <1>3, <1>4 DEF Operations, Stages
<1>6. /\ op' # None /\ op'.stage = stage /\ op'.todo = t
      /\ op'.key = op.key /\ op'.locked = op.locked
  BY <1>1, <1>4, <1>5, NoneIsNothing DEF Operations
<1>7. Holder'
  BY <1>1, <1>2, <1>6 DEF Holder, Creating
<1>8. Alone' /\ Made'
  BY <1>6 DEF Alone, Made, Creating
<1>9. OpOK'
  BY <1>2, <1>5, <1>6, <1>7, <1>8 DEF OpOK
<1> QED BY <1>1, <1>9, Still DEF PublishInv

LEMMA IssuesAreTyped ==
    ASSUME of \in [Packages -> Records \cup {None}], NEW p \in Packages, of[p] # None
    PROVE  IssueOf(p) \in Issues /\ Unreadable \in Issues
<1>1. of[p].key \in Sessions
  BY DEF Records
<1>2. (~Gone(p)) \in BOOLEAN
  BY Zenon
<1> QED BY <1>1, <1>2 DEF IssueOf, Unreadable, Issues

LEMMA VisitDirKeeps ==
    ASSUME PublishInv, NEW d \in Names, VisitDir(d)
    PROVE  PublishInv'
<1> DEFINE x == disk.dir[d]
<1>0. /\ op # None /\ op.stage = "walk" /\ UNCHANGED <<disk, of>>
      /\ disk \in Disks /\ of \in [Packages -> Records \cup {None}]
      /\ op \in Operations /\ Holder /\ FilesOK
  BY DEF VisitDir, At, PublishInv, FilesOK, OpOK
<1>1. x # None => x \in Directories /\ x.pkg \in Packages /\ of[x.pkg] # None
  BY <1>0 DEF Disks, FilesOK, Named, Directories
<1>2. Ready(disk, <<>>, 7)
  BY NothingIsReady DEF Ready
<1>3. CASE Visited(d, "walk", <<>>, {})
  BY <1>0, <1>2, <1>3, VisitKeeps
<1>4. CASE x # None /\ Undoable(x) /\ Visited(d, "walk", RemoveIncomplete(d), {})
  <2>1. x.manifest = None
    BY <1>4 DEF Undoable
  <2>2. CASE x.content
    <3>1. RemoveIncomplete(d) = SetAside(d, x.pkg)
      BY <2>2 DEF RemoveIncomplete
    <3>2. Ready(disk, SetAside(d, x.pkg), 3)
      BY <1>1, <1>4, <2>1, SetAsideIsReady
    <3>3. Ready(disk, SetAside(d, x.pkg), 7)
      BY <3>2 DEF Ready
    <3> QED BY <1>0, <1>4, <3>1, <3>3, VisitKeeps
  <2>3. CASE ~x.content
    <3>1. RemoveIncomplete(d) = RemoveEmpty(d, x.pkg)
      BY <2>3 DEF RemoveIncomplete
    <3>2. Ready(disk, RemoveEmpty(d, x.pkg), 3)
      BY <1>1, <1>4, <2>1, <2>3, RemoveEmptyIsReady DEF Unmarkable
    <3>3. Ready(disk, RemoveEmpty(d, x.pkg), 7)
      BY <3>2 DEF Ready
    <3> QED BY <1>0, <1>4, <3>1, <3>3, VisitKeeps
  <2> QED BY <2>2, <2>3
<1>5. CASE x # None /\ x.marker = "whole" /\ x.manifest = "whole" /\ Visited(d, "finish", <<>>, {})
  <2>1. op' = [op EXCEPT !.stage = "finish", !.name = d, !.left = @ \ {d},
                         !.todo = <<>>, !.issues = @ \cup {}]
    BY <1>5 DEF Visited
  <2>2. d \in 1..(MaxName + 1)
    BY PublishAssumption DEF Names
  <2>9. <<>> \in Seq(Effects)
    OBVIOUS
  <2>3. op' \in Operations
    BY <1>0, <2>1, <2>2, <2>9 DEF Operations, Stages
  <2>4. /\ op' # None /\ op'.stage = "finish" /\ op'.todo = <<>> /\ op'.name = d
        /\ op'.key = op.key /\ op'.locked = op.locked
    BY <1>0, <2>1, <2>3, NoneIsNothing DEF Operations
  <2>5. Sane(disk', op'.todo) /\ Len(op'.todo) <= 7 /\ Does(op'.todo, OfPackages)
    BY <2>4, NothingIsReady DEF Ready, Does
  <2>6. Holder'
    BY <1>0, <2>4, <2>5 DEF Holder, Creating
  <2>7. Alone' /\ Made'
    BY <1>0, <1>5, <2>4 DEF Alone, Made, Creating
  <2>8. OpOK'
    BY <2>3, <2>5, <2>6, <2>7 DEF OpOK
  <2> QED BY <1>0, <2>8, Still DEF PublishInv
<1>6. CASE x # None /\ Visited(d, "walk", <<>>,
                               {IF x.marker = "whole" THEN IssueOf(x.pkg) ELSE Unreadable})
  <2>1. {IF x.marker = "whole" THEN IssueOf(x.pkg) ELSE Unreadable} \in SUBSET Issues
    BY <1>0, <1>1, <1>6, IssuesAreTyped
  <2> QED BY <1>0, <1>2, <1>6, <2>1, VisitKeeps
<1> QED BY <1>3, <1>4, <1>5, <1>6 DEF VisitDir

LEMMA VisitClaimKeeps ==
    ASSUME PublishInv, NEW d \in Names, VisitClaim(d)
    PROVE  PublishInv'
<1> DEFINE p == disk.claim[d]
           x == disk.dir[d]
<1>0. /\ op # None /\ op.stage = "claims" /\ UNCHANGED <<disk, of>>
      /\ disk \in Disks /\ of \in [Packages -> Records \cup {None}]
  BY DEF VisitClaim, At, PublishInv, FilesOK
<1>1. p \in Packages => of[p] # None
  BY DEF PublishInv, FilesOK, Named
<1>2. p = None \/ p = Torn \/ p \in Packages
  BY <1>0 DEF Disks
<1>3. Ready(disk, <<>>, 7)
  BY NothingIsReady DEF Ready
<1>4. CASE Visited(d, "claims", <<>>, {})
  BY <1>0, <1>3, <1>4, VisitKeeps
<1>5. CASE Visited(d, "claims", <<>>, {Unreadable})
  <2>1. {Unreadable} \in SUBSET Issues
    BY DEF Unreadable, Issues
  <2> QED BY <1>0, <1>3, <1>5, <2>1, VisitKeeps
<1>6. CASE p \in Packages /\ Visited(d, "claims", <<>>, {IssueOf(p)})
  <2>1. {IssueOf(p)} \in SUBSET Issues
    BY <1>0, <1>1, <1>6, IssuesAreTyped
  <2> QED BY <1>0, <1>3, <1>6, <2>1, VisitKeeps
<1>7. ASSUME p \in Packages
      PROVE  Calm(RemoveClaim(d, p), 2) /\ Calm(<<Do("unreserve", p)>>, 1)
  BY <1>7, RemoveClaimIsCalm, UnreserveIsCalm
<1>8. CASE p \in Packages /\ Visited(d, "claims", RemoveClaim(d, p) \o <<Do("unreserve", p)>>, {})
  <2>1. Calm(RemoveClaim(d, p) \o <<Do("unreserve", p)>>, 2 + 1)
    BY <1>7, <1>8, CalmThenCalm
  <2>3. Ready(disk, RemoveClaim(d, p) \o <<Do("unreserve", p)>>, 2 + 1)
    BY <2>1, CalmIsReady
  <2>2. Ready(disk, RemoveClaim(d, p) \o <<Do("unreserve", p)>>, 7)
    BY <2>3 DEF Ready
  <2> QED BY <1>0, <1>8, <2>2, VisitKeeps
<1>9. CASE p \in Packages /\ x # None
           /\ Visited(d, "claims",
                      <<Do("rmdir", d)>> \o RemoveClaim(d, p) \o <<Do("unreserve", p)>>, {})
  <2>1. Ready(disk, <<Do("rmdir", d)>>, 1)
    BY <1>9, RmdirIsReady
  <2>2. Ready(disk, <<Do("rmdir", d)>> \o RemoveClaim(d, p), 1 + 2)
    BY <1>7, <1>9, <2>1, ReadyThenCalm
  <2>3. Ready(disk, <<Do("rmdir", d)>> \o RemoveClaim(d, p) \o <<Do("unreserve", p)>>, (1 + 2) + 1)
    BY <1>7, <1>9, <2>2, ReadyThenCalm
  <2>4. Ready(disk, <<Do("rmdir", d)>> \o RemoveClaim(d, p) \o <<Do("unreserve", p)>>, 7)
    BY <2>3 DEF Ready
  <2> QED BY <1>0, <1>9, <2>4, VisitKeeps
<1> QED BY <1>2, <1>4, <1>5, <1>6, <1>8, <1>9 DEF VisitClaim

\* An operation that only goes on, with nothing to remove.
LEMMA MoveKeeps ==
    ASSUME PublishInv, UNCHANGED <<disk, of>>, op # None, NEW stage \in {"claims", "resolve"},
           op' \in Operations, op'.stage = stage, op'.todo = <<>>, op'.key = op.key,
           op'.locked = op.locked, op.stage \in {"walk", "claims"}
    PROVE  PublishInv'
<1>1. op \in Operations /\ Holder /\ FilesOK
  BY DEF PublishInv, OpOK
<1>2. Sane(disk', op'.todo) /\ Len(op'.todo) <= 7 /\ Does(op'.todo, OfPackages)
  BY NothingIsReady DEF Ready, Does
<1>3. Holder'
  BY <1>1, <1>2 DEF Holder, Creating
<1>4. Alone' /\ Made'
  BY DEF Alone, Made, Creating
<1>5. OpOK'
  BY <1>2, <1>3, <1>4 DEF OpOK
<1> QED BY <1>1, <1>5, Still DEF PublishInv

LEMMA WalkedKeeps ==
    ASSUME PublishInv, Walked
    PROVE  PublishInv'
<1>1. op # None /\ op \in Operations /\ op.todo = <<>> /\ op.stage \in {"walk", "claims"}
  BY DEF Walked, At, PublishInv, OpOK
<1>2. CASE op.stage = "walk"
  <2>1. op' = [op EXCEPT !.stage = "claims", !.left = Names] /\ UNCHANGED <<disk, of>>
    BY <1>2 DEF Walked
  <2>2. op' \in Operations
    BY <1>1, <2>1 DEF Operations, Stages
  <2>3. op'.stage = "claims" /\ op'.todo = <<>> /\ op'.key = op.key /\ op'.locked = op.locked
    BY <1>1, <2>1 DEF Operations
  <2> QED BY <1>1, <2>1, <2>2, <2>3, MoveKeeps
<1>3. CASE op.stage = "claims"
  <2>1. op' = [op EXCEPT !.stage = "resolve"] /\ UNCHANGED <<disk, of>>
    BY <1>3 DEF Walked
  <2>2. op' \in Operations
    BY <1>1, <2>1 DEF Operations, Stages
  <2>3. op'.stage = "resolve" /\ op'.todo = <<>> /\ op'.key = op.key /\ op'.locked = op.locked
    BY <1>1, <2>1 DEF Operations
  <2> QED BY <1>1, <2>1, <2>2, <2>3, MoveKeeps
<1> QED BY <1>1, <1>2, <1>3

\* The finally clause, with the files as they were.
LEMMA LeaveStill ==
    ASSUME PublishInv, UNCHANGED <<disk, of>>, op # None, op.stage # "release",
           NEW t, Ready(disk, t, 5), Leave(t)
    PROVE  PublishInv'
<1>1. op \in Operations /\ Holder /\ FilesOK
  BY DEF PublishInv, OpOK
<1>2. op.locked => op.key \in Sessions /\ disk'.lock[op.key] # None
  BY <1>1 DEF Holder
<1>3. OpOK'
  BY <1>1, <1>2, LeaveKeeps
<1> QED BY <1>1, <1>3, Still DEF PublishInv

LEMMA ResolveKeeps ==
    ASSUME PublishInv, Resolve
    PROVE  PublishInv'
<1>1. /\ op # None /\ op \in Operations /\ op.stage = "resolve" /\ Holder /\ FilesOK
      /\ UNCHANGED <<disk, of>>
  BY DEF Resolve, At, PublishInv, OpOK
<1>2. CASE op.key # None /\ Published(op.key)
  <2>1. Ready(disk, <<>>, 5)
    BY NothingIsReady DEF Ready
  <2> QED BY <1>1, <1>2, <2>1, LeaveStill DEF Resolve
<1>3. CASE op.key = None \/ ~Published(op.key)
  <2> DEFINE s == IF op.key = None \/ op.locked THEN "evidence" ELSE "lock"
  <2>1. Goto(s, <<>>)
    BY <1>3 DEF Resolve
  <2>2. s \in Stages /\ <<>> \in Seq(Effects)
    BY DEF Stages
  <2>3. /\ op' \in Operations /\ op' # None /\ op'.stage = s /\ op'.todo = <<>>
        /\ op'.key = op.key /\ op'.locked = op.locked
    BY <1>1, <2>1, <2>2, Went
  <2>4. Sane(disk', op'.todo) /\ Len(op'.todo) <= 7 /\ Does(op'.todo, OfPackages)
    BY <2>3, NothingIsReady DEF Ready, Does
  <2>5. op.key # None => op.key \in Sessions
    BY <1>1 DEF Operations
  <2>6. Holder'
    BY <1>1, <2>3, <2>4, <2>5 DEF Holder, Creating
  <2>7. Alone'
    BY <1>1, <1>3, <2>3 DEF Alone, Published
  <2>8. Made'
    BY <2>3 DEF Made, Creating
  <2>9. OpOK'
    BY <2>3, <2>4, <2>6, <2>7, <2>8 DEF OpOK
  <2> QED BY <1>1, <2>9, Still DEF PublishInv
<1> QED BY <1>2, <1>3

LEMMA RefuseKeeps ==
    ASSUME PublishInv, Refuse
    PROVE  PublishInv'
<1>1. op # None /\ op.stage # "release" /\ UNCHANGED <<disk, of>> /\ Leave(<<>>)
  BY DEF Refuse, At
<1>2. Ready(disk, <<>>, 5)
  BY NothingIsReady DEF Ready
<1> QED BY <1>1, <1>2, LeaveStill

LEMMA ReleasedKeeps ==
    ASSUME PublishInv, Released
    PROVE  PublishInv'
BY Still DEF Released, PublishInv, OpOK

-----------------------------------------------------------------------------
(* The commit record of a package whose manifest is whole.                 *)

LEMMA CommitKeepsFiles ==
    ASSUME FilesOK, NEW d \in Names, disk.dir[d] # None, disk.dir[d].manifest = "whole",
           NEW p \in Packages, p = disk.dir[d].pkg, disk.commit[p] # "whole", NEW left \in Files,
           SetCommit(p, left), UNCHANGED of
    PROVE  /\ FilesOK'
           /\ disk'.commit[p] = left
           /\ disk'.dir = disk.dir /\ disk'.res = disk.res /\ disk'.lock = disk.lock
<1>1. disk \in Disks
  BY DEF FilesOK
<1>3. disk' \in Disks
  BY <1>1 DEF Disks, SetCommit
<1>4. /\ disk'.dir = disk.dir /\ disk'.res = disk.res /\ disk'.lock = disk.lock
      /\ disk'.claim = disk.claim
      /\ disk'.commit[p] = left
      /\ \A q \in Packages : q # p => disk'.commit[q] = disk.commit[q]
  BY <1>1 DEF Disks, SetCommit
<1>5. Named'
  BY <1>4 DEF FilesOK, Named
<1>6. \A e \in Names : disk.dir[e] # None => disk.dir[e].pkg \in Packages
  BY <1>1 DEF Disks, Directories
<1>7. UnmarkedIsCommitted'
  <2>1. ASSUME NEW e \in Names, disk.dir[e] # None, ~IsEmpty(disk.dir[e]), disk.dir[e].marker = None
        PROVE  /\ disk.dir[e].manifest = "whole" /\ disk.res[disk.dir[e].pkg] = "whole"
               /\ disk'.commit[disk.dir[e].pkg] = "whole"
    BY <1>4, <1>6, <2>1 DEF FilesOK, UnmarkedIsCommitted
  <2>2. ASSUME NEW q \in Packages, disk'.commit[q] # None
        PROVE  \E e \in Names : disk.dir[e] # None /\ disk.dir[e].pkg = q
                                /\ disk.dir[e].manifest = "whole"
    BY <1>4, <2>2 DEF FilesOK, UnmarkedIsCommitted
  <2> QED BY <1>4, <2>1, <2>2 DEF FilesOK, UnmarkedIsCommitted, IsEmpty
<1> QED BY <1>3, <1>4, <1>5, <1>7 DEF FilesOK

LEMMA FinishKeeps ==
    ASSUME PublishInv, Finish
    PROVE  PublishInv'
<1> DEFINE d == op.name
           p == disk.dir[d].pkg
           t == <<Do("unmark", d)>>
<1>1. /\ op # None /\ op \in Operations /\ op.stage = "finish" /\ Holder /\ FilesOK
      /\ d \in Names /\ disk.dir[d] # None /\ disk.dir[d].manifest = "whole"
      /\ disk.res[p] = "whole" /\ disk.commit[p] # Torn /\ UNCHANGED of
  BY DEF Finish, At, PublishInv, OpOK, Made
<1>5. p \in Packages
  BY <1>1 DEF FilesOK, Disks, Directories
<1>2. ASSUME Unmarkable(disk', d), Goto("walk", t), disk'.lock = disk.lock
      PROVE  OpOK'
  <2>1. Ready(disk', t, 3)
    BY <1>1, <1>2, UnmarkIsReady
  <2>2. "walk" \in Stages /\ t \in Seq(Effects)
    BY <2>1 DEF Stages, Ready
  <2> HIDE DEF t
  <2>3. /\ op' \in Operations /\ op' # None /\ op'.stage = "walk" /\ op'.todo = t
        /\ op'.key = op.key /\ op'.locked = op.locked
    BY <1>1, <1>2, <2>2, Went
  <2>4. Sane(disk', op'.todo) /\ Len(op'.todo) <= 7 /\ Does(op'.todo, OfPackages)
    BY <2>1, <2>3 DEF Ready
  <2>5. Holder'
    BY <1>1, <1>2, <2>3, <2>4 DEF Holder, Creating
  <2>6. Alone' /\ Made'
    BY <2>3 DEF Alone, Made, Creating
  <2> QED BY <2>3, <2>4, <2>5, <2>6 DEF OpOK
<1>3. CASE disk.commit[p] = "whole"
  <2>1. Goto("walk", t) /\ UNCHANGED disk
    BY <1>3 DEF Finish
  <2>2. Unmarkable(disk', d)
    BY <1>1, <1>3, <2>1 DEF Unmarkable
  <2>3. OpOK'
    BY <1>2, <2>1, <2>2
  <2> QED BY <1>1, <2>1, <2>3, Still DEF PublishInv
<1>4. CASE disk.commit[p] # "whole"
  <2>1. PICK left \in Files : /\ SetCommit(p, left)
                              /\ (left = "whole" /\ Goto("walk", t)) \/ Leave(<<>>)
    BY <1>4 DEF Finish, Writing, Files
  <2>2. /\ FilesOK' /\ disk'.commit[p] = left
        /\ disk'.dir = disk.dir /\ disk'.res = disk.res /\ disk'.lock = disk.lock
    BY <1>1, <1>4, <1>5, <2>1, CommitKeepsFiles
  <2>3. CASE left = "whole" /\ Goto("walk", t)
    <3>1. Unmarkable(disk', d)
      BY <1>1, <2>2, <2>3 DEF Unmarkable
    <3> QED BY <1>2, <2>2, <2>3, <3>1 DEF PublishInv
  <2>4. CASE Leave(<<>>)
    <3>1. Ready(disk', <<>>, 5)
      BY NothingIsReady DEF Ready
    <3>2. op.locked => op.key \in Sessions /\ disk'.lock[op.key] # None
      BY <1>1, <2>2 DEF Holder
    <3>3. OpOK'
      BY <1>1, <2>4, <3>1, <3>2, LeaveKeeps
    <3> QED BY <2>2, <3>3 DEF PublishInv
  <2> QED BY <2>1, <2>3, <2>4
<1> QED BY <1>3, <1>4

-----------------------------------------------------------------------------
(* The locks.                                                              *)

LEMMA LocksApart ==
    ASSUME FilesOK, disk' \in Disks, UNCHANGED of,
           disk'.dir = disk.dir, disk'.claim = disk.claim,
           disk'.res = disk.res, disk'.commit = disk.commit
    PROVE  FilesOK'
BY DEF FilesOK, Named, UnmarkedIsCommitted, IsEmpty

\* A new operation, or one that begins again with the lock.
LEMMA NewOpIsTyped ==
    ASSUME NEW p \in Processes, NEW s \in Sessions \cup {None}, NEW stage \in {"walk", "locks"},
           \/ op' = NewOp(p, s, stage)
           \/ /\ op' = [NewOp(p, s, stage) EXCEPT !.locked = TRUE]
              /\ s \in Sessions /\ stage = "walk" /\ disk'.lock[s] # None
    PROVE  OpOK'
<1> DEFINE o == NewOp(p, s, stage)
           l == IF stage = "locks" THEN Sessions ELSE Names
<1>0. l \in SUBSET (Names \cup Sessions) /\ {} \in SUBSET Issues
  OBVIOUS
<1>1. o = [by |-> p, key |-> s, stage |-> stage, locked |-> FALSE, pkg |-> None, name |-> 1,
           left |-> l, issues |-> {}, todo |-> <<>>]
  BY DEF NewOp
<1> HIDE DEF l, o
<1>2. <<>> \in Seq(Effects) /\ 1 \in 1..(MaxName + 1) /\ stage \in Stages
  BY PublishAssumption DEF Stages
<1>3. /\ o \in Operations
      /\ o.stage = stage /\ o.todo = <<>> /\ o.key = s /\ o.locked = FALSE
  BY <1>0, <1>1, <1>2 DEF Operations
<1>7. op' = o \/ (op' = [o EXCEPT !.locked = TRUE]
                  /\ s \in Sessions /\ stage = "walk" /\ disk'.lock[s] # None)
  BY DEF o
<1>4. /\ op' \in Operations /\ op' # None
      /\ op'.stage = stage /\ op'.todo = <<>> /\ op'.key = s
      /\ op'.locked => s \in Sessions /\ stage = "walk" /\ disk'.lock[s] # None
  <2>1. CASE op' = o
    BY <1>3, <2>1, NoneIsNothing
  <2>2. CASE op' = [o EXCEPT !.locked = TRUE] 
             /\ s \in Sessions /\ stage = "walk" /\ disk'.lock[s] # None
    <3>1. op' \in Operations
      BY <1>3, <2>2 DEF Operations
    <3> QED BY <1>3, <2>2, <3>1, NoneIsNothing DEF Operations
  <2> QED BY <1>7, <2>1, <2>2
<1>5. Sane(disk', op'.todo) /\ Len(op'.todo) <= 7 /\ Does(op'.todo, OfPackages)
  BY <1>4, NothingIsReady DEF Ready, Does
<1>6. Holder'
  BY <1>4, <1>5 DEF Holder, Creating
<1>8. Alone' /\ Made'
  BY <1>4 DEF Alone, Made, Creating
<1> QED BY <1>4, <1>5, <1>6, <1>8 DEF OpOK

LEMMA BeginKeeps ==
    ASSUME PublishInv, NEW p \in Processes, NEW s \in Sessions \cup {None},
           NEW stage \in {"walk", "locks"}, op' = NewOp(p, s, stage), UNCHANGED <<disk, of>>
    PROVE  PublishInv'
<1>1. OpOK'
  BY NewOpIsTyped
<1> QED BY <1>1, Still DEF PublishInv

LEMMA LocksDoneKeeps ==
    ASSUME PublishInv, LocksDone
    PROVE  PublishInv'
<1>1. op \in Operations
  BY DEF LocksDone, At, PublishInv, OpOK
<1>2. op.by \in Processes
  BY <1>1 DEF Operations
<1> QED BY <1>2, BeginKeeps DEF LocksDone

LEMMA MakeLockKeeps ==
    ASSUME PublishInv, MakeLock
    PROVE  PublishInv'
<1>1. /\ op # None /\ op \in Operations /\ op.stage = "lock" /\ Holder /\ FilesOK
      /\ disk' = [disk EXCEPT !.lock[op.key] = NewLock] /\ Goto("own", <<>>) /\ UNCHANGED of
  BY DEF MakeLock, At, PublishInv, OpOK
<1>2. op.key \in Sessions /\ ~op.locked /\ disk \in Disks
  BY <1>1 DEF Holder, Operations, FilesOK
<1>3. NewLock \in Locks
  BY DEF NewLock, Locks
<1>4. disk' \in Disks
  BY <1>1, <1>2, <1>3 DEF Disks
<1>5. /\ disk'.dir = disk.dir /\ disk'.claim = disk.claim
      /\ disk'.res = disk.res /\ disk'.commit = disk.commit
  BY <1>1, <1>2 DEF Disks
<1>6. FilesOK'
  BY <1>1, <1>4, <1>5, LocksApart
<1>7. /\ op' \in Operations /\ op' # None /\ op'.stage = "own" /\ op'.todo = <<>>
      /\ op'.key = op.key /\ op'.locked = op.locked
  <2>1. "own" \in Stages /\ <<>> \in Seq(Effects)
    BY DEF Stages
  <2> QED BY <1>1, <2>1, Went
<1>8. Sane(disk', op'.todo) /\ Len(op'.todo) <= 7 /\ Does(op'.todo, OfPackages)
  BY <1>7, NothingIsReady DEF Ready, Does
<1>9. Holder'
  BY <1>2, <1>7, <1>8 DEF Holder, Creating
<1>10. Alone' /\ Made'
  BY <1>7 DEF Alone, Made, Creating
<1> QED BY <1>6, <1>7, <1>8, <1>9, <1>10 DEF PublishInv, OpOK

LEMMA OwnLockKeeps ==
    ASSUME PublishInv, OwnLock
    PROVE  PublishInv'
<1>1. /\ op # None /\ op \in Operations /\ op.stage = "own" /\ Holder /\ FilesOK /\ UNCHANGED of
  BY DEF OwnLock, At, PublishInv, OpOK
<1>2. op.key \in Sessions /\ op.by \in Processes /\ disk \in Disks
  BY <1>1 DEF Holder, Operations, FilesOK
<1> DEFINE file(left) ==
              IF left = None THEN None
              ELSE [NewLock EXCEPT !.owner = IF left = "whole" THEN op.by ELSE left]
<1>3. PICK left \in Files :
         /\ disk' = [disk EXCEPT !.lock[op.key] = file(left)]
         /\ \/ left = "whole" /\ op' = [NewOp(op.by, op.key, "walk") EXCEPT !.locked = TRUE]
            \/ op' = None
  BY DEF OwnLock, Writing, Files
<1>4. file(left) \in Locks \cup {None} /\ (left = "whole" => file(left) # None)
  <2>1. file(left) = None \/ file(left) \in Locks
    BY <1>2 DEF NewLock, Locks, Files
  <2>2. left = "whole" => file(left) \in Locks
    BY <1>2, NoneIsNothing DEF NewLock, Locks, Files
  <2> HIDE DEF file
  <2> QED BY <2>1, <2>2, NoneIsNothing
<1> HIDE DEF file
<1>5. disk' \in Disks
  BY <1>2, <1>3, <1>4 DEF Disks
<1>6. /\ disk'.dir = disk.dir /\ disk'.claim = disk.claim
      /\ disk'.res = disk.res /\ disk'.commit = disk.commit
      /\ disk'.lock[op.key] = file(left)
  BY <1>2, <1>3 DEF Disks
<1>7. FilesOK'
  BY <1>1, <1>5, <1>6, LocksApart
<1>8. CASE left = "whole" /\ op' = [NewOp(op.by, op.key, "walk") EXCEPT !.locked = TRUE]
  <2>1. OpOK'
    BY <1>2, <1>4, <1>6, <1>8, NewOpIsTyped
  <2> QED BY <1>7, <2>1 DEF PublishInv
<1>9. CASE op' = None
  BY <1>7, <1>9 DEF PublishInv, OpOK
<1> QED BY <1>3, <1>8, <1>9

LEMMA ClearLockKeeps ==
    ASSUME PublishInv, NEW s \in Sessions, ClearLock(s)
    PROVE  PublishInv'
<1> DEFINE t == IF Recoverable(s) THEN RecoverLock(s) ELSE <<Do("unlock", s)>>
           left == IF op.stage = "locks" THEN op.left \ {s} ELSE op.left
<1>1. /\ op # None /\ op \in Operations /\ op.stage \in {"lock", "locks"} /\ Holder /\ FilesOK
      /\ UNCHANGED <<disk, of>>
  BY DEF ClearLock, At, PublishInv, OpOK
<1>2. op' = [op EXCEPT !.left = left, !.todo = t]
  BY <1>1 DEF ClearLock, Operations
<1>3. disk.lock[s] # None
  <2>1. NewLock \in Locks /\ [owner |-> Dead, claim |-> FALSE] \in Locks
    BY DEF NewLock, Locks
  <2> QED BY <2>1, NoneIsNothing DEF ClearLock, Recoverable
<1>4. t \in Seq(Effects) /\ Len(t) <= 7 /\ Sane(disk, t)
  BY <1>3, RecoverLockIsSane
<1> HIDE DEF t
<1>5. left \subseteq op.left
  OBVIOUS
<1> HIDE DEF left
<1>6. op' \in Operations
  BY <1>1, <1>2, <1>4, <1>5 DEF Operations
<1>7. /\ op' # None /\ op'.stage = op.stage /\ op'.todo = t
      /\ op'.key = op.key /\ op'.locked = op.locked
  BY <1>1, <1>2, <1>6, NoneIsNothing DEF Operations
<1>8. Holder'
  BY <1>1, <1>7 DEF Holder, Creating
<1>9. Alone' /\ Made'
  BY <1>1, <1>7 DEF Alone, Made, Creating
<1> QED BY <1>1, <1>4, <1>6, <1>7, <1>8, <1>9, Still DEF PublishInv, OpOK

LEMMA ClaimLockFailsKeeps ==
    ASSUME PublishInv, ClaimLockFails
    PROVE  PublishInv'
<1> DEFINE s == Head(op.todo).at
<1>1. /\ op # None /\ op \in Operations /\ op.todo # <<>> /\ Head(op.todo).do = "claimLock"
      /\ Sane(disk, op.todo) /\ Holder /\ FilesOK /\ UNCHANGED of /\ disk \in Disks
  BY DEF ClaimLockFails, PublishInv, OpOK, FilesOK
<1>2. /\ op.todo \in Seq(Effects) /\ 1 \in 1..Len(op.todo) /\ Head(op.todo) = op.todo[1]
      /\ op.todo[1] \in Effects
  BY <1>1 DEF Operations
<1>3. s \in Sessions /\ disk.lock[s] # None
  BY <1>1, <1>2 DEF Effects, Sane
<1>4. disk.lock[s] \in Locks
  BY <1>1, <1>3 DEF Disks
<1>5. PICK left \in BOOLEAN : disk' = [disk EXCEPT !.lock[s].claim = left]
  BY DEF ClaimLockFails
<1>6. /\ disk' \in Disks /\ disk'.dir = disk.dir /\ disk'.claim = disk.claim
      /\ disk'.res = disk.res /\ disk'.commit = disk.commit
  BY <1>1, <1>3, <1>4, <1>5 DEF Disks, Locks
<1>7. FilesOK'
  BY <1>1, <1>6, LocksApart
<1>8. CASE op' = None
  BY <1>7, <1>8 DEF PublishInv, OpOK
<1>9. CASE op.key = None /\ op' = [op EXCEPT !.todo = <<>>]
  <2>1. op.stage \in {"release", "lock", "locks"} /\ ~op.locked /\ op.stage # "lock"
    <3>1. ~Does(op.todo, OfPackages)
      BY <1>1, <1>2 DEF Does, OfPackages
    <3> QED BY <1>1, <1>9, <3>1, NoneIsNothing DEF Holder
  <2>2. <<>> \in Seq(Effects)
    OBVIOUS
  <2>3. op' \in Operations
    BY <1>1, <1>9, <2>2 DEF Operations
  <2>4. /\ op' # None /\ op'.stage = op.stage /\ op'.todo = <<>>
        /\ op'.key = op.key /\ op'.locked = op.locked
    BY <1>1, <1>9, <2>3, NoneIsNothing DEF Operations
  <2>5. Sane(disk', op'.todo) /\ Len(op'.todo) <= 7
    BY <2>4, NothingIsReady DEF Ready
  <2>6. Holder' /\ Alone' /\ Made'
    BY <1>1, <2>1, <2>4 DEF Holder, Alone, Made, Creating
  <2> QED BY <1>7, <2>3, <2>5, <2>6 DEF PublishInv, OpOK
<1> QED BY <1>8, <1>9 DEF ClaimLockFails

-----------------------------------------------------------------------------
(* A death.                                                                *)

LEMMA CrashKeeps ==
    ASSUME PublishInv, NEW p \in Processes, Crash(p)
    PROVE  PublishInv'
<1> DEFINE heir(o) == IF o = p THEN Dead ELSE o
           inherited(x) == IF x = None THEN None ELSE [x EXCEPT !.owner = heir(@)]
           locks == [s \in Sessions |-> inherited(disk.lock[s])]
<1>1. disk \in Disks /\ of \in [Packages -> Records \cup {None}] /\ FilesOK
  BY DEF PublishInv, FilesOK
<1>2. /\ of' = [q \in Packages |-> inherited(of[q])]
      /\ disk' = [disk EXCEPT !.lock = locks]
      /\ op' = op \/ op' = None
  BY DEF Crash
<1>3. ASSUME NEW q \in Packages
      PROVE  /\ of'[q] \in Records \cup {None}
             /\ of'[q] = None <=> of[q] = None
             /\ of[q] # None => of'[q].key = of[q].key
  <2>1. CASE of[q] = None
    BY <1>2, <2>1
  <2>2. CASE of[q] # None
    <3>1. of[q] \in Records
      BY <1>1, <2>2
    <3>2. of'[q] = [of[q] EXCEPT !.owner = heir(@)]
      BY <1>2, <2>2
    <3>3. of'[q] \in Records /\ of'[q].key = of[q].key
      BY <3>1, <3>2 DEF Records
    <3> QED BY <2>2, <3>3, NoneIsNothing
  <2> QED BY <2>1, <2>2
<1>4. of' \in [Packages -> Records \cup {None}]
  BY <1>2, <1>3
<1>5. /\ disk'.dir = disk.dir /\ disk'.claim = disk.claim /\ disk'.print = disk.print
      /\ disk'.res = disk.res /\ disk'.commit = disk.commit /\ disk'.aside = disk.aside
      /\ disk'.lock = locks
  <2> HIDE DEF locks
  <2> QED BY <1>1, <1>2 DEF Disks
<1>6. ASSUME NEW s \in Sessions
      PROVE  /\ disk'.lock[s] \in Locks \cup {None}
             /\ disk'.lock[s] = None <=> disk.lock[s] = None
  <2>1. CASE disk.lock[s] = None
    BY <1>5, <2>1
  <2>2. CASE disk.lock[s] # None
    <3>1. disk.lock[s] \in Locks
      BY <1>1, <2>2 DEF Disks
    <3>2. disk'.lock[s] = [disk.lock[s] EXCEPT !.owner = heir(@)]
      BY <1>5, <2>2
    <3>3. disk'.lock[s] \in Locks
      BY <3>1, <3>2 DEF Locks
    <3> QED BY <2>2, <3>3, NoneIsNothing
  <2> QED BY <2>1, <2>2
<1>7. disk' \in Disks
  <2>1. locks \in [Sessions -> Locks \cup {None}]
    BY <1>5, <1>6
  <2> HIDE DEF locks
  <2> QED BY <1>1, <1>2, <2>1 DEF Disks
<1>8. \A d \in Names : disk.dir[d] # None => disk.dir[d].pkg \in Packages
  BY <1>1 DEF Disks, Directories
<1>9. Named'
  BY <1>1, <1>3, <1>5, <1>8 DEF FilesOK, Named
<1>10. UnmarkedIsCommitted'
  <2>1. ASSUME NEW d \in Names, NEW e \in Names, d # e,
               disk.dir[d] # None, disk.dir[e] # None,
               disk.dir[d].manifest = "whole", disk.dir[e].manifest = "whole"
        PROVE  of'[disk.dir[d].pkg].key # of'[disk.dir[e].pkg].key
    <3>1. of[disk.dir[d].pkg].key # of[disk.dir[e].pkg].key
      BY <1>1, <2>1 DEF FilesOK, UnmarkedIsCommitted
    <3>2. of[disk.dir[d].pkg] # None /\ of[disk.dir[e].pkg] # None
      BY <1>1, <2>1 DEF FilesOK, Named
    <3> QED BY <1>3, <1>8, <2>1, <3>1, <3>2
  <2> QED BY <1>1, <1>5, <2>1 DEF FilesOK, UnmarkedIsCommitted, IsEmpty
<1>11. FilesOK'
  BY <1>4, <1>7, <1>9, <1>10 DEF FilesOK
<1>12. CASE op' = None
  BY <1>11, <1>12 DEF PublishInv, OpOK
<1>13. CASE op' = op /\ op # None
  <2>1. op \in Operations /\ Len(op.todo) <= 7 /\ Sane(disk, op.todo) /\ Holder /\ Alone /\ Made
    BY <1>13 DEF PublishInv, OpOK
  <2>2. op.todo \in Seq(Effects) /\ op.key \in Sessions \cup {None}
    BY <2>1 DEF Operations
  <2>3. ASSUME NEW i \in 1..Len(op.todo), op.todo[i].do \in {"claimLock", "unown", "freeClaim"}
        PROVE  disk'.lock[op.todo[i].at] # None
    <3>1. op.todo[i] \in Effects
      BY <2>2, ElementOfSeq
    <3>2. op.todo[i].at \in Sessions
      BY <2>3, <3>1 DEF Effects
    <3> QED BY <1>6, <2>1, <2>3, <3>2 DEF Sane
  <2>4. Sane(disk', op.todo)
    <3>1. \A d : Unmarkable(disk', d) <=> Unmarkable(disk, d)
      BY <1>5 DEF Unmarkable
    <3> QED BY <1>5, <2>1, <2>3, <3>1 DEF Sane
  <2>5. Holder'
    BY <1>6, <1>13, <2>1 DEF Holder
  <2>6. ASSUME NEW s \in Sessions, Published(s)' PROVE Published(s)
    <3>1. PICK d \in Names : /\ disk.dir[d] # None
                             /\ disk.dir[d].manifest = "whole"
                             /\ of'[disk.dir[d].pkg].key = s
      BY <1>5, <2>6 DEF Published
    <3>2. of[disk.dir[d].pkg] # None
      BY <1>1, <3>1 DEF FilesOK, Named
    <3> QED BY <1>3, <1>8, <3>1, <3>2 DEF Published
  <2>7. Alone'
    BY <1>13, <2>1, <2>2, <2>6 DEF Alone
  <2>8. Made'
    BY <1>3, <1>5, <1>13, <2>1 DEF Made
  <2> QED BY <1>11, <1>13, <2>1, <2>4, <2>5, <2>7, <2>8 DEF PublishInv, OpOK
<1> QED BY <1>2, <1>12, <1>13

-----------------------------------------------------------------------------
(* A removal.                                                              *)

\* What a removal leaves as it was, and of what.
LeavesDirs == \A d \in Names : disk'.dir[d] # None =>
    /\ disk.dir[d] # None
    /\ disk'.dir[d].pkg = disk.dir[d].pkg /\ disk'.dir[d].manifest = disk.dir[d].manifest

LEMMA RemovedFile ==
    ASSUME FilesOK, UNCHANGED of, NEW d \in Names, disk.dir[d] # None,
           NEW x, disk' = [disk EXCEPT !.dir[d] = x],
           \/ x = None /\ disk.dir[d].manifest = None
           \/ x = [disk.dir[d] EXCEPT !.marker = None] /\ Unmarkable(disk, d)
    PROVE  /\ FilesOK' /\ LeavesDirs
           /\ disk'.lock = disk.lock
           /\ x # None => \A e \in Names : disk.dir[e] # None => disk'.dir[e] # None
<1>1. disk \in Disks /\ disk.dir[d] \in Directories
  BY DEF FilesOK, Disks
<1>2. /\ x \in Directories \cup {None}
      /\ x # None => /\ x \in Directories /\ x.pkg = disk.dir[d].pkg /\ x.content = disk.dir[d].content
                     /\ x.manifest = disk.dir[d].manifest /\ x.marker = None
                     /\ Unmarkable(disk, d)
      /\ x = None => disk.dir[d].manifest = None
  <2>1. CASE x = None /\ disk.dir[d].manifest = None
    BY <2>1
  <2>2. CASE x = [disk.dir[d] EXCEPT !.marker = None] /\ Unmarkable(disk, d)
    <3>1. x \in Directories /\ x.pkg = disk.dir[d].pkg /\ x.content = disk.dir[d].content
          /\ x.manifest = disk.dir[d].manifest /\ x.marker = None
      BY <1>1, <2>2 DEF Directories, Files
    <3> QED BY <2>2, <3>1, NoneIsNothing
  <2> QED BY <2>1, <2>2
<1>3. disk' \in Disks
  BY <1>1, <1>2 DEF Disks
<1>4. /\ disk'.claim = disk.claim /\ disk'.res = disk.res /\ disk'.commit = disk.commit
      /\ disk'.lock = disk.lock
      /\ disk'.dir[d] = x /\ \A e \in Names : e # d => disk'.dir[e] = disk.dir[e]
  BY <1>1 DEF Disks
<1>5. LeavesDirs
  BY <1>2, <1>4 DEF LeavesDirs
<1>6. Named'
  BY <1>4, <1>5 DEF FilesOK, Named, LeavesDirs
<1>7. ASSUME NEW e \in Names, disk'.dir[e] # None, ~IsEmpty(disk'.dir[e]), disk'.dir[e].marker = None
      PROVE  /\ disk'.dir[e].manifest = "whole" /\ disk.res[disk'.dir[e].pkg] = "whole"
             /\ disk.commit[disk'.dir[e].pkg] = "whole"
  <2>1. CASE e # d
    BY <1>4, <1>7, <2>1 DEF FilesOK, UnmarkedIsCommitted
  <2>2. CASE e = d
    BY <1>2, <1>4, <1>7, <2>2 DEF Unmarkable, IsEmpty
  <2> QED BY <2>1, <2>2
<1>8. ASSUME NEW p \in Packages, disk.commit[p] # None
      PROVE  \E e \in Names : disk'.dir[e] # None /\ disk'.dir[e].pkg = p
                              /\ disk'.dir[e].manifest = "whole"
  <2>1. PICK e \in Names : disk.dir[e] # None /\ disk.dir[e].pkg = p
                           /\ disk.dir[e].manifest = "whole"
    BY <1>8 DEF FilesOK, UnmarkedIsCommitted
  <2> QED BY <1>2, <1>4, <2>1, NoneIsNothing
<1>9. UnmarkedIsCommitted'
  BY <1>4, <1>5, <1>7, <1>8 DEF FilesOK, UnmarkedIsCommitted, LeavesDirs
<1>10. FilesOK'
  BY <1>3, <1>6, <1>9 DEF FilesOK
<1> QED BY <1>2, <1>4, <1>5, <1>10

LEMMA AsideKeeps ==
    ASSUME FilesOK, UNCHANGED of, NEW d \in Names, disk.dir[d] # None, disk.dir[d].manifest = None,
           disk' = [disk EXCEPT !.dir[d] = None, !.aside = @ \cup {disk.dir[d].pkg}]
    PROVE  FilesOK' /\ LeavesDirs /\ disk'.lock = disk.lock
<1>1. disk \in Disks /\ disk.dir[d] \in Directories
  BY DEF FilesOK, Disks
<1>2. disk.dir[d].pkg \in Packages
  BY <1>1 DEF Directories
<1>3. disk' \in Disks
  BY <1>1, <1>2 DEF Disks
<1>4. /\ disk'.claim = disk.claim /\ disk'.res = disk.res /\ disk'.commit = disk.commit
      /\ disk'.lock = disk.lock
      /\ disk'.dir[d] = None /\ \A e \in Names : e # d => disk'.dir[e] = disk.dir[e]
  BY <1>1 DEF Disks
<1>5. LeavesDirs
  BY <1>4 DEF LeavesDirs
<1>6. Named'
  BY <1>4, <1>5 DEF FilesOK, Named, LeavesDirs
<1>7. ASSUME NEW p \in Packages, disk.commit[p] # None
      PROVE  \E e \in Names : disk'.dir[e] # None /\ disk'.dir[e].pkg = p
                              /\ disk'.dir[e].manifest = "whole"
  <2>1. PICK e \in Names : disk.dir[e] # None /\ disk.dir[e].pkg = p
                           /\ disk.dir[e].manifest = "whole"
    BY <1>7 DEF FilesOK, UnmarkedIsCommitted
  <2> QED BY <1>4, <2>1, NoneIsNothing
<1>8. UnmarkedIsCommitted'
  BY <1>4, <1>7 DEF FilesOK, UnmarkedIsCommitted, IsEmpty
<1> QED BY <1>3, <1>4, <1>5, <1>6, <1>8 DEF FilesOK

\* A removal that can be made leaves the files as they should be.
LEMMA RemovedKeeps ==
    ASSUME FilesOK, UNCHANGED of, NEW e \in Effects, disk' = Perform(disk, e),
           e.do = "unmark" => Unmarkable(disk, e.at),
           e.do = "quarantine" => disk.dir[e.at] # None /\ disk.dir[e.at].manifest = None,
           e.do = "rmdir" => disk.dir[e.at] # None,
           e.do \in {"claimLock", "unown", "freeClaim"} => disk.lock[e.at] # None
    PROVE  /\ FilesOK' /\ LeavesDirs
           /\ e.do # "unlock" => \A s \in Sessions : disk.lock[s] # None => disk'.lock[s] # None
           /\ e.do \notin OfLocks => disk'.lock = disk.lock
           /\ e.do = "unmark" => \A d \in Names : disk.dir[d] # None => disk'.dir[d] # None
           /\ e.do \in OfClaims => /\ disk'.dir = disk.dir /\ disk'.res = disk.res
                                   /\ disk'.commit = disk.commit
<1>1. disk \in Disks
  BY DEF FilesOK
<1> DEFINE d == e.at
<1>2. CASE e.do = "unmark"
  <2>1. d \in Names /\ disk.dir[d] # None
    BY <1>2 DEF Effects, Unmarkable
  <2>2. disk' = [disk EXCEPT !.dir[d].marker = None]
    BY <1>2 DEF Perform
  <2> DEFINE x == [disk.dir[d] EXCEPT !.marker = None]
  <2>3. disk' = [disk EXCEPT !.dir[d] = x]
    BY <2>2
  <2>4. x # None
    <3>1. disk.dir[d] \in Directories
      BY <1>1, <2>1 DEF Disks
    <3>2. x \in Directories
      BY <3>1 DEF Directories, Files
    <3> QED BY <3>2, NoneIsNothing
  <2> QED BY <1>2, <2>1, <2>3, <2>4, RemovedFile DEF OfLocks, OfClaims
<1>3. CASE e.do = "rmdir"
  <2>1. d \in Names /\ disk.dir[d] # None
    BY <1>3 DEF Effects
  <2>2. disk' = [disk EXCEPT !.dir[d] = IF IsEmpty(@) THEN None ELSE @]
    BY <1>3 DEF Perform
  <2>3. CASE IsEmpty(disk.dir[d])
    <3>1. disk' = [disk EXCEPT !.dir[d] = None] /\ disk.dir[d].manifest = None
      BY <2>2, <2>3 DEF IsEmpty
    <3> QED BY <1>3, <2>1, <3>1, RemovedFile DEF OfLocks, OfClaims
  <2>4. CASE ~IsEmpty(disk.dir[d])
    <3>1. disk' = disk
      BY <1>1, <2>1, <2>2, <2>4 DEF Disks
    <3> QED BY <1>3, <3>1, Still DEF LeavesDirs, OfClaims
  <2> QED BY <2>3, <2>4
<1>4. CASE e.do = "quarantine"
  <2>1. d \in Names /\ disk.dir[d] # None /\ disk.dir[d].manifest = None
    BY <1>4 DEF Effects
  <2>2. disk' = [disk EXCEPT !.dir[d] = None, !.aside = @ \cup {disk.dir[d].pkg}]
    BY <1>4 DEF Perform
  <2> QED BY <1>4, <2>1, <2>2, AsideKeeps DEF OfLocks, OfClaims
<1>5. CASE e.do \in OfClaims
  <2>1. d \in Names
    BY <1>5 DEF Effects, OfClaims
  <2>2. \/ disk' = [disk EXCEPT !.print[d] = None]
        \/ disk' = [disk EXCEPT !.claim[d] = None]
    BY <1>5 DEF Perform, OfClaims
  <2>3. /\ disk' \in Disks /\ disk'.dir = disk.dir /\ disk'.res = disk.res
        /\ disk'.commit = disk.commit /\ disk'.lock = disk.lock
        /\ \A n \in Names : disk'.claim[n] \in {disk.claim[n], None}
    BY <1>1, <2>1, <2>2 DEF Disks
  <2>4. FilesOK'
    BY <2>3, NoneIsNothing DEF FilesOK, Named, UnmarkedIsCommitted, IsEmpty
  <2> QED BY <1>5, <2>3, <2>4 DEF LeavesDirs, OfClaims, OfLocks
<1>6. CASE e.do = "unreserve"
  <2>1. d \in Packages
    BY <1>6 DEF Effects
  <2>2. disk' = [disk EXCEPT !.res[d] = IF @ = "whole" /\ disk.commit[d] = None THEN None ELSE @]
    BY <1>6 DEF Perform
  <2>3. /\ disk' \in Disks /\ disk'.dir = disk.dir /\ disk'.claim = disk.claim
        /\ disk'.commit = disk.commit /\ disk'.lock = disk.lock
        /\ \A p \in Packages : disk'.res[p] = disk.res[p] \/ disk.commit[p] = None
    BY <1>1, <2>1, <2>2 DEF Disks, Files
  <2>4. \A n \in Names : disk.dir[n] # None => disk.dir[n].pkg \in Packages
    BY <1>1 DEF Disks, Directories
  <2>5. FilesOK'
    BY <2>3, <2>4, NoneIsNothing DEF FilesOK, Named, UnmarkedIsCommitted, IsEmpty
  <2> QED BY <1>6, <2>3, <2>5 DEF LeavesDirs, OfClaims, OfLocks
<1>7. CASE e.do \in OfLocks
  <2>1. d \in Sessions
    BY <1>7 DEF Effects, OfLocks
  <2>2. PICK x : /\ disk' = [disk EXCEPT !.lock[d] = x]
                 /\ x \in Locks \cup {None}
                 /\ e.do # "unlock" => x # None
    <3>1. CASE e.do = "unlock"
      BY <1>1, <2>1, <3>1 DEF Perform, Disks
    <3>2. CASE e.do # "unlock"
      <4>1. disk.lock[d] \in Locks
        BY <1>1, <1>7, <2>1, <3>2 DEF Disks, OfLocks
      <4> DEFINE x == CASE e.do = "claimLock" -> [disk.lock[d] EXCEPT !.claim = TRUE]
                        [] e.do = "unown" -> [disk.lock[d] EXCEPT !.owner = None]
                        [] e.do = "freeClaim" -> [disk.lock[d] EXCEPT !.claim = FALSE]
      <4>2. disk' = [disk EXCEPT !.lock[d] = x]
        BY <1>7, <3>2 DEF Perform, OfLocks
      <4>3. x \in Locks
        BY <1>7, <3>2, <4>1 DEF OfLocks, Locks
      <4> HIDE DEF x
      <4> QED BY <4>2, <4>3, NoneIsNothing
    <3> QED BY <3>1, <3>2
  <2>3. /\ disk' \in Disks /\ disk'.dir = disk.dir /\ disk'.claim = disk.claim
        /\ disk'.res = disk.res /\ disk'.commit = disk.commit
        /\ disk'.lock[d] = x /\ \A s \in Sessions : s # d => disk'.lock[s] = disk.lock[s]
    BY <1>1, <2>1, <2>2 DEF Disks
  <2>4. FilesOK'
    BY <2>3, LocksApart
  <2> QED BY <1>7, <2>2, <2>3, <2>4 DEF LeavesDirs, OfLocks
<1> QED BY <1>2, <1>3, <1>4, <1>5, <1>6, <1>7 DEF Effects, OfLocks, OfClaims

LEMMA FewerPublished ==
    ASSUME LeavesDirs, UNCHANGED of, NEW s, Published(s)'
    PROVE  Published(s)
BY DEF LeavesDirs, Published

LEMMA RemoveKeeps ==
    ASSUME PublishInv, Remove
    PROVE  PublishInv'
<1> DEFINE t == op.todo
           e == Head(t)
           u == Tail(t)
<1>1. /\ op # None /\ op \in Operations /\ t \in Seq(Effects) /\ t # <<>> /\ Len(t) <= 7
      /\ Sane(disk, t) /\ Holder /\ Alone /\ Made /\ FilesOK /\ UNCHANGED of
      /\ disk' = Perform(disk, e) /\ op' = [op EXCEPT !.todo = Tail(@)]
  BY DEF Remove, PublishInv, OpOK, Operations
<1>2. /\ e = t[1] /\ 1 \in 1..Len(t) /\ e \in Effects /\ u \in Seq(Effects)
      /\ Len(u) = Len(t) - 1 /\ Len(t) \in Nat
      /\ \A i \in 1..Len(u) : i + 1 \in 1..Len(t) /\ u[i] = t[i + 1]
  BY <1>1
<1>3. op' = [op EXCEPT !.todo = u]
  BY <1>1
<1> HIDE DEF t, u, e
<1>4. op' \in Operations /\ op' # None
  <2>1. op' \in Operations
    BY <1>1, <1>2, <1>3 DEF Operations
  <2> QED BY <2>1, NoneIsNothing
<1>5. /\ op'.todo = u /\ op'.stage = op.stage /\ op'.key = op.key /\ op'.locked = op.locked
      /\ op'.pkg = op.pkg /\ op'.name = op.name
  BY <1>1, <1>3 DEF Operations
<1>6. /\ FilesOK' /\ LeavesDirs
      /\ e.do # "unlock" => \A s \in Sessions : disk.lock[s] # None => disk'.lock[s] # None
      /\ e.do \notin OfLocks => disk'.lock = disk.lock
      /\ e.do = "unmark" => \A d \in Names : disk.dir[d] # None => disk'.dir[d] # None
      /\ e.do \in OfClaims => /\ disk'.dir = disk.dir /\ disk'.res = disk.res
                              /\ disk'.commit = disk.commit
  <2>1. /\ e.do = "unmark" => Unmarkable(disk, e.at)
        /\ e.do = "quarantine" => disk.dir[e.at] # None /\ disk.dir[e.at].manifest = None
        /\ e.do = "rmdir" => disk.dir[e.at] # None
        /\ e.do \in {"claimLock", "unown", "freeClaim"} => disk.lock[e.at] # None
    BY <1>1, <1>2 DEF Sane
  <2> QED BY <1>1, <1>2, <2>1, RemovedKeeps
<1>7. ASSUME NEW i \in 1..Len(u)
      PROVE  /\ u[i] = t[i + 1] /\ i + 1 \in 1..Len(t) /\ i + 1 # 1
             /\ u[i] \in Effects /\ e.do # "unlock"
  <2>1. Len(t) # 1
    BY <1>2
  <2>2. e.do # "unlock"
    BY <1>1, <1>2, <2>1 DEF Sane
  <2> QED BY <1>2, <2>2
<1>8. Sane(disk', u)
  <2> SUFFICES ASSUME NEW i \in 1..Len(u)
               PROVE /\ u[i].do \notin {"unmark", "quarantine"}
                     /\ u[i].do = "rmdir" => disk'.dir[u[i].at] # None /\ i = 1
                     /\ u[i].do \in {"claimLock", "unown", "freeClaim"} => disk'.lock[u[i].at] # None
                     /\ u[i].do = "unlock" => i = Len(u)
    BY DEF Sane
  <2>1. u[i].do \notin {"unmark", "quarantine"}
    BY <1>1, <1>7 DEF Sane
  <2>2. ASSUME u[i].do = "rmdir" PROVE disk'.dir[u[i].at] # None /\ i = 1
    <3>1. disk.dir[u[i].at] # None /\ i + 1 = 2 /\ t[1] = Do("unmark", u[i].at)
      BY <1>1, <1>7, <2>2 DEF Sane
    <3>2. u[i].at \in Names /\ e.do = "unmark"
      BY <1>2, <1>7, <2>2, <3>1 DEF Effects, Do
    <3> QED BY <1>6, <3>1, <3>2
  <2>3. ASSUME u[i].do \in {"claimLock", "unown", "freeClaim"} PROVE disk'.lock[u[i].at] # None
    <3>1. u[i].at \in Sessions /\ disk.lock[u[i].at] # None
      BY <1>1, <1>7, <2>3 DEF Sane, Effects
    <3> QED BY <1>6, <1>7, <3>1
  <2>4. u[i].do = "unlock" => i = Len(u)
    BY <1>1, <1>2, <1>7 DEF Sane
  <2> QED BY <2>1, <2>2, <2>3, <2>4
<1>9. \A S : Does(t, S) => Does(u, S) /\ e.do \in S
  BY <1>2 DEF Does
<1>10. Holder'
  <2>1. op.locked /\ op.stage # "release" => disk'.lock[op.key] # None
    <3> SUFFICES ASSUME op.locked, op.stage # "release" PROVE disk'.lock[op.key] # None
      OBVIOUS
    <3>1. disk.lock[op.key] # None /\ Does(t, OfPackages)
      BY <1>1 DEF Holder, t
    <3>2. e.do \notin OfLocks
      BY <1>9, <3>1 DEF OfPackages, OfLocks
    <3> QED BY <1>6, <3>1, <3>2
  <2>2. op.stage # "finish"
    BY <1>1 DEF Holder, t
  <2> QED BY <1>1, <1>5, <1>9, <2>1, <2>2 DEF Holder, t
<1>11. Alone'
  BY <1>1, <1>5, <1>6, FewerPublished DEF Alone
<1>12. Made'
  <2>1. op.stage # "finish"
    BY <1>1 DEF Holder, t
  <2>2. CASE op.stage \in Creating
    <3>1. e.do \in OfClaims
      BY <1>1, <1>9, <2>2 DEF Holder, t
    <3> QED BY <1>1, <1>5, <1>6, <2>1, <3>1 DEF Made
  <2>3. CASE op.stage \notin Creating
    BY <1>5, <2>1, <2>3 DEF Made
  <2> QED BY <2>2, <2>3
<1>13. Len(u) <= 7
  BY <1>1, <1>2 DEF t
<1> QED BY <1>4, <1>5, <1>6, <1>8, <1>10, <1>11, <1>12, <1>13 DEF PublishInv, OpOK

-----------------------------------------------------------------------------
(* The reservations of the past.                                           *)

LEMMA DropReservationKeeps ==
    ASSUME PublishInv, DropReservation
    PROVE  PublishInv'
<1>1. PICK p \in Packages : Goto("evidence", <<Do("unreserve", p)>>)
  BY DEF DropReservation
<1>2. /\ op # None /\ op \in Operations /\ op.stage = "evidence" /\ Holder /\ Alone /\ FilesOK
      /\ UNCHANGED <<disk, of>>
  BY DEF DropReservation, At, PublishInv, OpOK
<1> DEFINE t == <<Do("unreserve", p)>>
<1>3. Ready(disk, t, 1)
  BY UnreserveIsCalm, CalmIsReady
<1>4. t \in Seq(Effects) /\ Len(t) <= 7 /\ Sane(disk, t) /\ Does(t, OfPackages)
  BY <1>3 DEF Ready
<1> HIDE DEF t
<1>5. /\ op' \in Operations /\ op' # None /\ op'.stage = "evidence" /\ op'.todo = t
      /\ op'.key = op.key /\ op'.locked = op.locked
  <2>1. "evidence" \in Stages
    BY DEF Stages
  <2> QED BY <1>1, <1>2, <1>4, <2>1, Went DEF t
<1>6. Holder' /\ Made'
  BY <1>2, <1>4, <1>5 DEF Holder, Made, Creating
<1>7. Alone'
  BY <1>2, <1>5 DEF Alone, Published
<1> QED BY <1>2, <1>4, <1>5, <1>6, <1>7, Still DEF PublishInv, OpOK

LEMMA ProvenKeeps ==
    ASSUME PublishInv, Proven
    PROVE  PublishInv'
<1>1. /\ op # None /\ op \in Operations /\ op.stage = "evidence" /\ Holder /\ Alone /\ FilesOK
      /\ UNCHANGED <<disk, of>>
  BY DEF Proven, At, PublishInv, OpOK
<1>2. CASE op.key = None
  BY <1>1, <1>2, Still DEF Proven, PublishInv, OpOK
<1>3. CASE op.key # None
  <2>1. "reserve" \in Stages /\ <<>> \in Seq(Effects)
    BY DEF Stages
  <2>2. /\ op' \in Operations /\ op' # None /\ op'.stage = "reserve" /\ op'.todo = <<>>
        /\ op'.key = op.key /\ op'.locked = op.locked
    BY <1>1, <1>3, <2>1, Went DEF Proven
  <2>3. Sane(disk', op'.todo) /\ Len(op'.todo) <= 7 /\ Does(op'.todo, OfPackages)
    BY <2>2, NothingIsReady DEF Ready, Does
  <2>4. Holder' /\ Made'
    BY <1>1, <1>3, <2>2, <2>3 DEF Holder, Made, Creating
  <2>5. Alone'
    BY <1>1, <1>3, <2>2 DEF Alone, Published
  <2> QED BY <1>1, <2>2, <2>3, <2>4, <2>5, Still DEF PublishInv, OpOK
<1> QED BY <1>2, <1>3

-----------------------------------------------------------------------------
(* The creation.                                                           *)

\* A stage of the creation whose effects are only of its own claim.
LEMMA CreatingKeeps ==
    ASSUME PublishInv, op # None, op.stage \in Creating \cup {"reserve"}, FilesOK', op' \in Operations,
           op'.stage \in Creating, op'.key = op.key, op'.locked = op.locked,
           disk'.lock = disk.lock, Calm(op'.todo, 2), Does(op'.todo, OfClaims),
           op'.stage # "commit" => \A s \in Sessions : Published(s)' => s # op.key, Made'
    PROVE  PublishInv'
<1>1. Holder
  BY DEF PublishInv, OpOK
<1>2. Ready(disk', op'.todo, 2)
  BY CalmIsReady
<1>3. Sane(disk', op'.todo) /\ Len(op'.todo) <= 7 /\ Does(op'.todo, OfPackages)
  BY <1>2 DEF Ready, Operations
<1>4. Holder'
  BY <1>1, <1>3 DEF Holder, Creating
<1>5. Alone'
  <2>1. op.key \in Sessions
    BY <1>1 DEF Holder
  <2> QED BY <2>1 DEF Alone, Creating
<1> QED BY <1>3, <1>4, <1>5 DEF PublishInv, OpOK

\* An error in the middle of the creation.
LEMMA FailedKeeps ==
    ASSUME PublishInv, op # None, op.stage \in Creating, FilesOK',
           disk'.lock = disk.lock, NEW t, Ready(disk', t, 5), Leave(t)
    PROVE  PublishInv'
<1>1. op \in Operations /\ Holder
  BY DEF PublishInv, OpOK
<1>2. op.locked => op.key \in Sessions /\ disk'.lock[op.key] # None
  BY <1>1 DEF Holder, Creating
<1>3. OpOK'
  BY <1>1, <1>2, LeaveKeeps
<1> QED BY <1>3 DEF PublishInv

LEMMA ReserveKeeps ==
    ASSUME PublishInv, Reserve
    PROVE  PublishInv'
<1> DEFINE free == {p \in Packages : of[p] = None}
           p == CHOOSE q \in free : \A r \in free : q <= r
<1>1. /\ op # None /\ op \in Operations /\ op.stage = "reserve" /\ Holder /\ Alone /\ FilesOK
      /\ disk \in Disks /\ of \in [Packages -> Records \cup {None}]
  BY DEF Reserve, At, PublishInv, OpOK, FilesOK
<1>2. op.locked /\ op.key \in Sessions /\ op.by \in Processes
  BY <1>1 DEF Holder, Operations
<1>3. CASE free = {}
  <2>1. Ready(disk, <<>>, 5)
    BY NothingIsReady DEF Ready
  <2> QED BY <1>1, <1>3, <2>1, LeaveStill DEF Reserve
<1>4. CASE free # {}
  <2>1. p \in free
    <3>1. free \subseteq Nat /\ free # {}
      BY <1>4, PublishAssumption DEF Packages
    <3>2. \E q \in free : \A r \in free : q <= r
      <4> HIDE DEF free
      <4> DEFINE R == {x \in Nat \X Nat : x[1] < x[2]}
      <4>1. IsWellFoundedOn(R, Nat)
        BY NatLessThanWellFounded DEF OpToRel
      <4>2. PICK n \in free : \A m \in free : ~(<<m, n>> \in R)
        <5> HIDE DEF R
        <5> QED BY <3>1, <4>1, WFMin
      <4>3. \A m \in free : ~(m < n)
        BY <3>1, <4>2
      <4> QED BY <3>1, <4>3
    <3> QED BY <3>2
  <2>2. p \in Packages /\ of[p] = None
    BY <2>1
  <2>3. PICK left \in Files :
           /\ disk' = [disk EXCEPT !.res[p] = left]
           /\ \/ left = "whole" /\ op' = [op EXCEPT !.stage = "claim", !.pkg = p, !.name = 1]
              \/ op' = [op EXCEPT !.stage = "release",
                                  !.todo = <<Do("unown", op.key), Do("unlock", op.key)>>]
    BY <1>4 DEF Reserve, Writing, Files
  <2>4. of' = [of EXCEPT ![p] = [key |-> op.key, owner |-> op.by]]
    BY <1>4 DEF Reserve
  <2>5. op.todo = <<>>
    BY DEF Reserve, At
  <2> HIDE DEF p, free
  <2>6. disk' \in Disks
    BY <1>1, <2>2, <2>3 DEF Disks
  <2>7. /\ disk'.dir = disk.dir /\ disk'.claim = disk.claim /\ disk'.commit = disk.commit
        /\ disk'.lock = disk.lock /\ disk'.res[p] = left
        /\ \A q \in Packages : q # p => disk'.res[q] = disk.res[q]
    BY <1>1, <2>2, <2>3 DEF Disks
  <2>8. /\ of' \in [Packages -> Records \cup {None}]
        /\ of'[p] # None /\ of'[p].key = op.key
        /\ \A q \in Packages : q # p => of'[q] = of[q]
    <3>1. [key |-> op.key, owner |-> op.by] \in Records
      BY <1>2 DEF Records
    <3>2. of'[p] = [key |-> op.key, owner |-> op.by] /\ \A q \in Packages : q # p => of'[q] = of[q]
      BY <1>1, <2>2, <2>4
    <3>3. of' \in [Packages -> Records \cup {None}]
      BY <1>1, <2>2, <2>4, <3>1
    <3> QED BY <3>1, <3>2, <3>3, NoneIsNothing
  <2>9. \A d \in Names : disk.dir[d] # None => disk.dir[d].pkg \in Packages /\ disk.dir[d].pkg # p
    BY <1>1, <2>2 DEF Disks, Directories, FilesOK, Named
  <2>10. Named'
    BY <1>1, <2>7, <2>8, <2>9 DEF FilesOK, Named
  <2>11. UnmarkedIsCommitted'
    BY <1>1, <2>7, <2>8, <2>9 DEF FilesOK, UnmarkedIsCommitted, IsEmpty
  <2>12. FilesOK'
    BY <2>6, <2>8, <2>10, <2>11 DEF FilesOK
  <2>13. disk.commit[p] = None
    BY <1>1, <2>2, <2>9 DEF FilesOK, UnmarkedIsCommitted
  <2>14. \A s \in Sessions : Published(s)' => s # op.key
    <3>1. ~Published(op.key)
      BY <1>1, <1>2, NoneIsNothing DEF Alone
    <3> QED BY <2>7, <2>8, <2>9, <3>1 DEF Published
  <2>15. CASE left = "whole" /\ op' = [op EXCEPT !.stage = "claim", !.pkg = p, !.name = 1]
    <3>1. 1 \in 1..(MaxName + 1)
      BY PublishAssumption
    <3>2. op' \in Operations
      BY <1>1, <2>2, <2>15, <3>1 DEF Operations, Stages
    <3>3. /\ op'.stage = "claim" /\ op'.pkg = p /\ op'.todo = <<>>
          /\ op'.key = op.key /\ op'.locked = op.locked
      BY <1>1, <2>5, <2>15 DEF Operations
    <3>4. Made'
      BY <2>7, <2>8, <2>13, <2>15, <2>2, <3>3 DEF Made, Creating
    <3>5. Calm(op'.todo, 2) /\ Does(op'.todo, OfClaims)
      BY <3>3, NothingIsReady DEF Calm, Does
    <3> QED BY <1>1, <2>7, <2>12, <2>14, <3>2, <3>3, <3>4, <3>5, CreatingKeeps DEF Creating
  <2>16. CASE op' = [op EXCEPT !.stage = "release",
                               !.todo = <<Do("unown", op.key), Do("unlock", op.key)>>]
    <3>1. <<>> \o <<Do("unown", op.key), Do("unlock", op.key)>>
             = <<Do("unown", op.key), Do("unlock", op.key)>>
      OBVIOUS
    <3>2. Leave(<<>>)
      BY <1>2, <2>16, <3>1 DEF Leave, Goto
    <3>3. Ready(disk', <<>>, 5)
      BY NothingIsReady DEF Ready
    <3>4. op.locked => op.key \in Sessions /\ disk'.lock[op.key] # None
      BY <1>1, <2>7 DEF Holder
    <3>5. OpOK'
      BY <1>1, <3>2, <3>3, <3>4, LeaveKeeps
    <3> QED BY <2>12, <3>5 DEF PublishInv
  <2> QED BY <2>3, <2>15, <2>16
<1> QED BY <1>3, <1>4

\* What the creation finds at each of its stages.
LEMMA CreatingFacts ==
    ASSUME PublishInv, op # None, op.stage \in Creating
    PROVE  /\ op \in Operations /\ FilesOK /\ Holder /\ Alone /\ Made
           /\ disk \in Disks /\ of \in [Packages -> Records \cup {None}]
           /\ op.locked /\ op.key \in Sessions /\ op.pkg \in Packages
           /\ op.stage # "commit" => ~Published(op.key)
<1>1. op \in Operations /\ FilesOK /\ Holder /\ Alone /\ Made /\ disk \in Disks
      /\ of \in [Packages -> Records \cup {None}]
  BY DEF PublishInv, OpOK, FilesOK
<1>2. op.locked /\ op.key \in Sessions /\ op.pkg \in Packages
  BY <1>1 DEF Holder, Made
<1> QED BY <1>1, <1>2, NoneIsNothing DEF Alone

\* A creation that goes on to the stage s.
LEMMA CreatingGoes ==
    ASSUME PublishInv, op # None, op.stage \in Creating, FilesOK', disk'.lock = disk.lock,
           NEW s \in Creating, NEW t, Calm(t, 2), Does(t, OfClaims), Goto(s, t),
           s # "commit" => \A k \in Sessions : Published(k)' => Published(k),
           (op'.stage = s /\ op'.pkg = op.pkg /\ op'.name = op.name /\ op'.key = op.key) => Made',
           op.stage # "commit"
    PROVE  PublishInv'
<1>1. op \in Operations /\ op.key \in Sessions /\ ~Published(op.key)
  BY CreatingFacts
<1>2. s \in Stages /\ t \in Seq(Effects)
  BY DEF Creating, Stages, Calm
<1>3. /\ op' \in Operations /\ op'.stage = s /\ op'.todo = t
      /\ op'.key = op.key /\ op'.locked = op.locked /\ op'.pkg = op.pkg /\ op'.name = op.name
  BY <1>1, <1>2, Went
<1>4. Made'
  BY <1>3
<1> QED BY <1>1, <1>3, <1>4, CreatingKeeps

LEMMA ClaimKeepsFiles ==
    ASSUME FilesOK, NEW d \in Names, UNCHANGED of,
           NEW p \in Packages \cup {None, Torn}, p \in Packages => of[p] # None,
           \/ disk' = [disk EXCEPT !.claim[d] = p]
           \/ disk' = [disk EXCEPT !.print[d] = p]
    PROVE  /\ FilesOK' /\ disk'.dir = disk.dir /\ disk'.res = disk.res
           /\ disk'.commit = disk.commit /\ disk'.lock = disk.lock
<1>1. disk \in Disks
  BY DEF FilesOK
<1>2. /\ disk' \in Disks /\ disk'.dir = disk.dir /\ disk'.res = disk.res
      /\ disk'.commit = disk.commit /\ disk'.lock = disk.lock
      /\ \A e \in Names : disk'.claim[e] \in {disk.claim[e], p}
  BY <1>1 DEF Disks
<1> QED BY <1>1, <1>2 DEF FilesOK, Named, UnmarkedIsCommitted, IsEmpty

LEMMA ClaimNameKeeps ==
    ASSUME PublishInv, ClaimName
    PROVE  PublishInv'
<1>1. /\ op # None /\ op.stage = "claim" /\ op.todo = <<>> /\ UNCHANGED of
      /\ op.stage \in Creating
  BY DEF ClaimName, At, Creating
<1>2. /\ op \in Operations /\ FilesOK /\ Holder /\ Alone /\ Made
      /\ op.key \in Sessions /\ op.pkg \in Packages /\ ~Published(op.key)
      /\ op.name \in 1..(MaxName + 1)
  BY <1>1, CreatingFacts DEF Operations
<1>3. \A k : Ready(k, <<Do("unreserve", op.pkg)>>, 5)
  <2>1. ASSUME NEW k PROVE Ready(k, <<Do("unreserve", op.pkg)>>, 5)
    <3>1. Ready(k, <<Do("unreserve", op.pkg)>>, 1)
      BY <1>2, UnreserveIsCalm, CalmIsReady
    <3> QED BY <3>1 DEF Ready
  <2> QED BY <2>1
<1>4. CASE op.name > MaxName
  <2>1. Leave(<<Do("unreserve", op.pkg)>>) /\ UNCHANGED <<disk, of>>
    BY <1>1, <1>4 DEF ClaimName
  <2> QED BY <1>1, <1>3, <2>1, LeaveStill
<1>5. CASE op.name <= MaxName
  <2>0. op.name \in Names /\ ~(op.name > MaxName)
    BY <1>2, <1>5, PublishAssumption DEF Names
  <2>1. CASE disk.claim[op.name] # None
    <3>1. op' = [op EXCEPT !.name = @ + 1] /\ UNCHANGED disk
      BY <2>0, <2>1 DEF ClaimName
    <3>2. op.name + 1 \in 1..(MaxName + 1)
      BY <2>0, PublishAssumption DEF Names
    <3>3. op' \in Operations
      BY <1>2, <3>1, <3>2 DEF Operations
    <3>4. /\ op'.stage = "claim" /\ op'.todo = <<>> /\ op'.key = op.key
          /\ op'.locked = op.locked /\ op'.pkg = op.pkg
      BY <1>1, <1>2, <3>1 DEF Operations
    <3>5. Made'
      BY <1>1, <1>2, <3>1, <3>4 DEF Made, Creating
    <3>6. Calm(op'.todo, 2) /\ Does(op'.todo, OfClaims)
      BY <3>4, NothingIsReady DEF Calm, Does
    <3>7. FilesOK' /\ disk'.lock = disk.lock /\ \A s \in Sessions : Published(s)' => Published(s)
      BY <1>1, <1>2, <3>1, Still DEF Published
    <3>8. \A s \in Sessions : Published(s)' => s # op.key
      BY <1>2, <3>7
    <3> QED BY <1>1, <3>3, <3>4, <3>5, <3>6, <3>7, <3>8, CreatingKeeps
  <2>2. CASE disk.claim[op.name] = None
    <3>1. PICK left \in Files :
             /\ disk' = [disk EXCEPT !.claim[op.name] = IF left = "whole" THEN op.pkg ELSE left]
             /\ \/ left = "whole" /\ Goto("mkdir", <<>>)
                \/ Leave(<<Do("unreserve", op.pkg)>>)
      BY <2>0, <2>2 DEF ClaimName, Writing, Files
    <3> DEFINE p == IF left = "whole" THEN op.pkg ELSE left
    <3>2. p \in Packages \cup {None, Torn} /\ (p \in Packages => of[p] # None)
      BY <1>1, <1>2, NoneIsNothing DEF Made, Files, Creating
    <3>3. disk' = [disk EXCEPT !.claim[op.name] = p]
      BY <3>1
    <3> HIDE DEF p
    <3>4. /\ FilesOK' /\ disk'.dir = disk.dir /\ disk'.res = disk.res
          /\ disk'.commit = disk.commit /\ disk'.lock = disk.lock
      BY <1>1, <1>2, <2>0, <3>2, <3>3, ClaimKeepsFiles
    <3>5. CASE Goto("mkdir", <<>>)
      <4>1. (op'.stage = "mkdir" /\ op'.pkg = op.pkg /\ op'.name = op.name /\ op'.key = op.key)
               => Made'
        BY <1>1, <1>2, <2>0, <3>4 DEF Made, Creating
      <4>2. \A s \in Sessions : Published(s)' => Published(s)
        BY <1>1, <3>4 DEF Published
      <4>3. Calm(<<>>, 2) /\ Does(<<>>, OfClaims) /\ "mkdir" \in Creating
        BY NothingIsReady DEF Calm, Does, Creating
      <4> QED BY <1>1, <3>4, <3>5, <4>1, <4>2, <4>3, CreatingGoes
    <3>6. CASE Leave(<<Do("unreserve", op.pkg)>>)
      BY <1>1, <1>3, <3>4, <3>6, FailedKeeps
    <3> QED BY <3>1, <3>5, <3>6
  <2> QED BY <2>1, <2>2
<1> QED BY <1>2, <1>4, <1>5, PublishAssumption

\* A directory of the creation, with what it holds changed.
LEMMA OwnDirKeeps ==
    ASSUME FilesOK, NEW d \in Names, UNCHANGED of, NEW x \in Directories,
           disk' = [disk EXCEPT !.dir[d] = x],
           \/ disk.dir[d] = None
           \/ disk.dir[d] # None /\ disk.dir[d].manifest # "whole" /\ x.pkg = disk.dir[d].pkg,
           of[x.pkg] # None,
           IsEmpty(x) \/ x.marker # None,
           x.manifest = "whole" => ~Published(of[x.pkg].key)
    PROVE  /\ FilesOK' /\ disk'.lock = disk.lock /\ disk'.res = disk.res
           /\ disk'.commit = disk.commit /\ disk'.dir[d] = x /\ disk'.print = disk.print
           /\ disk'.claim = disk.claim
           /\ x.manifest # "whole" => \A s \in Sessions : Published(s)' => Published(s)
<1>1. disk \in Disks
  BY DEF FilesOK
<1>2. disk' \in Disks
  BY <1>1 DEF Disks
<1>3. /\ disk'.claim = disk.claim /\ disk'.res = disk.res /\ disk'.commit = disk.commit
      /\ disk'.lock = disk.lock /\ disk'.print = disk.print
      /\ disk'.dir[d] = x /\ \A e \in Names : e # d => disk'.dir[e] = disk.dir[e]
  BY <1>1 DEF Disks
<1>4. x # None /\ x.pkg \in Packages
  BY NoneIsNothing DEF Directories
<1>5. Named'
  BY <1>3, <1>4 DEF FilesOK, Named
<1>6. ASSUME NEW e \in Names, disk'.dir[e] # None, ~IsEmpty(disk'.dir[e]), disk'.dir[e].marker = None
      PROVE  /\ disk'.dir[e].manifest = "whole" /\ disk.res[disk'.dir[e].pkg] = "whole"
             /\ disk.commit[disk'.dir[e].pkg] = "whole"
  BY <1>3, <1>6 DEF FilesOK, UnmarkedIsCommitted
<1>7. ASSUME NEW p \in Packages, disk.commit[p] # None
      PROVE  \E e \in Names : disk'.dir[e] # None /\ disk'.dir[e].pkg = p
                              /\ disk'.dir[e].manifest = "whole"
  <2>1. PICK e \in Names : disk.dir[e] # None /\ disk.dir[e].pkg = p
                           /\ disk.dir[e].manifest = "whole"
    BY <1>7 DEF FilesOK, UnmarkedIsCommitted
  <2>2. e # d
    BY <2>1
  <2> QED BY <1>3, <2>1, <2>2
<1>8. ASSUME NEW e \in Names, NEW f \in Names, e # f, disk'.dir[e] # None, disk'.dir[f] # None,
             disk'.dir[e].manifest = "whole", disk'.dir[f].manifest = "whole"
      PROVE  of[disk'.dir[e].pkg].key # of[disk'.dir[f].pkg].key
  <2>1. CASE e # d /\ f # d
    BY <1>3, <1>8, <2>1 DEF FilesOK, UnmarkedIsCommitted
  <2>2. CASE e = d
    BY <1>3, <1>8, <2>2 DEF Published
  <2>3. CASE f = d
    BY <1>3, <1>8, <2>3 DEF Published
  <2> QED BY <2>1, <2>2, <2>3
<1>9. UnmarkedIsCommitted'
  BY <1>3, <1>6, <1>7, <1>8 DEF UnmarkedIsCommitted
<1>10. FilesOK'
  BY <1>2, <1>5, <1>9 DEF FilesOK
<1>11. x.manifest # "whole" => \A s \in Sessions : Published(s)' => Published(s)
  BY <1>3 DEF Published
<1> QED BY <1>3, <1>10, <1>11

LEMMA MakeDirKeeps ==
    ASSUME PublishInv, MakeDir
    PROVE  PublishInv'
<1> DEFINE unclaim == RemoveClaim(op.name, op.pkg)
<1>1. /\ op # None /\ op.stage = "mkdir" /\ op.todo = <<>> /\ UNCHANGED of
      /\ op.stage \in Creating
  BY DEF MakeDir, At, Creating
<1>2. /\ op \in Operations /\ FilesOK /\ Holder /\ Alone /\ Made /\ disk \in Disks
      /\ op.key \in Sessions /\ op.pkg \in Packages /\ ~Published(op.key)
      /\ op.name \in Names
  BY <1>1, CreatingFacts DEF Made, Creating
<1>3. Calm(unclaim, 2) /\ Does(unclaim, OfClaims)
  BY <1>2, RemoveClaimIsCalm
<1> HIDE DEF unclaim
<1>4. CASE op' = [op EXCEPT !.stage = "claim", !.name = @ + 1, !.todo = unclaim] /\ UNCHANGED disk
  <2>1. op.name + 1 \in 1..(MaxName + 1) /\ unclaim \in Seq(Effects)
    BY <1>2, <1>3, PublishAssumption DEF Names, Calm
  <2>2. op' \in Operations
    BY <1>2, <1>4, <2>1 DEF Operations, Stages
  <2>3. /\ op'.stage = "claim" /\ op'.todo = unclaim /\ op'.key = op.key
        /\ op'.locked = op.locked /\ op'.pkg = op.pkg
    BY <1>2, <1>4 DEF Operations
  <2>4. Made'
    BY <1>1, <1>2, <1>4, <2>3 DEF Made, Creating
  <2>5. FilesOK' /\ disk'.lock = disk.lock /\ \A s \in Sessions : Published(s)' => Published(s)
    BY <1>1, <1>2, <1>4, Still DEF Published
  <2>6. \A s \in Sessions : Published(s)' => s # op.key
    BY <1>2, <2>5
  <2> QED BY <1>1, <1>3, <2>2, <2>3, <2>4, <2>5, <2>6, CreatingKeeps DEF Creating
<1>5. CASE disk.dir[op.name] = None /\ disk' = [disk EXCEPT !.dir[op.name] = NewDir(op.pkg)]
           /\ Goto("print", <<>>)
  <2> DEFINE x == NewDir(op.pkg)
  <2>1. /\ x \in Directories /\ x.pkg = op.pkg /\ x.manifest = None /\ x.marker = None /\ ~x.content
        /\ IsEmpty(x)
    BY <1>2 DEF NewDir, Directories, Files, IsEmpty
  <2>2. of[op.pkg] # None
    BY <1>1, <1>2 DEF Made
  <2>3. disk' = [disk EXCEPT !.dir[op.name] = x]
    BY <1>5
  <2> HIDE DEF x
  <2>4. /\ FilesOK' /\ disk'.lock = disk.lock /\ disk'.res = disk.res
        /\ disk'.commit = disk.commit /\ disk'.dir[op.name] = x
        /\ \A s \in Sessions : Published(s)' => Published(s)
    BY <1>1, <1>2, <1>5, <2>1, <2>2, <2>3, NoneIsNothing, OwnDirKeeps
  <2>5. (op'.stage = "print" /\ op'.pkg = op.pkg /\ op'.name = op.name /\ op'.key = op.key)
           => Made'
    BY <1>1, <1>2, <2>1, <2>4, NoneIsNothing DEF Made, Creating, Directories
  <2>6. Calm(<<>>, 2) /\ Does(<<>>, OfClaims) /\ "print" \in Creating
    BY NothingIsReady DEF Calm, Does, Creating
  <2> QED BY <1>1, <1>5, <2>4, <2>5, <2>6, CreatingGoes
<1>6. CASE Leave(unclaim \o <<Do("unreserve", op.pkg)>>) /\ UNCHANGED disk
  <2>1. Calm(unclaim \o <<Do("unreserve", op.pkg)>>, 2 + 1)
    BY <1>2, <1>3, UnreserveIsCalm, CalmThenCalm
  <2>2. Ready(disk, unclaim \o <<Do("unreserve", op.pkg)>>, 2 + 1)
    BY <2>1, CalmIsReady
  <2>3. Ready(disk, unclaim \o <<Do("unreserve", op.pkg)>>, 5)
    BY <2>2 DEF Ready
  <2> QED BY <1>1, <1>6, <2>3, LeaveStill
<1> QED BY <1>4, <1>5, <1>6 DEF MakeDir, unclaim

LEMMA WritePrintKeeps ==
    ASSUME PublishInv, WritePrint
    PROVE  PublishInv'
<1> DEFINE d == op.name
           undo == <<Do("rmdir", d), Do("unprint", d), Do("unclaim", d)>>
           u == <<Do("unreserve", op.pkg)>>
<1>1. /\ op # None /\ op.stage = "print" /\ op.todo = <<>> /\ UNCHANGED of
      /\ op.stage \in Creating
  BY DEF WritePrint, At, Creating
<1>2. /\ op \in Operations /\ FilesOK /\ Holder /\ Alone /\ Made /\ disk \in Disks
      /\ op.key \in Sessions /\ op.pkg \in Packages /\ ~Published(op.key)
      /\ d \in Names /\ disk.dir[d] # None
  BY <1>1, CreatingFacts DEF Made, Creating
<1>3. PICK left \in Files :
         /\ disk' = [disk EXCEPT !.print[d] = IF left = "whole" THEN op.pkg ELSE left]
         /\ \/ left = "whole" /\ Goto("mark", <<>>)
            \/ Leave((IF left = "whole" THEN undo ELSE <<>>) \o u)
  BY DEF WritePrint, Writing, Files
<1> DEFINE p == IF left = "whole" THEN op.pkg ELSE left
<1>4. p \in Packages \cup {None, Torn} /\ (p \in Packages => of[p] # None)
  BY <1>1, <1>2, NoneIsNothing DEF Made, Files, Creating
<1>5. disk' = [disk EXCEPT !.print[d] = p]
  BY <1>3
<1> HIDE DEF p
<1>6. /\ FilesOK' /\ disk'.dir = disk.dir /\ disk'.res = disk.res
      /\ disk'.commit = disk.commit /\ disk'.lock = disk.lock
  BY <1>1, <1>2, <1>4, <1>5, ClaimKeepsFiles
<1>7. CASE Goto("mark", <<>>)
  <2>1. (op'.stage = "mark" /\ op'.pkg = op.pkg /\ op'.name = op.name /\ op'.key = op.key)
           => Made'
    BY <1>1, <1>2, <1>6 DEF Made, Creating
  <2>2. \A s \in Sessions : Published(s)' => Published(s)
    BY <1>1, <1>6 DEF Published
  <2>3. Calm(<<>>, 2) /\ Does(<<>>, OfClaims) /\ "mark" \in Creating
    BY NothingIsReady DEF Calm, Does, Creating
  <2> QED BY <1>1, <1>6, <1>7, <2>1, <2>2, <2>3, CreatingGoes
<1>8. CASE Leave(undo \o u)
  <2>1. Ready(disk', undo, 3)
    BY <1>2, <1>6, PrintUndoIsReady
  <2>2. Ready(disk', undo \o u, 3 + 1)
    BY <1>2, <2>1, UnreserveIsCalm, ReadyThenCalm
  <2>3. Ready(disk', undo \o u, 5)
    BY <2>2 DEF Ready
  <2> QED BY <1>1, <1>6, <1>8, <2>3, FailedKeeps
<1>9. CASE Leave(<<>> \o u)
  <2>1. Calm(<<>> \o u, 0 + 1)
    BY <1>2, UnreserveIsCalm, NothingIsReady, CalmThenCalm
  <2>2. Ready(disk', <<>> \o u, 0 + 1)
    BY <2>1, CalmIsReady
  <2>3. Ready(disk', <<>> \o u, 5)
    BY <2>2 DEF Ready
  <2> QED BY <1>1, <1>6, <1>9, <2>3, FailedKeeps
<1> QED BY <1>3, <1>7, <1>8, <1>9

LEMMA WriteMarkerKeeps ==
    ASSUME PublishInv, WriteMarker
    PROVE  PublishInv'
<1> DEFINE d == op.name
           unclaim == RemoveClaim(d, op.pkg)
<1>1. /\ op # None /\ op.stage = "mark" /\ op.todo = <<>> /\ UNCHANGED of
      /\ op.stage \in Creating
  BY DEF WriteMarker, At, Creating
<1>2. /\ op \in Operations /\ FilesOK /\ Holder /\ Alone /\ Made /\ disk \in Disks
      /\ op.key \in Sessions /\ op.pkg \in Packages /\ ~Published(op.key)
      /\ d \in Names /\ disk.dir[d] # None /\ disk.dir[d].pkg = op.pkg
      /\ disk.dir[d].manifest = None /\ ~disk.dir[d].content /\ of[op.pkg] # None
      /\ disk.dir[d].marker = None
  BY <1>1, CreatingFacts DEF Made, Creating
<1>3. PICK left \in Files :
         /\ disk' = [disk EXCEPT !.dir[d].marker = left]
         /\ \/ left = "whole" /\ Goto("content", unclaim)
            \/ left = None /\ Leave(<<>>)
            \/ left = Torn /\ Leave(unclaim)
            \/ left = "whole" /\ Leave(RemoveEmpty(d, op.pkg) \o unclaim)
  BY NoneIsNothing DEF WriteMarker, Writing, Files
<1>4. Calm(unclaim, 2) /\ Does(unclaim, OfClaims)
  BY <1>2, RemoveClaimIsCalm
<1> HIDE DEF unclaim
<1> DEFINE x == [disk.dir[d] EXCEPT !.marker = left]
<1>5. disk' = [disk EXCEPT !.dir[d] = x]
  BY <1>3
<1>6. /\ x \in Directories /\ x.pkg = op.pkg /\ x.manifest = None /\ ~x.content
      /\ x.marker = left
  <2>1. disk.dir[d] \in Directories
    BY <1>2 DEF Disks
  <2> QED BY <1>2, <2>1 DEF Directories
<1> HIDE DEF x
<1>7. x # None /\ (IsEmpty(x) \/ x.marker # None)
  BY <1>6, NoneIsNothing DEF IsEmpty
<1>8. /\ FilesOK' /\ disk'.lock = disk.lock /\ disk'.res = disk.res
      /\ disk'.commit = disk.commit /\ disk'.dir[d] = x
      /\ \A s \in Sessions : Published(s)' => Published(s)
  BY <1>1, <1>2, <1>5, <1>6, <1>7, NoneIsNothing, OwnDirKeeps
<1>9. CASE left = "whole" /\ Goto("content", unclaim)
  <2>1. (op'.stage = "content" /\ op'.pkg = op.pkg /\ op'.name = op.name /\ op'.key = op.key)
           => Made'
    BY <1>1, <1>2, <1>6, <1>7, <1>8, <1>9 DEF Made, Creating
  <2>2. "content" \in Creating
    BY DEF Creating
  <2> QED BY <1>1, <1>4, <1>8, <1>9, <2>1, <2>2, CreatingGoes
<1>10. CASE Leave(<<>>)
  <2>1. Ready(disk', <<>>, 5)
    BY NothingIsReady DEF Ready
  <2> QED BY <1>1, <1>8, <1>10, <2>1, FailedKeeps
<1>11. CASE Leave(unclaim)
  <2>2. Ready(disk', unclaim, 2)
    BY <1>4, CalmIsReady
  <2>1. Ready(disk', unclaim, 5)
    BY <2>2 DEF Ready
  <2> QED BY <1>1, <1>8, <1>11, <2>1, FailedKeeps
<1>12. CASE Leave(RemoveEmpty(d, op.pkg) \o unclaim)
  <2>1. Unmarkable(disk', d)
    BY <1>6, <1>7, <1>8 DEF Unmarkable
  <2>2. Ready(disk', RemoveEmpty(d, op.pkg), 3)
    BY <1>2, <2>1, RemoveEmptyIsReady
  <2>3. Ready(disk', RemoveEmpty(d, op.pkg) \o unclaim, 3 + 2)
    BY <1>4, <2>2, ReadyThenCalm
  <2>4. Ready(disk', RemoveEmpty(d, op.pkg) \o unclaim, 5)
    BY <2>3 DEF Ready
  <2> QED BY <1>1, <1>8, <1>12, <2>4, FailedKeeps
<1> QED BY <1>3, <1>9, <1>10, <1>11, <1>12

LEMMA WriteContentKeeps ==
    ASSUME PublishInv, WriteContent
    PROVE  PublishInv'
<1> DEFINE d == op.name
<1>1. /\ op # None /\ op.stage = "content" /\ op.todo = <<>> /\ UNCHANGED of
      /\ op.stage \in Creating
  BY DEF WriteContent, At, Creating
<1>2. /\ op \in Operations /\ FilesOK /\ Holder /\ Alone /\ Made /\ disk \in Disks
      /\ op.key \in Sessions /\ op.pkg \in Packages /\ ~Published(op.key)
      /\ d \in Names /\ disk.dir[d] # None /\ disk.dir[d].pkg = op.pkg
      /\ disk.dir[d].manifest = None /\ disk.dir[d].marker = "whole" /\ of[op.pkg] # None
  BY <1>1, CreatingFacts DEF Made, Creating
<1>3. PICK some \in BOOLEAN :
         /\ disk' = [disk EXCEPT !.dir[d].content = some]
         /\ \/ Goto("manifest", <<>>)
            \/ some /\ Leave(SetAside(d, op.pkg))
            \/ ~some /\ Leave(RemoveEmpty(d, op.pkg))
  BY DEF WriteContent
<1> DEFINE x == [disk.dir[d] EXCEPT !.content = some]
<1>4. disk' = [disk EXCEPT !.dir[d] = x]
  BY <1>3
<1>5. /\ x \in Directories /\ x.pkg = op.pkg /\ x.manifest = None /\ x.content = some
      /\ x.marker = "whole"
  <2>1. disk.dir[d] \in Directories
    BY <1>2 DEF Disks
  <2> QED BY <1>2, <2>1 DEF Directories
<1> HIDE DEF x
<1>6. x # None /\ x.marker # None
  BY <1>5, NoneIsNothing
<1>7. /\ FilesOK' /\ disk'.lock = disk.lock /\ disk'.res = disk.res
      /\ disk'.commit = disk.commit /\ disk'.dir[d] = x
      /\ \A s \in Sessions : Published(s)' => Published(s)
  BY <1>1, <1>2, <1>4, <1>5, <1>6, NoneIsNothing, OwnDirKeeps
<1>8. CASE Goto("manifest", <<>>)
  <2>1. (op'.stage = "manifest" /\ op'.pkg = op.pkg /\ op'.name = op.name /\ op'.key = op.key)
           => Made'
    BY <1>1, <1>2, <1>5, <1>6, <1>7 DEF Made, Creating
  <2>2. Calm(<<>>, 2) /\ Does(<<>>, OfClaims) /\ "manifest" \in Creating
    BY NothingIsReady DEF Calm, Does, Creating
  <2> QED BY <1>1, <1>7, <1>8, <2>1, <2>2, CreatingGoes
<1>9. CASE Leave(SetAside(d, op.pkg))
  <2>1. Ready(disk', SetAside(d, op.pkg), 3)
    BY <1>2, <1>5, <1>6, <1>7, SetAsideIsReady
  <2>2. Ready(disk', SetAside(d, op.pkg), 5)
    BY <2>1 DEF Ready
  <2> QED BY <1>1, <1>7, <1>9, <2>2, FailedKeeps
<1>10. CASE ~some /\ Leave(RemoveEmpty(d, op.pkg))
  <2>1. Unmarkable(disk', d)
    BY <1>5, <1>6, <1>7, <1>10 DEF Unmarkable
  <2>2. Ready(disk', RemoveEmpty(d, op.pkg), 3)
    BY <1>2, <2>1, RemoveEmptyIsReady
  <2>3. Ready(disk', RemoveEmpty(d, op.pkg), 5)
    BY <2>2 DEF Ready
  <2> QED BY <1>1, <1>7, <1>10, <2>3, FailedKeeps
<1> QED BY <1>3, <1>8, <1>9, <1>10

LEMMA WriteManifestKeeps ==
    ASSUME PublishInv, WriteManifest
    PROVE  PublishInv'
<1> DEFINE d == op.name
<1>1. /\ op # None /\ op.stage = "manifest" /\ op.todo = <<>> /\ UNCHANGED of
      /\ op.stage \in Creating
  BY DEF WriteManifest, At, Creating
<1>2. /\ op \in Operations /\ FilesOK /\ Holder /\ Alone /\ Made /\ disk \in Disks
      /\ op.key \in Sessions /\ op.pkg \in Packages /\ ~Published(op.key)
      /\ d \in Names /\ disk.dir[d] # None /\ disk.dir[d].pkg = op.pkg
      /\ disk.dir[d].manifest = None /\ disk.dir[d].marker = "whole"
      /\ of[op.pkg] # None /\ of[op.pkg].key = op.key
  BY <1>1, CreatingFacts DEF Made, Creating
<1>3. PICK left \in Files :
         /\ disk' = [disk EXCEPT !.dir[d].manifest = left]
         /\ \/ left = "whole" /\ Goto("commit", <<>>)
            \/ left = None /\ Leave(RemoveIncomplete(d))
            \/ Leave(<<>>)
  BY DEF WriteManifest, Writing, Files
<1> DEFINE x == [disk.dir[d] EXCEPT !.manifest = left]
<1>4. disk' = [disk EXCEPT !.dir[d] = x]
  BY <1>3
<1>5. /\ x \in Directories /\ x.pkg = op.pkg /\ x.manifest = left
      /\ x.content = disk.dir[d].content /\ x.marker = "whole"
  <2>1. disk.dir[d] \in Directories
    BY <1>2 DEF Disks
  <2> QED BY <1>2, <2>1 DEF Directories
<1> HIDE DEF x
<1>6. x # None /\ x.marker # None
  BY <1>5, NoneIsNothing
<1>7. /\ FilesOK' /\ disk'.lock = disk.lock /\ disk'.res = disk.res
      /\ disk'.commit = disk.commit /\ disk'.dir[d] = x
  BY <1>1, <1>2, <1>4, <1>5, <1>6, NoneIsNothing, OwnDirKeeps
<1>8. CASE left = "whole" /\ Goto("commit", <<>>)
  <2>1. (op'.stage = "commit" /\ op'.pkg = op.pkg /\ op'.name = op.name /\ op'.key = op.key)
           => Made'
    BY <1>1, <1>2, <1>5, <1>6, <1>7, <1>8 DEF Made, Creating
  <2>2. Calm(<<>>, 2) /\ Does(<<>>, OfClaims) /\ "commit" \in Creating
    BY NothingIsReady DEF Calm, Does, Creating
  <2> QED BY <1>1, <1>7, <1>8, <2>1, <2>2, CreatingGoes
<1>9. CASE left = None /\ Leave(RemoveIncomplete(d))
  <2>1. CASE disk.dir[d].content
    <3>1. Ready(disk', SetAside(d, op.pkg), 3)
      BY <1>2, <1>5, <1>6, <1>7, <1>9, SetAsideIsReady
    <3>2. Ready(disk', SetAside(d, op.pkg), 5)
      BY <3>1 DEF Ready
    <3>3. RemoveIncomplete(d) = SetAside(d, op.pkg)
      BY <1>2, <2>1 DEF RemoveIncomplete
    <3> QED BY <1>1, <1>7, <1>9, <3>2, <3>3, FailedKeeps
  <2>2. CASE ~disk.dir[d].content
    <3>1. Unmarkable(disk', d)
      BY <1>5, <1>6, <1>7, <1>9, <2>2 DEF Unmarkable
    <3>2. Ready(disk', RemoveEmpty(d, op.pkg), 3)
      BY <1>2, <3>1, RemoveEmptyIsReady
    <3>3. Ready(disk', RemoveEmpty(d, op.pkg), 5)
      BY <3>2 DEF Ready
    <3>4. RemoveIncomplete(d) = RemoveEmpty(d, op.pkg)
      BY <1>2, <2>2 DEF RemoveIncomplete
    <3> QED BY <1>1, <1>7, <1>9, <3>3, <3>4, FailedKeeps
  <2> QED BY <2>1, <2>2
<1>10. CASE Leave(<<>>)
  <2>1. Ready(disk', <<>>, 5)
    BY NothingIsReady DEF Ready
  <2> QED BY <1>1, <1>7, <1>10, <2>1, FailedKeeps
<1> QED BY <1>3, <1>8, <1>9, <1>10

LEMMA CommitKeeps ==
    ASSUME PublishInv, Commit
    PROVE  PublishInv'
<1> DEFINE d == op.name
<1>1. /\ op # None /\ op.stage = "commit" /\ op.todo = <<>> /\ UNCHANGED of
      /\ op.stage \in Creating
  BY DEF Commit, At, Creating
<1>2. /\ op \in Operations /\ FilesOK /\ Made /\ op.pkg \in Packages
      /\ d \in Names /\ disk.dir[d] # None /\ disk.dir[d].pkg = op.pkg
      /\ disk.dir[d].manifest = "whole" /\ disk.res[op.pkg] = "whole"
      /\ disk.commit[op.pkg] # "whole"
  BY <1>1, CreatingFacts, NoneIsNothing DEF Made, Creating
<1>3. PICK left \in Files : /\ SetCommit(op.pkg, left)
                            /\ (left = "whole" /\ Leave(<<Do("unmark", d)>>)) \/ Leave(<<>>)
  BY DEF Commit, Writing, Files
<1>4. /\ FilesOK' /\ disk'.commit[op.pkg] = left
      /\ disk'.dir = disk.dir /\ disk'.res = disk.res /\ disk'.lock = disk.lock
  BY <1>1, <1>2, <1>3, CommitKeepsFiles
<1>5. CASE left = "whole" /\ Leave(<<Do("unmark", d)>>)
  <2>1. Unmarkable(disk', d)
    BY <1>2, <1>4, <1>5 DEF Unmarkable
  <2>2. Ready(disk', <<Do("unmark", d)>>, 3)
    BY <1>2, <2>1, UnmarkIsReady
  <2>3. Ready(disk', <<Do("unmark", d)>>, 5)
    BY <2>2 DEF Ready
  <2> QED BY <1>1, <1>4, <1>5, <2>3, FailedKeeps
<1>6. CASE Leave(<<>>)
  <2>1. Ready(disk', <<>>, 5)
    BY NothingIsReady DEF Ready
  <2> QED BY <1>1, <1>4, <1>6, <2>1, FailedKeeps
<1> QED BY <1>3, <1>5, <1>6

-----------------------------------------------------------------------------
(* The theorems.                                                           *)

LEMMA NextKeeps == PublishInv /\ [Next]_vars => PublishInv'
<1> SUFFICES ASSUME PublishInv, [Next]_vars PROVE PublishInv'
  OBVIOUS
<1>1. CASE UNCHANGED vars
  <2>1. UNCHANGED <<disk, of, op>>
    BY <1>1 DEF vars
  <2> QED BY <2>1, Still DEF PublishInv, OpOK, Sane, Unmarkable, Holder, Alone, Made, Published
<1>2. CASE Remove \/ Released \/ Finish \/ Walked \/ Resolve
  BY <1>2, RemoveKeeps, ReleasedKeeps, FinishKeeps, WalkedKeeps, ResolveKeeps
<1>3. CASE \E d \in Names : VisitDir(d) \/ VisitClaim(d)
  BY <1>3, VisitDirKeeps, VisitClaimKeeps
<1>4. CASE MakeLock \/ OwnLock \/ ClaimLockFails \/ LocksDone \/ \E s \in Sessions : ClearLock(s)
  BY <1>4, MakeLockKeeps, OwnLockKeeps, ClaimLockFailsKeeps, LocksDoneKeeps, ClearLockKeeps
<1>5. CASE DropReservation \/ Proven \/ Refuse
  BY <1>5, DropReservationKeeps, ProvenKeeps, RefuseKeeps
<1>6. CASE Reserve \/ ClaimName \/ MakeDir \/ WritePrint \/ WriteMarker
  BY <1>6, ReserveKeeps, ClaimNameKeeps, MakeDirKeeps, WritePrintKeeps, WriteMarkerKeeps
<1>7. CASE WriteContent \/ WriteManifest \/ Commit
  BY <1>7, WriteContentKeeps, WriteManifestKeeps, CommitKeeps
<1>8. CASE \E p \in Processes : Crash(p) \/ BeginPlan(p) \/ \E s \in Sessions : Begin(p, s)
  BY <1>8, CrashKeeps, BeginKeeps DEF BeginPlan, Begin
<1> QED BY <1>1, <1>2, <1>3, <1>4, <1>5, <1>6, <1>7, <1>8 DEF Next

LEMMA InvHolds == Spec => []PublishInv
<1> QED BY InitInv, NextKeeps, PTL DEF Spec

\* The files, the records and the operation keep their types.
THEOREM PublishTypes == Spec => []TypeOK
BY InvHolds, TypesFollow, PTL

\* A package without its marker is empty or committed, a commit record has its
\* package, and no session has two packages, whatever fails or dies between
\* two steps of ensureSessionInLibraryUnderWriter.
THEOREM NothingIsHalfPublished == Spec => []UnmarkedIsCommitted
<1>1. PublishInv => UnmarkedIsCommitted
  BY DEF PublishInv, FilesOK
<1> QED BY InvHolds, <1>1, PTL

-----------------------------------------------------------------------------
(* No step deletes content.                                                *)

KeepsContentOf(d) ==
    LET x == disk.dir[d] IN
    x # None /\ (x.content \/ x.manifest # None) =>
       \/ /\ disk'.dir[d] # None /\ disk'.dir[d].pkg = x.pkg
          /\ x.content => disk'.dir[d].content
          /\ x.manifest # None => disk'.dir[d].manifest = x.manifest
       \/ x.manifest = None /\ x.pkg \in disk'.aside

KeepsContent == \A d \in Names : KeepsContentOf(d)

LEMMA SameDirs == disk'.dir = disk.dir => KeepsContent
BY DEF KeepsContent, KeepsContentOf

\* Of all directories only d changes.
LEMMA OneDir ==
    ASSUME disk \in Disks, NEW d \in Names, NEW x, disk' = [disk EXCEPT !.dir[d] = x],
           \/ disk.dir[d] = None
           \/ ~disk.dir[d].content /\ disk.dir[d].manifest = None
           \/ /\ x # None /\ x.pkg = disk.dir[d].pkg
              /\ disk.dir[d].content => x.content
              /\ disk.dir[d].manifest # None => x.manifest = disk.dir[d].manifest
    PROVE  KeepsContent
<1>1. disk'.dir[d] = x /\ \A e \in Names : e # d => disk'.dir[e] = disk.dir[e]
  BY DEF Disks
<1>2. KeepsContentOf(d)
  BY <1>1 DEF KeepsContentOf
<1>3. ASSUME NEW e \in Names, e # d PROVE KeepsContentOf(e)
  BY <1>1, <1>3 DEF KeepsContentOf
<1> QED BY <1>2, <1>3 DEF KeepsContent

LEMMA RemoveKeepsContent ==
    ASSUME PublishInv, Remove
    PROVE  KeepsContent
<1> DEFINE e == Head(op.todo)
           d == e.at
<1>1. /\ disk \in Disks /\ op \in Operations /\ Sane(disk, op.todo) /\ disk' = Perform(disk, e)
      /\ op.todo \in Seq(Effects) /\ op.todo # <<>>
  BY DEF Remove, PublishInv, OpOK, FilesOK, Operations
<1>2. e = op.todo[1] /\ e \in Effects /\ 1 \in 1..Len(op.todo)
  BY <1>1
<1> HIDE DEF e
<1>3. CASE e.do = "unmark"
  <2>1. d \in Names /\ disk.dir[d] # None
    BY <1>1, <1>2, <1>3 DEF Effects, Sane, Unmarkable
  <2> DEFINE x == [disk.dir[d] EXCEPT !.marker = None]
  <2>2. disk' = [disk EXCEPT !.dir[d] = x]
    BY <1>1, <1>3 DEF Perform
  <2>3. disk.dir[d] \in Directories
    BY <1>1, <2>1 DEF Disks
  <2>4. /\ x \in Directories /\ x.pkg = disk.dir[d].pkg
        /\ x.content = disk.dir[d].content /\ x.manifest = disk.dir[d].manifest
    BY <2>3 DEF Directories, Files
  <2> HIDE DEF x
  <2> QED BY <1>1, <2>1, <2>2, <2>4, NoneIsNothing, OneDir
<1>4. CASE e.do = "rmdir"
  <2>1. d \in Names
    BY <1>2, <1>4 DEF Effects
  <2>2. disk' = [disk EXCEPT !.dir[d] = IF IsEmpty(@) THEN None ELSE @]
    BY <1>1, <1>4 DEF Perform
  <2>3. CASE IsEmpty(disk.dir[d])
    BY <1>1, <2>1, <2>2, <2>3, OneDir DEF IsEmpty
  <2>4. CASE ~IsEmpty(disk.dir[d])
    BY <1>1, <2>1, <2>2, <2>4, SameDirs DEF Disks
  <2> QED BY <2>3, <2>4
<1>5. CASE e.do = "quarantine"
  <2>1. d \in Names /\ disk.dir[d] # None /\ disk.dir[d].manifest = None
    BY <1>1, <1>2, <1>5 DEF Effects, Sane
  <2>2. disk' = [disk EXCEPT !.dir[d] = None, !.aside = @ \cup {disk.dir[d].pkg}]
    BY <1>1, <1>5 DEF Perform
  <2>3. /\ disk.dir[d].pkg \in disk'.aside
        /\ \A n \in Names : n # d => disk'.dir[n] = disk.dir[n]
    BY <1>1, <2>1, <2>2 DEF Disks
  <2>4. ASSUME NEW n \in Names PROVE KeepsContentOf(n)
    BY <2>1, <2>3 DEF KeepsContentOf
  <2> QED BY <2>4 DEF KeepsContent
<1>6. CASE e.do \in OfClaims \cup {"unreserve"} \cup OfLocks
  <2>1. disk'.dir = disk.dir
    BY <1>1, <1>6 DEF Perform, OfClaims, OfLocks, Disks
  <2> QED BY <2>1, SameDirs
<1> QED BY <1>2, <1>3, <1>4, <1>5, <1>6 DEF Effects, OfClaims, OfLocks

LEMMA CreationKeepsContent ==
    ASSUME PublishInv, MakeDir \/ WriteMarker \/ WriteContent \/ WriteManifest
    PROVE  KeepsContent
<1> DEFINE d == op.name
<1>1. op # None /\ op.stage \in Creating \ {"claim"}
  BY DEF MakeDir, WriteMarker, WriteContent, WriteManifest, At, Creating
<1>2. disk \in Disks /\ d \in Names /\ Made
  BY <1>1, CreatingFacts DEF Made, Creating
<1>3. CASE MakeDir
  <2>1. disk' = disk \/ (disk.dir[d] = None /\ disk' = [disk EXCEPT !.dir[d] = NewDir(op.pkg)])
    BY <1>3 DEF MakeDir
  <2> QED BY <1>2, <2>1, OneDir, SameDirs
<1>4. CASE WriteMarker
  <2>1. PICK left \in Files : disk' = [disk EXCEPT !.dir[d].marker = left]
    BY <1>4 DEF WriteMarker, Writing, Files
  <2>2. ~disk.dir[d].content /\ disk.dir[d].manifest = None
    BY <1>2, <1>4 DEF WriteMarker, At, Made, Creating
  <2> QED BY <1>2, <2>1, <2>2, OneDir
<1>5. CASE WriteContent
  <2>1. PICK some \in BOOLEAN : disk' = [disk EXCEPT !.dir[d].content = some]
    BY <1>5 DEF WriteContent
  <2>2. ~disk.dir[d].content /\ disk.dir[d].manifest = None
    BY <1>2, <1>5 DEF WriteContent, At, Made, Creating
  <2> QED BY <1>2, <2>1, <2>2, OneDir
<1>6. CASE WriteManifest
  <2>1. PICK left \in Files : disk' = [disk EXCEPT !.dir[d].manifest = left]
    BY <1>6 DEF WriteManifest, Writing, Files
  <2>2. disk.dir[d] # None /\ disk.dir[d].manifest = None
    BY <1>2, <1>6 DEF WriteManifest, At, Made, Creating
  <2> DEFINE x == [disk.dir[d] EXCEPT !.manifest = left]
  <2>3. disk' = [disk EXCEPT !.dir[d] = x]
    BY <2>1
  <2>4. disk.dir[d] \in Directories
    BY <1>2, <2>2 DEF Disks
  <2>5. x \in Directories /\ x.pkg = disk.dir[d].pkg /\ x.content = disk.dir[d].content
    BY <2>4 DEF Directories
  <2> HIDE DEF x
  <2> QED BY <1>2, <2>2, <2>3, <2>5, NoneIsNothing, OneDir
<1> QED BY <1>3, <1>4, <1>5, <1>6

LEMMA OthersKeepDirs ==
    ASSUME PublishInv, [Next]_vars,
           ~(Remove \/ MakeDir \/ WriteMarker \/ WriteContent \/ WriteManifest)
    PROVE  disk'.dir = disk.dir
<1>1. disk \in Disks
  BY DEF PublishInv, FilesOK
<1>2. CASE UNCHANGED disk
  BY <1>2
<1>3. CASE Finish \/ Commit
  <2>1. UNCHANGED disk \/ \E p, left : disk' = [disk EXCEPT !.commit[p] = left]
    BY <1>3 DEF Finish, Commit, Writing, SetCommit
  <2> QED BY <1>1, <2>1 DEF Disks
<1>4. CASE MakeLock \/ OwnLock \/ ClaimLockFails
  <2>1. \E s, x : disk' = [disk EXCEPT !.lock[s] = x]
    <3>1. CASE MakeLock
      BY <3>1 DEF MakeLock
    <3>2. CASE OwnLock
      BY <3>2 DEF OwnLock, Writing
    <3>3. CASE ClaimLockFails
      <4>1. PICK left \in BOOLEAN : disk' = [disk EXCEPT !.lock[Head(op.todo).at].claim = left]
        BY <3>3 DEF ClaimLockFails
      <4> QED BY <4>1
    <3> QED BY <1>4, <3>1, <3>2, <3>3
  <2> QED BY <1>1, <2>1 DEF Disks
<1>5. CASE Reserve
  <2>1. UNCHANGED disk \/ \E p, left : disk' = [disk EXCEPT !.res[p] = left]
    BY <1>5 DEF Reserve, Writing
  <2> QED BY <1>1, <2>1 DEF Disks
<1>6. CASE ClaimName
  <2>1. UNCHANGED disk \/ \E d, p : disk' = [disk EXCEPT !.claim[d] = p]
    BY <1>6 DEF ClaimName, Writing
  <2> QED BY <1>1, <2>1 DEF Disks
<1>7. CASE WritePrint
  <2>1. \E d, p : disk' = [disk EXCEPT !.print[d] = p]
    BY <1>7 DEF WritePrint, Writing
  <2> QED BY <1>1, <2>1 DEF Disks
<1>8. CASE \E p \in Processes : Crash(p)
  <2>1. \E l : disk' = [disk EXCEPT !.lock = l]
    BY <1>8 DEF Crash
  <2> QED BY <1>1, <2>1 DEF Disks
<1>9. CASE Next /\ disk' # disk
  <2>1. \/ Finish \/ Commit \/ MakeLock \/ OwnLock \/ ClaimLockFails \/ Reserve \/ ClaimName
        \/ WritePrint \/ \E p \in Processes : Crash(p)
    BY <1>9 DEF Next, Released, VisitDir, VisitClaim, Walked, Resolve, LocksDone, ClearLock,
                DropReservation, Proven, Refuse, BeginPlan, Begin
  <2> QED BY <1>3, <1>4, <1>5, <1>6, <1>7, <1>8, <2>1
<1> QED BY <1>2, <1>9 DEF vars

\* What a directory holds stays, or is renamed into the quarantine while there
\* is no manifest: no cleanup of the creation or of the recovery deletes it.
THEOREM ContentStays == Spec => ContentIsKept
<1>1. PublishInv /\ [Next]_vars => [KeepsContent]_vars
  BY RemoveKeepsContent, CreationKeepsContent, OthersKeepDirs, SameDirs
<1>2. [][KeepsContent]_vars => ContentIsKept
  <2>1. KeepsContent => \A d \in Names : LET x == disk.dir[d] IN
          x # None /\ (x.content \/ x.manifest # None) =>
             \/ /\ disk'.dir[d] # None /\ disk'.dir[d].pkg = x.pkg
                /\ x.content => disk'.dir[d].content
                /\ x.manifest # None => disk'.dir[d].manifest = x.manifest
             \/ x.manifest = None /\ x.pkg \in disk'.aside
    BY DEF KeepsContent, KeepsContentOf
  <2> QED BY <2>1, PTL DEF ContentIsKept
<1> QED BY InvHolds, <1>1, <1>2, PTL DEF Spec

-----------------------------------------------------------------------------
(* What is refused.  The second invariant follows the evidence: whose a    *)
(* claim is, and what an issue or a reservation will be refused for.       *)

Has(t, e) == \E i \in 1..Len(t) : t[i] = e

Whole(d) == disk.dir[d] # None /\ disk.dir[d].manifest = "whole"

\* d is still claimed for the package that is in it.
ClaimedByOwn(d) == disk.dir[d] # None /\ disk.claim[d] = disk.dir[d].pkg

\* A claim outlives its fingerprint, and is of the package that wrote that.
PrintsAreClaims ==
    /\ \A d \in Names : disk.claim[d] = None => disk.print[d] = None
    /\ \A d \in Names : disk.print[d] \in Packages => disk.claim[d] = disk.print[d]

\* A package has one directory.
OneDirectory ==
    \A d, e \in Names :
        disk.dir[d] # None /\ disk.dir[e] # None /\ disk.dir[d].pkg = disk.dir[e].pkg => d = e

\* Nothing is put into a package that has a claim, or a torn marker.
ClaimedIsEmpty ==
    \A d \in Names :
        /\ disk.dir[d] # None
        /\ disk.dir[d].marker = Torn \/ \E e \in Names : disk.claim[e] = disk.dir[d].pkg
        => ~disk.dir[d].content /\ disk.dir[d].manifest = None

\* A package is reserved as long as it has a manifest.
WholeIsReserved ==
    \A d \in Names : Whole(d) => disk.res[disk.dir[d].pkg] = "whole"

\* A marked directory loses its claim, unless its owner dies first.
MarkedIsUnclaimed ==
    \A d \in Names : ClaimedByOwn(d) /\ disk.dir[d].marker = "whole" =>
        \/ Gone(disk.claim[d])
        \/ /\ op # None
           /\ of[disk.claim[d]].owner = op.by
           /\ Has(op.todo, Do("unclaim", d))

FilesInOrder == PrintsAreClaims /\ OneDirectory /\ ClaimedIsEmpty /\ WholeIsReserved

EvidenceOK == FilesInOrder /\ MarkedIsUnclaimed

\* A fingerprint goes before its claim, and no reservation of a package goes.
Tidy(k, t) == \A i \in 1..Len(t) :
    /\ t[i].do = "unclaim" => \/ k.print[t[i].at] = None
                              \/ \E j \in 1..(i - 1) : t[j] = Do("unprint", t[i].at)
    /\ t[i].do = "unreserve" => \A d \in Names :
          k.dir[d] # None /\ k.dir[d].pkg = t[i].at => k.dir[d].manifest # "whole"

\* What the creation has claimed.
Claims ==
    /\ op.stage \in Creating => of[op.pkg].owner = op.by
    /\ op.stage \in {"mkdir", "print", "mark"} => op.todo = <<>> /\ disk.claim[op.name] = op.pkg
    /\ op.stage \in {"claim", "content", "manifest", "commit"} =>
          \A d \in Names : disk.claim[d] = op.pkg => Has(op.todo, Do("unclaim", d))
    /\ op.stage \in {"mkdir", "print", "mark"} =>
          \A d \in Names : disk.claim[d] = op.pkg => d = op.name
    /\ op.stage \in {"mkdir", "print"} => disk.print[op.name] = None
    /\ op.stage = "mark" => disk.print[op.name] = op.pkg
    /\ op.stage \in {"claim", "mkdir"} =>
          \A d \in Names : disk.dir[d] # None => disk.dir[d].pkg # op.pkg

\* The recovery has been at d, and is past it.
Past(d) ==
    \/ op.stage \in {"walk", "finish"} /\ d \notin op.left
    \/ op.stage \in {"claims", "resolve", "evidence"}

\* What the walk leaves behind it.
Walks ==
    \A d \in Names : Past(d) =>
        /\ Whole(d) /\ ~(op.stage = "finish" /\ d = op.name) => disk.commit[disk.dir[d].pkg] # None
        /\ ClaimedByOwn(d) /\ disk.dir[d].marker = "whole" =>
             op.stage \in {"resolve", "evidence"} \/ (op.todo # <<>> /\ op.todo[1] = Do("unmark", d))

\* What an issue of a dead owner is for, and will still be.
TornManifest(i, d) ==
    /\ disk.dir[d] # None
    /\ disk.dir[d].manifest = Torn
    /\ of[disk.dir[d].pkg].key = i.key

KeptClaim(i, d) ==
    /\ op.stage \in {"claims", "resolve"} /\ d \notin op.left
    /\ disk.claim[d] \in Packages /\ of[disk.claim[d]].key = i.key
    /\ \/ disk.print[d] = Torn
       \/ disk.dir[d] # None /\ (disk.dir[d].marker = Torn \/ disk.dir[d].pkg # disk.claim[d])
    /\ \A j \in 1..Len(op.todo) : op.todo[j].at = d => op.todo[j].do = "unreserve"

Issued ==
    op.stage \in {"walk", "finish", "claims", "resolve"} =>
        \A i \in op.issues :
            i.live \/ i = Unreadable \/ \E d \in Names : TornManifest(i, d) \/ KeptClaim(i, d)

\* Only the recovery of a lock claims it.
LockWork ==
    /\ op.stage \in {"lock", "locks"} => Does(op.todo, OfLocks)
    /\ op.stage \notin {"lock", "locks"} => \A i \in 1..Len(op.todo) : op.todo[i].do # "claimLock"

WorkOK == op # None => Tidy(disk, op.todo) /\ Claims /\ Walks /\ Issued /\ LockWork

RefusalInv == EvidenceOK /\ WorkOK

-----------------------------------------------------------------------------
(* The sequences of removals, again.                                       *)

LEMMA Joined ==
    ASSUME NEW t \in Seq(Effects), NEW u \in Seq(Effects)
    PROVE  /\ Len(t \o u) = Len(t) + Len(u) /\ Len(t) \in Nat /\ Len(u) \in Nat
           /\ \A i \in 1..Len(t) : (t \o u)[i] = t[i]
           /\ \A i \in 1..Len(u) : (t \o u)[Len(t) + i] = u[i]
           /\ \A i \in (Len(t) + 1)..(Len(t) + Len(u)) :
                 (t \o u)[i] = u[i - Len(t)] /\ i - Len(t) \in 1..Len(u)
           /\ t \o u \in Seq(Effects)
OBVIOUS

LEMMA HasLeft ==
    ASSUME NEW t \in Seq(Effects), NEW u \in Seq(Effects), NEW e, Has(t, e) \/ Has(u, e)
    PROVE  Has(t \o u, e)
<1>1. /\ Len(t \o u) = Len(t) + Len(u) /\ Len(t) \in Nat /\ Len(u) \in Nat
      /\ \A i \in 1..Len(t) : (t \o u)[i] = t[i]
      /\ \A i \in 1..Len(u) : (t \o u)[Len(t) + i] = u[i]
  OBVIOUS
<1>2. CASE Has(t, e)
  <2>1. PICK i \in 1..Len(t) : t[i] = e
    BY <1>2 DEF Has
  <2> QED BY <1>1, <2>1 DEF Has
<1>3. CASE Has(u, e)
  <2>1. PICK i \in 1..Len(u) : u[i] = e
    BY <1>3 DEF Has
  <2>2. Len(t) + i \in 1..Len(t \o u)
    BY <1>1, <2>1
  <2> QED BY <1>1, <2>1, <2>2 DEF Has
<1> QED BY <1>2, <1>3

LEMMA TidyThenTidy ==
    ASSUME NEW k, NEW t \in Seq(Effects), NEW u \in Seq(Effects), Tidy(k, t), Tidy(k, u)
    PROVE  Tidy(k, t \o u)
<1> DEFINE v == t \o u
<1>1. /\ Len(v) = Len(t) + Len(u) /\ Len(t) \in Nat /\ Len(u) \in Nat
      /\ \A i \in 1..Len(t) : v[i] = t[i]
      /\ \A i \in 1..Len(u) : v[Len(t) + i] = u[i]
  OBVIOUS
<1> HIDE DEF v
<1> SUFFICES ASSUME NEW i \in 1..Len(v)
             PROVE  /\ v[i].do = "unclaim" => \/ k.print[v[i].at] = None
                                              \/ \E j \in 1..(i - 1) : v[j] = Do("unprint", v[i].at)
                    /\ v[i].do = "unreserve" => \A d \in Names :
                          k.dir[d] # None /\ k.dir[d].pkg = v[i].at => k.dir[d].manifest # "whole"
  BY DEF Tidy, v
<1>2. CASE i \in 1..Len(t)
  <2>1. v[i] = t[i] /\ \A j \in 1..(i - 1) : v[j] = t[j]
    BY <1>1, <1>2
  <2> QED BY <1>2, <2>1 DEF Tidy
<1>3. CASE i \notin 1..Len(t)
  <2>1. PICK n \in 1..Len(u) : i = Len(t) + n
    <3>1. i - Len(t) \in 1..Len(u) /\ i = Len(t) + (i - Len(t))
      BY <1>1, <1>3
    <3> QED BY <3>1
  <2>2. v[i] = u[n] /\ \A j \in 1..(n - 1) : v[Len(t) + j] = u[j] /\ Len(t) + j \in 1..(i - 1)
    BY <1>1, <2>1
  <2> QED BY <2>1, <2>2 DEF Tidy
<1> QED BY <1>2, <1>3

\* What gives no claim and no reservation up is in order.
LEMMA OtherIsTidy ==
    ASSUME NEW k, NEW t, \A i \in 1..Len(t) : t[i].do \notin {"unclaim", "unreserve"}
    PROVE  Tidy(k, t)
BY DEF Tidy

Unneeded(k, p) ==
    \A d \in Names : k.dir[d] # None /\ k.dir[d].pkg = p => k.dir[d].manifest # "whole"

LEMMA UnreserveIsTidy ==
    ASSUME NEW k, NEW p \in Packages, Unneeded(k, p)
    PROVE  Tidy(k, <<Do("unreserve", p)>>) /\ <<Do("unreserve", p)>> \in Seq(Effects)
<1>0. Do("unreserve", p) \in Effects
  BY DEF Do, Effects
<1> DEFINE t == <<Do("unreserve", p)>>
<1>1. Len(t) = 1 /\ t[1].do = "unreserve" /\ t[1].at = p /\ t \in Seq(Effects)
  BY <1>0 DEF Do
<1> HIDE DEF t
<1>2. Tidy(k, t)
  BY <1>1 DEF Tidy, Unneeded
<1> QED BY <1>1, <1>2 DEF t

LEMMA RemoveClaimIsTidy ==
    ASSUME NEW d \in Names, NEW p \in Packages, NEW k, k.print = disk.print
    PROVE  /\ Tidy(k, RemoveClaim(d, p)) /\ RemoveClaim(d, p) \in Seq(Effects)
           /\ disk.claim[d] = p /\ disk.print[d] \in {None, p} =>
                 Has(RemoveClaim(d, p), Do("unclaim", d))
           /\ \A i \in 1..Len(RemoveClaim(d, p)) :
                 RemoveClaim(d, p)[i].at = d /\ RemoveClaim(d, p)[i].do \in OfClaims
<1> DEFINE a == Do("unprint", d)
           b == Do("unclaim", d)
           t == <<>> \o <<b>>
           u == <<a>> \o <<b>>
           r == RemoveClaim(d, p)
<1>1. /\ a \in Effects /\ b \in Effects /\ a.do = "unprint" /\ b.do = "unclaim"
      /\ a.at = d /\ b.at = d
  BY DEF Do, Effects
<1>2. \/ r = <<>> /\ (disk.claim[d] # p \/ disk.print[d] \notin {None, p})
      \/ r = t /\ disk.print[d] # p /\ disk.print[d] \in {None, p}
      \/ r = u
  <2>1. CASE disk.claim[d] # p \/ disk.print[d] \notin {None, p}
    BY <2>1 DEF RemoveClaim
  <2>2. CASE ~(disk.claim[d] # p \/ disk.print[d] \notin {None, p}) /\ disk.print[d] = p
    BY <2>2 DEF RemoveClaim
  <2>3. CASE ~(disk.claim[d] # p \/ disk.print[d] \notin {None, p}) /\ disk.print[d] # p
    BY <2>3 DEF RemoveClaim
  <2> QED BY <2>1, <2>2, <2>3
<1> HIDE DEF a, b, r
<1>3. t \in Seq(Effects) /\ Len(t) = 1 /\ t[1] = b
  BY <1>1
<1>4. u \in Seq(Effects) /\ Len(u) = 2 /\ u[1] = a /\ u[2] = b
  BY <1>1
<1>5. <<>> \in Seq(Effects) /\ Len(<<>>) = 0
  OBVIOUS
<1> HIDE DEF t, u
<1> DEFINE Good(s) == /\ Tidy(k, s) /\ s \in Seq(Effects)
                      /\ disk.claim[d] = p /\ disk.print[d] \in {None, p} => Has(s, b)
                      /\ \A i \in 1..Len(s) : s[i].at = d /\ s[i].do \in OfClaims
<1> SUFFICES Good(r)
  BY DEF r, b
<1>6. CASE r = <<>> /\ (disk.claim[d] # p \/ disk.print[d] \notin {None, p})
  <2>1. Tidy(k, <<>>) /\ \A i \in 1..Len(<<>>) : FALSE
    BY <1>5 DEF Tidy
  <2> QED BY <1>5, <1>6, <2>1
<1>7. CASE r = t /\ disk.print[d] # p /\ disk.print[d] \in {None, p}
  <2>1. disk.print[d] = None
    BY <1>7
  <2>2. Tidy(k, t)
    BY <1>1, <1>3, <2>1 DEF Tidy
  <2>3. Has(t, b)
    BY <1>3 DEF Has
  <2>4. \A i \in 1..Len(t) : t[i].at = d /\ t[i].do \in OfClaims
    BY <1>1, <1>3 DEF OfClaims
  <2>5. Good(t)
    BY <1>3, <2>2, <2>3, <2>4
  <2> QED BY <1>7, <2>5
<1>8. CASE r = u
  <2>0. \A i \in 1..Len(u) : i = 1 \/ i = 2
    BY <1>4
  <2>1. u[1] = Do("unprint", u[2].at) /\ 1 \in 1..(2 - 1)
    BY <1>1, <1>4 DEF a
  <2>2. Tidy(k, u)
    <3> SUFFICES ASSUME NEW i \in 1..Len(u)
                 PROVE  /\ u[i].do = "unclaim" => \E j \in 1..(i - 1) : u[j] = Do("unprint", u[i].at)
                        /\ u[i].do # "unreserve"
      BY DEF Tidy
    <3>1. CASE i = 1
      BY <1>1, <1>4, <3>1
    <3>2. CASE i = 2
      BY <1>1, <1>4, <2>1, <3>2
    <3> QED BY <2>0, <3>1, <3>2
  <2>3. Has(u, b)
    BY <1>4 DEF Has
  <2>4. \A i \in 1..Len(u) : u[i].at = d /\ u[i].do \in OfClaims
    BY <1>1, <1>4, <2>0 DEF OfClaims
  <2>5. Good(u)
    BY <1>4, <2>2, <2>3, <2>4
  <2> QED BY <1>8, <2>5
<1> QED BY <1>2, <1>6, <1>7, <1>8

LEMMA RemoveEmptyIsTidy ==
    ASSUME NEW k, NEW d \in Names, NEW p \in Packages, Unneeded(k, p)
    PROVE  /\ Tidy(k, RemoveEmpty(d, p)) /\ RemoveEmpty(d, p) \in Seq(Effects)
           /\ RemoveEmpty(d, p) # <<>> /\ RemoveEmpty(d, p)[1] = Do("unmark", d)
           /\ Does(RemoveEmpty(d, p), OfPackages)
<1>0. Do("unmark", d) \in Effects /\ Do("rmdir", d) \in Effects /\ Do("unreserve", p) \in Effects
  BY DEF Do, Effects
<1> DEFINE t == <<Do("unmark", d), Do("rmdir", d), Do("unreserve", p)>>
<1>2. t \in Seq(Effects) /\ Len(t) = 3
  BY <1>0
<1>3. t[1] = Do("unmark", d) /\ t[2] = Do("rmdir", d) /\ t[3] = Do("unreserve", p) /\ t # <<>>
  OBVIOUS
<1> HIDE DEF t
<1>4. t[1].do = "unmark" /\ t[2].do = "rmdir" /\ t[3].do = "unreserve" /\ t[3].at = p
  BY <1>3 DEF Do
<1>5. \A i \in 1..Len(t) : i = 1 \/ i = 2 \/ i = 3
  BY <1>2
<1>6. Tidy(k, t)
  BY <1>4, <1>5 DEF Tidy, Unneeded
<1>7. Does(t, OfPackages)
  BY <1>4, <1>5 DEF Does, OfPackages
<1> QED BY <1>2, <1>3, <1>6, <1>7 DEF t, RemoveEmpty

LEMMA SetAsideIsTidy ==
    ASSUME NEW k, NEW d \in Names, NEW p \in Packages, Unneeded(k, p)
    PROVE  /\ Tidy(k, SetAside(d, p)) /\ SetAside(d, p) \in Seq(Effects)
           /\ Does(SetAside(d, p), OfPackages)
<1>0. Do("quarantine", d) \in Effects /\ Do("unreserve", p) \in Effects
  BY DEF Do, Effects
<1> DEFINE t == <<Do("quarantine", d), Do("unreserve", p)>>
<1>2. t \in Seq(Effects) /\ Len(t) = 2
  BY <1>0
<1>3. t[1] = Do("quarantine", d) /\ t[2] = Do("unreserve", p)
  OBVIOUS
<1> HIDE DEF t
<1>4. t[1].do = "quarantine" /\ t[2].do = "unreserve" /\ t[2].at = p
  BY <1>3 DEF Do
<1>5. \A i \in 1..Len(t) : i = 1 \/ i = 2
  BY <1>2
<1>6. Tidy(k, t)
  BY <1>4, <1>5 DEF Tidy, Unneeded
<1>7. Does(t, OfPackages)
  BY <1>4, <1>5 DEF Does, OfPackages
<1> QED BY <1>2, <1>6, <1>7 DEF t, SetAside

LEMMA PrintUndoIsTidy ==
    ASSUME NEW k, NEW d \in Names
    PROVE  LET t == <<Do("rmdir", d), Do("unprint", d), Do("unclaim", d)>>
           IN  Tidy(k, t) /\ t \in Seq(Effects) /\ Does(t, OfPackages)
<1>0. Do("rmdir", d) \in Effects /\ Do("unprint", d) \in Effects /\ Do("unclaim", d) \in Effects
  BY DEF Do, Effects
<1> DEFINE t == <<Do("rmdir", d), Do("unprint", d), Do("unclaim", d)>>
<1>2. t \in Seq(Effects) /\ Len(t) = 3
  BY <1>0
<1>3. t[1] = Do("rmdir", d) /\ t[2] = Do("unprint", d) /\ t[3] = Do("unclaim", d)
  OBVIOUS
<1> HIDE DEF t
<1>4. /\ t[1].do = "rmdir" /\ t[2].do = "unprint" /\ t[3].do = "unclaim" /\ t[3].at = d
      /\ t[2] = Do("unprint", t[3].at)
  BY <1>3 DEF Do
<1>5. \A i \in 1..Len(t) : i = 1 \/ i = 2 \/ i = 3
  BY <1>2
<1>6. Tidy(k, t)
  <2> SUFFICES ASSUME NEW i \in 1..Len(t)
               PROVE  /\ t[i].do = "unclaim" => \E j \in 1..(i - 1) : t[j] = Do("unprint", t[i].at)
                      /\ t[i].do # "unreserve"
    BY DEF Tidy
  <2>1. CASE i = 1 \/ i = 2
    BY <1>4, <2>1
  <2>2. CASE i = 3
    <3>1. 2 \in 1..(3 - 1)
      OBVIOUS
    <3> QED BY <1>4, <2>2, <3>1
  <2> QED BY <1>5, <2>1, <2>2
<1>7. Does(t, OfPackages)
  BY <1>4, <1>5 DEF Does, OfPackages
<1> QED BY <1>2, <1>6, <1>7 DEF t

LEMMA DoesBoth ==
    ASSUME NEW S, NEW t \in Seq(Effects), NEW u \in Seq(Effects), Does(t, S), Does(u, S)
    PROVE  Does(t \o u, S) /\ t \o u \in Seq(Effects)
<1>1. /\ Len(t \o u) = Len(t) + Len(u) /\ Len(t) \in Nat /\ Len(u) \in Nat
      /\ \A i \in 1..Len(t) : (t \o u)[i] = t[i]
      /\ \A i \in (Len(t) + 1)..(Len(t) + Len(u)) :
            (t \o u)[i] = u[i - Len(t)] /\ i - Len(t) \in 1..Len(u)
      /\ t \o u \in Seq(Effects)
  OBVIOUS
<1> DEFINE v == t \o u
<1>2. \A i \in 1..Len(v) : v[i].do \in S
  <2> SUFFICES ASSUME NEW i \in 1..Len(v) PROVE v[i].do \in S
    OBVIOUS
  <2>1. CASE i \in 1..Len(t)
    BY <1>1, <2>1 DEF Does
  <2>2. CASE i \in (Len(t) + 1)..(Len(t) + Len(u))
    BY <1>1, <2>2 DEF Does
  <2> QED BY <1>1, <2>1, <2>2
<1> QED BY <1>1, <1>2 DEF Does

LEMMA OneDoes ==
    ASSUME NEW S, NEW w \in S, NEW a
    PROVE  Does(<<Do(w, a)>>, S)
BY DEF Does, Do

LEMMA NothingIsTidy ==
    ASSUME NEW k, NEW S
    PROVE  Tidy(k, <<>>) /\ Does(<<>>, S) /\ <<>> \in Seq(Effects) /\ \A e : ~Has(<<>>, e)
BY DEF Tidy, Does, Has

-----------------------------------------------------------------------------
(* What is removed.                                                        *)

\* A removal takes a directory, a file of one, or a file beside them.
Less ==
    /\ \A d \in Names :
          \/ disk'.dir[d] = disk.dir[d]
          \/ disk.dir[d] # None /\ disk.dir[d].manifest = None /\ disk'.dir[d] = None
          \/ /\ disk.dir[d] # None /\ disk'.dir[d] # None /\ disk'.dir[d].marker = None
             /\ disk'.dir[d].pkg = disk.dir[d].pkg /\ disk'.dir[d].manifest = disk.dir[d].manifest
             /\ disk'.dir[d].content = disk.dir[d].content
    /\ \A d \in Names : disk'.claim[d] = disk.claim[d] \/ disk'.claim[d] = None
    /\ \A d \in Names : disk'.print[d] = disk.print[d] \/ disk'.print[d] = None
    /\ \A p \in Packages : disk'.res[p] = disk.res[p] \/ disk'.res[p] = None
    /\ disk'.commit = disk.commit

\* Which removal it is.
For(e) ==
    /\ \A d \in Names : disk'.dir[d] # disk.dir[d] => e.do \in {"unmark", "rmdir", "quarantine"} /\ e.at = d
    /\ \A d \in Names : disk'.claim[d] # disk.claim[d] => e = Do("unclaim", d)
    /\ \A d \in Names : disk'.print[d] # disk.print[d] => e = Do("unprint", d)
    /\ \A p \in Packages : disk'.res[p] # disk.res[p] => e = Do("unreserve", p)
    /\ \A d \in Names : /\ e = Do("unmark", d) /\ disk'.dir[d] # None => disk'.dir[d].marker = None
                        /\ e = Do("unclaim", d) => disk'.claim[d] = None
                        /\ e = Do("unprint", d) => disk'.print[d] = None

LEMMA OneDirLess ==
    ASSUME disk \in Disks, NEW e \in Effects, NEW d \in Names, e.at = d,
           e.do \in {"unmark", "rmdir", "quarantine"}, disk.dir[d] # None,
           NEW x, disk'.dir = [disk.dir EXCEPT ![d] = x],
           disk'.claim = disk.claim, disk'.print = disk.print, disk'.res = disk.res,
           disk'.commit = disk.commit,
           \/ e.do # "unmark" /\ x = disk.dir[d]
           \/ e.do # "unmark" /\ disk.dir[d].manifest = None /\ x = None
           \/ e.do = "unmark" /\ x = [disk.dir[d] EXCEPT !.marker = None]
    PROVE  Less /\ For(e)
<1>1. disk'.dir[d] = x /\ \A n \in Names : n # d => disk'.dir[n] = disk.dir[n]
  BY DEF Disks
<1>2. \A n : e # Do("unclaim", n) /\ e # Do("unprint", n)
  BY DEF Do
<1>3. \A n : e = Do("unmark", n) => e.do = "unmark" /\ n = d
  BY DEF Do
<1>4. disk.dir[d] \in Directories
  BY DEF Disks
<1>5. x = [disk.dir[d] EXCEPT !.marker = None] =>
         /\ x # None /\ x.marker = None /\ x.pkg = disk.dir[d].pkg
         /\ x.manifest = disk.dir[d].manifest /\ x.content = disk.dir[d].content
  <2> DEFINE y == [disk.dir[d] EXCEPT !.marker = None]
  <2>1. y \in Directories /\ y.marker = None /\ y.pkg = disk.dir[d].pkg
        /\ y.manifest = disk.dir[d].manifest /\ y.content = disk.dir[d].content
    BY <1>4 DEF Directories, Files
  <2>2. y # None
    BY <2>1, NoneIsNothing
  <2> QED BY <2>1, <2>2
<1>6. Less
  BY <1>1, <1>5 DEF Less
<1>7. For(e)
  <2>1. \A n \in Names : disk'.dir[n] # disk.dir[n] => e.at = n
    BY <1>1
  <2>2. \A n \in Names : e = Do("unmark", n) /\ disk'.dir[n] # None => disk'.dir[n].marker = None
    BY <1>1, <1>3, <1>5
  <2> QED BY <1>2, <2>1, <2>2 DEF For
<1> QED BY <1>6, <1>7

LEMMA Removed ==
    ASSUME disk \in Disks, NEW e \in Effects, disk' = Perform(disk, e),
           e.do = "unmark" => disk.dir[e.at] # None,
           e.do = "quarantine" => disk.dir[e.at] # None /\ disk.dir[e.at].manifest = None,
           e.do = "rmdir" => disk.dir[e.at] # None
    PROVE  Less /\ For(e)
<1> DEFINE d == e.at
<1>0. \A n, w : e = Do(w, n) => e.do = w /\ e.at = n
  BY DEF Do
<1>1. CASE e.do = "unmark"
  <2>1. d \in Names
    BY <1>1 DEF Effects
  <2>2. disk' = [disk EXCEPT !.dir[d].marker = None]
    BY <1>1 DEF Perform
  <2>3. disk'.dir = [disk.dir EXCEPT ![d] = [disk.dir[d] EXCEPT !.marker = None]]
        /\ disk'.claim = disk.claim /\ disk'.print = disk.print /\ disk'.res = disk.res
        /\ disk'.commit = disk.commit
    BY <2>2 DEF Disks
  <2> QED BY <1>1, <2>1, <2>3, OneDirLess
<1>2. CASE e.do = "rmdir"
  <2>1. d \in Names
    BY <1>2 DEF Effects
  <2>2. disk' = [disk EXCEPT !.dir[d] = IF IsEmpty(@) THEN None ELSE @]
    BY <1>2 DEF Perform
  <2>3. disk'.dir = [disk.dir EXCEPT ![d] = IF IsEmpty(disk.dir[d]) THEN None ELSE disk.dir[d]]
        /\ disk'.claim = disk.claim /\ disk'.print = disk.print /\ disk'.res = disk.res
        /\ disk'.commit = disk.commit
    BY <2>2 DEF Disks
  <2>4. CASE IsEmpty(disk.dir[d])
    <3>1. disk'.dir = [disk.dir EXCEPT ![d] = None]
      BY <2>3, <2>4
    <3> QED BY <1>2, <2>1, <2>3, <2>4, <3>1, OneDirLess DEF IsEmpty
  <2>5. CASE ~IsEmpty(disk.dir[d])
    <3>1. disk'.dir = [disk.dir EXCEPT ![d] = disk.dir[d]]
      BY <2>3, <2>5
    <3> QED BY <1>2, <2>1, <2>3, <3>1, OneDirLess
  <2> QED BY <2>4, <2>5
<1>3. CASE e.do = "quarantine"
  <2>1. d \in Names
    BY <1>3 DEF Effects
  <2>2. disk' = [disk EXCEPT !.dir[d] = None, !.aside = @ \cup {disk.dir[d].pkg}]
    BY <1>3 DEF Perform
  <2>3. disk'.dir = [disk.dir EXCEPT ![d] = None]
        /\ disk'.claim = disk.claim /\ disk'.print = disk.print /\ disk'.res = disk.res
        /\ disk'.commit = disk.commit
    BY <2>2 DEF Disks
  <2> QED BY <1>3, <2>1, <2>3, OneDirLess
<1>4. CASE e.do = "unclaim"
  <2>1. d \in Names /\ e = Do("unclaim", d)
    BY <1>4 DEF Effects, Do
  <2>2. disk' = [disk EXCEPT !.claim[d] = None]
    BY <1>4 DEF Perform
  <2>3. disk'.claim = [disk.claim EXCEPT ![d] = None]
        /\ disk'.dir = disk.dir /\ disk'.print = disk.print /\ disk'.res = disk.res
        /\ disk'.commit = disk.commit
    BY <2>2 DEF Disks
  <2>4. disk'.claim[d] = None /\ \A n \in Names : n # d => disk'.claim[n] = disk.claim[n]
    BY <2>1, <2>3 DEF Disks
  <2> QED BY <1>0, <1>4, <2>1, <2>3, <2>4 DEF Less, For
<1>5. CASE e.do = "unprint"
  <2>1. d \in Names /\ e = Do("unprint", d)
    BY <1>5 DEF Effects, Do
  <2>2. disk' = [disk EXCEPT !.print[d] = None]
    BY <1>5 DEF Perform
  <2>3. disk'.print = [disk.print EXCEPT ![d] = None]
        /\ disk'.dir = disk.dir /\ disk'.claim = disk.claim /\ disk'.res = disk.res
        /\ disk'.commit = disk.commit
    BY <2>2 DEF Disks
  <2>4. disk'.print[d] = None /\ \A n \in Names : n # d => disk'.print[n] = disk.print[n]
    BY <2>1, <2>3 DEF Disks
  <2> QED BY <1>0, <1>5, <2>1, <2>3, <2>4 DEF Less, For
<1>6. CASE e.do = "unreserve"
  <2>1. d \in Packages /\ e = Do("unreserve", d)
    BY <1>6 DEF Effects, Do
  <2>2. disk' = [disk EXCEPT !.res[d] = IF @ = "whole" /\ disk.commit[d] = None THEN None ELSE @]
    BY <1>6 DEF Perform
  <2>3. disk'.res = [disk.res EXCEPT ![d] = IF disk.res[d] = "whole" /\ disk.commit[d] = None
                                            THEN None ELSE disk.res[d]]
        /\ disk'.dir = disk.dir /\ disk'.claim = disk.claim /\ disk'.print = disk.print
        /\ disk'.commit = disk.commit
    BY <2>2 DEF Disks
  <2>4. disk'.res[d] \in {None, disk.res[d]} /\ \A n \in Packages : n # d => disk'.res[n] = disk.res[n]
    BY <2>1, <2>3 DEF Disks
  <2> QED BY <1>0, <1>6, <2>1, <2>3, <2>4 DEF Less, For
<1>7. CASE e.do \in OfLocks
  <2>1. /\ disk'.dir = disk.dir /\ disk'.claim = disk.claim /\ disk'.print = disk.print
        /\ disk'.res = disk.res /\ disk'.commit = disk.commit
    BY <1>7 DEF Perform, OfLocks, Disks
  <2> QED BY <1>0, <1>7, <2>1 DEF Less, For, OfLocks
<1> QED BY <1>1, <1>2, <1>3, <1>4, <1>5, <1>6, <1>7 DEF Effects, OfLocks

LEMMA LessEvidence ==
    ASSUME FilesOK, FilesInOrder, NEW e \in Effects, Less, For(e),
           \A d \in Names : e = Do("unclaim", d) => disk.print[d] = None,
           \A p \in Packages : e = Do("unreserve", p) => Unneeded(disk, p)
    PROVE  FilesInOrder'
<1>0. /\ \A d \in Names : disk.claim[d] \in {None, Torn} \cup Packages
      /\ \A d \in Names : disk.print[d] \in {None, Torn} \cup Packages
      /\ \A d \in Names : disk.dir[d] # None => disk.dir[d].pkg \in Packages
  <2>1. disk \in Disks /\ \A d \in Names : disk.dir[d] # None => disk.dir[d] \in Directories
    BY DEF FilesOK, Disks
  <2> QED BY <2>1 DEF Disks, Directories
<1>1. PrintsAreClaims'
  <2>1. ASSUME NEW d \in Names, disk'.claim[d] = None PROVE disk'.print[d] = None
    <3>1. disk.print[d] = None
      BY <2>1 DEF For, FilesInOrder, PrintsAreClaims
    <3> QED BY <3>1 DEF Less
  <2>2. ASSUME NEW d \in Names, disk'.print[d] \in Packages PROVE disk'.claim[d] = disk'.print[d]
    <3>1. disk'.print[d] = disk.print[d] /\ disk.claim[d] = disk.print[d] /\ disk.print[d] # None
      BY <2>2, NoneIsNothing DEF Less, FilesInOrder, PrintsAreClaims
    <3>2. disk'.claim[d] = disk.claim[d]
      BY <3>1 DEF For
    <3> QED BY <3>1, <3>2
  <2> QED BY <2>1, <2>2 DEF PrintsAreClaims
<1>2. \A d \in Names : disk'.dir[d] # None =>
         /\ disk.dir[d] # None /\ disk'.dir[d].pkg = disk.dir[d].pkg
         /\ disk'.dir[d].content = disk.dir[d].content /\ disk'.dir[d].manifest = disk.dir[d].manifest
         /\ disk'.dir[d].marker \in {disk.dir[d].marker, None}
  BY DEF Less
<1>3. OneDirectory'
  BY <1>2 DEF FilesInOrder, OneDirectory
<1>4. ClaimedIsEmpty'
  <2> SUFFICES ASSUME NEW d \in Names, disk'.dir[d] # None,
                      disk'.dir[d].marker = Torn \/ \E n \in Names : disk'.claim[n] = disk'.dir[d].pkg
               PROVE  ~disk'.dir[d].content /\ disk'.dir[d].manifest = None
    BY DEF ClaimedIsEmpty
  <2>1. disk.dir[d].marker = Torn \/ \E n \in Names : disk.claim[n] = disk.dir[d].pkg
    BY <1>0, <1>2, NoneIsNothing DEF Less
  <2>2. ~disk.dir[d].content /\ disk.dir[d].manifest = None
    BY <1>2, <2>1 DEF FilesInOrder, ClaimedIsEmpty
  <2> QED BY <1>2, <2>2
<1>5. WholeIsReserved'
  <2> SUFFICES ASSUME NEW d \in Names, disk'.dir[d] # None, disk'.dir[d].manifest = "whole"
               PROVE  disk'.res[disk'.dir[d].pkg] = "whole"
    BY DEF WholeIsReserved, Whole
  <2> DEFINE p == disk.dir[d].pkg
  <2>1. /\ disk.dir[d] # None /\ disk.dir[d].manifest = "whole" /\ p \in Packages
        /\ disk'.dir[d].pkg = p
    BY <1>0, <1>2
  <2>2. disk.res[p] = "whole"
    BY <2>1 DEF FilesInOrder, WholeIsReserved, Whole
  <2>3. disk'.res[p] = disk.res[p]
    BY <2>1 DEF For, Unneeded
  <2> QED BY <2>1, <2>2, <2>3
<1> QED BY <1>1, <1>3, <1>4, <1>5 DEF FilesInOrder

LEMMA RemoveRefusal ==
    ASSUME PublishInv, RefusalInv, Remove
    PROVE  RefusalInv'
<1> DEFINE t == op.todo
           e == Head(t)
           u == Tail(t)
<1>1. /\ op # None /\ t # <<>> /\ disk' = Perform(disk, e)
      /\ op' = [op EXCEPT !.todo = Tail(@)] /\ UNCHANGED of
      /\ op \in Operations /\ disk \in Disks /\ FilesOK /\ Sane(disk, t) /\ Holder
      /\ t \in Seq(Effects) /\ u \in Seq(Effects)
  BY DEF Remove, PublishInv, FilesOK, OpOK, Operations
<1>2. /\ e = t[1] /\ e \in Effects /\ 1 \in 1..Len(t) /\ Len(t) \in Nat /\ Len(u) = Len(t) - 1
      /\ \A i \in 1..Len(u) : u[i] = t[i + 1] /\ i + 1 \in 1..Len(t)
      /\ \A i \in 1..Len(t) : i # 1 => i - 1 \in 1..Len(u) /\ u[i - 1] = t[i]
  BY <1>1
<1>3. op' # None /\ op'.todo = u
      /\ op'.stage = op.stage /\ op'.by = op.by /\ op'.key = op.key /\ op'.pkg = op.pkg
      /\ op'.name = op.name /\ op'.left = op.left /\ op'.issues = op.issues
  <2>1. op' \in Operations
    BY <1>1 DEF Operations
  <2> QED BY <1>1, <2>1, NoneIsNothing DEF Operations
<1> HIDE DEF e, u
<1>4. EvidenceOK /\ Tidy(disk, t) /\ Claims /\ Walks /\ Issued /\ LockWork
  BY <1>1 DEF RefusalInv, WorkOK
<1>5. Less /\ For(e)
  BY <1>1, <1>2, Removed DEF Sane, Unmarkable
<1>6. /\ \A d \in Names : e = Do("unclaim", d) => disk.print[d] = None
      /\ \A p \in Packages : e = Do("unreserve", p) => Unneeded(disk, p)
  <2>1. /\ e.do = "unclaim" => disk.print[e.at] = None
        /\ e.do = "unreserve" => Unneeded(disk, e.at)
    BY <1>2, <1>4 DEF Tidy, Unneeded
  <2> QED BY <2>1 DEF Do
<1>7. FilesInOrder'
  BY <1>1, <1>2, <1>4, <1>5, <1>6, LessEvidence DEF EvidenceOK
<1>8. ASSUME NEW d \in Names, Has(t, Do("unclaim", d)), disk'.claim[d] # None
      PROVE  Has(u, Do("unclaim", d))
  <2>1. PICK i \in 1..Len(t) : t[i] = Do("unclaim", d)
    BY <1>8 DEF Has
  <2>2. i # 1
    BY <1>2, <1>5, <1>8, <2>1 DEF For
  <2> QED BY <1>2, <2>1, <2>2 DEF Has
<1>9. \A d \in Names : disk'.dir[d] # None =>
         /\ disk.dir[d] # None /\ disk'.dir[d].pkg = disk.dir[d].pkg
         /\ disk'.dir[d].manifest = disk.dir[d].manifest
         /\ disk'.dir[d].marker \in {disk.dir[d].marker, None}
  BY <1>5 DEF Less
<1>10. /\ \A d \in Names : disk'.claim[d] # None => disk'.claim[d] = disk.claim[d]
       /\ \A d \in Names : disk.dir[d] # None => disk.dir[d].pkg \in Packages
  <2>1. disk \in Disks /\ \A d \in Names : disk.dir[d] # None => disk.dir[d] \in Directories
    BY <1>1 DEF Disks
  <2> QED BY <1>5, <2>1 DEF Directories, Less
<1>11. MarkedIsUnclaimed'
  <2> SUFFICES ASSUME NEW d \in Names, disk'.dir[d] # None, disk'.claim[d] = disk'.dir[d].pkg,
                      disk'.dir[d].marker = "whole"
               PROVE  \/ of'[disk'.claim[d]].owner = Dead
                      \/ /\ op' # None
                         /\ of'[disk'.claim[d]].owner = op'.by
                         /\ Has(op'.todo, Do("unclaim", d))
    BY DEF MarkedIsUnclaimed, ClaimedByOwn, Gone
  <2>1. disk'.claim[d] # None /\ disk'.claim[d] = disk.claim[d]
    BY <1>9, <1>10, NoneIsNothing
  <2>2. ClaimedByOwn(d) /\ disk.dir[d].marker = "whole"
    BY <1>9, <2>1, NoneIsNothing DEF ClaimedByOwn
  <2>3. \/ Gone(disk.claim[d])
        \/ of[disk.claim[d]].owner = op.by /\ Has(t, Do("unclaim", d))
    BY <1>4, <2>2 DEF EvidenceOK, MarkedIsUnclaimed
  <2> QED BY <1>1, <1>3, <1>8, <2>1, <2>3 DEF Gone
<1>12. Tidy(disk', u)
  <2> SUFFICES ASSUME NEW i \in 1..Len(u)
               PROVE  /\ u[i].do = "unclaim" => \/ disk'.print[u[i].at] = None
                                                \/ \E j \in 1..(i - 1) : u[j] = Do("unprint", u[i].at)
                      /\ u[i].do = "unreserve" => \A d \in Names :
                            disk'.dir[d] # None /\ disk'.dir[d].pkg = u[i].at => disk'.dir[d].manifest # "whole"
    BY DEF Tidy
  <2>1. i + 1 \in 1..Len(t) /\ t[i + 1] = u[i]
    BY <1>2
  <2> DEFINE d == u[i].at
  <2>2. u[i] \in Effects
    BY <1>1, <2>1
  <2>3. ASSUME u[i].do = "unclaim"
        PROVE  \/ disk'.print[d] = None
               \/ \E j \in 1..(i - 1) : u[j] = Do("unprint", d)
    <3>0. d \in Names
      BY <2>2, <2>3 DEF Effects
    <3>1. CASE disk.print[d] = None
      BY <1>5, <3>0, <3>1 DEF Less
    <3>2. CASE \E j \in 1..((i + 1) - 1) : t[j] = Do("unprint", d)
      <4>1. PICK j \in 1..((i + 1) - 1) : t[j] = Do("unprint", d)
        BY <3>2
      <4>2. CASE j = 1
        BY <1>2, <1>5, <3>0, <4>1, <4>2 DEF For
      <4>3. CASE j # 1
        <5>1. j \in 1..Len(t) /\ j - 1 \in 1..(i - 1)
          BY <1>2, <4>1, <4>3
        <5>2. u[j - 1] = Do("unprint", d)
          BY <1>2, <4>1, <4>3, <5>1
        <5> QED BY <5>1, <5>2
      <4> QED BY <4>2, <4>3
    <3> QED BY <1>4, <2>1, <2>3, <3>1, <3>2 DEF Tidy
  <2>4. ASSUME u[i].do = "unreserve", NEW n \in Names, disk'.dir[n] # None, disk'.dir[n].pkg = d
        PROVE  disk'.dir[n].manifest # "whole"
    BY <1>4, <1>9, <2>1, <2>4 DEF Tidy
  <2> QED BY <2>3, <2>4
<1>13. Claims'
  <2>1. op.stage \notin {"mkdir", "print", "mark"}
    BY <1>1, <1>4 DEF Claims
  <2>2. op.stage \in Creating => op.pkg \in Packages
    BY <1>1 DEF PublishInv, OpOK, Made
  <2>3. op.stage \in Creating => of'[op'.pkg].owner = op'.by
    BY <1>1, <1>3, <1>4 DEF Claims
  <2>4. op.stage \in {"claim", "content", "manifest", "commit"} =>
           \A d \in Names : disk'.claim[d] = op.pkg => Has(u, Do("unclaim", d))
    <3> SUFFICES ASSUME op.stage \in {"claim", "content", "manifest", "commit"},
                        NEW d \in Names, disk'.claim[d] = op.pkg
                 PROVE  Has(u, Do("unclaim", d))
      OBVIOUS
    <3>1. op.pkg # None
      BY <2>2, NoneIsNothing DEF Creating
    <3>2. disk.claim[d] = op.pkg
      BY <1>10, <3>1
    <3>3. Has(t, Do("unclaim", d))
      BY <1>4, <3>2 DEF Claims
    <3> QED BY <1>8, <3>1, <3>3
  <2>5. op.stage = "claim" => \A d \in Names : disk'.dir[d] # None => disk'.dir[d].pkg # op.pkg
    BY <1>4, <1>9 DEF Claims
  <2> QED BY <1>3, <2>1, <2>3, <2>4, <2>5 DEF Claims
<1>14. Walks'
  <2> SUFFICES ASSUME NEW d \in Names, Past(d)'
               PROVE  /\ Whole(d)' /\ ~(op'.stage = "finish" /\ d = op'.name)
                           => disk'.commit[disk'.dir[d].pkg] # None
                      /\ ClaimedByOwn(d)' /\ disk'.dir[d].marker = "whole" =>
                           op'.stage \in {"resolve", "evidence"} \/ (u # <<>> /\ u[1] = Do("unmark", d))
    BY <1>3 DEF Walks
  <2>1. Past(d)
    BY <1>3 DEF Past
  <2>2. ASSUME Whole(d)', ~(op'.stage = "finish" /\ d = op'.name)
        PROVE  disk'.commit[disk'.dir[d].pkg] # None
    <3>1. disk'.dir[d] # None /\ disk'.dir[d].manifest = "whole"
      BY <2>2 DEF Whole
    <3>2. Whole(d) /\ disk'.dir[d].pkg = disk.dir[d].pkg
      BY <1>9, <3>1 DEF Whole
    <3>3. disk.commit[disk.dir[d].pkg] # None
      BY <1>3, <1>4, <2>1, <2>2, <3>2 DEF Walks
    <3> QED BY <1>5, <3>2, <3>3 DEF Less
  <2>3. ASSUME ClaimedByOwn(d)', disk'.dir[d].marker = "whole"
        PROVE  op'.stage \in {"resolve", "evidence"}
    <3>1. disk'.dir[d] # None /\ disk'.claim[d] = disk'.dir[d].pkg
      BY <2>3 DEF ClaimedByOwn
    <3>2. disk'.claim[d] # None
      BY <1>9, <1>10, <3>1, NoneIsNothing
    <3>3. ClaimedByOwn(d) /\ disk.dir[d].marker = "whole"
      BY <1>9, <1>10, <2>3, <3>1, <3>2, NoneIsNothing DEF ClaimedByOwn
    <3>4. op.stage \in {"resolve", "evidence"} \/ e = Do("unmark", d)
      BY <1>2, <1>4, <2>1, <3>3 DEF Walks
    <3>5. e # Do("unmark", d)
      BY <1>5, <2>3, <3>1, NoneIsNothing DEF For
    <3> QED BY <1>3, <3>4, <3>5
  <2> QED BY <2>2, <2>3
<1>15. Issued'
  <2> SUFFICES ASSUME op.stage \in {"walk", "finish", "claims", "resolve"}, NEW i \in op.issues,
                      ~i.live, i # Unreadable
               PROVE  \E d \in Names : TornManifest(i, d)' \/ KeptClaim(i, d)'
    BY <1>3 DEF Issued, Unreadable
  <2>1. PICK d \in Names : TornManifest(i, d) \/ KeptClaim(i, d)
    BY <1>4 DEF Issued
  <2>2. CASE TornManifest(i, d)
    <3>1. disk.dir[d] # None /\ disk.dir[d].manifest = Torn
      BY <2>2 DEF TornManifest
    <3>2. disk'.dir[d] # None /\ disk'.dir[d].manifest = Torn /\ disk'.dir[d].pkg = disk.dir[d].pkg
      BY <1>5, <3>1, NoneIsNothing DEF Less
    <3>3. TornManifest(i, d)'
      BY <1>1, <2>2, <3>2 DEF TornManifest
    <3> QED BY <3>3
  <2>3. CASE KeptClaim(i, d)
    <3>1. e.at = d => e.do = "unreserve"
      BY <1>2, <2>3 DEF KeptClaim
    <3>2. /\ disk'.dir[d] = disk.dir[d] /\ disk'.claim[d] = disk.claim[d]
          /\ disk'.print[d] = disk.print[d]
      BY <1>5, <3>1 DEF For, Do
    <3>5. \A j \in 1..Len(t) : t[j].at = d => t[j].do = "unreserve"
      BY <2>3 DEF KeptClaim
    <3>3. ASSUME NEW j \in 1..Len(u), u[j].at = d
          PROVE  u[j].do = "unreserve"
      <4>1. j + 1 \in 1..Len(t) /\ u[j] = t[j + 1]
        BY <1>2
      <4>2. t[j + 1].at = d
        BY <3>3, <4>1
      <4> HIDE DEF t, u
      <4> QED BY <3>5, <4>1, <4>2
    <3>4. KeptClaim(i, d)'
      BY <1>1, <1>3, <2>3, <3>2, <3>3 DEF KeptClaim
    <3> QED BY <3>4
  <2> QED BY <2>1, <2>2, <2>3
<1>16. LockWork'
  <2>1. op.stage \in {"lock", "locks"} => Does(u, OfLocks)
    BY <1>2, <1>4 DEF LockWork, Does
  <2>2. op.stage \notin {"lock", "locks"} => \A i \in 1..Len(u) : u[i].do # "claimLock"
    BY <1>2, <1>4 DEF LockWork
  <2> QED BY <1>3, <2>1, <2>2 DEF LockWork
<1> QED BY <1>3, <1>7, <1>11, <1>12, <1>13, <1>14, <1>15, <1>16 DEF RefusalInv, EvidenceOK, WorkOK

-----------------------------------------------------------------------------
(* The steps that leave the directories, claims and reservations alone.    *)

SameFiles ==
    /\ disk'.dir = disk.dir /\ disk'.claim = disk.claim /\ disk'.print = disk.print
    /\ disk'.res = disk.res /\ UNCHANGED of

LEMMA SameFilesInOrder ==
    ASSUME FilesInOrder, disk'.dir = disk.dir, disk'.claim = disk.claim,
           disk'.print = disk.print, disk'.res = disk.res
    PROVE  FilesInOrder'
BY DEF FilesInOrder, PrintsAreClaims, OneDirectory, ClaimedIsEmpty, WholeIsReserved, Whole

LEMMA SameEvidence ==
    ASSUME EvidenceOK, SameFiles,
           op # None => \A d \in Names : ~Has(op.todo, Do("unclaim", d))
    PROVE  EvidenceOK'
<1>1. FilesInOrder'
  BY SameFilesInOrder DEF EvidenceOK, SameFiles
<1>2. \A d \in Names : ClaimedByOwn(d) /\ disk.dir[d].marker = "whole" => Gone(disk.claim[d])
  BY DEF EvidenceOK, MarkedIsUnclaimed
<1>3. MarkedIsUnclaimed'
  BY <1>2 DEF MarkedIsUnclaimed, SameFiles, ClaimedByOwn, Gone
<1> QED BY <1>1, <1>3 DEF EvidenceOK

LEMMA NothingToUnclaim ==
    ASSUME op.todo = <<>>
    PROVE  \A d \in Names : ~Has(op.todo, Do("unclaim", d))
BY DEF Has

\* An operation that begins, that waits, or that ends.
LEMMA IdleWork ==
    ASSUME op' # None =>
              /\ \/ op'.stage \in {"locks", "lock", "own", "reserve", "release"}
                 \/ op'.stage = "walk" /\ op'.left = Names /\ op'.issues = {}
              /\ Tidy(disk', op'.todo) /\ LockWork'
    PROVE  WorkOK'
<1> SUFFICES ASSUME op' # None PROVE Claims' /\ Walks' /\ Issued'
  BY DEF WorkOK
<1>1. Claims'
  BY DEF Claims, Creating
<1>2. \A d \in Names : ~Past(d)'
  BY DEF Past
<1>3. Walks' /\ Issued'
  BY <1>2 DEF Walks, Issued
<1> QED BY <1>1, <1>3

LEMMA LeaveWork ==
    ASSUME op \in Operations, op.locked => op.key \in Sessions,
           NEW t \in Seq(Effects), Tidy(disk', t), Does(t, OfPackages), Leave(t)
    PROVE  /\ WorkOK'
           /\ op.locked => /\ op' # None /\ op'.by = op.by
                           /\ \A e : Has(t, e) => Has(op'.todo, e)
<1>1. CASE ~op.locked
  BY <1>1, IdleWork DEF Leave
<1>2. CASE op.locked
  <2> DEFINE l == <<Do("unown", op.key), Do("unlock", op.key)>>
             u == t \o l
  <2>1. Do("unown", op.key) \in Effects /\ Do("unlock", op.key) \in Effects
    BY <1>2 DEF Do, Effects
  <2>2. l \in Seq(Effects) /\ Len(l) = 2 /\ l[1].do = "unown" /\ l[2].do = "unlock"
    BY <2>1 DEF Do
  <2> HIDE DEF l
  <2>3. Tidy(disk', l) /\ Does(l, {"unown", "unlock"})
    <3>1. \A i \in 1..Len(l) : i = 1 \/ i = 2
      BY <2>2
    <3> QED BY <2>2, <3>1 DEF Tidy, Does
  <2>4. Tidy(disk', u)
    BY <2>2, <2>3, TidyThenTidy
  <2>5. Does(u, OfPackages \cup {"unown", "unlock"}) /\ u \in Seq(Effects)
    <3>1. Does(t, OfPackages \cup {"unown", "unlock"}) /\ Does(l, OfPackages \cup {"unown", "unlock"})
      BY <2>3 DEF Does
    <3> QED BY <2>2, <3>1, DoesBoth
  <2>6. \A e : Has(t, e) => Has(u, e)
    BY <2>2, HasLeft
  <2>7. op' = [op EXCEPT !.stage = "release", !.todo = u]
    BY <1>2 DEF Leave, Goto, l
  <2> HIDE DEF u
  <2>8. op' \in Operations
    BY <2>5, <2>7 DEF Operations, Stages
  <2>9. op' # None /\ op'.stage = "release" /\ op'.todo = u /\ op'.by = op.by
    BY <2>7, <2>8, NoneIsNothing DEF Operations
  <2>10. LockWork'
    BY <2>5, <2>9 DEF LockWork, Does, OfPackages
  <2>11. WorkOK'
    BY <2>4, <2>9, <2>10, IdleWork
  <2> QED BY <2>6, <2>9, <2>11
<1>3. op.locked \in BOOLEAN
  BY DEF Operations
<1> QED BY <1>1, <1>2, <1>3

LEMMA GoneOn ==
    ASSUME op \in Operations, NEW s \in Stages, NEW t \in Seq(Effects), Goto(s, t)
    PROVE  /\ op' # None /\ op'.stage = s /\ op'.todo = t /\ op'.by = op.by /\ op'.key = op.key
           /\ op'.pkg = op.pkg /\ op'.name = op.name /\ op'.left = op.left /\ op'.issues = op.issues
<1>1. op' = [op EXCEPT !.stage = s, !.todo = t]
  BY DEF Goto
<1>2. op' \in Operations
  BY <1>1 DEF Operations
<1> QED BY <1>1, <1>2, NoneIsNothing DEF Operations

\* What the invariants say of the operation.
LEMMA WorkFacts ==
    ASSUME PublishInv, RefusalInv, op # None
    PROVE  /\ op \in Operations /\ op.todo \in Seq(Effects) /\ op.by \in Processes
           /\ op.key \in Sessions \cup {None} /\ op.locked \in BOOLEAN
           /\ op.left \subseteq Names \cup Sessions
           /\ op.locked => op.key \in Sessions
           /\ FilesOK /\ Holder /\ Alone /\ Made /\ Sane(disk, op.todo)
           /\ disk \in Disks /\ of \in [Packages -> Records \cup {None}] /\ Named
           /\ EvidenceOK /\ FilesInOrder /\ PrintsAreClaims /\ OneDirectory
           /\ ClaimedIsEmpty /\ WholeIsReserved /\ MarkedIsUnclaimed
           /\ Tidy(disk, op.todo) /\ Claims /\ Walks /\ Issued /\ LockWork
           /\ \A d \in Names : disk.dir[d] # None =>
                 disk.dir[d] \in Directories /\ disk.dir[d].pkg \in Packages
<1>1. op \in Operations /\ Holder /\ FilesOK /\ disk \in Disks
  BY DEF PublishInv, OpOK, FilesOK
<1>2. \A d \in Names : disk.dir[d] # None => disk.dir[d] \in Directories
  BY <1>1 DEF Disks
<1>3. \A d \in Names : disk.dir[d] # None => disk.dir[d].pkg \in Packages
  BY <1>2 DEF Directories
<1>4. /\ op.todo \in Seq(Effects) /\ op.by \in Processes /\ op.key \in Sessions \cup {None}
      /\ op.locked \in BOOLEAN /\ op.left \subseteq Names \cup Sessions
  BY <1>1 DEF Operations
<1>5. op.locked => op.key \in Sessions
  BY <1>1 DEF Holder
<1>6. Alone /\ Made /\ Sane(disk, op.todo) /\ of \in [Packages -> Records \cup {None}] /\ Named
  BY DEF PublishInv, OpOK, FilesOK
<1>7. EvidenceOK /\ Tidy(disk, op.todo) /\ Claims /\ Walks /\ Issued /\ LockWork
  BY DEF RefusalInv, WorkOK
<1>8. /\ FilesInOrder /\ PrintsAreClaims /\ OneDirectory
      /\ ClaimedIsEmpty /\ WholeIsReserved /\ MarkedIsUnclaimed
  BY <1>7 DEF EvidenceOK, FilesInOrder
<1> QED BY <1>1, <1>2, <1>3, <1>4, <1>5, <1>6, <1>7, <1>8

LEMMA InitRefusal == Init => RefusalInv
<1> SUFFICES ASSUME Init PROVE RefusalInv
  OBVIOUS
<1>1. \A d \in Names : disk.dir[d] = None /\ disk.claim[d] = None /\ disk.print[d] = None
  BY DEF Init, EmptyDisk
<1>2. FilesInOrder /\ MarkedIsUnclaimed
  BY <1>1, NoneIsNothing DEF FilesInOrder, PrintsAreClaims, OneDirectory, ClaimedIsEmpty,
     WholeIsReserved, Whole, MarkedIsUnclaimed, ClaimedByOwn
<1> QED BY <1>2 DEF RefusalInv, EvidenceOK, WorkOK, Init

-----------------------------------------------------------------------------
(* The walks of the recovery.                                              *)

LEMMA OwnIsUnneeded ==
    ASSUME NEW k, NEW d \in Names, k.dir[d] # None, k.dir[d].manifest # "whole",
           \A n \in Names : k.dir[n] # None /\ k.dir[n].pkg = k.dir[d].pkg => n = d
    PROVE  Unneeded(k, k.dir[d].pkg)
BY DEF Unneeded

LEMMA ClaimedIsUnneeded ==
    ASSUME ClaimedIsEmpty, NEW d \in Names, NEW p, disk.claim[d] = p
    PROVE  Unneeded(disk, p)
BY NoneIsNothing DEF ClaimedIsEmpty, Unneeded

LEMMA RemoveIncompleteIsTidy ==
    ASSUME NEW k, NEW d \in Names, disk.dir[d].pkg \in Packages, Unneeded(k, disk.dir[d].pkg)
    PROVE  /\ Tidy(k, RemoveIncomplete(d)) /\ RemoveIncomplete(d) \in Seq(Effects)
           /\ Does(RemoveIncomplete(d), OfPackages)
           /\ ~disk.dir[d].content =>
                 RemoveIncomplete(d) # <<>> /\ RemoveIncomplete(d)[1] = Do("unmark", d)
<1>1. CASE disk.dir[d].content
  BY <1>1, SetAsideIsTidy DEF RemoveIncomplete
<1>2. CASE ~disk.dir[d].content
  BY <1>2, RemoveEmptyIsTidy DEF RemoveIncomplete
<1> QED BY <1>1, <1>2

LEMMA VisitedOp ==
    ASSUME op \in Operations, NEW d \in Names, NEW stage \in {"walk", "claims", "finish"},
           NEW t \in Seq(Effects), NEW issues \in SUBSET Issues, Visited(d, stage, t, issues)
    PROVE  /\ op' # None /\ op'.stage = stage /\ op'.name = d /\ op'.left = op.left \ {d}
           /\ op'.todo = t /\ op'.issues = op.issues \cup issues
<1>1. op' = [op EXCEPT !.stage = stage, !.name = d, !.left = @ \ {d},
                       !.todo = t, !.issues = @ \cup issues]
  BY DEF Visited
<1>2. d \in 1..(MaxName + 1)
  BY PublishAssumption DEF Names
<1>3. op' \in Operations
  BY <1>1, <1>2 DEF Operations, Stages
<1> QED BY <1>1, <1>3, NoneIsNothing DEF Operations

\* A step of the recovery that changes nothing but the operation.
LEMMA RecoveryWork ==
    ASSUME PublishInv, RefusalInv, op # None, op.todo = <<>>, UNCHANGED <<disk, of>>,
           op' # None, op'.stage \in {"walk", "claims", "finish", "resolve", "evidence"},
           Tidy(disk, op'.todo), Does(op'.todo, OfPackages), Walks', Issued'
    PROVE  RefusalInv'
<1>1. EvidenceOK
  BY WorkFacts
<1>2. EvidenceOK'
  BY <1>1, NothingToUnclaim, SameEvidence DEF SameFiles
<1>3. Claims'
  BY DEF Claims, Creating
<1>4. LockWork'
  BY DEF LockWork, Does, OfPackages
<1> QED BY <1>2, <1>3, <1>4 DEF RefusalInv, WorkOK

LEMMA VisitDirRefusal ==
    ASSUME PublishInv, RefusalInv, NEW d \in Names, VisitDir(d)
    PROVE  RefusalInv'
<1> DEFINE x == disk.dir[d]
<1>1. op # None /\ op.stage = "walk" /\ op.todo = <<>> /\ d \in op.left /\ UNCHANGED <<disk, of>>
  BY DEF VisitDir, At
<1>2. /\ op \in Operations /\ FilesOK /\ ClaimedIsEmpty /\ OneDirectory /\ MarkedIsUnclaimed
      /\ Walks /\ Issued /\ of \in [Packages -> Records \cup {None}] /\ Named
      /\ x # None => x \in Directories /\ x.pkg \in Packages
  BY <1>1, WorkFacts
<1>3. \A n \in Names : ClaimedByOwn(n) /\ disk.dir[n].marker = "whole" => Gone(disk.claim[n])
  BY <1>1, <1>2 DEF MarkedIsUnclaimed, Has
<1>4. \A n \in Names : n \notin op.left =>
         /\ Whole(n) => disk.commit[disk.dir[n].pkg] # None
         /\ ~(ClaimedByOwn(n) /\ disk.dir[n].marker = "whole")
  BY <1>1, <1>2 DEF Walks, Past
<1>5. \A i \in op.issues : i.live \/ i = Unreadable \/ \E n \in Names : TornManifest(i, n)
  BY <1>1, <1>2 DEF Issued, KeptClaim
<1>6. ASSUME NEW stage \in {"walk", "finish"}, NEW t \in Seq(Effects), NEW issues \in SUBSET Issues,
             Visited(d, stage, t, issues), Tidy(disk, t), Does(t, OfPackages),
             Whole(d) => stage = "finish" \/ disk.commit[x.pkg] # None,
             ClaimedByOwn(d) /\ x.marker = "whole" => t # <<>> /\ t[1] = Do("unmark", d),
             \A i \in issues : i.live \/ i = Unreadable \/ TornManifest(i, d)
      PROVE  RefusalInv'
  <2>1. /\ op' # None /\ op'.stage = stage /\ op'.name = d /\ op'.left = op.left \ {d}
        /\ op'.todo = t /\ op'.issues = op.issues \cup issues
    BY <1>2, <1>6, VisitedOp
  <2>2. ASSUME NEW n \in Names, Past(n)'
        PROVE  /\ Whole(n) /\ ~(op'.stage = "finish" /\ n = op'.name) => disk.commit[disk.dir[n].pkg] # None
               /\ ClaimedByOwn(n) /\ disk.dir[n].marker = "whole" =>
                     op'.todo # <<>> /\ op'.todo[1] = Do("unmark", n)
    <3>1. n \notin op.left \/ n = d
      BY <2>1, <2>2 DEF Past
    <3>2. CASE n = d
      BY <1>6, <2>1, <3>2
    <3>3. CASE n \notin op.left
      BY <1>4, <3>3
    <3> QED BY <3>1, <3>2, <3>3
  <2>3. Walks'
    BY <1>1, <2>2 DEF Walks, Whole, ClaimedByOwn
  <2>4. Issued'
    <3> SUFFICES ASSUME NEW i \in op.issues \cup issues
                 PROVE  i.live \/ i = Unreadable \/ \E n \in Names : TornManifest(i, n)'
      BY <2>1 DEF Issued, Unreadable
    <3>1. i.live \/ i = Unreadable \/ \E n \in Names : TornManifest(i, n)
      BY <1>5, <1>6
    <3> QED BY <1>1, <3>1 DEF TornManifest
  <2> QED BY <1>1, <1>6, <2>1, <2>3, <2>4, RecoveryWork
<1>7. <<>> \in Seq(Effects) /\ Tidy(disk, <<>>) /\ Does(<<>>, OfPackages)
  BY NothingIsTidy
<1>13. {} \in SUBSET Issues /\ \A i \in {} : i.live \/ i = Unreadable \/ TornManifest(i, d)
  OBVIOUS
<1>8. ClaimedByOwn(d) => ~x.content /\ x.manifest = None
  BY <1>2 DEF ClaimedByOwn, ClaimedIsEmpty
<1>9. CASE (x = None \/ x.marker = None) /\ Visited(d, "walk", <<>>, {})
  <2>1. Whole(d) => disk.commit[x.pkg] # None
    <3>1. ASSUME Whole(d) PROVE disk.commit[x.pkg] = "whole"
      BY <1>2, <1>9, <3>1, NoneIsNothing DEF Whole, FilesOK, UnmarkedIsCommitted, IsEmpty
    <3> QED BY <3>1, NoneIsNothing
  <2>2. ~(ClaimedByOwn(d) /\ x.marker = "whole")
    BY <1>9, NoneIsNothing DEF ClaimedByOwn
  <2> QED BY <1>6, <1>7, <1>9, <1>13, <2>1, <2>2, Zenon
<1>10. CASE x # None /\ Undoable(x) /\ Visited(d, "walk", RemoveIncomplete(d), {})
  <2>1. x.manifest = None
    BY <1>10 DEF Undoable
  <2>2. Unneeded(disk, x.pkg)
    BY <1>2, <1>10, <2>1, NoneIsNothing, OwnIsUnneeded DEF OneDirectory
  <2>3. /\ Tidy(disk, RemoveIncomplete(d)) /\ RemoveIncomplete(d) \in Seq(Effects)
        /\ Does(RemoveIncomplete(d), OfPackages)
        /\ ~x.content => RemoveIncomplete(d) # <<>> /\ RemoveIncomplete(d)[1] = Do("unmark", d)
    BY <1>2, <1>10, <2>2, RemoveIncompleteIsTidy
  <2>4. ~Whole(d)
    BY <2>1, NoneIsNothing DEF Whole
  <2>5. ClaimedByOwn(d) => RemoveIncomplete(d) # <<>> /\ RemoveIncomplete(d)[1] = Do("unmark", d)
    BY <1>8, <2>3
  <2> QED BY <1>6, <1>10, <2>3, <2>4, <2>5
<1>11. CASE x # None /\ x.marker = "whole" /\ x.manifest = "whole" /\ Visited(d, "finish", <<>>, {})
  <2>1. ~ClaimedByOwn(d)
    BY <1>8, <1>11, NoneIsNothing
  <2> QED BY <1>6, <1>7, <1>11, <1>13, <2>1, Zenon
<1>12. CASE /\ x # None /\ x.marker # None /\ ~Undoable(x)
            /\ ~(x.marker = "whole" /\ x.manifest = "whole")
            /\ Visited(d, "walk", <<>>, {IF x.marker = "whole" THEN IssueOf(x.pkg) ELSE Unreadable})
  <2>1. ~Whole(d)
    <3>1. x.marker = "whole" \/ x.marker = Torn
      BY <1>2, <1>12 DEF Directories, Files
    <3> QED BY <1>2, <1>12, <3>1, NoneIsNothing DEF Whole, ClaimedIsEmpty
  <2>2. ~(ClaimedByOwn(d) /\ x.marker = "whole")
    <3> SUFFICES ASSUME ClaimedByOwn(d), x.marker = "whole" PROVE FALSE
      OBVIOUS
    <3>1. x.manifest = None /\ Gone(x.pkg)
      BY <1>3, <1>8 DEF ClaimedByOwn
    <3> QED BY <1>12, <3>1 DEF Undoable
  <2> DEFINE i == IF x.marker = "whole" THEN IssueOf(x.pkg) ELSE Unreadable
  <2>3. {i} \in SUBSET Issues
    BY <1>2, <1>12, IssuesAreTyped DEF Named
  <2>4. i.live \/ i = Unreadable \/ TornManifest(i, d)
    <3>1. CASE x.marker = "whole" /\ Gone(x.pkg)
      <4>1. x.manifest \in Files /\ x.manifest # None /\ x.manifest # "whole"
        BY <1>2, <1>12, <3>1 DEF Undoable, Directories
      <4> QED BY <1>12, <3>1, <4>1 DEF TornManifest, Files, IssueOf
    <3>2. CASE x.marker = "whole" /\ ~Gone(x.pkg)
      <4>1. i = IssueOf(x.pkg)
        BY <3>2
      <4>2. IssueOf(x.pkg).live = (~Gone(x.pkg))
        BY DEF IssueOf
      <4> QED BY <3>2, <4>1, <4>2
    <3> QED BY <3>1, <3>2
  <2> HIDE DEF i
  <2>5. Visited(d, "walk", <<>>, {i})
    BY <1>12 DEF i
  <2> QED BY <1>6, <1>7, <2>1, <2>2, <2>3, <2>4, <2>5
<1> QED BY <1>9, <1>10, <1>11, <1>12 DEF VisitDir

LEMMA VisitClaimRefusal ==
    ASSUME PublishInv, RefusalInv, NEW d \in Names, VisitClaim(d)
    PROVE  RefusalInv'
<1> DEFINE p == disk.claim[d]
           x == disk.dir[d]
<1>1. op # None /\ op.stage = "claims" /\ op.todo = <<>> /\ d \in op.left /\ UNCHANGED <<disk, of>>
  BY DEF VisitClaim, At
<1>2. /\ op \in Operations /\ ClaimedIsEmpty /\ PrintsAreClaims /\ Walks /\ Issued
      /\ of \in [Packages -> Records \cup {None}] /\ Named /\ disk \in Disks
      /\ x # None => x \in Directories
  BY <1>1, WorkFacts
<1>3. \A n \in Names :
         /\ Whole(n) => disk.commit[disk.dir[n].pkg] # None
         /\ ~(ClaimedByOwn(n) /\ disk.dir[n].marker = "whole")
  BY <1>1, <1>2 DEF Walks, Past
<1>4. \A i \in op.issues :
         i.live \/ i = Unreadable \/ \E n \in Names : TornManifest(i, n) \/ KeptClaim(i, n)
  BY <1>1, <1>2 DEF Issued
<1>5. ASSUME NEW t \in Seq(Effects), NEW issues \in SUBSET Issues,
             Visited(d, "claims", t, issues), Tidy(disk, t), Does(t, OfPackages),
             \A j \in 1..Len(t) : t[j].at = d \/ t[j].do = "unreserve",
             \A i \in issues : /\ i.live \/ i = Unreadable \/ (Gone(p) /\ i.key = of[p].key)
                               /\ ~i.live /\ i # Unreadable =>
                                    /\ t = <<>> /\ p \in Packages
                                    /\ \/ disk.print[d] = Torn
                                       \/ x # None /\ (x.marker = Torn \/ x.pkg # p)
      PROVE  RefusalInv'
  <2>1. /\ op' # None /\ op'.stage = "claims" /\ op'.left = op.left \ {d}
        /\ op'.todo = t /\ op'.issues = op.issues \cup issues
    BY <1>2, <1>5, VisitedOp
  <2>2. Walks'
    BY <1>1, <1>3, <2>1 DEF Walks, Whole, ClaimedByOwn
  <2>3. ASSUME NEW n \in Names, NEW i, KeptClaim(i, n) PROVE KeptClaim(i, n)'
    <3>1. n # d
      BY <1>1, <2>3 DEF KeptClaim
    <3>2. \A j \in 1..Len(t) : t[j].at = n => t[j].do = "unreserve"
      BY <1>5, <3>1
    <3> QED BY <1>1, <2>1, <2>3, <3>2 DEF KeptClaim
  <2>4. ASSUME NEW i \in issues, ~i.live, i # Unreadable PROVE KeptClaim(i, d)'
    <3>1. /\ t = <<>> /\ p \in Packages /\ i.key = of[p].key
          /\ \/ disk.print[d] = Torn
             \/ x # None /\ (x.marker = Torn \/ x.pkg # p)
      BY <1>5, <2>4
    <3>2. \A j \in 1..Len(op'.todo) : FALSE
      BY <2>1, <3>1
    <3> QED BY <1>1, <2>1, <3>1, <3>2 DEF KeptClaim
  <2>5. Issued'
    <3> SUFFICES ASSUME NEW i \in op.issues \cup issues, ~i.live, i # Unreadable
                 PROVE  \E n \in Names : TornManifest(i, n)' \/ KeptClaim(i, n)'
      BY <2>1 DEF Issued, Unreadable
    <3>1. CASE i \in op.issues
      <4>1. PICK n \in Names : TornManifest(i, n) \/ KeptClaim(i, n)
        BY <1>4, <3>1
      <4>2. TornManifest(i, n) => TornManifest(i, n)'
        BY <1>1 DEF TornManifest
      <4> QED BY <2>3, <4>1, <4>2
    <3>2. CASE i \in issues
      BY <2>4, <3>2
    <3> QED BY <3>1, <3>2
  <2> QED BY <1>1, <1>5, <2>1, <2>2, <2>5, RecoveryWork
<1>6. /\ <<>> \in Seq(Effects) /\ Tidy(disk, <<>>) /\ Does(<<>>, OfPackages)
      /\ \A j \in 1..Len(<<>>) : FALSE
  BY NothingIsTidy
<1>7. ASSUME NEW i \in Issues, Visited(d, "claims", <<>>, {i}),
             i.live \/ i = Unreadable \/ (Gone(p) /\ i.key = of[p].key),
             ~i.live /\ i # Unreadable =>
                 /\ p \in Packages
                 /\ disk.print[d] = Torn \/ (x # None /\ (x.marker = Torn \/ x.pkg # p))
      PROVE  RefusalInv'
  <2>1. {i} \in SUBSET Issues
    OBVIOUS
  <2> DEFINE t == <<>>
  <2>2. /\ t \in Seq(Effects) /\ Tidy(disk, t) /\ Does(t, OfPackages) /\ t = <<>>
        /\ \A j \in 1..Len(t) : FALSE /\ Visited(d, "claims", t, {i})
    BY <1>6, <1>7
  <2>3. Visited(d, "claims", t, {i})
    BY <1>7
  <2> HIDE DEF t
  <2> QED BY <1>5, <1>7, <2>1, <2>2, <2>3
<1>8. CASE Visited(d, "claims", <<>>, {})
  <2>1. {} \in SUBSET Issues
    OBVIOUS
  <2> DEFINE t == <<>>
  <2>2. /\ t \in Seq(Effects) /\ Tidy(disk, t) /\ Does(t, OfPackages)
        /\ \A j \in 1..Len(t) : FALSE
    BY <1>6
  <2>3. Visited(d, "claims", t, {})
    BY <1>8
  <2> HIDE DEF t
  <2> QED BY <1>5, <2>1, <2>2, <2>3
<1>9. CASE Visited(d, "claims", <<>>, {Unreadable})
  <2>1. Unreadable \in Issues
    BY DEF Unreadable, Issues
  <2> QED BY <1>7, <1>9, <2>1
<1>10. CASE p \in Packages /\ ~Gone(p) /\ Visited(d, "claims", <<>>, {IssueOf(p)})
  <2>1. IssueOf(p) \in Issues
    BY <1>2, <1>10, IssuesAreTyped DEF Named
  <2>2. IssueOf(p).live = (~Gone(p))
    BY DEF IssueOf
  <2>3. IssueOf(p).live
    BY <1>10, <2>2
  <2> QED BY <1>7, <1>10, <2>1, <2>3
<1>11. CASE p \in Packages /\ Gone(p) /\ x # None /\ ~(IsEmpty(x) /\ Owned(d, p))
            /\ Visited(d, "claims", <<>>, {IssueOf(p)})
  <2>1. IssueOf(p) \in Issues
    BY <1>2, <1>11, IssuesAreTyped DEF Named
  <2>2. disk.print[d] = Torn \/ x.marker = Torn \/ x.pkg # p
    <3> SUFFICES ASSUME x.pkg = p, x.marker # Torn, disk.print[d] # Torn PROVE FALSE
      OBVIOUS
    <3>1. ClaimedByOwn(d)
      BY <1>11 DEF ClaimedByOwn
    <3>2. ~x.content /\ x.manifest = None
      BY <1>2, <3>1 DEF ClaimedByOwn, ClaimedIsEmpty
    <3>3. x.marker \in Files /\ x.marker # "whole"
      BY <1>2, <1>3, <1>11, <3>1 DEF Directories
    <3>4. IsEmpty(x)
      BY <3>2, <3>3 DEF IsEmpty, Files
    <3>5. disk.print[d] \in {None, Torn} \cup Packages
      BY <1>2 DEF Disks
    <3>6. Owned(d, p)
      BY <1>2, <3>5 DEF Owned, PrintsAreClaims
    <3> QED BY <1>11, <3>4, <3>6
  <2>3. IssueOf(p).key = of[p].key
    BY DEF IssueOf
  <2> QED BY <1>7, <1>11, <2>1, <2>2, <2>3
<1>12. ASSUME p \in Packages
       PROVE  LET u == RemoveClaim(d, p) \o <<Do("unreserve", p)>>
              IN  /\ u \in Seq(Effects) /\ Tidy(disk, u) /\ Does(u, OfPackages)
                  /\ \A j \in 1..Len(u) : u[j].at = d \/ u[j].do = "unreserve"
  <2> DEFINE r == RemoveClaim(d, p)
             l == <<Do("unreserve", p)>>
  <2>1. /\ Tidy(disk, r) /\ r \in Seq(Effects)
        /\ \A i \in 1..Len(r) : r[i].at = d /\ r[i].do \in OfClaims
    BY <1>12, RemoveClaimIsTidy
  <2>2. Unneeded(disk, p)
    BY <1>2, ClaimedIsUnneeded
  <2>3. Tidy(disk, l) /\ l \in Seq(Effects)
    BY <1>12, <2>2, UnreserveIsTidy
  <2>4. Len(l) = 1 /\ l[1].do = "unreserve"
    BY DEF Do
  <2> HIDE DEF r, l
  <2>5. Does(r, OfPackages) /\ Does(l, OfPackages)
    BY <2>1, <2>4 DEF Does, OfClaims, OfPackages
  <2>6. /\ Len(r \o l) = Len(r) + Len(l) /\ Len(r) \in Nat
        /\ \A i \in 1..Len(r) : (r \o l)[i] = r[i]
        /\ (r \o l)[Len(r) + 1] = l[1]
    <3>1. r \in Seq(Effects) /\ l \in Seq(Effects) /\ Len(l) = 1
      BY <2>1, <2>3, <2>4
    <3>2. 1 \in 1..Len(l)
      BY <3>1
    <3> QED BY <3>1, <3>2, Joined
  <2>7. \A j \in 1..Len(r \o l) : (r \o l)[j].at = d \/ (r \o l)[j].do = "unreserve"
    <3> SUFFICES ASSUME NEW j \in 1..Len(r \o l)
                 PROVE  (r \o l)[j].at = d \/ (r \o l)[j].do = "unreserve"
      OBVIOUS
    <3>1. j \in 1..Len(r) \/ j = Len(r) + 1
      BY <2>4, <2>6
    <3> QED BY <2>1, <2>4, <2>6, <3>1
  <2>8. r \o l \in Seq(Effects) /\ Tidy(disk, r \o l) /\ Does(r \o l, OfPackages)
    BY <2>1, <2>3, <2>5, TidyThenTidy, DoesBoth
  <2> QED BY <2>7, <2>8 DEF r, l
<1>13. CASE p \in Packages /\ Visited(d, "claims", RemoveClaim(d, p) \o <<Do("unreserve", p)>>, {})
  <2> DEFINE u == RemoveClaim(d, p) \o <<Do("unreserve", p)>>
  <2>1. /\ u \in Seq(Effects) /\ Tidy(disk, u) /\ Does(u, OfPackages)
        /\ \A j \in 1..Len(u) : u[j].at = d \/ u[j].do = "unreserve"
    BY <1>12, <1>13
  <2>2. Visited(d, "claims", u, {}) /\ {} \in SUBSET Issues
    BY <1>13
  <2> HIDE DEF u
  <2> QED BY <1>5, <2>1, <2>2
<1>14. CASE p \in Packages /\ x # None
            /\ Visited(d, "claims", <<Do("rmdir", d)>> \o RemoveClaim(d, p) \o <<Do("unreserve", p)>>, {})
  <2> DEFINE r == RemoveClaim(d, p)
             l == <<Do("unreserve", p)>>
             u == r \o l
             h == <<Do("rmdir", d)>>
             v == h \o u
  <2>1. /\ u \in Seq(Effects) /\ Tidy(disk, u) /\ Does(u, OfPackages)
        /\ \A j \in 1..Len(u) : u[j].at = d \/ u[j].do = "unreserve"
    BY <1>12, <1>14
  <2>2. Do("rmdir", d) \in Effects /\ Do("unreserve", p) \in Effects
    BY <1>14 DEF Do, Effects
  <2>9. r \in Seq(Effects)
    BY <1>14, RemoveClaimIsTidy
  <2> HIDE DEF r
  <2>3. h \in Seq(Effects) /\ l \in Seq(Effects) /\ r \in Seq(Effects)
        /\ Len(h) = 1 /\ h[1].do = "rmdir" /\ h[1].at = d
    BY <2>2, <2>9 DEF Do
  <2> HIDE DEF h, l
  <2>4. v = h \o r \o l
    BY <2>3
  <2>5. Visited(d, "claims", v, {}) /\ {} \in SUBSET Issues
    BY <1>14, <2>4 DEF h, r, l
  <2> HIDE DEF u
  <2>6. Tidy(disk, h) /\ Does(h, OfPackages)
    BY <2>3 DEF Tidy, Does, OfPackages
  <2>7. Tidy(disk, v) /\ Does(v, OfPackages) /\ v \in Seq(Effects)
    BY <2>1, <2>3, <2>6, TidyThenTidy, DoesBoth
  <2>8. \A j \in 1..Len(v) : v[j].at = d \/ v[j].do = "unreserve"
    <3> SUFFICES ASSUME NEW j \in 1..Len(v) PROVE v[j].at = d \/ v[j].do = "unreserve"
      OBVIOUS
    <3>1. CASE j = 1
      BY <2>1, <2>3, <3>1
    <3>2. CASE j # 1
      <4>2. u \in Seq(Effects) /\ h \in Seq(Effects) /\ Len(h) = 1
        BY <2>1, <2>3
      <4>1. j - 1 \in 1..Len(u) /\ v[j] = u[j - 1]
        <5>3. Len(v) = Len(h) + Len(u)
          BY <4>2, Joined, Zenon
        <5>1. Len(v) = 1 + Len(u)
          BY <4>2, <5>3
        <5>2. j \in (Len(h) + 1)..(Len(h) + Len(u)) /\ Len(u) \in Nat
          BY <3>2, <4>2, <5>1
        <5> QED BY <4>2, <5>2, Joined
      <4> QED BY <2>1, <4>1
    <3> QED BY <3>1, <3>2
  <2> HIDE DEF v
  <2> QED BY <1>5, <2>5, <2>7, <2>8
<1>15. p = None \/ p = Torn \/ p \in Packages
  BY <1>2 DEF Disks
<1> QED BY <1>8, <1>9, <1>10, <1>11, <1>13, <1>14, <1>15 DEF VisitClaim

\* It ends, or releases its lock, and nothing changes.
LEMMA LeaveRefusal ==
    ASSUME PublishInv, RefusalInv, op # None, op.todo = <<>>, SameFiles, Leave(<<>>)
    PROVE  RefusalInv'
<1>1. EvidenceOK /\ op \in Operations /\ (op.locked => op.key \in Sessions)
  BY WorkFacts
<1>2. EvidenceOK'
  BY <1>1, NothingToUnclaim, SameEvidence
<1>3. <<>> \in Seq(Effects) /\ Tidy(disk', <<>>) /\ Does(<<>>, OfPackages)
  BY NothingIsTidy
<1>4. WorkOK'
  BY <1>1, <1>3, LeaveWork
<1> QED BY <1>2, <1>4 DEF RefusalInv

LEMMA RefuseRefusal ==
    ASSUME PublishInv, RefusalInv, Refuse
    PROVE  RefusalInv'
<1>1. op # None /\ op.todo = <<>> /\ UNCHANGED <<disk, of>> /\ Leave(<<>>)
  BY DEF Refuse, At
<1> QED BY <1>1, LeaveRefusal DEF SameFiles

LEMMA ReleasedRefusal ==
    ASSUME PublishInv, RefusalInv, Released
    PROVE  RefusalInv'
<1>1. op # None /\ op.todo = <<>> /\ UNCHANGED <<disk, of>> /\ op' = None
  BY DEF Released, At
<1>2. EvidenceOK
  BY <1>1, WorkFacts
<1>3. EvidenceOK'
  BY <1>1, <1>2, NothingToUnclaim, SameEvidence DEF SameFiles
<1> QED BY <1>1, <1>3 DEF RefusalInv, WorkOK

LEMMA FinishRefusal ==
    ASSUME PublishInv, RefusalInv, Finish
    PROVE  RefusalInv'
<1> DEFINE d == op.name
           p == disk.dir[d].pkg
           t == <<Do("unmark", d)>>
<1>1. op # None /\ op.stage = "finish" /\ op.todo = <<>> /\ UNCHANGED of
  BY DEF Finish, At
<1>2. /\ op \in Operations /\ Made /\ Walks /\ Issued /\ ClaimedIsEmpty /\ EvidenceOK
      /\ disk \in Disks /\ disk.dir[d].pkg \in Packages /\ d \in Names
      /\ \A n \in Names : disk.dir[n] # None => disk.dir[n].pkg \in Packages
  <2>1. Made /\ \A n \in Names : disk.dir[n] # None => disk.dir[n].pkg \in Packages
    BY <1>1, WorkFacts
  <2>2. d \in Names /\ disk.dir[d] # None
    BY <1>1, <2>1 DEF Made
  <2> QED BY <1>1, <2>1, <2>2, WorkFacts
<1>3. disk.dir[d] # None /\ disk.dir[d].marker = "whole" /\ disk.dir[d].manifest = "whole"
  BY <1>1, <1>2 DEF Made
<1>4. ASSUME NEW left \in Files, SetCommit(p, left) \/ (left = "whole" /\ UNCHANGED disk /\ disk.commit[p] = "whole")
      PROVE  SameFiles /\ disk'.commit[p] = left
             /\ \A q \in Packages : q # p => disk'.commit[q] = disk.commit[q]
  <2>1. CASE SetCommit(p, left)
    BY <1>1, <1>2, <2>1 DEF SetCommit, SameFiles, Disks
  <2>2. CASE left = "whole" /\ UNCHANGED disk /\ disk.commit[p] = "whole"
    BY <1>1, <2>2 DEF SameFiles
  <2> QED BY <1>4, <2>1, <2>2
<1>5. CASE Goto("walk", t) /\ (SetCommit(p, "whole") \/ (UNCHANGED disk /\ disk.commit[p] = "whole"))
  <2>1. SameFiles /\ disk'.commit[p] = "whole"
        /\ \A q \in Packages : q # p => disk'.commit[q] = disk.commit[q]
    BY <1>4, <1>5 DEF Files
  <2>2. Do("unmark", d) \in Effects
    BY <1>2 DEF Do, Effects
  <2>3. t \in Seq(Effects) /\ Len(t) = 1 /\ t[1] = Do("unmark", d) /\ t # <<>>
    BY <2>2
  <2>4. Tidy(disk', t)
    BY <2>3 DEF Tidy, Do
  <2>5. \A i \in 1..Len(t) : t[i].do # "claimLock"
    BY <2>3 DEF Do
  <2>6. Goto("walk", t)
    BY <1>5
  <2> HIDE DEF t
  <2>7. "walk" \in Stages
    BY DEF Stages
  <2>8. /\ op' # None /\ op'.stage = "walk" /\ op'.todo = t
        /\ op'.left = op.left /\ op'.issues = op.issues
    BY <1>2, <2>3, <2>6, <2>7, GoneOn
  <2>9. EvidenceOK'
    BY <1>1, <1>2, <2>1, NothingToUnclaim, SameEvidence
  <2>10. LockWork' /\ Claims'
    BY <2>5, <2>8 DEF LockWork, Claims, Creating
  <2>11. Issued'
    BY <1>1, <1>2, <2>1, <2>8 DEF Issued, Unreadable, TornManifest, KeptClaim, SameFiles
  <2>12. Walks'
    <3> SUFFICES ASSUME NEW n \in Names, Past(n)'
                 PROVE  /\ Whole(n)' => disk'.commit[disk'.dir[n].pkg] # None
                        /\ ClaimedByOwn(n)' /\ disk'.dir[n].marker = "whole" =>
                              op'.todo # <<>> /\ op'.todo[1] = Do("unmark", n)
      BY DEF Walks
    <3>1. Past(n)
      BY <1>1, <2>8 DEF Past
    <3>2. Whole(n) /\ n # d => disk.commit[disk.dir[n].pkg] # None
      BY <1>1, <1>2, <3>1 DEF Walks
    <3>3. Whole(n)' => disk'.commit[disk'.dir[n].pkg] # None
      <4> SUFFICES ASSUME Whole(n)' PROVE disk'.commit[disk'.dir[n].pkg] # None
        OBVIOUS
      <4>1. Whole(n) /\ disk'.dir[n].pkg = disk.dir[n].pkg
        BY <2>1 DEF SameFiles, Whole
      <4>2. disk.dir[n].pkg \in Packages
        BY <1>2, <4>1 DEF Whole
      <4>3. CASE disk.dir[n].pkg = p
        BY <2>1, <4>1, <4>3, NoneIsNothing
      <4>4. CASE disk.dir[n].pkg # p
        BY <2>1, <3>2, <4>1, <4>2, <4>4
      <4> QED BY <4>3, <4>4
    <3>4. ~(ClaimedByOwn(n)' /\ disk'.dir[n].marker = "whole")
      <4>1. ~(ClaimedByOwn(n) /\ disk.dir[n].marker = "whole")
        BY <1>1, <1>2, <3>1 DEF Walks
      <4> QED BY <2>1, <4>1 DEF SameFiles, ClaimedByOwn
    <3> QED BY <3>3, <3>4
  <2> QED BY <2>4, <2>8, <2>9, <2>10, <2>11, <2>12 DEF RefusalInv, WorkOK
<1>6. CASE Leave(<<>>) /\ \E left \in Files : SetCommit(p, left)
  <2>1. SameFiles
    BY <1>4, <1>6
  <2> QED BY <1>1, <1>6, <2>1, LeaveRefusal
<1> QED BY <1>5, <1>6 DEF Finish, Writing, Files

LEMMA WalkedRefusal ==
    ASSUME PublishInv, RefusalInv, Walked
    PROVE  RefusalInv'
<1>1. /\ op # None /\ op.todo = <<>> /\ op.left = {} /\ op.stage \in {"walk", "claims"}
      /\ UNCHANGED <<disk, of>>
  BY DEF Walked, At
<1>2. op \in Operations /\ Walks /\ Issued
  BY <1>1, WorkFacts
<1>3. \/ /\ op' = [op EXCEPT !.stage = "claims", !.left = Names] /\ op.stage = "walk"
      \/ /\ op' = [op EXCEPT !.stage = "resolve"] /\ op.stage = "claims"
  BY <1>1 DEF Walked
<1>4. op' \in Operations
  <2>1. Names \in SUBSET (Names \cup Sessions) /\ "claims" \in Stages /\ "resolve" \in Stages
    BY DEF Stages
  <2> QED BY <1>2, <1>3, <2>1 DEF Operations
<1>5. /\ op' # None /\ op'.todo = <<>> /\ op'.issues = op.issues
      /\ \/ op'.stage = "claims" /\ op.stage = "walk"
         \/ op'.stage = "resolve" /\ op'.left = {} /\ op.stage = "claims"
  <2>1. CASE op' = [op EXCEPT !.stage = "claims", !.left = Names] /\ op.stage = "walk"
    BY <1>1, <1>2, <1>4, <2>1, NoneIsNothing DEF Operations
  <2>2. CASE op' = [op EXCEPT !.stage = "resolve"] /\ op.stage = "claims"
    BY <1>1, <1>2, <1>4, <2>2, NoneIsNothing DEF Operations
  <2> QED BY <1>3, <2>1, <2>2
<1>6. \A d \in Names : /\ Whole(d) => disk.commit[disk.dir[d].pkg] # None
                       /\ ~(ClaimedByOwn(d) /\ disk.dir[d].marker = "whole")
  BY <1>1, <1>2 DEF Walks, Past
<1>7. Walks'
  BY <1>1, <1>6 DEF Walks, Whole, ClaimedByOwn
<1>8. Issued'
  <2> SUFFICES ASSUME NEW i \in op.issues, ~i.live, i # Unreadable
               PROVE  \E d \in Names : TornManifest(i, d)' \/ KeptClaim(i, d)'
    BY <1>5 DEF Issued, Unreadable
  <2>1. PICK d \in Names : TornManifest(i, d) \/ KeptClaim(i, d)
    BY <1>1, <1>2 DEF Issued
  <2>2. TornManifest(i, d) => TornManifest(i, d)'
    BY <1>1 DEF TornManifest
  <2>3. KeptClaim(i, d) => KeptClaim(i, d)'
    BY <1>1, <1>5 DEF KeptClaim
  <2> QED BY <2>1, <2>2, <2>3
<1>9. Tidy(disk, <<>>) /\ Does(<<>>, OfPackages)
  BY NothingIsTidy
<1> QED BY <1>1, <1>5, <1>7, <1>8, <1>9, RecoveryWork

\* An operation that waits, with nothing to remove but what is of the locks.
LEMMA IdleRefusal ==
    ASSUME PublishInv, RefusalInv, SameFiles,
           op # None => op.todo = <<>> \/ op.stage \in {"lock", "locks"},
           op' # None =>
              /\ \/ op'.stage \in {"locks", "lock", "own", "reserve"}
                 \/ op'.stage = "walk" /\ op'.left = Names /\ op'.issues = {}
              /\ op'.todo = <<>> \/ (op'.stage \in {"locks", "lock"} /\ Does(op'.todo, OfLocks))
    PROVE  RefusalInv'
<1>1. EvidenceOK
  BY DEF RefusalInv
<1>2. op # None => \A d \in Names : ~Has(op.todo, Do("unclaim", d))
  <2> SUFFICES ASSUME op # None, NEW d \in Names PROVE ~Has(op.todo, Do("unclaim", d))
    OBVIOUS
  <2>1. CASE op.todo = <<>>
    BY <2>1, NothingToUnclaim
  <2>2. CASE op.stage \in {"lock", "locks"}
    <3>1. Does(op.todo, OfLocks)
      BY <2>2, WorkFacts DEF LockWork
    <3> QED BY <3>1 DEF Does, Has, Do, OfLocks
  <2> QED BY <2>1, <2>2
<1>3. EvidenceOK'
  BY <1>1, <1>2, SameEvidence
<1>4. Does(<<>>, OfLocks) /\ Tidy(disk', <<>>) /\ \A i \in 1..Len(<<>>) : FALSE
  BY NothingIsTidy
<1>5. ASSUME op' # None PROVE Tidy(disk', op'.todo) /\ LockWork'
  <2>1. CASE op'.todo = <<>>
    BY <1>4, <2>1 DEF LockWork
  <2>2. CASE op'.stage \in {"locks", "lock"} /\ Does(op'.todo, OfLocks)
    <3>1. Tidy(disk', op'.todo)
      BY <2>2, OtherIsTidy DEF Does, OfLocks
    <3> QED BY <2>2, <3>1 DEF LockWork
  <2> QED BY <1>5, <2>1, <2>2
<1>6. WorkOK'
  BY <1>5, IdleWork
<1> QED BY <1>3, <1>6 DEF RefusalInv

LEMMA ResolveRefusal ==
    ASSUME PublishInv, RefusalInv, Resolve
    PROVE  RefusalInv'
<1>1. op # None /\ op.stage = "resolve" /\ op.todo = <<>> /\ UNCHANGED <<disk, of>>
  BY DEF Resolve, At
<1>2. op \in Operations /\ Walks
  BY <1>1, WorkFacts
<1>3. CASE Leave(<<>>)
  BY <1>1, <1>3, LeaveRefusal DEF SameFiles
<1>0. <<>> \in Seq(Effects) /\ "lock" \in Stages /\ "evidence" \in Stages
  BY DEF Stages
<1>4. CASE Goto("lock", <<>>)
  <2>1. op' # None /\ op'.stage = "lock" /\ op'.todo = <<>>
    BY <1>0, <1>2, <1>4, GoneOn
  <2> QED BY <1>1, <2>1, IdleRefusal DEF SameFiles
<1>5. CASE Goto("evidence", <<>>)
  <2>1. op' # None /\ op'.stage = "evidence" /\ op'.todo = <<>>
    BY <1>0, <1>2, <1>5, GoneOn
  <2>2. Walks'
    BY <1>1, <1>2, <2>1 DEF Walks, Past, Whole, ClaimedByOwn
  <2>3. Issued'
    BY <2>1 DEF Issued
  <2>4. Tidy(disk, <<>>) /\ Does(<<>>, OfPackages)
    BY NothingIsTidy
  <2> QED BY <1>1, <2>1, <2>2, <2>3, <2>4, RecoveryWork
<1> QED BY <1>3, <1>4, <1>5 DEF Resolve

-----------------------------------------------------------------------------
(* The locks, the reservations, and the death of a process.                *)

LEMMA NewOpIs ==
    ASSUME NEW p \in Processes, NEW s \in Sessions \cup {None}, NEW stage \in {"walk", "locks"},
           NEW l \in BOOLEAN, op' = [NewOp(p, s, stage) EXCEPT !.locked = l] \/ op' = NewOp(p, s, stage)
    PROVE  /\ op' # None /\ op'.stage = stage /\ op'.todo = <<>>
           /\ stage = "walk" => op'.left = Names /\ op'.issues = {}
<1> DEFINE o == [by |-> p, key |-> s, stage |-> stage, locked |-> FALSE, pkg |-> None, name |-> 1,
                 left |-> IF stage = "locks" THEN Sessions ELSE Names, issues |-> {}, todo |-> <<>>]
           n == [o EXCEPT !.locked = l]
<1>1. op' = o \/ op' = n
  BY DEF NewOp
<1>2. o \in Operations /\ n \in Operations
  <2>1. 1 \in 1..(MaxName + 1) /\ <<>> \in Seq(Effects)
        /\ Sessions \in SUBSET (Names \cup Sessions) /\ Names \in SUBSET (Names \cup Sessions)
    BY PublishAssumption
  <2> QED BY <2>1 DEF Operations, Stages
<1>3. /\ o.stage = stage /\ n.stage = stage /\ o.todo = <<>> /\ n.todo = <<>>
      /\ o.issues = {} /\ n.issues = {}
      /\ stage = "walk" => o.left = Names /\ n.left = Names
  OBVIOUS
<1> HIDE DEF o, n
<1> QED BY <1>1, <1>2, <1>3, NoneIsNothing

LEMMA BeginRefusal ==
    ASSUME PublishInv, RefusalInv, SameFiles, NEW p \in Processes, NEW s \in Sessions \cup {None},
           NEW stage \in {"walk", "locks"}, op' = NewOp(p, s, stage),
           op # None => op.todo = <<>>
    PROVE  RefusalInv'
<1>1. /\ op' # None /\ op'.stage = stage /\ op'.todo = <<>>
      /\ stage = "walk" => op'.left = Names /\ op'.issues = {}
  BY NewOpIs, Zenon
<1> QED BY <1>1, IdleRefusal

LEMMA LockRefusal ==
    ASSUME PublishInv, RefusalInv,
           MakeLock \/ OwnLock \/ LocksDone \/ ClaimLockFails \/ \E s \in Sessions : ClearLock(s)
    PROVE  RefusalInv'
<1>1. op # None /\ UNCHANGED of
  BY DEF MakeLock, OwnLock, LocksDone, ClaimLockFails, ClearLock, At
<1>2. /\ op \in Operations /\ LockWork /\ op.by \in Processes /\ op.key \in Sessions \cup {None}
      /\ disk \in Disks /\ op.todo \in Seq(Effects)
  BY <1>1, WorkFacts
<1>3. SameFiles
  <2>1. UNCHANGED disk \/ \E s, x : disk' = [disk EXCEPT !.lock[s] = x]
    <3>1. CASE MakeLock
      BY <3>1 DEF MakeLock
    <3>2. CASE OwnLock
      BY <3>2 DEF OwnLock, Writing
    <3>3. CASE ClaimLockFails
      <4>1. PICK left \in BOOLEAN : disk' = [disk EXCEPT !.lock[Head(op.todo).at].claim = left]
        BY <3>3 DEF ClaimLockFails
      <4> QED BY <4>1
    <3>4. CASE LocksDone \/ \E s \in Sessions : ClearLock(s)
      BY <3>4 DEF LocksDone, ClearLock
    <3> QED BY <3>1, <3>2, <3>3, <3>4
  <2> QED BY <1>1, <1>2, <2>1 DEF Disks, SameFiles
<1>4. CASE MakeLock
  <2>1. op.todo = <<>> /\ Goto("own", <<>>) /\ "own" \in Stages /\ <<>> \in Seq(Effects)
    BY <1>4 DEF MakeLock, At, Stages
  <2>2. op' # None /\ op'.stage = "own" /\ op'.todo = <<>>
    BY <1>2, <2>1, GoneOn
  <2> QED BY <1>3, <2>1, <2>2, IdleRefusal
<1>5. CASE OwnLock
  <2>1. op.todo = <<>>
    BY <1>5 DEF OwnLock, At
  <2>2. op' = None \/ op' = [NewOp(op.by, op.key, "walk") EXCEPT !.locked = TRUE]
    BY <1>5 DEF OwnLock, Writing
  <2>3. op' # None => op'.stage = "walk" /\ op'.todo = <<>> /\ op'.left = Names /\ op'.issues = {}
    BY <1>2, <2>2, NewOpIs
  <2> QED BY <1>3, <2>1, <2>3, IdleRefusal
<1>6. CASE LocksDone
  BY <1>2, <1>3, <1>6, BeginRefusal DEF LocksDone, At
<1>7. CASE ClaimLockFails
  <2>1. /\ op.todo # <<>> /\ Head(op.todo).do = "claimLock"
        /\ op' = [op EXCEPT !.todo = <<>>] \/ op' = None
    BY <1>7 DEF ClaimLockFails
  <2>2. op.stage \in {"lock", "locks"}
    BY <1>2, <2>1 DEF LockWork
  <2>3. op' # None => op'.stage = op.stage /\ op'.todo = <<>>
    BY <1>2, <2>1 DEF Operations
  <2> QED BY <1>3, <2>2, <2>3, IdleRefusal
<1>8. CASE \E s \in Sessions : ClearLock(s)
  <2>1. PICK s \in Sessions : ClearLock(s)
    BY <1>8
  <2> DEFINE t == IF Recoverable(s) THEN RecoverLock(s) ELSE <<Do("unlock", s)>>
             l == IF op.stage = "locks" THEN op.left \ {s} ELSE op.left
  <2>2. /\ op.todo = <<>> /\ op.stage \in {"lock", "locks"}
        /\ op' = [op EXCEPT !.left = l, !.todo = t]
    BY <2>1 DEF ClearLock, At
  <2>3. Does(t, OfLocks)
    <3>1. Does(<<Do("unlock", s)>>, OfLocks)
      BY OneDoes DEF OfLocks
    <3>2. Does(RecoverLock(s), OfLocks)
      <4> DEFINE u == RecoverLock(s)
      <4>1. /\ Len(u) = 4 /\ u[1].do = "claimLock" /\ u[2].do = "unown"
            /\ u[3].do = "freeClaim" /\ u[4].do = "unlock"
        BY DEF RecoverLock, Do
      <4> HIDE DEF u
      <4>2. \A i \in 1..Len(u) : i = 1 \/ i = 2 \/ i = 3 \/ i = 4
        BY <4>1
      <4>3. Does(u, OfLocks)
        BY <4>1, <4>2 DEF Does, OfLocks
      <4> QED BY <4>3 DEF u
    <3> QED BY <3>1, <3>2
  <2>4. t \in Seq(Effects)
    <3>1. \A w \in OfLocks : Do(w, s) \in Effects
      BY DEF Do, Effects, OfLocks
    <3>2. RecoverLock(s) \in Seq(Effects) /\ <<Do("unlock", s)>> \in Seq(Effects)
      BY <3>1 DEF RecoverLock, OfLocks
    <3> QED BY <3>2
  <2>5. l \in SUBSET (Names \cup Sessions)
    BY <1>2 DEF Operations
  <2> HIDE DEF t, l
  <2>6. op' \in Operations
    BY <1>2, <2>2, <2>4, <2>5 DEF Operations
  <2>7. op'.stage = op.stage /\ op'.todo = t
    BY <1>2, <2>2 DEF Operations
  <2> QED BY <1>3, <2>2, <2>3, <2>7, IdleRefusal
<1> QED BY <1>4, <1>5, <1>6, <1>7, <1>8

LEMMA DropReservationRefusal ==
    ASSUME PublishInv, RefusalInv, DropReservation
    PROVE  RefusalInv'
<1>1. /\ op # None /\ op.stage = "evidence" /\ op.todo = <<>> /\ UNCHANGED <<disk, of>>
  BY DEF DropReservation, At
<1>2. PICK p \in Packages : Abandoned(p) /\ Goto("evidence", <<Do("unreserve", p)>>)
  BY DEF DropReservation
<1> DEFINE t == <<Do("unreserve", p)>>
<1>3. op \in Operations /\ Walks
  BY <1>1, WorkFacts
<1>4. \A d \in Names : Whole(d) => disk.commit[disk.dir[d].pkg] # None
  BY <1>1, <1>3 DEF Walks, Past
<1>5. Unneeded(disk, p)
  BY <1>2, <1>4 DEF Unneeded, Whole, Abandoned
<1>6. Tidy(disk, t) /\ t \in Seq(Effects) /\ Does(t, OfPackages) /\ "evidence" \in Stages
  BY <1>5, UnreserveIsTidy, OneDoes DEF OfPackages, Stages
<1>7. op' # None /\ op'.stage = "evidence" /\ op'.todo = t
  BY <1>2, <1>3, <1>6, GoneOn
<1> HIDE DEF t
<1>8. Walks'
  BY <1>1, <1>4, <1>7 DEF Walks, Whole
<1>9. Issued'
  BY <1>7 DEF Issued
<1> QED BY <1>1, <1>6, <1>7, <1>8, <1>9, RecoveryWork

LEMMA ProvenRefusal ==
    ASSUME PublishInv, RefusalInv, Proven
    PROVE  RefusalInv'
<1>1. op # None /\ op.todo = <<>> /\ UNCHANGED <<disk, of>>
  BY DEF Proven, At
<1>2. op' = None \/ Goto("reserve", <<>>)
  BY DEF Proven
<1>3. op \in Operations /\ "reserve" \in Stages /\ <<>> \in Seq(Effects)
  BY <1>1, WorkFacts DEF Stages
<1>4. op' # None => op'.stage = "reserve" /\ op'.todo = <<>>
  BY <1>2, <1>3, GoneOn
<1> QED BY <1>1, <1>4, IdleRefusal DEF SameFiles

LEMMA CrashRefusal ==
    ASSUME PublishInv, RefusalInv, NEW c \in Processes, Crash(c)
    PROVE  RefusalInv'
<1> DEFINE heir(o) == IF o = c THEN Dead ELSE o
           inherited(x) == IF x = None THEN None ELSE [x EXCEPT !.owner = heir(@)]
<1>1. /\ of' = [q \in Packages |-> inherited(of[q])]
      /\ disk' = [disk EXCEPT !.lock = [s \in Sessions |-> inherited(disk.lock[s])]]
      /\ op' = IF op # None /\ op.by = c THEN None ELSE op
  BY DEF Crash
<1>2. /\ disk \in Disks /\ of \in [Packages -> Records \cup {None}] /\ Named /\ EvidenceOK
      /\ \A d \in Names : disk.dir[d] # None => disk.dir[d].pkg \in Packages
  <2>1. disk \in Disks /\ \A d \in Names : disk.dir[d] # None => disk.dir[d] \in Directories
    BY DEF PublishInv, FilesOK, Disks
  <2> QED BY <2>1 DEF PublishInv, FilesOK, Directories, RefusalInv
<1>3. /\ disk'.dir = disk.dir /\ disk'.claim = disk.claim /\ disk'.print = disk.print
      /\ disk'.res = disk.res /\ disk'.commit = disk.commit
  <2> DEFINE l == [s \in Sessions |-> inherited(disk.lock[s])]
  <2>1. disk' = [disk EXCEPT !.lock = l]
    BY <1>1
  <2> HIDE DEF l
  <2> QED BY <1>2, <2>1 DEF Disks
<1>4. \A q \in Packages : of[q] # None =>
         /\ of'[q].key = of[q].key
         /\ of'[q].owner = IF of[q].owner = c THEN Dead ELSE of[q].owner
  <2> SUFFICES ASSUME NEW q \in Packages, of[q] # None
               PROVE  /\ of'[q].key = of[q].key
                      /\ of'[q].owner = IF of[q].owner = c THEN Dead ELSE of[q].owner
    OBVIOUS
  <2>1. of[q] \in Records
    BY <1>2
  <2>2. of'[q] = [of[q] EXCEPT !.owner = heir(of[q].owner)]
    BY <1>1
  <2> QED BY <2>1, <2>2 DEF Records
<1> HIDE DEF inherited, heir
<1>5. FilesInOrder'
  BY <1>2, <1>3, SameFilesInOrder DEF EvidenceOK
<1>6. MarkedIsUnclaimed'
  <2> SUFFICES ASSUME NEW d \in Names, disk.dir[d] # None, disk.claim[d] = disk.dir[d].pkg,
                      disk.dir[d].marker = "whole"
               PROVE  \/ of'[disk.claim[d]].owner = Dead
                      \/ /\ op' # None
                         /\ of'[disk.claim[d]].owner = op'.by
                         /\ Has(op'.todo, Do("unclaim", d))
    BY <1>3 DEF MarkedIsUnclaimed, ClaimedByOwn, Gone
  <2> DEFINE q == disk.claim[d]
  <2>1. q \in Packages /\ of[q] # None
    BY <1>2 DEF Named
  <2>2. of[q].owner = Dead \/ (op # None /\ of[q].owner = op.by /\ Has(op.todo, Do("unclaim", d)))
    BY <1>2 DEF EvidenceOK, MarkedIsUnclaimed, ClaimedByOwn, Gone
  <2>3. CASE of[q].owner = Dead
    BY <1>4, <2>1, <2>3
  <2>4. CASE op # None /\ of[q].owner = op.by /\ Has(op.todo, Do("unclaim", d)) /\ op.by = c
    BY <1>4, <2>1, <2>4
  <2>5. CASE op # None /\ of[q].owner = op.by /\ Has(op.todo, Do("unclaim", d)) /\ op.by # c
    <3>1. op' = op /\ of'[q].owner = op.by
      BY <1>1, <1>4, <2>1, <2>5
    <3> QED BY <2>5, <3>1
  <2> QED BY <2>2, <2>3, <2>4, <2>5
<1>7. WorkOK'
  <2> SUFFICES ASSUME op' # None PROVE WorkOK'
    BY DEF WorkOK
  <2>1. op # None /\ op.by # c /\ op' = op
    BY <1>1
  <2>2. Tidy(disk, op.todo) /\ Claims /\ Walks /\ Issued /\ LockWork /\ Made
    BY <2>1, WorkFacts
  <2>3. Tidy(disk', op.todo)
    BY <1>3, <2>2 DEF Tidy
  <2>4. Walks'
    BY <1>3, <2>1, <2>2 DEF Walks, Past, Whole, ClaimedByOwn
  <2>5. LockWork'
    BY <2>1, <2>2 DEF LockWork
  <2>6. op.stage \in Creating => of'[op.pkg].owner = op.by
    BY <1>4, <2>1, <2>2 DEF Claims, Made
  <2>7. Claims'
    BY <1>3, <2>1, <2>2, <2>6 DEF Claims
  <2>8. Issued'
    <3>1. ASSUME NEW i, NEW d \in Names, TornManifest(i, d) PROVE TornManifest(i, d)'
      <4>1. disk.dir[d] # None /\ disk.dir[d].pkg \in Packages /\ of[disk.dir[d].pkg] # None
        BY <1>2, <3>1 DEF TornManifest, Named
      <4> QED BY <1>3, <1>4, <3>1, <4>1 DEF TornManifest
    <3>2. ASSUME NEW i, NEW d \in Names, KeptClaim(i, d) PROVE KeptClaim(i, d)'
      <4>1. disk.claim[d] \in Packages /\ of[disk.claim[d]] # None
        BY <1>2, <3>2 DEF KeptClaim, Named
      <4>2. of'[disk.claim[d]].key = i.key
        BY <1>4, <3>2, <4>1 DEF KeptClaim
      <4> QED BY <1>3, <2>1, <3>2, <4>1, <4>2 DEF KeptClaim
    <3> QED BY <2>1, <2>2, <3>1, <3>2 DEF Issued, Unreadable
  <2> QED BY <2>1, <2>3, <2>4, <2>5, <2>7, <2>8 DEF WorkOK
<1> QED BY <1>5, <1>6, <1>7 DEF RefusalInv, EvidenceOK

-----------------------------------------------------------------------------
(* The creation.                                                           *)

\* The claims of marked directories, if no more than t is left to do.
Unclaims(t) ==
    \A d \in Names : ClaimedByOwn(d)' /\ disk'.dir[d].marker = "whole" =>
        \/ Gone(disk.claim[d])'
        \/ of'[disk'.claim[d]].owner = op.by /\ Has(t, Do("unclaim", d))

LEMMA CreationFacts ==
    ASSUME PublishInv, RefusalInv, op # None, op.stage \in Creating, op.todo = <<>>
    PROVE  /\ op.locked /\ op.pkg \in Packages /\ of[op.pkg] # None /\ op.key \in Sessions
           /\ of[op.pkg].owner = op.by
           /\ op.stage # "claim" => op.name \in Names
           /\ \A d \in Names : ClaimedByOwn(d) /\ disk.dir[d].marker = "whole" => Gone(disk.claim[d])
           /\ op.stage \in {"claim", "content", "manifest", "commit"} =>
                 \A d \in Names : disk.claim[d] # op.pkg
           /\ op.stage \in {"mkdir", "print", "mark"} =>
                 /\ disk.claim[op.name] = op.pkg
                 /\ \A d \in Names : disk.claim[d] = op.pkg => d = op.name
<1>1. Made /\ Claims /\ MarkedIsUnclaimed /\ op.locked /\ op.key \in Sessions
  BY WorkFacts, CreatingFacts
<1>2. \A d \in Names : ~Has(op.todo, Do("unclaim", d))
  BY NothingToUnclaim
<1>3. op.pkg \in Packages /\ of[op.pkg] # None /\ (op.stage # "claim" => op.name \in Names)
  BY <1>1 DEF Made
<1>4. \A d \in Names : ClaimedByOwn(d) /\ disk.dir[d].marker = "whole" => Gone(disk.claim[d])
  BY <1>1, <1>2 DEF MarkedIsUnclaimed
<1> QED BY <1>1, <1>2, <1>3, <1>4 DEF Claims

\* A step of the creation that fails, and one that goes on.
LEMMA FailedRefusal ==
    ASSUME PublishInv, RefusalInv, op # None, op.locked, FilesInOrder',
           NEW t \in Seq(Effects), Leave(t), Tidy(disk', t), Does(t, OfPackages), Unclaims(t)
    PROVE  RefusalInv'
<1>1. op \in Operations /\ op.key \in Sessions
  BY WorkFacts
<1>2. WorkOK' /\ op' # None /\ op'.by = op.by /\ \A e : Has(t, e) => Has(op'.todo, e)
  BY <1>1, LeaveWork
<1>3. MarkedIsUnclaimed'
  BY <1>2 DEF MarkedIsUnclaimed, Unclaims
<1> QED BY <1>2, <1>3 DEF RefusalInv, EvidenceOK

LEMMA WentRefusal ==
    ASSUME op' # None, op'.stage \in Creating, op'.by = op.by, FilesInOrder',
           Claims', Tidy(disk', op'.todo), Does(op'.todo, OfPackages), Unclaims(op'.todo)
    PROVE  RefusalInv'
<1>1. MarkedIsUnclaimed'
  BY DEF MarkedIsUnclaimed, Unclaims
<1>2. Walks' /\ Issued'
  BY DEF Walks, Past, Issued, Creating
<1>3. LockWork'
  BY DEF LockWork, Does, OfPackages, Creating
<1> QED BY <1>1, <1>2, <1>3 DEF RefusalInv, EvidenceOK, WorkOK

\* Nothing but the claims and the fingerprints that go with them change.
LEMMA SameUnclaims ==
    ASSUME disk'.dir = disk.dir, UNCHANGED of, NEW t,
           \A d \in Names : ClaimedByOwn(d) /\ disk.dir[d].marker = "whole" => Gone(disk.claim[d]),
           \A d \in Names : disk.dir[d] # None => disk'.claim[d] = disk.claim[d] \/ disk'.claim[d] # disk.dir[d].pkg
    PROVE  Unclaims(t)
BY DEF Unclaims, ClaimedByOwn, Gone

LEMMA Least ==
    ASSUME NEW S \in SUBSET Nat, S # {}
    PROVE  (CHOOSE q \in S : \A r \in S : q <= r) \in S
<1> DEFINE R == {x \in Nat \X Nat : x[1] < x[2]}
<1>1. IsWellFoundedOn(R, Nat)
  BY NatLessThanWellFounded DEF OpToRel
<1>2. PICK n \in S : \A m \in S : ~(<<m, n>> \in R)
  <2> HIDE DEF R
  <2> QED BY <1>1, WFMin
<1>3. \A m \in S : ~(m < n)
  BY <1>2
<1>4. \A m \in S : n <= m
  BY <1>3
<1> QED BY <1>4

LEMMA ReserveRefusal ==
    ASSUME PublishInv, RefusalInv, Reserve
    PROVE  RefusalInv'
<1> DEFINE free == {q \in Packages : of[q] = None}
           p == CHOOSE q \in free : \A r \in free : q <= r
<1>1. op # None /\ op.stage = "reserve" /\ op.todo = <<>>
  BY DEF Reserve, At
<1>2. /\ op \in Operations /\ op.locked /\ op.key \in Sessions /\ op.by \in Processes
      /\ disk \in Disks /\ of \in [Packages -> Records \cup {None}] /\ Named
      /\ FilesInOrder /\ MarkedIsUnclaimed
      /\ \A d \in Names : disk.dir[d] # None => disk.dir[d].pkg \in Packages
  <2>1. Holder /\ (op.locked => op.key \in Sessions)
    BY <1>1, WorkFacts
  <2>2. op.locked /\ op.key \in Sessions
    BY <1>1, <2>1 DEF Holder
  <2> QED BY <1>1, <2>2, WorkFacts
<1>3. CASE free = {}
  <2>1. Leave(<<>>) /\ UNCHANGED <<disk, of>>
    BY <1>3 DEF Reserve
  <2> QED BY <1>1, <2>1, LeaveRefusal DEF SameFiles
<1>4. CASE free # {}
  <2>1. p \in free
    <3>1. free \in SUBSET Nat
      BY PublishAssumption DEF Packages
    <3> HIDE DEF free
    <3> QED BY <1>4, <3>1, Least
  <2>2. p \in Packages /\ of[p] = None
    BY <2>1
  <2>3. PICK left \in Files :
           /\ disk' = [disk EXCEPT !.res[p] = left]
           /\ \/ op' = [op EXCEPT !.stage = "claim", !.pkg = p, !.name = 1]
              \/ op' = [op EXCEPT !.stage = "release",
                                  !.todo = <<Do("unown", op.key), Do("unlock", op.key)>>]
    BY <1>4 DEF Reserve, Writing, Files
  <2>4. of' = [of EXCEPT ![p] = [key |-> op.key, owner |-> op.by]]
    BY <1>4 DEF Reserve
  <2> HIDE DEF p, free
  <2>5. /\ disk'.dir = disk.dir /\ disk'.claim = disk.claim /\ disk'.print = disk.print
        /\ \A q \in Packages : q # p => disk'.res[q] = disk.res[q]
    BY <1>2, <2>2, <2>3 DEF Disks
  <2>6. of'[p].owner = op.by /\ \A q \in Packages : q # p => of'[q] = of[q]
    BY <1>2, <2>2, <2>4
  <2>7. /\ \A d \in Names : disk.dir[d] # None => disk.dir[d].pkg \in Packages \ {p}
        /\ \A d \in Names : disk.claim[d] # p
    BY <1>2, <2>2 DEF Named
  <2>8. FilesInOrder'
    BY <1>2, <2>5, <2>7 DEF FilesInOrder, PrintsAreClaims, OneDirectory, ClaimedIsEmpty,
       WholeIsReserved, Whole
  <2>9. \A d \in Names : ClaimedByOwn(d) /\ disk.dir[d].marker = "whole" => Gone(disk.claim[d])
    BY <1>1, <1>2, NothingToUnclaim DEF MarkedIsUnclaimed
  <2>10. ASSUME NEW t PROVE Unclaims(t)
    BY <2>5, <2>6, <2>7, <2>9 DEF Unclaims, ClaimedByOwn, Gone
  <2>11. CASE op' = [op EXCEPT !.stage = "claim", !.pkg = p, !.name = 1]
    <3>1. 1 \in 1..(MaxName + 1)
      BY PublishAssumption
    <3>2. op' \in Operations
      BY <1>2, <2>2, <2>11, <3>1 DEF Operations, Stages
    <3>3. /\ op' # None /\ op'.stage = "claim" /\ op'.pkg = p /\ op'.todo = <<>> /\ op'.by = op.by
      BY <1>1, <1>2, <2>11, <3>2, NoneIsNothing DEF Operations
    <3>4. Claims'
      BY <2>5, <2>6, <2>7, <3>3 DEF Claims
    <3>5. Tidy(disk', <<>>) /\ Does(<<>>, OfPackages)
      BY NothingIsTidy
    <3> QED BY <2>8, <2>10, <3>3, <3>4, <3>5, WentRefusal DEF Creating
  <2>12. CASE op' = [op EXCEPT !.stage = "release",
                               !.todo = <<Do("unown", op.key), Do("unlock", op.key)>>]
    <3>1. <<>> \o <<Do("unown", op.key), Do("unlock", op.key)>>
             = <<Do("unown", op.key), Do("unlock", op.key)>>
      OBVIOUS
    <3>2. Leave(<<>>)
      BY <1>2, <2>12, <3>1 DEF Leave, Goto
    <3>3. <<>> \in Seq(Effects) /\ Tidy(disk', <<>>) /\ Does(<<>>, OfPackages)
      BY NothingIsTidy
    <3> QED BY <1>1, <1>2, <2>8, <2>10, <3>2, <3>3, FailedRefusal
  <2> QED BY <2>3, <2>11, <2>12
<1> QED BY <1>3, <1>4

LEMMA ClaimNameRefusal ==
    ASSUME PublishInv, RefusalInv, ClaimName
    PROVE  RefusalInv'
<1> DEFINE n == op.name
           p == op.pkg
           u == <<Do("unreserve", p)>>
<1>1. op # None /\ op.stage = "claim" /\ op.stage \in Creating /\ op.todo = <<>> /\ UNCHANGED of
  BY DEF ClaimName, At, Creating
<1>2. /\ op \in Operations /\ disk \in Disks /\ FilesInOrder /\ Claims /\ n \in 1..(MaxName + 1)
      /\ op.locked /\ p \in Packages /\ op.by \in Processes
      /\ of[p].owner = op.by
      /\ \A d \in Names : disk.claim[d] # p
      /\ \A d \in Names : ClaimedByOwn(d) /\ disk.dir[d].marker = "whole" => Gone(disk.claim[d])
  <2>1. op \in Operations /\ disk \in Disks /\ FilesInOrder /\ Claims /\ op.by \in Processes
    BY <1>1, WorkFacts
  <2>2. n \in 1..(MaxName + 1)
    BY <2>1 DEF Operations
  <2> QED BY <1>1, <2>1, <2>2, CreationFacts
<1>3. \A d \in Names : disk.dir[d] # None => disk.dir[d].pkg # p
  BY <1>1, <1>2 DEF Claims
<1>4. Unneeded(disk, p)
  BY <1>3 DEF Unneeded
<1>5. u \in Seq(Effects) /\ Does(u, OfPackages)
  BY <1>2, <1>4, UnreserveIsTidy, OneDoes DEF OfPackages
<1>6. CASE UNCHANGED disk /\ Leave(u)
  <2>1. Tidy(disk', u)
    BY <1>2, <1>4, <1>6, UnreserveIsTidy
  <2>2. FilesInOrder'
    BY <1>2, <1>6, SameFilesInOrder
  <2>3. Unclaims(u)
    BY <1>1, <1>2, <1>6, SameUnclaims
  <2> HIDE DEF u
  <2> QED BY <1>1, <1>2, <1>5, <1>6, <2>1, <2>2, <2>3, FailedRefusal
<1>7. CASE UNCHANGED disk /\ n <= MaxName /\ op' = [op EXCEPT !.name = @ + 1]
  <2>1. n + 1 \in 1..(MaxName + 1)
    BY <1>2, <1>7, PublishAssumption
  <2>2. op' \in Operations
    BY <1>2, <1>7, <2>1 DEF Operations
  <2>3. op' # None /\ op'.stage = "claim" /\ op'.pkg = p /\ op'.todo = <<>> /\ op'.by = op.by
    BY <1>1, <1>2, <1>7, <2>2, NoneIsNothing DEF Operations
  <2>4. Claims'
    BY <1>1, <1>2, <1>3, <1>7, <2>3 DEF Claims
  <2>5. FilesInOrder'
    BY <1>2, <1>7, SameFilesInOrder
  <2>6. Unclaims(<<>>)
    BY <1>1, <1>2, <1>7, SameUnclaims
  <2>7. Tidy(disk', <<>>) /\ Does(<<>>, OfPackages)
    BY NothingIsTidy
  <2> QED BY <2>3, <2>4, <2>5, <2>6, <2>7, WentRefusal DEF Creating
<1>8. ASSUME NEW c \in {None, Torn, p}, n \in Names, disk.claim[n] = None,
             disk' = [disk EXCEPT !.claim[n] = c],
             (Goto("mkdir", <<>>) /\ c = p) \/ Leave(u)
      PROVE  RefusalInv'
  <2>1. /\ disk'.dir = disk.dir /\ disk'.print = disk.print /\ disk'.res = disk.res
        /\ disk'.claim[n] = c /\ \A d \in Names : d # n => disk'.claim[d] = disk.claim[d]
    BY <1>2, <1>8 DEF Disks
  <2>2. /\ PrintsAreClaims /\ OneDirectory /\ ClaimedIsEmpty /\ WholeIsReserved
        /\ disk.print[n] = None
    BY <1>2, <1>8 DEF FilesInOrder, PrintsAreClaims
  <2>9. \A d \in Names : disk.dir[d] # None => disk.dir[d].pkg \in Packages
    BY <1>1, WorkFacts
  <2>3. FilesInOrder'
    <3>1. PrintsAreClaims'
      BY <2>1, <2>2, NoneIsNothing DEF PrintsAreClaims
    <3>2. OneDirectory' /\ WholeIsReserved'
      BY <2>1, <2>2 DEF OneDirectory, WholeIsReserved, Whole
    <3>3. ClaimedIsEmpty'
      <4> SUFFICES ASSUME NEW d \in Names, disk.dir[d] # None,
                          disk.dir[d].marker = Torn \/ \E e \in Names : disk'.claim[e] = disk.dir[d].pkg
                   PROVE  ~disk.dir[d].content /\ disk.dir[d].manifest = None
        BY <2>1 DEF ClaimedIsEmpty
      <4>1. disk.dir[d].pkg \notin {None, Torn, p}
        BY <1>3, <2>9, NoneIsNothing
      <4>2. disk.dir[d].marker = Torn \/ \E e \in Names : disk.claim[e] = disk.dir[d].pkg
        BY <1>8, <2>1, <4>1
      <4> QED BY <2>2, <4>2 DEF ClaimedIsEmpty
    <3> QED BY <3>1, <3>2, <3>3 DEF FilesInOrder
  <2>4. ASSUME NEW t PROVE Unclaims(t)
    <3>1. \A d \in Names : disk.dir[d] # None =>
             disk'.claim[d] = disk.claim[d] \/ disk'.claim[d] # disk.dir[d].pkg
      BY <1>3, <1>8, <2>1, <2>9, NoneIsNothing
    <3> QED BY <1>1, <1>2, <2>1, <3>1, SameUnclaims
  <2>5. CASE Goto("mkdir", <<>>) /\ c = p
    <3>1. "mkdir" \in Stages /\ <<>> \in Seq(Effects)
      BY DEF Stages
    <3>2. op' # None /\ op'.stage = "mkdir" /\ op'.todo = <<>> /\ op'.by = op.by
          /\ op'.pkg = p /\ op'.name = n
      BY <1>2, <2>5, <3>1, GoneOn
    <3>3. Claims'
      BY <1>1, <1>2, <1>3, <2>1, <2>2, <2>5, <3>2 DEF Claims
    <3>4. Tidy(disk', <<>>) /\ Does(<<>>, OfPackages)
      BY NothingIsTidy
    <3> QED BY <2>3, <2>4, <3>2, <3>3, <3>4, WentRefusal DEF Creating
  <2>6. CASE Leave(u)
    <3>1. Tidy(disk', u)
      <4>1. Unneeded(disk', p)
        BY <1>3, <2>1 DEF Unneeded
      <4> QED BY <1>2, <4>1, UnreserveIsTidy
    <3> HIDE DEF u
    <3> QED BY <1>1, <1>2, <1>5, <2>3, <2>4, <2>6, <3>1, FailedRefusal
  <2> QED BY <1>8, <2>5, <2>6
<1>9. n \in Names \/ n > MaxName
  BY <1>2, PublishAssumption DEF Names
<1>10. CASE n \in Names /\ disk.claim[n] = None
  <2>1. n <= MaxName
    BY <1>10, PublishAssumption DEF Names
  <2>2. PICK left \in Files :
           /\ disk' = [disk EXCEPT !.claim[n] = IF left = "whole" THEN p ELSE left]
           /\ (left = "whole" /\ Goto("mkdir", <<>>)) \/ Leave(u)
    <3>1. \/ disk' = [disk EXCEPT !.claim[n] = p] /\ Goto("mkdir", <<>>)
          \/ \E left \in Files :
                disk' = [disk EXCEPT !.claim[n] = IF left = "whole" THEN p ELSE left] /\ Leave(u)
      <4>1. ~(n > MaxName)
        BY <1>2, <2>1, PublishAssumption
      <4> QED BY <1>10, <4>1 DEF ClaimName, Writing
    <3>2. "whole" \in Files
      BY DEF Files
    <3> QED BY <3>1, <3>2
  <2> DEFINE c == IF left = "whole" THEN p ELSE left
  <2>3. c \in {None, Torn, p} /\ disk' = [disk EXCEPT !.claim[n] = c]
        /\ ((Goto("mkdir", <<>>) /\ c = p) \/ Leave(u))
    BY <2>2 DEF Files
  <2> HIDE DEF c, u
  <2> QED BY <1>8, <1>10, <2>3
<1>11. CASE n > MaxName \/ (n \in Names /\ disk.claim[n] # None)
  <2>1. (UNCHANGED disk /\ Leave(u)) \/ (UNCHANGED disk /\ n <= MaxName /\ op' = [op EXCEPT !.name = @ + 1])
    BY <1>2, <1>11, PublishAssumption DEF ClaimName, Names
  <2> QED BY <1>6, <1>7, <2>1
<1> QED BY <1>9, <1>10, <1>11

\* The creation writes in its own directory.
LEMMA OwnDirInOrder ==
    ASSUME FilesInOrder, disk \in Disks, NEW n \in Names, NEW x \in Directories,
           disk' = [disk EXCEPT !.dir[n] = x], UNCHANGED of,
           \A d \in Names : d # n /\ disk.dir[d] # None => disk.dir[d].pkg # x.pkg,
           x.marker = Torn \/ (\E e \in Names : disk.claim[e] = x.pkg) => ~x.content /\ x.manifest = None,
           x.manifest = "whole" => disk.res[x.pkg] = "whole",
           \A d \in Names : ClaimedByOwn(d) /\ disk.dir[d].marker = "whole" => Gone(disk.claim[d]),
           NEW t, x.marker = "whole" /\ disk.claim[n] = x.pkg =>
                     of[x.pkg].owner = op.by /\ Has(t, Do("unclaim", n))
    PROVE  /\ FilesInOrder' /\ Unclaims(t)
           /\ disk'.claim = disk.claim /\ disk'.print = disk.print
           /\ disk'.dir[n] = x /\ \A d \in Names : d # n => disk'.dir[d] = disk.dir[d]
<1>1. /\ disk'.claim = disk.claim /\ disk'.print = disk.print /\ disk'.res = disk.res
      /\ disk'.dir[n] = x /\ \A d \in Names : d # n => disk'.dir[d] = disk.dir[d]
  BY DEF Disks
<1>2. PrintsAreClaims' /\ OneDirectory'
  BY <1>1 DEF FilesInOrder, PrintsAreClaims, OneDirectory
<1>3. ClaimedIsEmpty'
  <2> SUFFICES ASSUME NEW d \in Names, disk'.dir[d] # None,
                      disk'.dir[d].marker = Torn \/ \E e \in Names : disk'.claim[e] = disk'.dir[d].pkg
               PROVE  ~disk'.dir[d].content /\ disk'.dir[d].manifest = None
    BY DEF ClaimedIsEmpty
  <2>1. CASE d = n
    BY <1>1, <2>1
  <2>2. CASE d # n
    BY <1>1, <2>2 DEF FilesInOrder, ClaimedIsEmpty
  <2> QED BY <2>1, <2>2
<1>4. WholeIsReserved'
  <2> SUFFICES ASSUME NEW d \in Names, Whole(d)' PROVE disk'.res[disk'.dir[d].pkg] = "whole"
    BY DEF WholeIsReserved
  <2>1. CASE d = n
    BY <1>1, <2>1 DEF Whole
  <2>2. CASE d # n
    BY <1>1, <2>2 DEF FilesInOrder, WholeIsReserved, Whole
  <2> QED BY <2>1, <2>2
<1>5. Unclaims(t)
  <2> SUFFICES ASSUME NEW d \in Names, ClaimedByOwn(d)', disk'.dir[d].marker = "whole"
               PROVE  \/ Gone(disk.claim[d])'
                      \/ of'[disk'.claim[d]].owner = op.by /\ Has(t, Do("unclaim", d))
    BY DEF Unclaims
  <2>1. CASE d = n
    BY <1>1, <2>1 DEF ClaimedByOwn
  <2>2. CASE d # n
    BY <1>1, <2>2 DEF ClaimedByOwn, Gone
  <2> QED BY <2>1, <2>2
<1> QED BY <1>1, <1>2, <1>3, <1>4, <1>5 DEF FilesInOrder

LEMMA MakeDirRefusal ==
    ASSUME PublishInv, RefusalInv, MakeDir
    PROVE  RefusalInv'
<1> DEFINE n == op.name
           p == op.pkg
           r == RemoveClaim(n, p)
           l == <<Do("unreserve", p)>>
<1>1. op # None /\ op.stage = "mkdir" /\ op.stage \in Creating /\ op.todo = <<>> /\ UNCHANGED of
  BY DEF MakeDir, At, Creating
<1>2. /\ op \in Operations /\ disk \in Disks /\ FilesInOrder /\ Claims /\ n \in Names
      /\ op.locked /\ p \in Packages /\ of[p].owner = op.by
      /\ disk.claim[n] = p /\ \A d \in Names : disk.claim[d] = p => d = n
      /\ \A d \in Names : ClaimedByOwn(d) /\ disk.dir[d].marker = "whole" => Gone(disk.claim[d])
  <2>1. op \in Operations /\ disk \in Disks /\ FilesInOrder /\ Claims
    BY <1>1, WorkFacts
  <2> QED BY <1>1, <2>1, CreationFacts
<1>3. disk.print[n] = None /\ \A d \in Names : disk.dir[d] # None => disk.dir[d].pkg # p
  BY <1>1, <1>2 DEF Claims
<1>4. Unneeded(disk, p)
  BY <1>3 DEF Unneeded
<1>5. /\ Tidy(disk, r) /\ r \in Seq(Effects) /\ Has(r, Do("unclaim", n)) /\ Does(r, OfPackages)
  <2>1. /\ Tidy(disk, r) /\ r \in Seq(Effects) /\ Has(r, Do("unclaim", n))
        /\ \A i \in 1..Len(r) : r[i].do \in OfClaims
    BY <1>2, <1>3, RemoveClaimIsTidy
  <2> QED BY <2>1 DEF Does, OfClaims, OfPackages
<1>6. l \in Seq(Effects) /\ Does(l, OfPackages) /\ Tidy(disk, l)
  BY <1>2, <1>4, UnreserveIsTidy, OneDoes DEF OfPackages
<1>7. \/ UNCHANGED disk /\ op' = [op EXCEPT !.stage = "claim", !.name = @ + 1, !.todo = r]
      \/ /\ disk' = [disk EXCEPT !.dir[n] = NewDir(p)] /\ Goto("print", <<>>)
         /\ disk.dir[n] = None
      \/ UNCHANGED disk /\ Leave(r \o l)
  BY DEF MakeDir
<1> HIDE DEF r, l
<1>8. ASSUME UNCHANGED disk PROVE FilesInOrder' /\ \A t : Unclaims(t)
  <2>1. FilesInOrder'
    BY <1>2, <1>8, SameFilesInOrder
  <2>2. ASSUME NEW t PROVE Unclaims(t)
    BY <1>1, <1>2, <1>8, SameUnclaims
  <2> QED BY <2>1, <2>2
<1>9. CASE UNCHANGED disk /\ op' = [op EXCEPT !.stage = "claim", !.name = @ + 1, !.todo = r]
  <2>1. n + 1 \in 1..(MaxName + 1)
    BY <1>2, PublishAssumption DEF Names
  <2>2. op' \in Operations
    BY <1>2, <1>5, <1>9, <2>1 DEF Operations, Stages
  <2>3. op' # None /\ op'.stage = "claim" /\ op'.pkg = p /\ op'.todo = r /\ op'.by = op.by
    BY <1>2, <1>9, <2>2, NoneIsNothing DEF Operations
  <2>4. Claims'
    BY <1>1, <1>2, <1>3, <1>5, <1>9, <2>3 DEF Claims
  <2> QED BY <1>5, <1>8, <1>9, <2>3, <2>4, WentRefusal DEF Creating
<1>10. CASE disk' = [disk EXCEPT !.dir[n] = NewDir(p)] /\ Goto("print", <<>>) /\ disk.dir[n] = None
  <2> DEFINE x == NewDir(p)
  <2>1. /\ x \in Directories /\ x.pkg = p /\ x.marker = None /\ ~x.content /\ x.manifest = None
    BY <1>2 DEF NewDir, Directories, Files
  <2>2. disk' = [disk EXCEPT !.dir[n] = x]
    BY <1>10
  <2> HIDE DEF x
  <2>3. /\ FilesInOrder' /\ Unclaims(<<>>) /\ disk'.claim = disk.claim /\ disk'.print = disk.print
    <3>1. \A d \in Names : d # n /\ disk.dir[d] # None => disk.dir[d].pkg # x.pkg
      BY <1>3, <2>1
    <3>2. x.manifest # "whole" /\ x.marker # "whole"
      BY <2>1, NoneIsNothing
    <3>3. /\ x.marker = Torn \/ (\E e \in Names : disk.claim[e] = x.pkg) => ~x.content /\ x.manifest = None
          /\ x.manifest = "whole" => disk.res[x.pkg] = "whole"
      BY <2>1, <3>2
    <3>4. ASSUME NEW t
          PROVE  FilesInOrder' /\ Unclaims(t) /\ disk'.claim = disk.claim /\ disk'.print = disk.print
      BY <1>1, <1>2, <2>1, <2>2, <3>1, <3>2, <3>3, OwnDirInOrder
    <3> QED BY <3>4
  <2>4. "print" \in Stages /\ <<>> \in Seq(Effects)
    BY DEF Stages
  <2>5. op' # None /\ op'.stage = "print" /\ op'.todo = <<>> /\ op'.by = op.by
        /\ op'.pkg = p /\ op'.name = n
    BY <1>2, <1>10, <2>4, GoneOn
  <2>6. Claims'
    BY <1>1, <1>2, <1>3, <2>3, <2>5 DEF Claims
  <2>7. Tidy(disk', <<>>) /\ Does(<<>>, OfPackages)
    BY NothingIsTidy
  <2> QED BY <2>3, <2>5, <2>6, <2>7, WentRefusal DEF Creating
<1>11. CASE UNCHANGED disk /\ Leave(r \o l)
  <2> DEFINE u == r \o l
  <2>1. u \in Seq(Effects) /\ Does(u, OfPackages) /\ Tidy(disk', u)
    BY <1>5, <1>6, <1>11, TidyThenTidy, DoesBoth
  <2>2. Leave(u)
    BY <1>11
  <2> HIDE DEF u
  <2> QED BY <1>1, <1>2, <1>8, <1>11, <2>1, <2>2, FailedRefusal
<1> QED BY <1>7, <1>9, <1>10, <1>11

LEMMA WritePrintRefusal ==
    ASSUME PublishInv, RefusalInv, WritePrint
    PROVE  RefusalInv'
<1> DEFINE n == op.name
           p == op.pkg
           undo == <<Do("rmdir", n), Do("unprint", n), Do("unclaim", n)>>
           l == <<Do("unreserve", p)>>
<1>1. op # None /\ op.stage = "print" /\ op.stage \in Creating /\ op.todo = <<>> /\ UNCHANGED of
  BY DEF WritePrint, At, Creating
<1>2. /\ op \in Operations /\ disk \in Disks /\ FilesInOrder /\ Claims /\ Made /\ n \in Names
      /\ op.locked /\ p \in Packages /\ of[p].owner = op.by
      /\ disk.claim[n] = p /\ \A d \in Names : disk.claim[d] = p => d = n
      /\ \A d \in Names : ClaimedByOwn(d) /\ disk.dir[d].marker = "whole" => Gone(disk.claim[d])
  <2>1. op \in Operations /\ disk \in Disks /\ FilesInOrder /\ Claims /\ Made
    BY <1>1, WorkFacts
  <2> QED BY <1>1, <2>1, CreationFacts
<1>3. disk.dir[n] # None /\ disk.dir[n].pkg = p /\ disk.dir[n].manifest = None
  BY <1>1, <1>2 DEF Made
<1>4. PICK left \in Files :
         /\ disk' = [disk EXCEPT !.print[n] = IF left = "whole" THEN p ELSE left]
         /\ \/ left = "whole" /\ Goto("mark", <<>>)
            \/ Leave((IF left = "whole" THEN undo ELSE <<>>) \o l)
  BY DEF WritePrint, Writing, Files
<1> DEFINE c == IF left = "whole" THEN p ELSE left
           h == IF left = "whole" THEN undo ELSE <<>>
<1>5. /\ disk' = [disk EXCEPT !.print[n] = c] /\ c \in {None, Torn, p}
      /\ left = "whole" => c = p
      /\ (left = "whole" /\ Goto("mark", <<>>)) \/ Leave(h \o l)
  BY <1>4 DEF Files
<1> HIDE DEF c
<1>6. /\ disk'.dir = disk.dir /\ disk'.claim = disk.claim /\ disk'.res = disk.res
      /\ disk'.print[n] = c /\ \A d \in Names : d # n => disk'.print[d] = disk.print[d]
  BY <1>2, <1>5 DEF Disks
<1>7. FilesInOrder'
  <2>1. PrintsAreClaims'
    BY <1>2, <1>5, <1>6, NoneIsNothing DEF FilesInOrder, PrintsAreClaims
  <2>2. OneDirectory' /\ ClaimedIsEmpty' /\ WholeIsReserved'
    BY <1>2, <1>6 DEF FilesInOrder, OneDirectory, ClaimedIsEmpty, WholeIsReserved, Whole
  <2> QED BY <2>1, <2>2 DEF FilesInOrder
<1>8. ASSUME NEW t PROVE Unclaims(t)
  BY <1>1, <1>2, <1>6, SameUnclaims
<1>9. CASE left = "whole" /\ Goto("mark", <<>>)
  <2>1. "mark" \in Stages /\ <<>> \in Seq(Effects)
    BY DEF Stages
  <2>2. op' # None /\ op'.stage = "mark" /\ op'.todo = <<>> /\ op'.by = op.by
        /\ op'.pkg = p /\ op'.name = n
    BY <1>2, <1>9, <2>1, GoneOn
  <2>3. Claims'
    BY <1>1, <1>2, <1>5, <1>6, <1>9, <2>2 DEF Claims
  <2>4. Tidy(disk', <<>>) /\ Does(<<>>, OfPackages)
    BY NothingIsTidy
  <2> QED BY <1>7, <1>8, <2>2, <2>3, <2>4, WentRefusal DEF Creating
<1>10. CASE Leave(h \o l)
  <2>1. Tidy(disk', undo) /\ undo \in Seq(Effects) /\ Does(undo, OfPackages)
    BY <1>2, PrintUndoIsTidy
  <2>2. Tidy(disk', h) /\ h \in Seq(Effects) /\ Does(h, OfPackages)
    BY <2>1, NothingIsTidy
  <2>3. Unneeded(disk', p)
    <3>1. \A d \in Names : disk.dir[d] # None /\ disk.dir[d].pkg = p => d = n
      BY <1>2, <1>3 DEF FilesInOrder, OneDirectory
    <3> QED BY <1>3, <1>6, <3>1, NoneIsNothing DEF Unneeded
  <2>4. Tidy(disk', l) /\ l \in Seq(Effects) /\ Does(l, OfPackages)
    BY <1>2, <2>3, UnreserveIsTidy, OneDoes DEF OfPackages
  <2> DEFINE u == h \o l
  <2> HIDE DEF h, l
  <2>5. Tidy(disk', u) /\ u \in Seq(Effects) /\ Does(u, OfPackages)
    BY <2>2, <2>4, TidyThenTidy, DoesBoth
  <2>6. Leave(u)
    BY <1>10
  <2> HIDE DEF u
  <2> QED BY <1>1, <1>2, <1>7, <1>8, <2>5, <2>6, FailedRefusal
<1> QED BY <1>5, <1>9, <1>10

LEMMA WriteMarkerRefusal ==
    ASSUME PublishInv, RefusalInv, WriteMarker
    PROVE  RefusalInv'
<1> DEFINE n == op.name
           p == op.pkg
           r == RemoveClaim(n, p)
           e == RemoveEmpty(n, p)
<1>1. op # None /\ op.stage = "mark" /\ op.stage \in Creating /\ op.todo = <<>> /\ UNCHANGED of
  BY DEF WriteMarker, At, Creating
<1>2. /\ op \in Operations /\ disk \in Disks /\ FilesInOrder /\ Claims /\ Made /\ n \in Names
      /\ op.locked /\ p \in Packages /\ of[p].owner = op.by
      /\ disk.claim[n] = p /\ \A d \in Names : disk.claim[d] = p => d = n
      /\ \A d \in Names : ClaimedByOwn(d) /\ disk.dir[d].marker = "whole" => Gone(disk.claim[d])
      /\ \A d \in Names : disk.dir[d] # None => disk.dir[d] \in Directories
  <2>1. op \in Operations /\ disk \in Disks /\ FilesInOrder /\ Claims /\ Made
        /\ \A d \in Names : disk.dir[d] # None => disk.dir[d] \in Directories
    BY <1>1, WorkFacts
  <2> QED BY <1>1, <2>1, CreationFacts
<1>3. /\ disk.dir[n] # None /\ disk.dir[n].pkg = p /\ disk.dir[n].manifest = None
      /\ ~disk.dir[n].content /\ disk.print[n] = p
  BY <1>1, <1>2 DEF Made, Claims
<1>4. \A d \in Names : d # n /\ disk.dir[d] # None => disk.dir[d].pkg # p
  BY <1>2, <1>3 DEF FilesInOrder, OneDirectory
<1>5. PICK left \in Files :
         /\ disk' = [disk EXCEPT !.dir[n].marker = left]
         /\ \/ left = "whole" /\ Goto("content", r)
            \/ left = None /\ Leave(<<>>)
            \/ left = Torn /\ Leave(r)
            \/ left = "whole" /\ Leave(e \o r)
  <2>1. \/ disk' = [disk EXCEPT !.dir[n].marker = "whole"] /\ Goto("content", r)
        \/ \E left \in Files :
              /\ disk' = [disk EXCEPT !.dir[n].marker = left]
              /\ Leave(CASE left = None -> <<>> [] left = Torn -> r [] left = "whole" -> e \o r)
    BY DEF WriteMarker, Writing
  <2> HIDE DEF r, e
  <2> QED BY <2>1, NoneIsNothing DEF Files
<1> DEFINE x == [disk.dir[n] EXCEPT !.marker = left]
<1>6. disk' = [disk EXCEPT !.dir[n] = x]
  BY <1>5
<1>7. /\ x \in Directories /\ x.pkg = p /\ ~x.content /\ x.manifest = None /\ x.marker = left
  <2>1. disk.dir[n] \in Directories
    BY <1>2, <1>3
  <2> QED BY <1>3, <2>1 DEF Directories
<1> HIDE DEF x
<1>8. ASSUME NEW t, left = "whole" => Has(t, Do("unclaim", n))
      PROVE  /\ FilesInOrder' /\ Unclaims(t)
             /\ disk'.claim = disk.claim /\ disk'.print = disk.print
             /\ disk'.dir[n] = x /\ \A d \in Names : d # n => disk'.dir[d] = disk.dir[d]
  <2>1. \A d \in Names : d # n /\ disk.dir[d] # None => disk.dir[d].pkg # x.pkg
    BY <1>4, <1>7
  <2>2. x.manifest # "whole"
    BY <1>7, NoneIsNothing
  <2>3. x.marker = "whole" => of[x.pkg].owner = op.by /\ Has(t, Do("unclaim", n))
    BY <1>2, <1>7, <1>8
  <2>4. /\ x.marker = Torn \/ (\E d \in Names : disk.claim[d] = x.pkg) => ~x.content /\ x.manifest = None
        /\ x.manifest = "whole" => disk.res[x.pkg] = "whole"
        /\ x.marker = "whole" /\ disk.claim[n] = x.pkg =>
              of[x.pkg].owner = op.by /\ Has(t, Do("unclaim", n))
    BY <1>7, <2>2, <2>3
  <2> QED BY <1>1, <1>2, <1>6, <1>7, <2>1, <2>4, OwnDirInOrder
<1>9. disk'.print = disk.print /\ disk'.claim = disk.claim
      /\ disk'.dir[n] = x /\ \A d \in Names : d # n => disk'.dir[d] = disk.dir[d]
  BY <1>2, <1>6 DEF Disks
<1>10. Unneeded(disk', p)
  BY <1>4, <1>7, <1>9, NoneIsNothing DEF Unneeded
<1>11. Tidy(disk', r) /\ r \in Seq(Effects) /\ Does(r, OfPackages) /\ Has(r, Do("unclaim", n))
  <2>1. /\ Tidy(disk', r) /\ r \in Seq(Effects) /\ Has(r, Do("unclaim", n))
        /\ \A i \in 1..Len(r) : r[i].do \in OfClaims
    BY <1>2, <1>3, <1>9, RemoveClaimIsTidy
  <2> QED BY <2>1 DEF Does, OfClaims, OfPackages
<1>12. Tidy(disk', e) /\ e \in Seq(Effects) /\ Does(e, OfPackages)
  BY <1>2, <1>10, RemoveEmptyIsTidy
<1> HIDE DEF r, e
<1>13. CASE left = "whole" /\ Goto("content", r)
  <2>1. "content" \in Stages
    BY DEF Stages
  <2>2. op' # None /\ op'.stage = "content" /\ op'.todo = r /\ op'.by = op.by
        /\ op'.pkg = p /\ op'.name = n
    BY <1>2, <1>11, <1>13, <2>1, GoneOn
  <2>3. Claims'
    BY <1>1, <1>2, <1>9, <1>11, <2>2 DEF Claims
  <2>4. FilesInOrder' /\ Unclaims(r)
    BY <1>8, <1>11
  <2> QED BY <1>11, <2>2, <2>3, <2>4, WentRefusal DEF Creating
<1>14. CASE left = None /\ Leave(<<>>)
  <2>1. FilesInOrder' /\ Unclaims(<<>>)
    BY <1>8, <1>14, NoneIsNothing
  <2>2. <<>> \in Seq(Effects) /\ Tidy(disk', <<>>) /\ Does(<<>>, OfPackages)
    BY NothingIsTidy
  <2> QED BY <1>1, <1>2, <1>14, <2>1, <2>2, FailedRefusal
<1>15. CASE left = Torn /\ Leave(r)
  <2>1. FilesInOrder' /\ Unclaims(r)
    BY <1>8, <1>11
  <2> QED BY <1>1, <1>2, <1>11, <1>15, <2>1, FailedRefusal
<1>16. CASE left = "whole" /\ Leave(e \o r)
  <2> DEFINE u == e \o r
  <2>1. Tidy(disk', u) /\ u \in Seq(Effects) /\ Does(u, OfPackages)
    BY <1>11, <1>12, TidyThenTidy, DoesBoth
  <2>2. Has(u, Do("unclaim", n)) /\ Leave(u)
    BY <1>11, <1>12, <1>16, HasLeft
  <2> HIDE DEF u
  <2>3. FilesInOrder' /\ Unclaims(u)
    BY <1>8, <2>2
  <2> QED BY <1>1, <1>2, <2>1, <2>2, <2>3, FailedRefusal
<1> QED BY <1>5, <1>13, <1>14, <1>15, <1>16

LEMMA WriteContentRefusal ==
    ASSUME PublishInv, RefusalInv, WriteContent \/ WriteManifest
    PROVE  RefusalInv'
<1> DEFINE n == op.name
           p == op.pkg
<1>1. /\ op # None /\ op.stage \in {"content", "manifest"} /\ op.stage \in Creating
      /\ op.todo = <<>> /\ UNCHANGED of
  BY DEF WriteContent, WriteManifest, At, Creating
<1>2. /\ op \in Operations /\ disk \in Disks /\ FilesInOrder /\ Claims /\ Made /\ n \in Names
      /\ op.locked /\ p \in Packages /\ of[p].owner = op.by
      /\ \A d \in Names : disk.claim[d] # p
      /\ \A d \in Names : ClaimedByOwn(d) /\ disk.dir[d].marker = "whole" => Gone(disk.claim[d])
      /\ \A d \in Names : disk.dir[d] # None => disk.dir[d] \in Directories
  <2>1. op \in Operations /\ disk \in Disks /\ FilesInOrder /\ Claims /\ Made
        /\ \A d \in Names : disk.dir[d] # None => disk.dir[d] \in Directories
    BY <1>1, WorkFacts
  <2> QED BY <1>1, <2>1, CreationFacts
<1>3. /\ disk.dir[n] # None /\ disk.dir[n].pkg = p /\ disk.dir[n].manifest = None
      /\ disk.dir[n].marker = "whole" /\ disk.res[p] = "whole"
  BY <1>1, <1>2 DEF Made
<1>4. \A d \in Names : d # n /\ disk.dir[d] # None => disk.dir[d].pkg # p
  BY <1>2, <1>3 DEF FilesInOrder, OneDirectory
<1>5. ASSUME NEW x \in Directories, disk' = [disk EXCEPT !.dir[n] = x], x.pkg = p, x.marker = "whole"
      PROVE  /\ FilesInOrder' /\ \A t : Unclaims(t)
             /\ disk'.claim = disk.claim
             /\ x.manifest = None => Unneeded(disk', p)
  <2>1. \A d \in Names : d # n /\ disk.dir[d] # None => disk.dir[d].pkg # x.pkg
    BY <1>4, <1>5
  <2>2. x.marker # Torn /\ (\A d \in Names : disk.claim[d] # x.pkg)
    BY <1>2, <1>5, NoneIsNothing
  <2>3. ASSUME NEW t
        PROVE  /\ FilesInOrder' /\ Unclaims(t)
               /\ disk'.claim = disk.claim /\ disk'.print = disk.print
               /\ disk'.dir[n] = x /\ \A d \in Names : d # n => disk'.dir[d] = disk.dir[d]
    <3>1. /\ x.marker = Torn \/ (\E d \in Names : disk.claim[d] = x.pkg) => ~x.content /\ x.manifest = None
          /\ x.manifest = "whole" => disk.res[x.pkg] = "whole"
          /\ x.marker = "whole" /\ disk.claim[n] = x.pkg =>
                of[x.pkg].owner = op.by /\ Has(t, Do("unclaim", n))
      BY <1>2, <1>3, <1>5, <2>2
    <3> QED BY <1>1, <1>2, <1>5, <2>1, <3>1, OwnDirInOrder
  <2>4. x.manifest = None => Unneeded(disk', p)
    BY <1>4, <2>3, NoneIsNothing DEF Unneeded
  <2> QED BY <2>3, <2>4
<1>6. ASSUME disk'.claim = disk.claim, FilesInOrder', \A t : Unclaims(t),
             NEW s \in {"manifest", "commit"}, Goto(s, <<>>)
      PROVE  RefusalInv'
  <2>1. s \in Stages /\ <<>> \in Seq(Effects)
    BY DEF Stages
  <2>2. op' # None /\ op'.stage = s /\ op'.todo = <<>> /\ op'.by = op.by
        /\ op'.pkg = p /\ op'.name = n
    BY <1>2, <1>6, <2>1, GoneOn
  <2>3. Claims'
    BY <1>1, <1>2, <1>6, <2>2 DEF Claims
  <2>4. Tidy(disk', <<>>) /\ Does(<<>>, OfPackages)
    BY NothingIsTidy
  <2> QED BY <1>6, <2>2, <2>3, <2>4, WentRefusal DEF Creating
<1>7. ASSUME FilesInOrder', \A t : Unclaims(t), Unneeded(disk', p),
             \/ Leave(SetAside(n, p)) \/ Leave(RemoveEmpty(n, p)) \/ Leave(RemoveIncomplete(n))
      PROVE  RefusalInv'
  <2>1. PICK t \in {SetAside(n, p), RemoveEmpty(n, p), RemoveIncomplete(n)} : Leave(t)
    BY <1>7
  <2>2. Tidy(disk', t) /\ t \in Seq(Effects) /\ Does(t, OfPackages)
    BY <1>2, <1>3, <1>7, <2>1, SetAsideIsTidy, RemoveEmptyIsTidy, RemoveIncompleteIsTidy
  <2> QED BY <1>1, <1>2, <1>7, <2>1, <2>2, FailedRefusal
<1>8. CASE WriteContent
  <2>1. PICK some \in BOOLEAN :
           /\ disk' = [disk EXCEPT !.dir[n].content = some]
           /\ Goto("manifest", <<>>) \/ Leave(SetAside(n, p)) \/ Leave(RemoveEmpty(n, p))
    BY <1>8 DEF WriteContent
  <2> DEFINE x == [disk.dir[n] EXCEPT !.content = some]
  <2>2. disk' = [disk EXCEPT !.dir[n] = x]
    BY <2>1
  <2>3. x \in Directories /\ x.pkg = p /\ x.marker = "whole" /\ x.manifest = None
    <3>1. disk.dir[n] \in Directories
      BY <1>2, <1>3
    <3> QED BY <1>3, <3>1 DEF Directories
  <2> HIDE DEF x
  <2>4. /\ FilesInOrder' /\ \A t : Unclaims(t)
        /\ disk'.claim = disk.claim /\ Unneeded(disk', p)
    BY <1>5, <2>2, <2>3
  <2> QED BY <1>6, <1>7, <2>1, <2>4
<1>9. CASE WriteManifest
  <2>1. PICK left \in Files :
           /\ disk' = [disk EXCEPT !.dir[n].manifest = left]
           /\ \/ left = "whole" /\ Goto("commit", <<>>)
              \/ left = None /\ Leave(RemoveIncomplete(n))
              \/ Leave(<<>>)
    BY <1>9 DEF WriteManifest, Writing, Files
  <2> DEFINE x == [disk.dir[n] EXCEPT !.manifest = left]
  <2>2. disk' = [disk EXCEPT !.dir[n] = x]
    BY <2>1
  <2>3. x \in Directories /\ x.pkg = p /\ x.marker = "whole" /\ x.manifest = left
    <3>1. disk.dir[n] \in Directories
      BY <1>2, <1>3
    <3> QED BY <1>3, <3>1 DEF Directories
  <2> HIDE DEF x
  <2>4. /\ FilesInOrder' /\ \A t : Unclaims(t)
        /\ disk'.claim = disk.claim /\ (left = None => Unneeded(disk', p))
    BY <1>5, <2>2, <2>3
  <2>5. CASE Leave(<<>>)
    <3>1. <<>> \in Seq(Effects) /\ Tidy(disk', <<>>) /\ Does(<<>>, OfPackages)
      BY NothingIsTidy
    <3> QED BY <1>1, <1>2, <2>4, <2>5, <3>1, FailedRefusal
  <2> QED BY <1>6, <1>7, <2>1, <2>4, <2>5
<1> QED BY <1>8, <1>9

LEMMA CommitRefusal ==
    ASSUME PublishInv, RefusalInv, Commit
    PROVE  RefusalInv'
<1> DEFINE t == <<Do("unmark", op.name)>>
<1>1. op # None /\ op.stage = "commit" /\ op.stage \in Creating /\ op.todo = <<>> /\ UNCHANGED of
  BY DEF Commit, At, Creating
<1>2. /\ op \in Operations /\ disk \in Disks /\ FilesInOrder /\ op.name \in Names /\ op.locked
      /\ \A d \in Names : ClaimedByOwn(d) /\ disk.dir[d].marker = "whole" => Gone(disk.claim[d])
  <2>1. op \in Operations /\ disk \in Disks /\ FilesInOrder
    BY <1>1, WorkFacts
  <2> QED BY <1>1, <2>1, CreationFacts
<1>3. (\E left \in Files : SetCommit(op.pkg, left)) /\ (Leave(t) \/ Leave(<<>>))
  BY DEF Commit, Writing, Files
<1>4. /\ disk'.dir = disk.dir /\ disk'.claim = disk.claim
      /\ disk'.print = disk.print /\ disk'.res = disk.res
  BY <1>2, <1>3 DEF SetCommit, Disks
<1>5. FilesInOrder'
  BY <1>2, <1>4, SameFilesInOrder
<1>6. ASSUME NEW u PROVE Unclaims(u)
  BY <1>1, <1>2, <1>4, SameUnclaims
<1>7. Tidy(disk', t) /\ t \in Seq(Effects) /\ Does(t, OfPackages)
  <2>1. Do("unmark", op.name) \in Effects
    BY <1>2 DEF Do, Effects
  <2>2. t \in Seq(Effects) /\ Len(t) = 1 /\ t[1].do = "unmark"
    BY <2>1 DEF Do
  <2> QED BY <2>2 DEF Tidy, Does, OfPackages
<1>8. Tidy(disk', <<>>) /\ <<>> \in Seq(Effects) /\ Does(<<>>, OfPackages)
  BY NothingIsTidy
<1> HIDE DEF t
<1> QED BY <1>1, <1>2, <1>3, <1>5, <1>6, <1>7, <1>8, FailedRefusal

-----------------------------------------------------------------------------
(* The refusals.                                                           *)

LEMMA NextRefusal == PublishInv /\ RefusalInv /\ [Next]_vars => RefusalInv'
<1> SUFFICES ASSUME PublishInv, RefusalInv, [Next]_vars PROVE RefusalInv'
  OBVIOUS
<1>1. CASE UNCHANGED vars
  <2>1. UNCHANGED <<disk, of, op>>
    BY <1>1 DEF vars
  <2>2. FilesInOrder'
    BY <2>1, SameFilesInOrder DEF RefusalInv, EvidenceOK
  <2>3. MarkedIsUnclaimed'
    BY <2>1 DEF RefusalInv, EvidenceOK, MarkedIsUnclaimed, ClaimedByOwn, Gone, Has
  <2>4. WorkOK'
    <3> SUFFICES ASSUME op # None PROVE Tidy(disk', op'.todo) /\ Claims' /\ Walks' /\ Issued' /\ LockWork'
      BY <2>1 DEF WorkOK
    <3>1. Tidy(disk, op.todo) /\ Claims /\ Walks /\ Issued /\ LockWork
      BY WorkFacts
    <3>2. Tidy(disk', op'.todo) /\ LockWork'
      BY <2>1, <3>1 DEF LockWork, Does
    <3>3. Claims'
      BY <2>1, <3>1 DEF Claims, Has
    <3>4. Walks'
      BY <2>1, <3>1 DEF Walks, Past, Whole, ClaimedByOwn
    <3>5. Issued'
      BY <2>1, <3>1 DEF Issued, Unreadable, TornManifest, KeptClaim
    <3> QED BY <3>2, <3>3, <3>4, <3>5
  <2> QED BY <2>2, <2>3, <2>4 DEF RefusalInv, EvidenceOK
<1>2. CASE Remove \/ Released \/ Finish \/ Walked \/ Resolve
  BY <1>2, RemoveRefusal, ReleasedRefusal, FinishRefusal, WalkedRefusal, ResolveRefusal
<1>3. CASE \E d \in Names : VisitDir(d) \/ VisitClaim(d)
  BY <1>3, VisitDirRefusal, VisitClaimRefusal
<1>4. CASE MakeLock \/ OwnLock \/ ClaimLockFails \/ LocksDone \/ \E s \in Sessions : ClearLock(s)
  BY <1>4, LockRefusal
<1>5. CASE DropReservation \/ Proven \/ Refuse
  BY <1>5, DropReservationRefusal, ProvenRefusal, RefuseRefusal
<1>6. CASE Reserve \/ ClaimName \/ MakeDir \/ WritePrint \/ WriteMarker
  BY <1>6, ReserveRefusal, ClaimNameRefusal, MakeDirRefusal, WritePrintRefusal, WriteMarkerRefusal
<1>7. CASE WriteContent \/ WriteManifest \/ Commit
  BY <1>7, WriteContentRefusal, CommitRefusal
<1>8. CASE \E p \in Processes : Crash(p)
  BY <1>8, CrashRefusal
<1>9. CASE \E p \in Processes : BeginPlan(p) \/ \E s \in Sessions : Begin(p, s)
  BY <1>9, BeginRefusal DEF BeginPlan, Begin, SameFiles
<1> QED BY <1>1, <1>2, <1>3, <1>4, <1>5, <1>6, <1>7, <1>8, <1>9 DEF Next

LEMMA RefusalHolds == Spec => [](PublishInv /\ RefusalInv)
<1>1. Init => PublishInv /\ RefusalInv
  BY InitInv, InitRefusal
<1>2. (PublishInv /\ RefusalInv) /\ [Next]_vars => (PublishInv /\ RefusalInv)'
  BY NextKeeps, NextRefusal
<1> QED BY <1>1, <1>2, PTL DEF Spec

Justified ==
    /\ op.stage = "resolve" => \A i \in Unresolved : Explained(i)
    /\ op.stage = "finish" => disk.commit[disk.dir[op.name].pkg] = Torn
    /\ op.stage = "evidence" => \E p \in Packages :
          \/ Torn \in {disk.res[p], disk.commit[p]}
          \/ disk.res[p] = "whole" /\ of[p].key = op.key /\ disk.commit[p] = None /\ ~Gone(p)
    /\ op.stage = "lock" => \/ disk.lock[op.key].owner \in {None, Torn} \cup Processes
                            \/ disk.lock[op.key].claim

LEMMA RefuseIsJustified ==
    ASSUME PublishInv, RefusalInv, Refuse
    PROVE  Justified
<1>1. op # None /\ op.todo = <<>>
  BY DEF Refuse, At
<1>2. /\ op \in Operations /\ FilesOK /\ Holder /\ Alone /\ Made /\ Issued /\ WholeIsReserved
      /\ disk \in Disks /\ of \in [Packages -> Records \cup {None}] /\ Named
      /\ op.key \in Sessions \cup {None} /\ (op.locked => op.key \in Sessions)
      /\ \A d \in Names : disk.dir[d] # None => disk.dir[d].pkg \in Packages
  BY <1>1, WorkFacts
<1>3. CASE op.stage = "resolve"
  <2> SUFFICES ASSUME NEW i \in op.issues PROVE Explained(i)
    BY <1>3 DEF Justified, Unresolved
  <2>1. i.live \/ i = Unreadable \/ \E d \in Names : TornManifest(i, d) \/ KeptClaim(i, d)
    BY <1>2, <1>3 DEF Issued
  <2>2. ASSUME NEW d \in Names, TornManifest(i, d) PROVE Explained(i)
    BY <2>2 DEF TornManifest, Explained
  <2>3. ASSUME NEW d \in Names, KeptClaim(i, d) PROVE Explained(i)
    BY <2>3 DEF KeptClaim, Explained
  <2> QED BY <2>1, <2>2, <2>3 DEF Explained
<1>4. CASE op.stage = "finish"
  <2>1. Whole(op.name) /\ op.name \in Names
    BY <1>2, <1>4 DEF Made, Whole
  <2>2. disk.res[disk.dir[op.name].pkg] = "whole"
    BY <1>2, <2>1 DEF WholeIsReserved
  <2>3. disk.commit[disk.dir[op.name].pkg] = Torn
    BY <1>4, <2>2 DEF Refuse, At
  <2> QED BY <1>4, <2>3 DEF Justified
<1>5. CASE op.stage = "evidence"
  <2>1. PICK p \in Evidence : TRUE
    BY <1>5 DEF Refuse, At
  <2>2. p \in Packages
    BY <2>1 DEF Evidence
  <2>3. CASE disk.res[p] = Torn \/ disk.commit[p] = Torn
    BY <1>5, <2>2, <2>3 DEF Justified
  <2>4. CASE disk.res[p] # Torn /\ disk.commit[p] # Torn
    <3>1. /\ disk.res[p] = "whole" /\ op.key # None /\ of[p].key = op.key
          /\ ~(disk.commit[p] = None /\ Gone(p))
      BY <2>1, <2>4 DEF Evidence, OfInterest, Abandoned
    <3>2. disk.commit[p] = None
      <4> SUFFICES ASSUME disk.commit[p] # None PROVE FALSE
        OBVIOUS
      <4>1. \E d \in Names : disk.dir[d] # None /\ disk.dir[d].pkg = p /\ disk.dir[d].manifest = "whole"
        BY <1>2, <2>2 DEF FilesOK, UnmarkedIsCommitted
      <4>2. Published(op.key)
        BY <3>1, <4>1 DEF Published
      <4> QED BY <1>2, <1>5, <3>1, <4>2 DEF Alone
    <3> QED BY <1>5, <2>2, <3>1, <3>2 DEF Justified
  <2> QED BY <2>3, <2>4
<1>6. CASE op.stage = "lock"
  <2>1. op.key \in Sessions /\ disk.lock[op.key] # None /\ ~Recoverable(op.key)
    BY <1>2, <1>6 DEF Refuse, At, Holder
  <2>2. disk.lock[op.key] \in Locks
    BY <1>2, <2>1 DEF Disks
  <2>3. \/ disk.lock[op.key].owner \in {None, Torn} \cup Processes
        \/ disk.lock[op.key].claim
    <3> SUFFICES ASSUME disk.lock[op.key].owner = Dead, disk.lock[op.key].claim = FALSE PROVE FALSE
      BY <2>2 DEF Locks
    <3> QED BY <2>1, <2>2 DEF Recoverable, Locks
  <2> QED BY <1>6, <2>3 DEF Justified
<1> QED BY <1>3, <1>4, <1>5, <1>6 DEF Justified

\* Whatever has died or failed before, an operation refuses only for a torn
\* file, for an error whose process is still there, for the claim of a name
\* that another package has, or for a lock that its owner or another recovery
\* holds: everything else recoverIncompleteSessionPublishes has cleared.
THEOREM RefusalsAreExplained == Spec => RefusedOnlyFor
<1>1. (PublishInv /\ RefusalInv) /\ [Next]_vars => [Refuse => Justified]_vars
  BY RefuseIsJustified
<1>2. [][Refuse => Justified]_vars => RefusedOnlyFor
  BY PTL DEF RefusedOnlyFor, Justified
<1> QED BY RefusalHolds, <1>1, <1>2, PTL DEF Spec

=============================================================================
