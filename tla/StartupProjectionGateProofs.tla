---------------------- MODULE StartupProjectionGateProofs ----------------------
(***************************************************************************)
(* The gate loses no promise and holds none twice, and when it is quiet it *)
(* has projected what there is, for any requests and contents and any      *)
(* number of switches of the root.                                         *)
(*                                                                         *)
(* A caller makes several calls on the gate in one turn, and a call moves  *)
(* waiters through its hands: Open takes the deferred ones out before it   *)
(* queues them.  So the invariant is of a gate AND the waiters that are in *)
(* hand, held by no place of the gate; each method is shown to keep it     *)
(* with the waiters it takes or puts down, and between two actions nothing *)
(* is in hand.                                                             *)
(***************************************************************************)
EXTENDS StartupProjectionGate, SequenceTheorems, FiniteSetTheorems, TLAPS

\* One place of the gate holds q.
Holds(g, q) ==
    \/ \E k \in Kinds : q \in g.deferred[k].waiters
    \/ \E i \in DOMAIN g.queue : q \in g.queue[i].waiters
    \/ g.active # None /\ q \in g.active.waiters

\* A kind is queued once.
KindsOnce(g) ==
    \A i, j \in DOMAIN g.queue : g.queue[i].kind = g.queue[j].kind => i = j

\* No two places hold the same waiter.
Disjoint(g) ==
    /\ \A k, l \in Kinds : k # l => g.deferred[k].waiters \cap g.deferred[l].waiters = {}
    /\ \A i, j \in DOMAIN g.queue : i # j => g.queue[i].waiters \cap g.queue[j].waiters = {}
    /\ \A k \in Kinds, i \in DOMAIN g.queue : g.deferred[k].waiters \cap g.queue[i].waiters = {}
    /\ g.active # None =>
         /\ \A k \in Kinds : g.deferred[k].waiters \cap g.active.waiters = {}
         /\ \A i \in DOMAIN g.queue : g.queue[i].waiters \cap g.active.waiters = {}

\* Whoever waits is held or in hand, and nobody else is.
Accounted(g, W) ==
    /\ \A q \in Requests : q \in g.waiting <=> (Holds(g, q) \/ q \in W)
    /\ \A q \in W : ~Holds(g, q)

OpenHoldsNone(g) == g.opened => \A k \in Kinds : g.deferred[k].waiters = {}

Sound(g, W) ==
    /\ g \in Gates
    /\ KindsOnce(g)
    /\ Disjoint(g)
    /\ OpenHoldsNone(g)
    /\ Accounted(g, W)

\* A queued job will be drained, and not while another one runs.
Driven(g) ==
    /\ g.queue # <<>> => g.drainScheduled \/ g.active # None
    /\ g.drainScheduled => g.active = None

\* What a method makes of a gate, with W left in hand.
Kept(h, W) == Sound(h, W) /\ Driven(h)

GateInv ==
    /\ TypeOK
    /\ Sound(gate, {})
    /\ Driven(gate)

------------------------------------------------------------------------------
(* The queue *)

LEMMA QueueDomain ==
  ASSUME NEW g \in Gates
  PROVE  /\ g.queue \in Seq(Jobs) /\ Len(g.queue) \in Nat /\ DOMAIN g.queue = 1..Len(g.queue)
         /\ \A i \in DOMAIN g.queue : g.queue[i] \in Jobs
         /\ g.queue = <<>> => DOMAIN g.queue = {}
         /\ g.queue # <<>> => Len(g.queue) >= 1
<1>1. g.queue \in Seq(Jobs)
  BY DEF Gates
<1>2. Len(g.queue) \in Nat /\ DOMAIN g.queue = 1..Len(g.queue)
  BY <1>1, LenProperties
<1>3. \A i \in DOMAIN g.queue : g.queue[i] \in Jobs
  BY <1>1, <1>2, ElementOfSeq
<1>4. g.queue # <<>> => Len(g.queue) >= 1
  BY <1>1, EmptySeq
<1>5. g.queue = <<>> => DOMAIN g.queue = {}
  OBVIOUS
<1> QED BY <1>1, <1>2, <1>3, <1>4, <1>5

\* At most one job of each kind makes at most two jobs.
LEMMA TwoJobs ==
  ASSUME NEW g \in Gates, KindsOnce(g)
  PROVE  Len(g.queue) <= 2
<1> SUFFICES ASSUME Len(g.queue) > 2 PROVE FALSE
  BY QueueDomain
<1>1. 1 \in DOMAIN g.queue /\ 2 \in DOMAIN g.queue /\ 3 \in DOMAIN g.queue
  BY QueueDomain
<1>2. /\ g.queue[1].kind \in Kinds /\ g.queue[2].kind \in Kinds /\ g.queue[3].kind \in Kinds
  BY <1>1, QueueDomain DEF Jobs
<1> QED BY <1>1, <1>2 DEF KindsOnce, Kinds

\* What a gate is with another queue, and with other waiters.
LEMMA WithQueue ==
  ASSUME NEW g \in Gates, NEW s \in Seq(Jobs)
  PROVE  LET h == [g EXCEPT !.queue = s]
         IN  /\ h \in Gates /\ h.queue = s
             /\ h.opened = g.opened /\ h.startupActive = g.startupActive /\ h.needed = g.needed
             /\ h.kindsRun = g.kindsRun /\ h.deferred = g.deferred /\ h.active = g.active
             /\ h.drainScheduled = g.drainScheduled /\ h.completed = g.completed
             /\ h.waiting = g.waiting
  BY DEF Gates

LEMMA Drained ==
  ASSUME NEW g \in Gates, g.drainScheduled => g.active = None
  PROVE  LET h == RequestDrain(g)
         IN  /\ h \in Gates /\ h.queue = g.queue
             /\ h.opened = g.opened /\ h.startupActive = g.startupActive /\ h.needed = g.needed
             /\ h.kindsRun = g.kindsRun /\ h.deferred = g.deferred /\ h.active = g.active
             /\ h.completed = g.completed /\ h.waiting = g.waiting
             /\ Driven(h)
<1> DEFINE d == g.drainScheduled \/ (g.active = None /\ g.queue # <<>>)
<1>1. d \in BOOLEAN
  BY Zenon
<1> HIDE DEF d
<1> DEFINE h == [g EXCEPT !.drainScheduled = d]
<1>2. /\ h \in Gates /\ h.queue = g.queue
      /\ h.opened = g.opened /\ h.startupActive = g.startupActive /\ h.needed = g.needed
      /\ h.kindsRun = g.kindsRun /\ h.deferred = g.deferred /\ h.active = g.active
      /\ h.completed = g.completed /\ h.waiting = g.waiting
      /\ h.drainScheduled = d
  BY <1>1 DEF Gates
<1>3. h = RequestDrain(g)
  BY DEF RequestDrain, d, Gates
<1>4. Driven(h)
  BY <1>2 DEF Driven, d
<1> HIDE DEF h
<1> QED BY <1>2, <1>3, <1>4

\* Sound is about these parts of a gate only.
LEMMA SameParts ==
  ASSUME NEW g, NEW W, NEW h \in Gates, Sound(g, W),
         h.queue = g.queue, h.opened = g.opened, h.deferred = g.deferred,
         h.active = g.active, h.waiting = g.waiting
  PROVE  Sound(h, W)
  BY DEF Sound, KindsOnce, Disjoint, OpenHoldsNone, Accounted, Holds

------------------------------------------------------------------------------
(* The methods *)

\* Waiters in hand settle.
LEMMA SettleSound ==
  ASSUME NEW g, NEW W, NEW V \in SUBSET W, Sound(g, W)
  PROVE  LET h == Settle(g, V)
         IN  /\ Sound(h, W \ V) /\ h.waiting = g.waiting \ V
             /\ h.queue = g.queue /\ h.drainScheduled = g.drainScheduled
             /\ h.opened = g.opened /\ h.startupActive = g.startupActive /\ h.needed = g.needed
             /\ h.kindsRun = g.kindsRun /\ h.deferred = g.deferred /\ h.active = g.active
             /\ h.completed = g.completed
<1> DEFINE h == Settle(g, V)
<1>1. /\ h \in Gates /\ h.queue = g.queue /\ h.drainScheduled = g.drainScheduled
      /\ h.opened = g.opened /\ h.startupActive = g.startupActive /\ h.needed = g.needed
      /\ h.kindsRun = g.kindsRun /\ h.deferred = g.deferred /\ h.active = g.active
      /\ h.completed = g.completed /\ h.waiting = g.waiting \ V
  BY DEF Sound, Settle, Gates
<1> HIDE DEF h
<1>2. \A q : Holds(h, q) <=> Holds(g, q)
  BY <1>1 DEF Holds
<1>3. Accounted(h, W \ V)
  BY <1>1, <1>2 DEF Sound, Accounted
<1>4. KindsOnce(h) /\ Disjoint(h) /\ OpenHoldsNone(h)
  BY <1>1 DEF Sound, KindsOnce, Disjoint, OpenHoldsNone
<1> QED BY <1>1, <1>3, <1>4 DEF Sound, h

LEMMA SettleKept ==
  ASSUME NEW g, NEW W, NEW V \in SUBSET W, Kept(g, W)
  PROVE  Kept(Settle(g, V), W \ V)
<1> DEFINE h == Settle(g, V)
<1>1. /\ Sound(h, W \ V) /\ h.queue = g.queue /\ h.drainScheduled = g.drainScheduled
      /\ h.active = g.active
  BY SettleSound DEF Kept
<1> HIDE DEF h
<1>2. Driven(h)
  BY <1>1 DEF Kept, Driven
<1> QED BY <1>1, <1>2 DEF Kept, h

\* A promise is handed out.
LEMMA WaitingSound ==
  ASSUME NEW g, NEW W, NEW q \in Requests, Sound(g, W), q \notin g.waiting
  PROVE  LET h == Waiting(g, q)
         IN  /\ Sound(h, W \cup {q}) /\ h.waiting = g.waiting \cup {q}
             /\ h.queue = g.queue /\ h.drainScheduled = g.drainScheduled
             /\ h.opened = g.opened /\ h.startupActive = g.startupActive /\ h.needed = g.needed
             /\ h.kindsRun = g.kindsRun /\ h.deferred = g.deferred /\ h.active = g.active
             /\ h.completed = g.completed
<1> DEFINE h == Waiting(g, q)
<1>1. /\ h \in Gates /\ h.queue = g.queue /\ h.drainScheduled = g.drainScheduled
      /\ h.opened = g.opened /\ h.startupActive = g.startupActive /\ h.needed = g.needed
      /\ h.kindsRun = g.kindsRun /\ h.deferred = g.deferred /\ h.active = g.active
      /\ h.completed = g.completed /\ h.waiting = g.waiting \cup {q}
  BY DEF Sound, Waiting, Gates
<1> HIDE DEF h
<1>2. \A r : Holds(h, r) <=> Holds(g, r)
  BY <1>1 DEF Holds
<1>3. Accounted(h, W \cup {q})
  BY <1>1, <1>2 DEF Sound, Accounted
<1>4. KindsOnce(h) /\ Disjoint(h) /\ OpenHoldsNone(h)
  BY <1>1 DEF Sound, KindsOnce, Disjoint, OpenHoldsNone
<1> QED BY <1>1, <1>3, <1>4 DEF Sound, h

\* Waiters V are put into the m-th job of the queue s, the others are as they
\* were.
PutInto(g, s, m, V) ==
    /\ m \in DOMAIN s
    /\ DOMAIN g.queue \subseteq DOMAIN s
    /\ \A i \in DOMAIN s : i # m => i \in DOMAIN g.queue
    /\ \A i \in DOMAIN s : i # m =>
         s[i].kind = g.queue[i].kind /\ s[i].waiters = g.queue[i].waiters
    /\ m \in DOMAIN g.queue =>
         s[m].kind = g.queue[m].kind /\ s[m].waiters = g.queue[m].waiters \cup V
    /\ m \notin DOMAIN g.queue =>
         /\ s[m].waiters = V
         /\ \A i \in DOMAIN g.queue : g.queue[i].kind # s[m].kind

LEMMA PutIntoSound ==
  ASSUME NEW g, NEW W, NEW V \in SUBSET W, Sound(g, W), NEW s \in Seq(Jobs), NEW m,
         PutInto(g, s, m, V)
  PROVE  Sound([g EXCEPT !.queue = s], W \ V)
<1> DEFINE h == [g EXCEPT !.queue = s]
<1>1. /\ h \in Gates /\ h.queue = s /\ h.opened = g.opened /\ h.deferred = g.deferred
      /\ h.active = g.active /\ h.waiting = g.waiting
  BY WithQueue DEF Sound
<1> HIDE DEF h
<1>2. \A q : Holds(h, q) <=> (Holds(g, q) \/ q \in V)
  <2>1. \A q : (\E i \in DOMAIN s : q \in s[i].waiters)
               <=> ((\E i \in DOMAIN g.queue : q \in g.queue[i].waiters) \/ q \in V)
    BY DEF PutInto
  <2> QED BY <1>1, <2>1 DEF Holds
<1>3. Accounted(h, W \ V)
  BY <1>1, <1>2 DEF Sound, Accounted
<1>4. KindsOnce(h)
  BY <1>1 DEF Sound, KindsOnce, PutInto
<1>5. \A q \in V : ~Holds(g, q)
  BY DEF Sound, Accounted
<1>6. \A i \in DOMAIN s : \A q \in s[i].waiters :
         (i = m /\ q \in V) \/ (i \in DOMAIN g.queue /\ q \in g.queue[i].waiters)
  BY DEF PutInto
<1>7. Disjoint(h)
  <2>1. \A k, l \in Kinds : k # l => h.deferred[k].waiters \cap h.deferred[l].waiters = {}
    BY <1>1 DEF Sound, Disjoint
  <2>2. \A i, j \in DOMAIN h.queue : i # j => h.queue[i].waiters \cap h.queue[j].waiters = {}
    BY <1>1, <1>5, <1>6 DEF Sound, Disjoint, Holds
  <2>3. \A k \in Kinds, i \in DOMAIN h.queue : h.deferred[k].waiters \cap h.queue[i].waiters = {}
    BY <1>1, <1>5, <1>6 DEF Sound, Disjoint, Holds
  <2>4. h.active # None =>
         /\ \A k \in Kinds : h.deferred[k].waiters \cap h.active.waiters = {}
         /\ \A i \in DOMAIN h.queue : h.queue[i].waiters \cap h.active.waiters = {}
    BY <1>1, <1>5, <1>6 DEF Sound, Disjoint, Holds
  <2> QED BY <2>1, <2>2, <2>3, <2>4 DEF Disjoint
<1>8. OpenHoldsNone(h)
  BY <1>1 DEF Sound, OpenHoldsNone
<1> QED BY <1>1, <1>3, <1>4, <1>7, <1>8 DEF Sound, h

\* A request in hand is queued: in the job of its kind, or in a new one.
LEMMA EnqueueSound ==
  ASSUME NEW g, NEW W \in SUBSET Requests, NEW V \in SUBSET W, Sound(g, W), Driven(g),
         NEW k \in Kinds, NEW rebuild \in BOOLEAN, NEW rev \in Revisions \cup {None}
  PROVE  Kept(Enqueue(g, k, rebuild, rev, V), W \ V)
<1> DEFINE job == NewJob(k, rebuild, rev, V)
           merged == [i \in DOMAIN g.queue |->
                        IF g.queue[i].kind = k THEN Merged(g.queue[i], rebuild, rev, V)
                        ELSE g.queue[i]]
           s == IF Queued(g, k) # {} THEN merged ELSE Append(g.queue, job)
<1>1. g \in Gates
  BY DEF Sound
<1>2. job \in Jobs
  BY DEF Jobs, NewJob
<1>3. ASSUME Queued(g, k) # {} PROVE s \in Seq(Jobs) /\ \E m : PutInto(g, s, m, V) /\ s[m].kind = k
  <2>1. PICK m \in DOMAIN g.queue : g.queue[m].kind = k
    BY <1>3 DEF Queued
  <2>2. \A i \in DOMAIN g.queue :
          /\ merged[i] \in Jobs /\ merged[i].kind = g.queue[i].kind
          /\ merged[i].waiters = IF i = m THEN g.queue[i].waiters \cup V ELSE g.queue[i].waiters
    <3> SUFFICES ASSUME NEW i \in DOMAIN g.queue
                 PROVE  /\ merged[i] \in Jobs /\ merged[i].kind = g.queue[i].kind
                        /\ merged[i].waiters = IF i = m THEN g.queue[i].waiters \cup V
                                               ELSE g.queue[i].waiters
      OBVIOUS
    <3>1. g.queue[i] \in Jobs /\ (g.queue[i].kind = k <=> i = m)
      BY <1>1, <2>1, QueueDomain DEF Sound, KindsOnce
    <3>2. (g.queue[i].rebuild \/ rebuild) \in BOOLEAN
      BY Zenon
    <3> QED BY <3>1, <3>2 DEF Jobs, Merged
  <2>3. merged \in Seq(Jobs) /\ DOMAIN merged = DOMAIN g.queue
    <3>1. merged \in [1..Len(g.queue) -> Jobs]
      BY <1>1, <2>2, QueueDomain
    <3>2. Len(g.queue) \in Nat /\ DOMAIN g.queue = 1..Len(g.queue)
      BY <1>1, QueueDomain
    <3>3. merged \in Seq(Jobs)
      <4> HIDE DEF merged
      <4> QED BY <3>1, <3>2, SeqDef
    <3> QED BY <3>3
  <2>4. PutInto(g, merged, m, V)
    BY <2>1, <2>2, <2>3 DEF PutInto
  <2>5. s = merged
    BY <1>3
  <2>6. merged[m].kind = k
    BY <2>1, <2>2
  <2> HIDE DEF merged, s
  <2> QED BY <2>3, <2>4, <2>5, <2>6
<1>4. ASSUME Queued(g, k) = {} PROVE s \in Seq(Jobs) /\ \E m : PutInto(g, s, m, V) /\ s[m].kind = k
  <2>1. /\ s = Append(g.queue, job) /\ s \in Seq(Jobs) /\ DOMAIN s = 1..(Len(g.queue) + 1)
        /\ s[Len(g.queue) + 1] = job
        /\ \A i \in DOMAIN g.queue : s[i] = g.queue[i]
    BY <1>1, <1>2, <1>4, QueueDomain, AppendProperties, LenProperties
  <2>2. \A i \in DOMAIN g.queue : g.queue[i].kind # k
    BY <1>4 DEF Queued
  <2>3. Len(g.queue) \in Nat /\ DOMAIN g.queue = 1..Len(g.queue)
    BY <1>1, QueueDomain
  <2>4. job.kind = k /\ job.waiters = V
    BY DEF NewJob
  <2> HIDE DEF s, job
  <2>5. PutInto(g, s, Len(g.queue) + 1, V)
    BY <2>1, <2>2, <2>3, <2>4 DEF PutInto
  <2> QED BY <2>1, <2>4, <2>5
<1> DEFINE p == [g EXCEPT !.queue = s]
           h == RequestDrain(p)
<1>5. h = Enqueue(g, k, rebuild, rev, V)
  BY DEF Enqueue
<1> HIDE DEF s, job, merged
<1>6. PICK m : s \in Seq(Jobs) /\ PutInto(g, s, m, V) /\ s[m].kind = k
  BY <1>3, <1>4
<1>7. Sound(p, W \ V)
  BY <1>6, PutIntoSound
<1>8. /\ p \in Gates /\ p.queue = s
      /\ p.opened = g.opened /\ p.startupActive = g.startupActive /\ p.needed = g.needed
      /\ p.kindsRun = g.kindsRun /\ p.deferred = g.deferred /\ p.active = g.active
      /\ p.completed = g.completed /\ p.waiting = g.waiting
      /\ p.drainScheduled => p.active = None
  BY <1>1, <1>6, WithQueue DEF Driven
<1> HIDE DEF p
<1>9. /\ h \in Gates /\ h.queue = p.queue
      /\ h.opened = p.opened /\ h.startupActive = p.startupActive /\ h.needed = p.needed
      /\ h.kindsRun = p.kindsRun /\ h.deferred = p.deferred /\ h.active = p.active
      /\ h.completed = p.completed /\ h.waiting = p.waiting
      /\ Driven(h)
  BY <1>8, Drained
<1> HIDE DEF h
<1>10. Sound(h, W \ V)
  BY <1>7, <1>9, SameParts
<1> QED BY <1>5, <1>8, <1>9, <1>10 DEF Kept

LEMMA EnqueueStartupSound ==
  ASSUME NEW g, NEW W \in SUBSET Requests, NEW V \in SUBSET W, Sound(g, W), Driven(g),
         NEW k \in Kinds, NEW rebuild \in BOOLEAN, NEW rev \in Revisions \cup {None}
  PROVE  Kept(EnqueueStartup(g, k, rebuild, rev, V), W \ V)
<1>1. CASE k \in g.kindsRun
  <2>1. EnqueueStartup(g, k, rebuild, rev, V) = Settle(g, V)
    BY <1>1 DEF EnqueueStartup
  <2>2. Kept(Settle(g, V), W \ V)
    BY SettleKept DEF Kept
  <2> QED BY <2>1, <2>2
<1>2. CASE k \notin g.kindsRun
  <2> DEFINE p == [g EXCEPT !.kindsRun = @ \cup {k}]
  <2>1. /\ p \in Gates /\ p.queue = g.queue /\ p.opened = g.opened /\ p.deferred = g.deferred
        /\ p.active = g.active /\ p.waiting = g.waiting /\ p.drainScheduled = g.drainScheduled
    BY DEF Sound, Gates
  <2>2. EnqueueStartup(g, k, rebuild, rev, V) = Enqueue(p, k, rebuild, rev, V)
    BY <1>2 DEF EnqueueStartup
  <2> HIDE DEF p
  <2>3. Sound(p, W) /\ Driven(p)
    BY <2>1, SameParts DEF Driven
  <2>4. Kept(Enqueue(p, k, rebuild, rev, V), W \ V)
    BY <2>3, EnqueueSound
  <2> QED BY <2>1, <2>2, <2>4 DEF Kept
<1> QED BY <1>1, <1>2

LEMMA PrepareSound ==
  ASSUME NEW g, Sound(g, {}), Driven(g), NEW needed \in BOOLEAN
  PROVE  Kept(Prepare(g, needed), {})
<1> DEFINE p == [g EXCEPT !.needed = TRUE]
           r == EnqueueStartup(p, "search", FALSE, None, {})
           t == EnqueueStartup(r, "usage", FALSE, None, {})
<1>1. /\ p \in Gates /\ p.queue = g.queue /\ p.opened = g.opened /\ p.deferred = g.deferred
      /\ p.active = g.active /\ p.waiting = g.waiting /\ p.completed = g.completed
      /\ p.drainScheduled = g.drainScheduled
  BY DEF Sound, Gates
<1>2. Prepare(g, needed) \in {g, p, t}
  BY DEF Prepare
<1> HIDE DEF p
<1>3. Sound(p, {}) /\ Driven(p)
  BY <1>1, SameParts DEF Driven
<1>4. ASSUME NEW a, Sound(a, {}), Driven(a), NEW k \in Kinds
      PROVE  Kept(EnqueueStartup(a, k, FALSE, None, {}), {})
  <2>1. {} \in SUBSET Requests /\ {} \in SUBSET {} /\ FALSE \in BOOLEAN
        /\ None \in Revisions \cup {None} /\ {} \ {} = {}
    OBVIOUS
  <2>2. Kept(EnqueueStartup(a, k, FALSE, None, {}), {} \ {})
    BY <1>4, <2>1, EnqueueStartupSound
  <2> QED BY <2>1, <2>2
<1>5. "search" \in Kinds /\ "usage" \in Kinds
  BY DEF Kinds
<1>6. Kept(p, {})
  BY <1>1, <1>3 DEF Kept
<1>7. Kept(r, {})
  BY <1>3, <1>4, <1>5
<1> HIDE DEF r
<1>8. Kept(t, {})
  BY <1>4, <1>5, <1>7 DEF Kept
<1> HIDE DEF t
<1> QED BY <1>2, <1>6, <1>7, <1>8 DEF Kept

\* A request in hand joins the running job.
LEMMA JoinSound ==
  ASSUME NEW g, NEW q \in Requests, Sound(g, {q}), Driven(g), g.active # None
  PROVE  LET h == [g EXCEPT !.active.waiters = @ \cup {q}]
         IN  Kept(h, {})
<1> DEFINE h == [g EXCEPT !.active.waiters = @ \cup {q}]
<1>1. g \in Gates /\ g.active \in Jobs
  BY DEF Sound, Gates
<1>2. [g.active EXCEPT !.waiters = @ \cup {q}] \in Jobs
  BY <1>1 DEF Jobs
<1>3. h = [g EXCEPT !.active = [g.active EXCEPT !.waiters = @ \cup {q}]]
  OBVIOUS
<1>4. /\ h \in Gates /\ h.queue = g.queue /\ h.opened = g.opened /\ h.deferred = g.deferred
      /\ h.waiting = g.waiting /\ h.drainScheduled = g.drainScheduled
      /\ h.active = [g.active EXCEPT !.waiters = @ \cup {q}]
  BY <1>1, <1>2, <1>3 DEF Gates
<1>5. h.active # None /\ h.active.waiters = g.active.waiters \cup {q}
  BY <1>1, <1>2, <1>4, GateAssumption DEF Jobs
<1> HIDE DEF h
<1>6. \A r : Holds(h, r) <=> (Holds(g, r) \/ r = q)
  BY <1>4, <1>5 DEF Holds
<1>7. Accounted(h, {})
  BY <1>4, <1>6 DEF Sound, Accounted
<1>8. ~Holds(g, q)
  BY DEF Sound, Accounted
<1>9. Disjoint(h)
  BY <1>4, <1>5, <1>8 DEF Sound, Disjoint, Holds
<1>10. KindsOnce(h) /\ OpenHoldsNone(h)
  BY <1>4 DEF Sound, KindsOnce, OpenHoldsNone
<1>11. Driven(h)
  BY <1>4, <1>5 DEF Driven
<1> QED BY <1>4, <1>7, <1>9, <1>10, <1>11 DEF Sound, Kept, h

\* A request in hand is deferred while the gate is closed.
LEMMA DeferSound ==
  ASSUME NEW g, NEW q \in Requests, Sound(g, {q}), Driven(g), ~g.opened,
         NEW k \in Kinds, NEW rebuild \in BOOLEAN, NEW rev \in Revisions
  PROVE  LET h == [g EXCEPT !.deferred[k] = [rebuild |-> @.rebuild \/ rebuild, rev |-> rev,
                                             waiters |-> @.waiters \cup {q}]]
         IN  Kept(h, {})
<1> DEFINE old == g.deferred[k]
           new == [rebuild |-> old.rebuild \/ rebuild, rev |-> rev,
                   waiters |-> old.waiters \cup {q}]
           h == [g EXCEPT !.deferred[k] = [rebuild |-> @.rebuild \/ rebuild, rev |-> rev,
                                           waiters |-> @.waiters \cup {q}]]
           Deferrals == [rebuild : BOOLEAN, rev : Revisions \cup {None},
                         waiters : SUBSET Requests]
<1>1. g \in Gates /\ g.deferred \in [Kinds -> Deferrals] /\ old \in Deferrals
  BY DEF Sound, Gates
<1>2. new \in Deferrals /\ new.waiters = old.waiters \cup {q}
  <2>1. (old.rebuild \/ rebuild) \in BOOLEAN
    BY Zenon
  <2> QED BY <1>1, <2>1
<1>3. h = [g EXCEPT !.deferred = [g.deferred EXCEPT ![k] = new]]
  OBVIOUS
<1> HIDE DEF new
<1>4. [g.deferred EXCEPT ![k] = new] \in [Kinds -> Deferrals]
  BY <1>1, <1>2
<1>5. /\ h \in Gates /\ h.queue = g.queue /\ h.opened = g.opened /\ h.active = g.active
      /\ h.waiting = g.waiting /\ h.completed = g.completed
      /\ h.drainScheduled = g.drainScheduled
      /\ h.deferred = [g.deferred EXCEPT ![k] = new]
  BY <1>1, <1>3, <1>4 DEF Gates
<1> HIDE DEF h
<1>6. \A l \in Kinds : h.deferred[l].waiters
                        = IF l = k THEN g.deferred[l].waiters \cup {q} ELSE g.deferred[l].waiters
  BY <1>1, <1>2, <1>5
<1>7. \A r : Holds(h, r) <=> (Holds(g, r) \/ r = q)
  BY <1>5, <1>6 DEF Holds
<1>8. Accounted(h, {})
  BY <1>5, <1>7 DEF Sound, Accounted
<1>9. ~Holds(g, q)
  BY DEF Sound, Accounted
<1>10. Disjoint(h)
  <2>4. \A l \in Kinds : \A r \in h.deferred[l].waiters :
          (l = k /\ r = q) \/ r \in g.deferred[l].waiters
    BY <1>6
  <2>1. \A l, m \in Kinds : l # m => h.deferred[l].waiters \cap h.deferred[m].waiters = {}
    BY <1>9, <2>4 DEF Sound, Disjoint, Holds
  <2>2. \A l \in Kinds, i \in DOMAIN h.queue : h.deferred[l].waiters \cap h.queue[i].waiters = {}
    BY <1>5, <1>9, <2>4 DEF Sound, Disjoint, Holds
  <2>3. h.active # None => \A l \in Kinds : h.deferred[l].waiters \cap h.active.waiters = {}
    BY <1>5, <1>9, <2>4 DEF Sound, Disjoint, Holds
  <2> QED BY <1>5, <2>1, <2>2, <2>3 DEF Sound, Disjoint
<1>11. KindsOnce(h) /\ OpenHoldsNone(h) /\ Driven(h)
  BY <1>5 DEF Sound, KindsOnce, OpenHoldsNone, Driven
<1> QED BY <1>5, <1>8, <1>10, <1>11 DEF Sound, Kept, h

LEMMA ScheduleSound ==
  ASSUME NEW g, Sound(g, {}), Driven(g), NEW k \in Kinds, NEW q \in Requests, q \notin g.waiting,
         NEW rebuild \in BOOLEAN, NEW rev \in Revisions
  PROVE  Kept(Schedule(g, k, q, rebuild, rev), {})
<1>1. Settle(g, {q}) = g
  <2>1. g \in Gates /\ g.waiting \ {q} = g.waiting
    BY DEF Sound
  <2> QED BY <2>1 DEF Settle, Gates
<1> DEFINE w == Waiting(g, q)
<1>2. /\ Sound(w, {} \cup {q}) /\ w.queue = g.queue /\ w.drainScheduled = g.drainScheduled
      /\ w.opened = g.opened /\ w.active = g.active
  BY WaitingSound
<1>3. Sound(w, {q}) /\ Driven(w)
  BY <1>2 DEF Driven
<1> HIDE DEF w
<1>4. CASE Schedule(g, k, q, rebuild, rev) = Settle(g, {q})
  BY <1>1, <1>4 DEF Kept
<1>5. CASE Schedule(g, k, q, rebuild, rev) = [w EXCEPT !.active.waiters = @ \cup {q}]
           /\ g.active # None
  BY <1>2, <1>3, <1>5, JoinSound
<1>6. CASE /\ Schedule(g, k, q, rebuild, rev)
                = [w EXCEPT !.deferred[k] = [rebuild |-> @.rebuild \/ rebuild, rev |-> rev,
                                             waiters |-> @.waiters \cup {q}]]
           /\ ~g.opened
  BY <1>2, <1>3, <1>6, DeferSound
<1> DEFINE a == g.startupActive /\ ~rebuild
           p == [w EXCEPT !.kindsRun = IF a THEN @ \cup {k} ELSE @]
<1>7. CASE Schedule(g, k, q, rebuild, rev) = Enqueue(p, k, rebuild, rev, {q})
  <2>1. /\ p \in Gates /\ p.queue = w.queue /\ p.opened = w.opened /\ p.deferred = w.deferred
        /\ p.active = w.active /\ p.waiting = w.waiting
        /\ p.drainScheduled = w.drainScheduled
    <3> HIDE DEF a
    <3> QED BY <1>3 DEF Sound, Gates
  <2>2. Sound(p, {q}) /\ Driven(p)
    BY <1>3, <2>1, SameParts DEF Driven
  <2> HIDE DEF p
  <2>3. {q} \in SUBSET Requests /\ {q} \in SUBSET {q} /\ rev \in Revisions \cup {None}
        /\ {q} \ {q} = {}
    OBVIOUS
  <2>4. Kept(Enqueue(p, k, rebuild, rev, {q}), {q} \ {q})
    BY <2>2, <2>3, EnqueueSound
  <2> QED BY <1>7, <2>3, <2>4
<1>8. \/ Schedule(g, k, q, rebuild, rev) = Settle(g, {q})
      \/ /\ Schedule(g, k, q, rebuild, rev) = [w EXCEPT !.active.waiters = @ \cup {q}]
         /\ g.active # None
      \/ /\ Schedule(g, k, q, rebuild, rev)
                = [w EXCEPT !.deferred[k] = [rebuild |-> @.rebuild \/ rebuild, rev |-> rev,
                                             waiters |-> @.waiters \cup {q}]]
         /\ ~g.opened
      \/ Schedule(g, k, q, rebuild, rev) = Enqueue(p, k, rebuild, rev, {q})
  BY DEF Schedule, Joins, w
<1> HIDE DEF p
<1> QED BY <1>4, <1>5, <1>6, <1>7, <1>8

------------------------------------------------------------------------------
(* Opening, finishing, resetting, and the running job *)

\* The deferred waiters are taken out.
LEMMA TakeDeferred ==
  ASSUME NEW g, Sound(g, {}), Driven(g)
  PROVE  LET h == [g EXCEPT !.opened = TRUE, !.startupActive = TRUE, !.deferred = NewGate.deferred]
         IN  Kept(h, g.deferred["search"].waiters \cup g.deferred["usage"].waiters)
<1> DEFINE h == [g EXCEPT !.opened = TRUE, !.startupActive = TRUE, !.deferred = NewGate.deferred]
           W == g.deferred["search"].waiters \cup g.deferred["usage"].waiters
<1>1. /\ NewGate.deferred \in [Kinds -> [rebuild : BOOLEAN, rev : Revisions \cup {None},
                                         waiters : SUBSET Requests]]
      /\ \A k \in Kinds : NewGate.deferred[k].waiters = {}
  BY DEF NewGate
<1>2. /\ h \in Gates /\ h.queue = g.queue /\ h.active = g.active /\ h.waiting = g.waiting
      /\ h.drainScheduled = g.drainScheduled /\ h.deferred = NewGate.deferred
  BY <1>1 DEF Sound, Gates
<1> HIDE DEF h
<1>3. \A q : Holds(g, q) <=> (Holds(h, q) \/ q \in W)
  BY <1>1, <1>2 DEF Holds, Kinds
<1>4. \A q \in W : ~Holds(h, q)
  BY <1>1, <1>2 DEF Sound, Disjoint, Holds, Kinds
<1>5. Accounted(h, W)
  BY <1>2, <1>3, <1>4 DEF Sound, Accounted
<1>6. Disjoint(h)
  BY <1>1, <1>2 DEF Sound, Disjoint
<1>7. KindsOnce(h) /\ OpenHoldsNone(h) /\ Driven(h)
  BY <1>1, <1>2 DEF Sound, KindsOnce, OpenHoldsNone, Driven
<1> QED BY <1>2, <1>5, <1>6, <1>7 DEF Sound, Kept, h

LEMMA OpenSound ==
  ASSUME NEW g, Sound(g, {}), Driven(g)
  PROVE  Kept(Open(g), {})
<1> DEFINE d == g.deferred
           p == [g EXCEPT !.opened = TRUE, !.startupActive = TRUE, !.deferred = NewGate.deferred]
           S == d["search"].waiters
           U == d["usage"].waiters
<1>1. /\ S \subseteq Requests /\ U \subseteq Requests /\ S \cap U = {}
      /\ d["search"].rev \in Revisions \cup {None} /\ d["usage"].rev \in Revisions \cup {None}
      /\ d["usage"].rebuild \in BOOLEAN
  <2>1. /\ g.deferred \in [Kinds -> [rebuild : BOOLEAN, rev : Revisions \cup {None},
                                     waiters : SUBSET Requests]]
        /\ "search" \in Kinds /\ "usage" \in Kinds /\ "search" # "usage"
    BY DEF Sound, Gates, Kinds
  <2>2. S \cap U = {}
    BY <2>1 DEF Sound, Disjoint
  <2> QED BY <2>1, <2>2
<1>2. Kept(p, S \cup U)
  BY TakeDeferred
<1>3. /\ S \cup U \in SUBSET Requests /\ U \in SUBSET Requests
      /\ S \in SUBSET (S \cup U) /\ U \in SUBSET U
      /\ (S \cup U) \ S = U /\ U \ U = {} /\ (S \cup U) \ (S \cup U) = {}
      /\ (S \cup U) \in SUBSET (S \cup U)
      /\ "search" \in Kinds /\ "usage" \in Kinds /\ FALSE \in BOOLEAN /\ TRUE \in BOOLEAN
  BY <1>1 DEF Kinds
<1>4. p \in Gates
  BY <1>2 DEF Kept, Sound
<1> HIDE DEF p
<1> DEFINE r == EnqueueStartup(p, "search", FALSE, d["search"].rev, S)
           t == EnqueueStartup(r, "usage", d["usage"].rebuild, d["usage"].rev, U)
<1>5. Kept(t, {})
  <2>1. Kept(r, (S \cup U) \ S)
    BY <1>1, <1>2, <1>3, EnqueueStartupSound DEF Kept
  <2>2. Sound(r, U) /\ Driven(r)
    BY <1>3, <2>1 DEF Kept
  <2> HIDE DEF r, S, U
  <2>3. Kept(t, U \ U)
    BY <1>1, <1>3, <2>2, EnqueueStartupSound
  <2> QED BY <1>3, <2>3
<1> DEFINE v == Settle(p, S)
           u == [v EXCEPT !.kindsRun = @ \cup {"usage"}]
           e == Enqueue(u, "usage", TRUE, d["usage"].rev, U)
<1>6. Kept(e, {})
  <2>1. Kept(v, (S \cup U) \ S)
    BY <1>2, <1>3, SettleKept DEF Kept
  <2>2. Sound(v, U) /\ v \in Gates /\ Driven(v)
    BY <1>3, <2>1 DEF Sound, Kept
  <2> HIDE DEF v
  <2>3. /\ u \in Gates /\ u.queue = v.queue /\ u.opened = v.opened /\ u.deferred = v.deferred
        /\ u.active = v.active /\ u.waiting = v.waiting /\ u.drainScheduled = v.drainScheduled
    BY <2>2 DEF Gates, Kinds
  <2> HIDE DEF u
  <2>4. Sound(u, U) /\ Driven(u)
    BY <2>2, <2>3, SameParts DEF Driven
  <2>5. Kept(e, U \ U)
    <3> HIDE DEF S, U
    <3> QED BY <1>1, <1>3, <2>4, EnqueueSound
  <2> QED BY <1>3, <2>5
<1> DEFINE f == Settle(p, S \cup U)
<1>7. Kept(f, {})
  <2>1. Kept(f, (S \cup U) \ (S \cup U))
    BY <1>2, <1>3, SettleKept
  <2> QED BY <1>3, <2>1
<1>8. Open(g) \in {g, t, e, f}
  BY DEF Open, p
<1> HIDE DEF t, e, f
<1> QED BY <1>5, <1>6, <1>7, <1>8 DEF Kept

LEMMA FinishSound ==
  ASSUME NEW g, NEW W, Kept(g, W)
  PROVE  /\ Kept(Finish(g), W) /\ Finish(g).queue = g.queue /\ Finish(g).active = g.active
         /\ Finish(g).waiting = g.waiting /\ Finish(g).deferred = g.deferred
         /\ Finish(g).drainScheduled = g.drainScheduled
<1> DEFINE h == Finish(g)
<1>1. /\ h \in Gates /\ h.queue = g.queue /\ h.opened = g.opened /\ h.deferred = g.deferred
      /\ h.active = g.active /\ h.waiting = g.waiting /\ h.drainScheduled = g.drainScheduled
  BY DEF Kept, Sound, Gates, Finish
<1> HIDE DEF h
<1>2. Sound(h, W)
  BY <1>1, SameParts DEF Kept
<1>3. Driven(h)
  BY <1>1 DEF Kept, Driven
<1> QED BY <1>1, <1>2, <1>3 DEF Kept, h

LEMMA ResetSound ==
  ASSUME NEW g, Sound(g, {}), Driven(g)
  PROVE  Kept(Reset(g), {})
<1> DEFINE f == Finish(g)
           V == DeferredWaiters(g) \cup QueuedWaiters(g)
           h == Reset(g)
<1>1. /\ f \in Gates /\ f.queue = g.queue /\ f.active = g.active
      /\ f.waiting = g.waiting /\ f.deferred = g.deferred
      /\ f.drainScheduled = g.drainScheduled
  BY FinishSound DEF Kept, Sound
<1>2. /\ NewGate.deferred \in [Kinds -> [rebuild : BOOLEAN, rev : Revisions \cup {None},
                                         waiters : SUBSET Requests]]
      /\ \A k \in Kinds : NewGate.deferred[k].waiters = {}
      /\ NewGate.completed \in [Kinds -> Revisions \cup {None}]
  BY DEF NewGate
<1>3. <<>> \in Seq(Jobs)
  BY EmptySeq
<1>4. /\ h \in Gates /\ h.queue = <<>> /\ h.active = g.active /\ h.waiting = g.waiting \ V
      /\ h.deferred = NewGate.deferred /\ h.drainScheduled = g.drainScheduled
  <2> HIDE DEF f, V
  <2>1. h = [[f EXCEPT !.waiting = @ \ V] EXCEPT !.opened = FALSE, !.completed = NewGate.completed,
                                                !.deferred = NewGate.deferred, !.queue = <<>>]
    BY DEF Reset, Settle, f, V
  <2> QED BY <1>1, <1>2, <1>3, <2>1 DEF Gates
<1>5. \A q : q \in V <=> \/ \E k \in Kinds : q \in g.deferred[k].waiters
                         \/ \E i \in DOMAIN g.queue : q \in g.queue[i].waiters
  <2>1. \A q : q \in DeferredWaiters(g) <=> \E k \in Kinds : q \in g.deferred[k].waiters
    BY DEF DeferredWaiters
  <2>2. \A q : q \in QueuedWaiters(g)
                <=> \E i \in DOMAIN g.queue : q \in g.queue[i].waiters
    BY DEF QueuedWaiters
  <2> QED BY <2>1, <2>2
<1> HIDE DEF h, V
<1>6. \A q : Holds(h, q) <=> g.active # None /\ q \in g.active.waiters
  BY <1>2, <1>4 DEF Holds
<1>7. \A q : Holds(g, q) <=> (q \in V \/ Holds(h, q))
  BY <1>5, <1>6 DEF Holds
<1>8. \A q : ~(q \in V /\ Holds(h, q))
  BY <1>5, <1>6 DEF Sound, Disjoint
<1>9. Accounted(h, {})
  BY <1>4, <1>7, <1>8 DEF Sound, Accounted
<1>10. Disjoint(h) /\ KindsOnce(h) /\ OpenHoldsNone(h) /\ Driven(h)
  BY <1>2, <1>4 DEF Disjoint, KindsOnce, OpenHoldsNone, Driven
<1> QED BY <1>4, <1>9, <1>10 DEF Sound, Kept, h

LEMMA EndJobSound ==
  ASSUME NEW g, Sound(g, {}), g.active # None, NEW succeeded \in BOOLEAN
  PROVE  Kept(EndJob(g, succeeded), {})
<1> DEFINE V == g.active.waiters
           k == g.active.kind
           rev == g.active.rev
           c == IF succeeded /\ rev # None THEN rev ELSE g.completed[k]
           n == [g.completed EXCEPT ![k] = c]
           p == [[g EXCEPT !.waiting = @ \ V] EXCEPT !.active = None, !.completed[k] =
                    IF succeeded /\ rev # None THEN rev ELSE @]
<1>1. g \in Gates /\ g.active \in Jobs /\ g.completed \in [Kinds -> Revisions \cup {None}]
  BY DEF Sound, Gates
<1>2. n \in [Kinds -> Revisions \cup {None}]
  BY <1>1 DEF Jobs
<1>3. /\ p \in Gates /\ p.queue = g.queue /\ p.opened = g.opened /\ p.deferred = g.deferred
      /\ p.active = None /\ p.waiting = g.waiting \ V
  <2>1. p = [[g EXCEPT !.waiting = @ \ V] EXCEPT !.active = None, !.completed = n]
    BY <1>1 DEF Gates
  <2> HIDE DEF n, V
  <2> QED BY <1>1, <1>2, <2>1 DEF Gates
<1>4. EndJob(g, succeeded) = RequestDrain(p)
  BY DEF EndJob, Settle
<1> HIDE DEF p
<1>5. \A q : Holds(g, q) <=> (Holds(p, q) \/ q \in V)
  BY <1>3 DEF Holds
<1>6. \A q \in V : ~Holds(p, q)
  BY <1>3 DEF Sound, Disjoint, Holds
<1>7. Accounted(p, {})
  BY <1>3, <1>5, <1>6 DEF Sound, Accounted
<1>8. Disjoint(p) /\ KindsOnce(p) /\ OpenHoldsNone(p)
  BY <1>3 DEF Sound, Disjoint, KindsOnce, OpenHoldsNone
<1>9. Sound(p, {})
  BY <1>3, <1>7, <1>8 DEF Sound
<1> DEFINE h == RequestDrain(p)
<1>10. /\ h \in Gates /\ h.queue = p.queue /\ h.opened = p.opened /\ h.deferred = p.deferred
       /\ h.active = p.active /\ h.waiting = p.waiting /\ Driven(h)
  BY <1>3, Drained
<1> HIDE DEF h
<1>11. Sound(h, {})
  BY <1>9, <1>10, SameParts
<1> QED BY <1>4, <1>10, <1>11 DEF Kept, h

\* The first job becomes the running one: its waiters change their place only.
LEMMA DrainSound ==
  ASSUME NEW g, Sound(g, {}), g.active = None, g.queue # <<>>,
         NEW read \in Revisions \cup {None}
  PROVE  LET h == [[g EXCEPT !.drainScheduled = FALSE]
                      EXCEPT !.active = [Head(g.queue) EXCEPT !.read = read], !.queue = Tail(@)]
         IN  Kept(h, {})
<1> DEFINE job == [Head(g.queue) EXCEPT !.read = read]
           h == [[g EXCEPT !.drainScheduled = FALSE]
                    EXCEPT !.active = [Head(g.queue) EXCEPT !.read = read], !.queue = Tail(@)]
<1>1. g \in Gates /\ g.queue \in Seq(Jobs) /\ DOMAIN g.queue = 1..Len(g.queue)
      /\ Len(g.queue) \in Nat /\ Len(g.queue) >= 1
  BY QueueDomain DEF Sound
<1>2. /\ Head(g.queue) = g.queue[1] /\ Head(g.queue) \in Jobs
      /\ Tail(g.queue) \in Seq(Jobs) /\ DOMAIN Tail(g.queue) = 1..(Len(g.queue) - 1)
      /\ \A i \in 1..(Len(g.queue) - 1) : Tail(g.queue)[i] = g.queue[i + 1]
  BY <1>1, HeadTailProperties, LenProperties
<1>3. job \in Jobs /\ job.waiters = g.queue[1].waiters /\ job # None
  BY <1>2, GateAssumption DEF Jobs
<1>4. /\ h \in Gates /\ h.queue = Tail(g.queue) /\ h.opened = g.opened /\ h.deferred = g.deferred
      /\ h.active = job /\ h.waiting = g.waiting /\ ~h.drainScheduled
  <2> HIDE DEF job
  <2>1. h = [[g EXCEPT !.drainScheduled = FALSE] EXCEPT !.active = job, !.queue = Tail(g.queue)]
    BY <1>1 DEF job, Gates
  <2> QED BY <1>1, <1>2, <1>3, <2>1 DEF Gates
<1> HIDE DEF h, job
<1> DEFINE n == Len(g.queue)
<1>5. /\ n \in Nat /\ n >= 1 /\ DOMAIN g.queue = 1..n /\ DOMAIN h.queue = 1..(n - 1)
      /\ \A i \in 1..(n - 1) : h.queue[i] = g.queue[i + 1]
  BY <1>1, <1>2, <1>4
<1> HIDE DEF n
<1>6. \A q : Holds(h, q) <=> Holds(g, q)
  <2>1. ASSUME NEW q
        PROVE  (\E i \in DOMAIN g.queue : q \in g.queue[i].waiters)
               <=> ((\E i \in DOMAIN h.queue : q \in h.queue[i].waiters) \/ q \in job.waiters)
    <3>1. ASSUME NEW i \in DOMAIN g.queue, q \in g.queue[i].waiters
          PROVE  (\E j \in DOMAIN h.queue : q \in h.queue[j].waiters) \/ q \in job.waiters
      <4>1. CASE i = 1
        BY <1>3, <3>1, <4>1
      <4>2. CASE i # 1
        <5>1. i - 1 \in DOMAIN h.queue /\ (i - 1) + 1 = i
          BY <1>5, <4>2
        <5>2. h.queue[i - 1] = g.queue[i]
          BY <1>5, <5>1
        <5> QED BY <3>1, <5>1, <5>2
      <4> QED BY <4>1, <4>2
    <3>2. ASSUME NEW j \in DOMAIN h.queue, q \in h.queue[j].waiters
          PROVE  \E i \in DOMAIN g.queue : q \in g.queue[i].waiters
      <4>1. j + 1 \in DOMAIN g.queue /\ h.queue[j] = g.queue[j + 1]
        BY <1>5
      <4> QED BY <3>2, <4>1
    <3> QED BY <1>3, <1>5, <3>1, <3>2
  <2> QED BY <1>3, <1>4, <2>1 DEF Holds
<1>7. Accounted(h, {})
  BY <1>4, <1>6 DEF Sound, Accounted
<1>8. KindsOnce(h)
  <2> SUFFICES ASSUME NEW i \in DOMAIN h.queue, NEW j \in DOMAIN h.queue,
                      h.queue[i].kind = h.queue[j].kind
               PROVE  i = j
    BY DEF KindsOnce
  <2>1. i + 1 \in DOMAIN g.queue /\ j + 1 \in DOMAIN g.queue /\ i \in Nat /\ j \in Nat
    BY <1>5
  <2>2. h.queue[i] = g.queue[i + 1] /\ h.queue[j] = g.queue[j + 1]
    BY <1>5
  <2>3. i + 1 = j + 1
    BY <2>1, <2>2 DEF Sound, KindsOnce
  <2> QED BY <2>1, <2>3
<1>9. Disjoint(h)
  <2>1. \A k, l \in Kinds : k # l => h.deferred[k].waiters \cap h.deferred[l].waiters = {}
    BY <1>4 DEF Sound, Disjoint
  <2>6. \A i \in DOMAIN h.queue : i + 1 \in DOMAIN g.queue /\ i + 1 # 1
                                  /\ h.queue[i].waiters = g.queue[i + 1].waiters
    BY <1>5
  <2>2. \A i, j \in DOMAIN h.queue : i # j => h.queue[i].waiters \cap h.queue[j].waiters = {}
    <3> SUFFICES ASSUME NEW i \in DOMAIN h.queue, NEW j \in DOMAIN h.queue, i # j
                 PROVE  h.queue[i].waiters \cap h.queue[j].waiters = {}
      OBVIOUS
    <3>1. i + 1 # j + 1
      BY <1>5
    <3> QED BY <2>6, <3>1 DEF Sound, Disjoint
  <2>3. \A k \in Kinds, i \in DOMAIN h.queue : h.deferred[k].waiters \cap h.queue[i].waiters = {}
    BY <1>4, <2>6 DEF Sound, Disjoint
  <2>4. \A k \in Kinds : h.deferred[k].waiters \cap h.active.waiters = {}
    BY <1>1, <1>3, <1>4 DEF Sound, Disjoint
  <2>5. \A i \in DOMAIN h.queue : h.queue[i].waiters \cap h.active.waiters = {}
    BY <1>1, <1>3, <1>4, <2>6 DEF Sound, Disjoint
  <2> QED BY <2>1, <2>2, <2>3, <2>4, <2>5 DEF Disjoint
<1>10. OpenHoldsNone(h) /\ Driven(h)
  BY <1>3, <1>4 DEF Sound, OpenHoldsNone, Driven
<1> QED BY <1>4, <1>7, <1>8, <1>9, <1>10 DEF Sound, Kept, h

\* What the running job has read moves no waiter.
LEMMA ReadSound ==
  ASSUME NEW g, Sound(g, {}), Driven(g), g.active # None, NEW read \in Revisions
  PROVE  Kept([g EXCEPT !.active.read = read], {})
<1> DEFINE job == [g.active EXCEPT !.read = read]
           h == [g EXCEPT !.active.read = read]
<1>1. g \in Gates /\ g.active \in Jobs
  BY DEF Sound, Gates
<1>2. job \in Jobs /\ job.waiters = g.active.waiters /\ job # None
  BY <1>1, GateAssumption DEF Jobs
<1>3. /\ h \in Gates /\ h.queue = g.queue /\ h.opened = g.opened /\ h.deferred = g.deferred
      /\ h.active = job /\ h.waiting = g.waiting /\ h.drainScheduled = g.drainScheduled
  <2>1. h = [g EXCEPT !.active = job]
    OBVIOUS
  <2> HIDE DEF job, h
  <2> QED BY <1>1, <1>2, <2>1 DEF Gates
<1> HIDE DEF job, h
<1>4. \A q : Holds(h, q) <=> Holds(g, q)
  BY <1>2, <1>3 DEF Holds
<1>5. Accounted(h, {}) /\ KindsOnce(h) /\ OpenHoldsNone(h) /\ Driven(h)
  BY <1>2, <1>3, <1>4 DEF Sound, Accounted, KindsOnce, OpenHoldsNone, Driven
<1>6. Disjoint(h)
  BY <1>2, <1>3 DEF Sound, Disjoint
<1> QED BY <1>3, <1>5, <1>6 DEF Sound, Kept, h

------------------------------------------------------------------------------
(* The invariant *)

LEMMA InputRevision == TypeOK => Input \in Revisions
  BY DEF TypeOK, Input, Revisions

LEMMA InitEstablishes == Init => GateInv
<1> SUFFICES ASSUME Init PROVE GateInv
  OBVIOUS
<1>1. /\ gate.deferred \in [Kinds -> [rebuild : BOOLEAN, rev : Revisions \cup {None},
                                      waiters : SUBSET Requests]]
      /\ \A k \in Kinds : gate.deferred[k].waiters = {}
      /\ gate.completed \in [Kinds -> Revisions \cup {None}]
      /\ gate.queue = <<>> /\ gate.active = None /\ gate.waiting = {} /\ gate.opened = FALSE
  BY DEF Init, NewGate
<1>2. <<>> \in Seq(Jobs) /\ Len(<<>>) = 0
  BY EmptySeq
<1>3. gate \in Gates
  BY <1>1, <1>2 DEF Init, NewGate, Gates
<1>4. Sound(gate, {})
  <2>1. Disjoint(gate)
    BY <1>1 DEF Disjoint
  <2>2. KindsOnce(gate) /\ OpenHoldsNone(gate)
    BY <1>1 DEF KindsOnce, OpenHoldsNone
  <2>3. Accounted(gate, {})
    BY <1>1 DEF Accounted, Holds
  <2> QED BY <1>3, <2>1, <2>2, <2>3 DEF Sound
<1>5. Driven(gate)
  BY <1>1 DEF Driven
<1>6. TypeOK
  <2>1. gate \in Gates /\ Len(gate.queue) <= 2
    BY <1>1, <1>2, <1>3
  <2>2. asked \in BOOLEAN /\ excused \in BOOLEAN
    BY Zenon DEF Init
  <2>3. epoch \in 0..MaxEpoch
    BY GateAssumption DEF Init
  <2>4. /\ timer = None /\ projected = None /\ switch = "none" /\ init = "none"
        /\ content \in Contents /\ observed \in Kinds
    BY DEF Init
  <2>5. writer \in Seq(Revisions \cup {None}) /\ Len(writer) <= 2
    <3>1. <<>> \in Seq(Revisions \cup {None}) /\ Len(<<>>) = 0
      BY EmptySeq
    <3> QED BY <3>1 DEF Init
  <2> QED BY <2>1, <2>2, <2>3, <2>4, <2>5 DEF TypeOK
<1> QED BY <1>4, <1>5, <1>6 DEF GateInv

\* What index.ts keeps around the gate has its types.
AroundOK ==
    /\ timer \in 0..MaxEpoch \cup {None}
    /\ writer \in Seq(Revisions \cup {None}) /\ Len(writer) <= 2
    /\ projected \in Revisions \cup {None}
    /\ epoch \in 0..MaxEpoch
    /\ switch \in {"none", "begun", "moved"}
    /\ init \in {"none", "planned", "synced"}
    /\ content \in Contents
    /\ observed \in Kinds
    /\ asked \in BOOLEAN /\ excused \in BOOLEAN

LEMMA InvariantParts == GateInv <=> (Kept(gate, {}) /\ AroundOK)
<1>1. Sound(gate, {}) => gate \in Gates /\ Len(gate.queue) <= 2
  BY TwoJobs DEF Sound
<1> QED BY <1>1 DEF GateInv, Kept, TypeOK, AroundOK

LEMMA InvariantPartsNext == GateInv' <=> (Kept(gate', {}) /\ AroundOK')
<1>1. Sound(gate', {}) => gate' \in Gates /\ Len(gate'.queue) <= 2
  BY TwoJobs DEF Sound
<1> QED BY <1>1 DEF GateInv, Kept, TypeOK, AroundOK

\* The writer's queue: what is left when the first snapshot is done, ...
LEMMA WriterTakes ==
  ASSUME NEW w \in Seq(Revisions \cup {None}), Len(w) <= 2, w # <<>>
  PROVE  /\ Head(w) \in Revisions \cup {None} /\ w[Len(w)] \in Revisions \cup {None}
         /\ \A v \in {<<>>, <<w[Len(w)]>>, <<Head(w)>>, Tail(w)} :
              v \in Seq(Revisions \cup {None}) /\ Len(v) <= 2
         /\ Tail(w) = <<>> => w[Len(w)] = Head(w)
         /\ Tail(w) # <<>> => Tail(w)[Len(Tail(w))] = w[Len(w)]
<1>1. Len(w) \in {1, 2} /\ DOMAIN w = 1..Len(w)
  <2>1. Len(w) \in Nat /\ DOMAIN w = 1..Len(w)
    BY LenProperties
  <2>2. Len(w) # 0
    BY EmptySeq
  <2>3. \A n \in Nat : n <= 2 /\ n # 0 => n \in {1, 2}
    OBVIOUS
  <2> QED BY <2>1, <2>2, <2>3
<1>2. w[1] \in Revisions \cup {None} /\ w[Len(w)] \in Revisions \cup {None}
  BY <1>1, ElementOfSeq
<1>3. /\ Head(w) = w[1] /\ Tail(w) \in Seq(Revisions \cup {None})
      /\ Len(Tail(w)) = Len(w) - 1
      /\ \A i \in 1..(Len(w) - 1) : Tail(w)[i] = w[i + 1]
  BY HeadTailProperties
<1>4. Tail(w) = <<>> <=> Len(w) = 1
  BY <1>1, <1>3, EmptySeq
<1>5. <<>> \in Seq(Revisions \cup {None}) /\ Len(<<>>) = 0
  BY EmptySeq
<1>6. ASSUME NEW rev \in Revisions \cup {None} PROVE <<rev>> \in Seq(Revisions \cup {None}) /\ Len(<<rev>>) = 1
  OBVIOUS
<1>7. \A v \in {<<>>, <<w[Len(w)]>>, <<Head(w)>>, Tail(w)} : v \in Seq(Revisions \cup {None}) /\ Len(v) <= 2
  <2>1. Tail(w) \in Seq(Revisions \cup {None}) /\ Len(Tail(w)) <= 2
    BY <1>1, <1>3
  <2>2. Head(w) \in Revisions \cup {None}
    BY <1>2, <1>3
  <2>3. 0 <= 2 /\ 1 <= 2
    OBVIOUS
  <2> QED BY <1>2, <1>5, <1>6, <2>1, <2>2, <2>3
<1> QED BY <1>1, <1>2, <1>3, <1>4, <1>7

\* ... and what it has been handed is its last snapshot.
LEMMA HandedLast ==
  ASSUME NEW w \in Seq(Revisions \cup {None}), NEW rev \in Revisions \cup {None}, NEW v \in Handed(w, rev)
  PROVE  v \in Seq(Revisions \cup {None}) /\ Len(v) <= 2 /\ v # <<>> /\ v[Len(v)] = rev
<1>1. v = <<rev>> \/ (w # <<>> /\ v = <<Head(w), rev>>)
  BY DEF Handed, Behind
<1>2. w # <<>> => Head(w) \in Revisions \cup {None}
  BY HeadTailProperties
<1>3. <<rev>> \in Seq(Revisions \cup {None}) /\ Len(<<rev>>) = 1 /\ <<rev>>[1] = rev /\ <<rev>> # <<>>
  OBVIOUS
<1>4. ASSUME NEW a \in Revisions \cup {None}
      PROVE  /\ <<a, rev>> \in Seq(Revisions \cup {None}) /\ Len(<<a, rev>>) = 2
             /\ <<a, rev>>[2] = rev /\ <<a, rev>> # <<>>
  OBVIOUS
<1>5. CASE v = <<rev>>
  BY <1>3, <1>5
<1>6. CASE w # <<>> /\ v = <<Head(w), rev>>
  <2> DEFINE a == Head(w)
  <2>1. a \in Revisions \cup {None} /\ v = <<a, rev>>
    BY <1>2, <1>6
  <2> HIDE DEF a
  <2> QED BY <1>4, <2>1
<1> QED BY <1>1, <1>5, <1>6

\* The last snapshot fails.
LEMMA FailureKeeps ==
  ASSUME GateInv, LastSnapshotFails, writer' \in Seq(Revisions \cup {None}), Len(writer') <= 2
  PROVE  GateInv'
<1>1. Sound(gate, {}) /\ Driven(gate) /\ TypeOK
  BY DEF GateInv
<1>2. Kept(gate', {})
  BY <1>1, EndJobSound DEF LastSnapshotFails, AwaitsSnapshot, Kept
<1>3. excused' \in BOOLEAN
  BY Zenon DEF LastSnapshotFails
<1>4. AroundOK'
  BY <1>1, <1>3 DEF LastSnapshotFails, TypeOK, AroundOK, library
<1> QED BY <1>2, <1>4, InvariantPartsNext

LEMMA RunJobKeeps == GateInv /\ RunJob => GateInv'
<1> SUFFICES ASSUME GateInv, RunJob PROVE Kept(gate', {}) /\ AroundOK'
  BY InvariantPartsNext
<1>1. Sound(gate, {}) /\ Driven(gate) /\ TypeOK /\ Input \in Revisions
  BY InputRevision DEF GateInv
<1>2. CASE DrainOne
  <2>1. CASE gate.queue = <<>>
    <3>1. gate' = [gate EXCEPT !.drainScheduled = FALSE]
      BY <1>2, <2>1 DEF DrainOne
    <3>2. /\ gate' \in Gates /\ gate'.queue = gate.queue /\ gate'.opened = gate.opened
          /\ gate'.deferred = gate.deferred /\ gate'.active = gate.active
          /\ gate'.waiting = gate.waiting /\ ~gate'.drainScheduled
      BY <1>1, <3>1 DEF TypeOK, Gates
    <3>3. Sound(gate', {})
      BY <1>1, <3>2, SameParts
    <3>4. AroundOK'
      BY <1>1, <1>2, <2>1 DEF DrainOne, TypeOK, AroundOK, library
    <3> QED BY <2>1, <3>2, <3>3, <3>4 DEF Kept, Driven
  <2>2. CASE gate.queue # <<>>
    <3> DEFINE read == IF Head(gate.queue).kind = "usage" THEN Noted(Head(gate.queue).kind)
                       ELSE None
    <3>1. /\ gate' = [[gate EXCEPT !.drainScheduled = FALSE]
                        EXCEPT !.active = [Head(gate.queue) EXCEPT !.read = read], !.queue = Tail(@)]
          /\ timer' \in {epoch, timer} /\ UNCHANGED <<writer, projected>>
          /\ excused' = (excused /\ ~(Head(gate.queue).kind = "usage"
                                       /\ observed = Head(gate.queue).kind))
          /\ UNCHANGED <<library, observed, asked>>
      BY <1>2, <2>2 DEF DrainOne
    <3>2. read \in Revisions \cup {None}
      BY <1>1 DEF Noted
    <3>3. Kept(gate', {})
      <4> HIDE DEF read
      <4>1. gate.active = None
        BY <1>1, <1>2 DEF Driven, DrainOne
      <4> QED BY <1>1, <2>2, <3>1, <3>2, <4>1, DrainSound
    <3>4. excused' \in BOOLEAN
      BY <3>1, Zenon
    <3>5. AroundOK'
      BY <1>1, <3>1, <3>4 DEF TypeOK, AroundOK, library
    <3> QED BY <3>3, <3>5
  <2> QED BY <2>1, <2>2
<1>3. CASE TimerFires
  <2>1. ASSUME gate' = gate PROVE Kept(gate', {})
    BY <1>1, <2>1 DEF Kept
  <2>2. ASSUME gate.active # None, gate' = [gate EXCEPT !.active.read = Input]
        PROVE  Kept(gate', {})
    BY <1>1, <2>2, ReadSound
  <2>3. Kept(gate', {})
    BY <1>3, <2>1, <2>2 DEF TimerFires
  <2>4. excused' \in BOOLEAN
    BY <1>1, <1>3, Zenon DEF TimerFires, TypeOK
  <2>5. writer' \in Seq(Revisions \cup {None}) /\ Len(writer') <= 2
    <3>1. writer' = writer \/ writer' \in Handed(writer, Noted("search"))
      BY <1>3 DEF TimerFires
    <3>2. Noted("search") \in Revisions \cup {None}
      BY <1>1 DEF Noted
    <3> QED BY <1>1, <3>1, <3>2, HandedLast DEF TypeOK
  <2>6. AroundOK'
    BY <1>1, <1>3, <2>4, <2>5 DEF TimerFires, TypeOK, AroundOK, library
  <2> QED BY <2>3, <2>6
<1>4. CASE SiblingFires
  <2>1. Kept(gate', {})
    BY <1>1, <1>4, EndJobSound DEF SiblingFires
  <2>2. AroundOK'
    BY <1>1, <1>4 DEF SiblingFires, TypeOK, AroundOK, library, history
  <2> QED BY <2>1, <2>2
<1>5. CASE UsageSucceeds
  <2>1. Kept(gate', {})
    BY <1>1, <1>5, EndJobSound DEF UsageSucceeds
  <2>2. excused' \in BOOLEAN
    BY <1>5, Zenon DEF UsageSucceeds
  <2>3. gate.active.read \in Revisions \cup {None}
    BY <1>1, <1>5 DEF UsageSucceeds, TypeOK, Gates, Jobs
  <2>4. AroundOK'
    BY <1>1, <1>5, <2>2, <2>3 DEF UsageSucceeds, TypeOK, AroundOK, library
  <2> QED BY <2>1, <2>4
<1>6. CASE UsageFails
  <2>1. Kept(gate', {})
    BY <1>1, <1>6, EndJobSound DEF UsageFails
  <2>2. excused' \in BOOLEAN
    BY <1>6, Zenon DEF UsageFails
  <2>3. AroundOK'
    BY <1>1, <1>6, <2>2 DEF UsageFails, TypeOK, AroundOK, library
  <2> QED BY <2>1, <2>3
<1>7. CASE SnapshotWritten
  <2>1. Kept(gate', {})
    BY <1>1, <1>7, EndJobSound DEF SnapshotWritten, AwaitsSnapshot, Kept
  <2>2. excused' \in BOOLEAN
    BY <1>7, Zenon DEF SnapshotWritten
  <2>3. Head(writer) \in Revisions \cup {None} /\ writer' \in Seq(Revisions \cup {None}) /\ Len(writer') <= 2
    BY <1>1, <1>7, WriterTakes DEF SnapshotWritten, TypeOK
  <2>4. AroundOK'
    BY <1>1, <1>7, <2>2, <2>3 DEF SnapshotWritten, TypeOK, AroundOK, library
  <2> QED BY <2>1, <2>4
<1>8. CASE SnapshotFails
  <2>1. writer' \in Seq(Revisions \cup {None}) /\ Len(writer') <= 2
    BY <1>1, <1>8, WriterTakes DEF SnapshotFails, TypeOK
  <2>2. CASE LastSnapshotFails
    <3>1. GateInv'
      BY <2>1, <2>2, FailureKeeps
    <3> QED BY <3>1, InvariantPartsNext
  <2>3. CASE UNCHANGED <<gate, timer, projected, library, history>>
    BY <1>1, <2>1, <2>3, InvariantPartsNext DEF TypeOK, AroundOK, library, history, Kept
  <2> QED BY <1>8, <2>2, <2>3 DEF SnapshotFails
<1>9. CASE DatabaseBusy
  <2>1. writer' \in Seq(Revisions \cup {None}) /\ Len(writer') <= 2
    BY <1>1, <1>9, WriterTakes DEF DatabaseBusy, TypeOK
  <2> QED BY <1>9, <2>1, FailureKeeps, InvariantPartsNext DEF DatabaseBusy
<1> QED BY <1>2, <1>3, <1>4, <1>5, <1>6, <1>7, <1>8, <1>9 DEF RunJob

\* The requests and the steps of the runtime.
LEMMA CallKeeps ==
  ASSUME GateInv, UNCHANGED timer, UNCHANGED writer, projected' \in {None, projected},
         UNCHANGED observed, epoch' \in 0..MaxEpoch, switch' \in {"none", "begun", "moved"},
         init' \in {"none", "planned", "synced"}, content' \in Contents,
         asked' \in BOOLEAN, excused' \in BOOLEAN, Kept(gate', {})
  PROVE  GateInv'
<1>1. AroundOK'
  BY InvariantParts DEF AroundOK
<1> QED BY <1>1, InvariantPartsNext

LEMMA RequestKeeps ==
  ASSUME GateInv, NEW q \in Requests, NEW k \in Kinds, NEW rebuild \in BOOLEAN,
         Request(k, q, rebuild)
  PROVE  GateInv'
<1>1. Sound(gate, {}) /\ Driven(gate) /\ TypeOK /\ Input \in Revisions
  BY InputRevision DEF GateInv
<1>2. q \notin gate.waiting /\ gate' = Schedule(gate, k, q, rebuild, Input)
  BY DEF Request, Ask
<1>3. Kept(gate', {})
  BY <1>1, <1>2, ScheduleSound
<1>4. asked' \in BOOLEAN /\ excused' \in BOOLEAN
  BY Zenon DEF Request, Ask
<1>5. UNCHANGED <<timer, writer, projected, library, observed>>
  BY DEF Request
<1> QED BY <1>1, <1>3, <1>4, <1>5, CallKeeps DEF TypeOK, library

LEMMA InitializationKeeps ==
  ASSUME GateInv,
         Boundary \/ FinishInit \/ FailInit \/ (\E dirty \in BOOLEAN : PlanInit(dirty))
  PROVE  GateInv'
<1>1. Sound(gate, {}) /\ Driven(gate) /\ TypeOK /\ Kept(gate, {})
  BY DEF GateInv, Kept
<1>2. CASE Boundary
  <2>1. gate' \in {gate, Open(gate)} /\ init' = "synced"
        /\ UNCHANGED <<timer, writer, projected, epoch, switch, content, observed, asked>>
    BY <1>2 DEF Boundary
  <2>2. excused' \in BOOLEAN
    BY <1>2, Zenon DEF Boundary, Excuse
  <2>3. Kept(gate', {})
    BY <1>1, <2>1, OpenSound
  <2> QED BY <1>1, <2>1, <2>2, <2>3, CallKeeps DEF TypeOK
<1>3. CASE FinishInit
  <2>1. gate' = Finish(gate) /\ init' = "none"
        /\ UNCHANGED <<timer, writer, projected, epoch, switch, content, history>>
    BY <1>3 DEF FinishInit
  <2>2. Kept(gate', {})
    BY <1>1, <2>1, FinishSound
  <2> QED BY <1>1, <2>1, <2>2, CallKeeps DEF TypeOK, history
<1>4. CASE FailInit
  <2>1. gate' = Reset(gate) /\ init' = "none"
        /\ UNCHANGED <<timer, writer, projected, epoch, switch, content, observed, asked>>
    BY <1>4 DEF FailInit
  <2>2. excused' \in BOOLEAN
    BY <1>4, Zenon DEF FailInit, Excuse
  <2>3. Kept(gate', {})
    BY <1>1, <2>1, ResetSound
  <2> QED BY <1>1, <2>1, <2>2, <2>3, CallKeeps DEF TypeOK
<1>5. ASSUME NEW dirty \in BOOLEAN, PlanInit(dirty) PROVE GateInv'
  <2>1. gate' = Prepare(gate, dirty) /\ init' = "planned"
        /\ UNCHANGED <<timer, writer, projected, epoch, switch, content, history>>
    BY <1>5 DEF PlanInit
  <2>2. Kept(gate', {})
    BY <1>1, <2>1, PrepareSound
  <2> QED BY <1>1, <2>1, <2>2, CallKeeps DEF TypeOK, history
<1> QED BY <1>2, <1>3, <1>4, <1>5

LEMMA SwitchKeeps ==
  ASSUME GateInv,
         BeginSwitch \/ WriterCloses \/ ChangeRoot \/ CommitSwitch \/ FailSwitch
           \/ (\E dirty \in BOOLEAN : PlanSwitch(dirty))
  PROVE  GateInv'
<1>1. Sound(gate, {}) /\ Driven(gate) /\ TypeOK /\ Kept(gate, {})
  BY DEF GateInv, Kept
<1>2. CASE BeginSwitch
  <2>1. gate' = Prepare(Reset(gate), TRUE) /\ switch' = "begun"
        /\ projected' = None /\ asked' = FALSE
        /\ UNCHANGED <<timer, writer, init, content, observed>>
    BY <1>2 DEF BeginSwitch
  <2>2. epoch' \in 0..MaxEpoch
    BY <1>1, <1>2, GateAssumption DEF BeginSwitch, TypeOK
  <2>3. excused' \in BOOLEAN /\ asked' \in BOOLEAN
    BY <1>2, Zenon DEF BeginSwitch, Excuse
  <2>4. Sound(Reset(gate), {}) /\ Driven(Reset(gate)) /\ TRUE \in BOOLEAN
    BY <1>1, ResetSound DEF Kept
  <2>5. Kept(gate', {})
    BY <2>1, <2>4, PrepareSound
  <2> QED BY <1>1, <2>1, <2>2, <2>3, <2>5, CallKeeps DEF TypeOK
<1>3. CASE ChangeRoot
  <2>1. switch' = "moved"
        /\ UNCHANGED <<gate, timer, writer, projected, epoch, init, content, history>>
    BY <1>3 DEF ChangeRoot
  <2> QED BY <1>1, <2>1, CallKeeps DEF TypeOK, history
<1>4. CASE CommitSwitch
  <2>1. gate' = Finish(Open(gate)) /\ switch' = "none"
        /\ UNCHANGED <<timer, writer, projected, epoch, init, content, observed, asked>>
    BY <1>4 DEF CommitSwitch
  <2>2. excused' \in BOOLEAN
    BY <1>4, Zenon DEF CommitSwitch, Excuse
  <2>3. Kept(gate', {})
    BY <1>1, <2>1, OpenSound, FinishSound
  <2> QED BY <1>1, <2>1, <2>2, <2>3, CallKeeps DEF TypeOK
<1>5. CASE FailSwitch
  <2>1. gate' = Reset(gate) /\ switch' = "none"
        /\ UNCHANGED <<timer, writer, projected, epoch, init, content, observed, asked>>
    BY <1>5 DEF FailSwitch
  <2>2. excused' \in BOOLEAN
    BY <1>5, Zenon DEF FailSwitch, Excuse
  <2>3. Kept(gate', {})
    BY <1>1, <2>1, ResetSound
  <2> QED BY <1>1, <2>1, <2>2, <2>3, CallKeeps DEF TypeOK
<1>6. ASSUME NEW dirty \in BOOLEAN, PlanSwitch(dirty) PROVE GateInv'
  <2>1. gate' = Prepare(gate, dirty)
        /\ UNCHANGED <<timer, writer, projected, library, history>>
    BY <1>6 DEF PlanSwitch
  <2>2. Kept(gate', {})
    BY <1>1, <2>1, PrepareSound
  <2> QED BY <1>1, <2>1, <2>2, CallKeeps DEF TypeOK, library, history
<1>7. CASE WriterCloses
  <2>1. writer' \in Seq(Revisions \cup {None}) /\ Len(writer') <= 2
    <3>1. Len(writer) = 2 /\ writer' = <<Head(writer)>> /\ writer \in Seq(Revisions \cup {None})
      BY <1>1, <1>7 DEF WriterCloses, TypeOK
    <3>2. writer # <<>>
      BY <3>1, EmptySeq
    <3> QED BY <3>1, <3>2, WriterTakes
  <2> QED BY <1>7, <2>1, FailureKeeps DEF WriterCloses
<1> QED BY <1>2, <1>3, <1>4, <1>5, <1>6, <1>7

LEMMA StepKeeps == GateInv /\ [Next]_vars => GateInv'
<1> SUFFICES ASSUME GateInv, [Next]_vars PROVE GateInv'
  OBVIOUS
<1>1. CASE RunJob
  BY <1>1, RunJobKeeps
<1>2. CASE \E q \in Requests, k \in Kinds, rebuild \in BOOLEAN : Request(k, q, rebuild)
  BY <1>2, RequestKeeps
<1>3. CASE ChangeContent
  <2>1. content' \in Contents /\ asked' = FALSE
        /\ UNCHANGED <<gate, timer, writer, projected, epoch, switch, init, observed, excused>>
    BY <1>3 DEF ChangeContent
  <2>2. TypeOK /\ Kept(gate, {})
    BY DEF GateInv, Kept
  <2> QED BY <2>1, <2>2, CallKeeps DEF TypeOK
<1>4. CASE Boundary \/ FinishInit \/ FailInit \/ (\E dirty \in BOOLEAN : PlanInit(dirty))
  BY <1>4, InitializationKeeps
<1>5. CASE BeginSwitch \/ WriterCloses \/ ChangeRoot \/ CommitSwitch \/ FailSwitch
             \/ (\E dirty \in BOOLEAN : PlanSwitch(dirty))
  BY <1>5, SwitchKeeps
<1>6. CASE UNCHANGED vars
  BY <1>6, CallKeeps DEF vars, library, history, GateInv, TypeOK, Kept
<1> QED BY <1>1, <1>2, <1>3, <1>4, <1>5, <1>6 DEF Next

LEMMA Invariant == Spec => []GateInv
  BY InitEstablishes, StepKeeps, PTL DEF Spec

------------------------------------------------------------------------------
(* The theorems *)

\* The gate and what is kept around it have their types, and the queue holds a
\* job of each kind at the most.
THEOREM GateTypes == Spec => []TypeOK
  BY Invariant, PTL DEF GateInv

\* A waiter of a sound gate has one place, anyone else none.
LEMMA OnePlace ==
  ASSUME Sound(gate, {}), NEW q \in Requests
  PROVE  Cardinality(Places(q)) = IF q \in gate.waiting THEN 1 ELSE 0
<1> DEFINE P == Places(q)
<1>1. \A x : x \in P <=> \/ x \in Kinds /\ q \in gate.deferred[x].waiters
                         \/ x \in DOMAIN gate.queue /\ q \in gate.queue[x].waiters
                         \/ x = 0 /\ gate.active # None /\ q \in gate.active.waiters
  BY DEF Places
<1> HIDE DEF P
<1>2. q \in gate.waiting <=> \E x : x \in P
  <2>1. q \in gate.waiting <=> Holds(gate, q)
    BY DEF Sound, Accounted
  <2> QED BY <1>1, <2>1 DEF Holds
<1>3. \A x, y \in P : x = y
  BY <1>1 DEF Sound, Disjoint
<1>4. CASE q \in gate.waiting
  <2>1. PICK x : P = {x}
    BY <1>2, <1>3, <1>4
  <2> QED BY <1>4, <2>1, FS_Singleton DEF P
<1>5. CASE q \notin gate.waiting
  <2>1. P = {}
    BY <1>2, <1>5
  <2> QED BY <1>5, <2>1, FS_EmptySet DEF P
<1> QED BY <1>4, <1>5

\* No promise the gate has handed out is lost or held twice, through any order
\* of requests, opens, resets, ends and jobs; and no queued job is forgotten.
THEOREM WaitersHaveOnePlace == Spec => []EveryWaiterHasOnePlace
<1>1. GateInv => EveryWaiterHasOnePlace
  <2> SUFFICES ASSUME GateInv PROVE EveryWaiterHasOnePlace
    OBVIOUS
  <2>1. \A q \in Requests : Cardinality(Places(q)) = IF q \in gate.waiting THEN 1 ELSE 0
    BY OnePlace DEF GateInv
  <2> QED BY <2>1 DEF GateInv, Sound, OpenHoldsNone, Driven, EveryWaiterHasOnePlace
<1> QED BY <1>1, Invariant, PTL

------------------------------------------------------------------------------
(* What the gate reads last.  The waiters say nothing of it: the second    *)
(* invariant follows the jobs of the observed kind, what they carry and    *)
(* what they have read.                                                    *)

NotLater(rev, n) == rev = None \/ rev.epoch <= n

\* No request or job of the gate carries a revision of a later root.
Known(g, n) ==
    /\ g.active # None => NotLater(g.active.rev, n)
    /\ \A i \in DOMAIN g.queue : NotLater(g.queue[i].rev, n)
    /\ \A k \in Kinds : NotLater(g.deferred[k].rev, n)

\* A gate that drains nothing while a job runs.
Orderly(g) == g \in Gates /\ (g.drainScheduled => g.active = None)

\* h is g with jobs added to its queue, or to those that are in it.
Grown(g, h) ==
    /\ Orderly(h)
    /\ h.active = g.active /\ h.completed = g.completed
    /\ h.opened = g.opened /\ h.deferred = g.deferred
    /\ \A k \in Kinds : Queued(g, k) # {} => Queued(h, k) # {}

\* The search run whose sources are still to be handed to the index writer.
Live == observed = "search" /\ timer = epoch

\* A run of the observed kind that has read.
Reading ==
    /\ gate.active # None
    /\ gate.active.kind = observed
    /\ gate.active.read # None

\* What the last projection had read, or will have: for Search, once the index
\* writer has written what it has.
Latest ==
    IF observed = "search" /\ writer # <<>> THEN writer[Len(writer)] ELSE projected

\* Who asked, and is not excused, has what there is now projected, or is still
\* to have it: a job queued or deferred, a search run that has not read, a
\* snapshot that is to be written, or a run that has read just that; or that
\* will be excused when it succeeds.
Answered ==
    asked /\ ~excused =>
        \/ Pending(gate, observed)
        \/ Live
        \/ /\ Reading
           /\ \/ gate.active.read = Input
              \/ gate.active.rev \notin {None, gate.active.read}
        \/ ~Reading /\ Latest = Input

\* While nothing of the kind runs, the remembered revision is of what was
\* projected last or is to be, or of an earlier root.
Remembered ==
    ~excused /\ ~Live /\ ~Reading =>
        \/ gate.completed[observed] \in {None, Latest}
        \/ gate.completed[observed].epoch < epoch

\* A Usage run has read; a Search run that has not, and whose timer is gone,
\* is of an earlier root.
Unread ==
    gate.active # None =>
        /\ gate.active.kind = "usage" /\ observed = "usage" => gate.active.read # None
        /\ gate.active.kind = "search" /\ gate.active.read = None /\ timer # epoch =>
             gate.active.rev = None \/ gate.active.rev.epoch < epoch

\* The job that waits for a snapshot waits for the last one, and that is its own.
OwnLast ==
    AwaitsSnapshot /\ observed = "search" =>
        writer # <<>> /\ writer[Len(writer)] = gate.active.read

TimerOfRoot == timer # None => timer <= epoch /\ (timer = epoch => switch = "none")

\* The gate stays closed and empty while the root is switched.
ClosedBySwitch == switch # "none" => ~gate.opened /\ gate.queue = <<>>

CurrentInv ==
    /\ Answered
    /\ Remembered
    /\ Unread
    /\ OwnLast
    /\ TimerOfRoot
    /\ ClosedBySwitch
    /\ Known(gate, epoch)

LEMMA EnqueueGrows ==
  ASSUME NEW g, Orderly(g), NEW k \in Kinds, NEW rebuild \in BOOLEAN,
         NEW rev \in Revisions \cup {None}, NEW V \in SUBSET Requests
  PROVE  LET h == Enqueue(g, k, rebuild, rev, V)
         IN  /\ Grown(g, h) /\ Queued(h, k) # {}
             /\ \A n : Known(g, n) /\ NotLater(rev, n) => Known(h, n)
<1> DEFINE job == NewJob(k, rebuild, rev, V)
           merged == [i \in DOMAIN g.queue |->
                        IF g.queue[i].kind = k THEN Merged(g.queue[i], rebuild, rev, V)
                        ELSE g.queue[i]]
           s == IF Queued(g, k) # {} THEN merged ELSE Append(g.queue, job)
<1>1. g \in Gates /\ g.queue \in Seq(Jobs) /\ Len(g.queue) \in Nat
      /\ DOMAIN g.queue = 1..Len(g.queue) /\ \A i \in DOMAIN g.queue : g.queue[i] \in Jobs
  BY QueueDomain DEF Orderly
<1>2. /\ s \in Seq(Jobs)
      /\ \A i \in DOMAIN g.queue : i \in DOMAIN s /\ s[i].kind = g.queue[i].kind
      /\ \E i \in DOMAIN s : s[i].kind = k
      /\ \A i \in DOMAIN s : s[i].rev = rev \/ (i \in DOMAIN g.queue /\ s[i].rev = g.queue[i].rev)
  <2>1. CASE Queued(g, k) # {}
    <3>1. \A i \in DOMAIN g.queue :
            /\ merged[i] \in Jobs /\ merged[i].kind = g.queue[i].kind
            /\ merged[i].rev \in {rev, g.queue[i].rev}
      <4> SUFFICES ASSUME NEW i \in DOMAIN g.queue
                   PROVE  /\ merged[i] \in Jobs /\ merged[i].kind = g.queue[i].kind
                          /\ merged[i].rev \in {rev, g.queue[i].rev}
        OBVIOUS
      <4>1. (g.queue[i].rebuild \/ rebuild) \in BOOLEAN
        BY Zenon
      <4> QED BY <1>1, <4>1 DEF Jobs, Merged
    <3>2. merged \in [1..Len(g.queue) -> Jobs]
      BY <1>1, <3>1
    <3>3. s = merged
      BY <2>1
    <3>4. \E i \in DOMAIN g.queue : g.queue[i].kind = k
      BY <2>1 DEF Queued
    <3> HIDE DEF merged, s
    <3>5. s \in Seq(Jobs) /\ DOMAIN s = DOMAIN g.queue
      BY <1>1, <3>2, <3>3, SeqDef
    <3> QED BY <3>1, <3>3, <3>4, <3>5
  <2>2. CASE Queued(g, k) = {}
    <3>1. job \in Jobs /\ job.kind = k /\ job.rev = rev
      BY DEF Jobs, NewJob
    <3>2. s = Append(g.queue, job)
      BY <2>2
    <3> HIDE DEF job, s
    <3>3. /\ s \in Seq(Jobs) /\ DOMAIN s = 1..(Len(g.queue) + 1)
          /\ s[Len(g.queue) + 1] = job
          /\ \A i \in DOMAIN g.queue : s[i] = g.queue[i]
      BY <1>1, <3>1, <3>2, AppendProperties, LenProperties
    <3> QED BY <1>1, <3>1, <3>3
  <2> QED BY <2>1, <2>2
<1> DEFINE p == [g EXCEPT !.queue = s]
           h == RequestDrain(p)
<1>3. h = Enqueue(g, k, rebuild, rev, V)
  BY DEF Enqueue
<1> HIDE DEF s
<1>4. /\ p \in Gates /\ p.queue = s /\ p.opened = g.opened /\ p.deferred = g.deferred
      /\ p.active = g.active /\ p.completed = g.completed
      /\ p.drainScheduled => p.active = None
  BY <1>1, <1>2, WithQueue DEF Orderly
<1> HIDE DEF p
<1>5. /\ h \in Gates /\ h.queue = s /\ h.opened = g.opened /\ h.deferred = g.deferred
      /\ h.active = g.active /\ h.completed = g.completed /\ Driven(h)
  BY <1>4, Drained
<1> HIDE DEF h
<1>6. \A l \in Kinds : Queued(g, l) # {} => Queued(h, l) # {}
  BY <1>2, <1>5 DEF Queued
<1>7. Queued(h, k) # {}
  BY <1>2, <1>5 DEF Queued
<1>8. ASSUME NEW n, Known(g, n), NotLater(rev, n) PROVE Known(h, n)
  BY <1>2, <1>5, <1>8 DEF Known, NotLater
<1> QED BY <1>3, <1>5, <1>6, <1>7, <1>8 DEF Grown, Orderly, Driven

\* A gate that differs in other parts only.
LEMMA SameQueue ==
  ASSUME NEW g, NEW h \in Gates, Orderly(g), h.queue = g.queue, h.active = g.active,
         h.completed = g.completed, h.opened = g.opened, h.deferred = g.deferred,
         h.drainScheduled = g.drainScheduled
  PROVE  Grown(g, h) /\ \A n : Known(g, n) => Known(h, n)
  BY DEF Grown, Orderly, Known, Queued

LEMMA GrownTwice ==
  ASSUME NEW g, NEW h, NEW e, Grown(g, h), Grown(h, e)
  PROVE  Grown(g, e)
  BY DEF Grown

LEMMA SettleGrows ==
  ASSUME NEW g, NEW V, Orderly(g)
  PROVE  Grown(g, Settle(g, V)) /\ \A n : Known(g, n) => Known(Settle(g, V), n)
<1> DEFINE h == Settle(g, V)
<1>1. /\ h \in Gates /\ h.queue = g.queue /\ h.active = g.active /\ h.completed = g.completed
      /\ h.opened = g.opened /\ h.deferred = g.deferred /\ h.drainScheduled = g.drainScheduled
  BY DEF Orderly, Settle, Gates
<1> HIDE DEF h
<1>2. Grown(g, h) /\ \A n : Known(g, n) => Known(h, n)
  BY <1>1, SameQueue
<1> QED BY <1>2 DEF h

LEMMA EnqueueStartupGrows ==
  ASSUME NEW g, Orderly(g), NEW k \in Kinds, NEW rebuild \in BOOLEAN,
         NEW rev \in Revisions \cup {None}, NEW V \in SUBSET Requests
  PROVE  LET h == EnqueueStartup(g, k, rebuild, rev, V)
         IN  /\ Grown(g, h)
             /\ \A n : Known(g, n) /\ NotLater(rev, n) => Known(h, n)
<1>1. CASE k \in g.kindsRun
  BY <1>1, SettleGrows DEF EnqueueStartup
<1>2. CASE k \notin g.kindsRun
  <2> DEFINE p == [g EXCEPT !.kindsRun = @ \cup {k}]
             h == Enqueue(p, k, rebuild, rev, V)
  <2>1. /\ p \in Gates /\ p.queue = g.queue /\ p.opened = g.opened /\ p.deferred = g.deferred
        /\ p.active = g.active /\ p.completed = g.completed
        /\ p.drainScheduled = g.drainScheduled
    BY DEF Orderly, Gates
  <2>2. EnqueueStartup(g, k, rebuild, rev, V) = h
    BY <1>2 DEF EnqueueStartup
  <2> HIDE DEF p
  <2>3. Grown(g, p) /\ \A n : Known(g, n) => Known(p, n)
    BY <2>1, SameQueue
  <2>4. Grown(p, h) /\ \A n : Known(p, n) /\ NotLater(rev, n) => Known(h, n)
    <3>1. Orderly(p)
      BY <2>3 DEF Grown
    <3> QED BY <3>1, EnqueueGrows
  <2> HIDE DEF h
  <2>5. Grown(g, h)
    BY <2>3, <2>4, GrownTwice
  <2> QED BY <2>2, <2>3, <2>4, <2>5
<1> QED BY <1>1, <1>2

LEMMA PrepareGrows ==
  ASSUME NEW g, Orderly(g), NEW needed \in BOOLEAN
  PROVE  LET h == Prepare(g, needed)
         IN  /\ Grown(g, h)
             /\ ~g.opened => h.queue = g.queue
             /\ \A n : Known(g, n) => Known(h, n)
<1> DEFINE p == [g EXCEPT !.needed = TRUE]
           r == EnqueueStartup(p, "search", FALSE, None, {})
           t == EnqueueStartup(r, "usage", FALSE, None, {})
<1>1. /\ p \in Gates /\ p.queue = g.queue /\ p.opened = g.opened /\ p.deferred = g.deferred
      /\ p.active = g.active /\ p.completed = g.completed
      /\ p.drainScheduled = g.drainScheduled
  BY DEF Orderly, Gates
<1>2. /\ Prepare(g, needed) \in {g, p, t}
      /\ ~g.opened => Prepare(g, needed) \in {g, p}
  BY <1>1 DEF Prepare
<1> HIDE DEF p
<1>3. Grown(g, p) /\ \A n : Known(g, n) => Known(p, n)
  BY <1>1, SameQueue
<1>4. ASSUME NEW a, Orderly(a), NEW k \in Kinds
      PROVE  /\ Grown(a, EnqueueStartup(a, k, FALSE, None, {}))
             /\ \A n : Known(a, n) => Known(EnqueueStartup(a, k, FALSE, None, {}), n)
  <2>1. /\ {} \in SUBSET Requests /\ FALSE \in BOOLEAN /\ None \in Revisions \cup {None}
        /\ \A n : NotLater(None, n)
    BY DEF NotLater
  <2> QED BY <1>4, <2>1, EnqueueStartupGrows
<1>5. "search" \in Kinds /\ "usage" \in Kinds
  BY DEF Kinds
<1>6. Grown(p, r) /\ \A n : Known(p, n) => Known(r, n)
  BY <1>3, <1>4, <1>5 DEF Grown
<1> HIDE DEF r
<1>7. Grown(r, t) /\ \A n : Known(r, n) => Known(t, n)
  BY <1>4, <1>5, <1>6 DEF Grown
<1> HIDE DEF t
<1>8. Grown(g, t)
  BY <1>3, <1>6, <1>7, GrownTwice
<1>9. Grown(g, g)
  BY DEF Grown
<1> QED BY <1>1, <1>2, <1>3, <1>6, <1>7, <1>8, <1>9

LEMMA OpenOpens ==
  ASSUME NEW g, Orderly(g)
  PROVE  LET h == Open(g)
         IN  /\ Orderly(h)
             /\ h.active = g.active /\ h.completed = g.completed
             /\ \A n : Known(g, n) => Known(h, n)
<1> DEFINE d == g.deferred
           p == [g EXCEPT !.opened = TRUE, !.startupActive = TRUE, !.deferred = NewGate.deferred]
           S == d["search"].waiters
           U == d["usage"].waiters
<1>1. /\ S \in SUBSET Requests /\ U \in SUBSET Requests
      /\ d["search"].rev \in Revisions \cup {None} /\ d["usage"].rev \in Revisions \cup {None}
      /\ d["usage"].rebuild \in BOOLEAN /\ FALSE \in BOOLEAN /\ TRUE \in BOOLEAN
      /\ "search" \in Kinds /\ "usage" \in Kinds
  BY DEF Orderly, Gates, Kinds
<1>2. ASSUME NEW n, Known(g, n)
      PROVE  NotLater(d["search"].rev, n) /\ NotLater(d["usage"].rev, n)
  BY <1>1, <1>2 DEF Known
<1>3. /\ NewGate.deferred \in [Kinds -> [rebuild : BOOLEAN, rev : Revisions \cup {None},
                                         waiters : SUBSET Requests]]
      /\ \A k \in Kinds : NewGate.deferred[k].rev = None
  BY DEF NewGate
<1>4. /\ p \in Gates /\ p.queue = g.queue /\ p.active = g.active /\ p.completed = g.completed
      /\ p.drainScheduled = g.drainScheduled /\ p.deferred = NewGate.deferred
  BY <1>3 DEF Orderly, Gates
<1> HIDE DEF p
<1>5. Orderly(p) /\ \A n : Known(g, n) => Known(p, n)
  BY <1>3, <1>4 DEF Orderly, Known, NotLater
<1> DEFINE Good(h) == /\ Orderly(h) /\ h.active = g.active /\ h.completed = g.completed
                      /\ \A n : Known(g, n) => Known(h, n)
           r == EnqueueStartup(p, "search", FALSE, d["search"].rev, S)
           t == EnqueueStartup(r, "usage", d["usage"].rebuild, d["usage"].rev, U)
           v == Settle(p, S)
           u == [v EXCEPT !.kindsRun = @ \cup {"usage"}]
           e == Enqueue(u, "usage", TRUE, d["usage"].rev, U)
           f == Settle(p, S \cup U)
<1>6. Open(g) \in {g, t, e, f}
  BY DEF Open, p
<1> HIDE DEF S, U, d
<1>7. Good(g) /\ Good(p)
  BY <1>4, <1>5
<1>8. Good(t)
  <2>1. Grown(p, r) /\ \A n : Known(p, n) /\ NotLater(d["search"].rev, n) => Known(r, n)
    BY <1>1, <1>5, EnqueueStartupGrows
  <2> HIDE DEF r
  <2>2. Orderly(r)
    BY <2>1 DEF Grown
  <2>3. Grown(r, t) /\ \A n : Known(r, n) /\ NotLater(d["usage"].rev, n) => Known(t, n)
    BY <1>1, <2>2, EnqueueStartupGrows
  <2> HIDE DEF t
  <2> QED BY <1>2, <1>7, <2>1, <2>3 DEF Grown
<1>9. Grown(p, v) /\ \A n : Known(p, n) => Known(v, n)
  BY <1>5, SettleGrows
<1>10. Good(e)
  <2> HIDE DEF v
  <2>1. /\ u \in Gates /\ u.queue = v.queue /\ u.opened = v.opened /\ u.deferred = v.deferred
        /\ u.active = v.active /\ u.completed = v.completed
        /\ u.drainScheduled = v.drainScheduled
    BY <1>9 DEF Grown, Orderly, Gates, Kinds
  <2> HIDE DEF u
  <2>2. Grown(v, u) /\ \A n : Known(v, n) => Known(u, n)
    BY <1>9, <2>1, SameQueue DEF Grown
  <2>3. Orderly(u)
    BY <2>2 DEF Grown
  <2>4. Grown(u, e) /\ \A n : Known(u, n) /\ NotLater(d["usage"].rev, n) => Known(e, n)
    BY <1>1, <2>3, EnqueueGrows
  <2> HIDE DEF e
  <2> QED BY <1>2, <1>7, <1>9, <2>2, <2>4 DEF Grown
<1>11. Good(f)
  <2>1. Grown(p, f) /\ \A n : Known(p, n) => Known(f, n)
    BY <1>5, SettleGrows
  <2> HIDE DEF f
  <2> QED BY <1>7, <2>1 DEF Grown
<1> HIDE DEF t, e, f
<1>12. Good(Open(g))
  BY <1>6, <1>7, <1>8, <1>10, <1>11
<1> QED BY <1>12

LEMMA FinishSame ==
  ASSUME NEW g, Orderly(g)
  PROVE  LET h == Finish(g)
         IN  /\ Grown(g, h) /\ h.queue = g.queue /\ \A n : Known(g, n) => Known(h, n)
<1> DEFINE h == Finish(g)
<1>1. /\ h \in Gates /\ h.queue = g.queue /\ h.active = g.active /\ h.completed = g.completed
      /\ h.opened = g.opened /\ h.deferred = g.deferred /\ h.drainScheduled = g.drainScheduled
  BY DEF Orderly, Finish, Gates
<1> HIDE DEF h
<1>2. Grown(g, h) /\ \A n : Known(g, n) => Known(h, n)
  BY <1>1, SameQueue
<1> QED BY <1>1, <1>2 DEF h

LEMMA ResetEmpties ==
  ASSUME NEW g, Orderly(g)
  PROVE  LET h == Reset(g)
         IN  /\ Orderly(h) /\ ~h.opened /\ h.queue = <<>> /\ h.active = g.active
             /\ \A k \in Kinds : h.completed[k] = None
             /\ \A n : Known(g, n) => Known(h, n)
<1> DEFINE V == DeferredWaiters(g) \cup QueuedWaiters(g)
           f == Settle(Finish(g), V)
           h == Reset(g)
<1>1. f \in Gates /\ f.active = g.active /\ f.drainScheduled = g.drainScheduled
  <2> HIDE DEF V
  <2> QED BY DEF Orderly, Settle, Finish, Gates
<1>2. /\ NewGate.deferred \in [Kinds -> [rebuild : BOOLEAN, rev : Revisions \cup {None},
                                         waiters : SUBSET Requests]]
      /\ \A k \in Kinds : NewGate.deferred[k].rev = None
      /\ NewGate.completed \in [Kinds -> Revisions \cup {None}]
      /\ \A k \in Kinds : NewGate.completed[k] = None
  BY DEF NewGate
<1>3. <<>> \in Seq(Jobs) /\ DOMAIN <<>> = {}
  BY EmptySeq
<1>4. h = [f EXCEPT !.opened = FALSE, !.completed = NewGate.completed,
                    !.deferred = NewGate.deferred, !.queue = <<>>]
  BY DEF Reset
<1> HIDE DEF f, V, h
<1>5. /\ h \in Gates /\ ~h.opened /\ h.queue = <<>> /\ h.active = g.active
      /\ h.completed = NewGate.completed /\ h.deferred = NewGate.deferred
      /\ h.drainScheduled = g.drainScheduled
  BY <1>1, <1>2, <1>3, <1>4 DEF Gates
<1>6. \A n : Known(g, n) => Known(h, n)
  BY <1>2, <1>3, <1>5 DEF Known, NotLater
<1>7. Orderly(h)
  BY <1>5 DEF Orderly
<1>8. \A k \in Kinds : h.completed[k] = None
  BY <1>2, <1>5
<1> QED BY <1>5, <1>6, <1>7, <1>8 DEF h

LEMMA EndJobEnds ==
  ASSUME NEW g, Orderly(g), g.active # None, NEW succeeded \in BOOLEAN
  PROVE  LET h == EndJob(g, succeeded)
         IN  /\ h.active = None /\ h.queue = g.queue /\ h.opened = g.opened
             /\ h.deferred = g.deferred
             /\ \A k \in Kinds : h.completed[k] =
                  IF k = g.active.kind /\ succeeded /\ g.active.rev # None THEN g.active.rev
                  ELSE g.completed[k]
<1> DEFINE V == g.active.waiters
           k == g.active.kind
           rev == g.active.rev
           c == IF succeeded /\ rev # None THEN rev ELSE g.completed[k]
           n == [g.completed EXCEPT ![k] = c]
           p == [[g EXCEPT !.waiting = @ \ V] EXCEPT !.active = None, !.completed[k] =
                    IF succeeded /\ rev # None THEN rev ELSE @]
           h == RequestDrain(p)
<1>1. g \in Gates /\ g.active \in Jobs /\ g.completed \in [Kinds -> Revisions \cup {None}]
  BY DEF Orderly, Gates
<1>2. n \in [Kinds -> Revisions \cup {None}]
  BY <1>1 DEF Jobs
<1>3. /\ p \in Gates /\ p.queue = g.queue /\ p.opened = g.opened /\ p.deferred = g.deferred
      /\ p.active = None /\ p.completed = n
  <2>1. p = [[g EXCEPT !.waiting = @ \ V] EXCEPT !.active = None, !.completed = n]
    BY <1>1 DEF Gates
  <2> HIDE DEF n, V
  <2> QED BY <1>1, <1>2, <2>1 DEF Gates
<1>4. EndJob(g, succeeded) = h
  BY DEF EndJob, Settle
<1> HIDE DEF p
<1>5. /\ h.queue = p.queue /\ h.opened = p.opened /\ h.deferred = p.deferred
      /\ h.active = p.active /\ h.completed = p.completed
  BY <1>3, Drained
<1>6. \A l \in Kinds : n[l] = IF l = k /\ succeeded /\ rev # None THEN rev ELSE g.completed[l]
  BY <1>1
<1> HIDE DEF h
<1> QED BY <1>3, <1>4, <1>5, <1>6

\* The same run, whoever waits for it.
SameRun(g, h) ==
    /\ h.active # None <=> g.active # None
    /\ g.active # None => /\ h.active.kind = g.active.kind
                          /\ h.active.rev = g.active.rev
                          /\ h.active.read = g.active.read

\* A request is answered by what is remembered or dropped by the startup, and
\* not handed out; or it joins the running job; or it is queued or deferred.
LEMMA ScheduleAnswers ==
  ASSUME NEW g, Orderly(g), NEW k \in Kinds, NEW q \in Requests,
         NEW rebuild \in BOOLEAN, NEW rev \in Revisions
  PROVE  LET h == Schedule(g, k, q, rebuild, rev)
         IN  /\ SameRun(g, h) /\ h.completed = g.completed /\ h.opened = g.opened
             /\ ~g.opened => h.queue = g.queue
             /\ \A l \in Kinds : Pending(g, l) => Pending(h, l)
             /\ \A n : Known(g, n) /\ NotLater(rev, n) => Known(h, n)
             /\ q \notin h.waiting \/ Joins(g, k, rev) \/ Pending(h, k)
<1> DEFINE h == Schedule(g, k, q, rebuild, rev)
           w == Waiting(g, q)
           a == g.startupActive /\ ~rebuild
           p == [w EXCEPT !.kindsRun = IF a THEN @ \cup {k} ELSE @]
           Good(e) == /\ SameRun(g, e) /\ e.completed = g.completed /\ e.opened = g.opened
                      /\ ~g.opened => e.queue = g.queue
                      /\ \A l \in Kinds : Pending(g, l) => Pending(e, l)
                      /\ \A n : Known(g, n) /\ NotLater(rev, n) => Known(e, n)
                      /\ q \notin e.waiting \/ Joins(g, k, rev) \/ Pending(e, k)
<1> SUFFICES Good(h)
  OBVIOUS
<1>1. /\ w \in Gates /\ w.queue = g.queue /\ w.opened = g.opened /\ w.deferred = g.deferred
      /\ w.active = g.active /\ w.completed = g.completed
      /\ w.drainScheduled = g.drainScheduled
  BY DEF Orderly, Waiting, Gates
<1>2. \/ h = Settle(g, {q})
      \/ /\ h = [w EXCEPT !.active.waiters = @ \cup {q}]
         /\ Joins(g, k, rev)
      \/ /\ h = [w EXCEPT !.deferred[k] = [rebuild |-> @.rebuild \/ rebuild, rev |-> rev,
                                           waiters |-> @.waiters \cup {q}]]
         /\ ~g.opened
      \/ /\ h = Enqueue(p, k, rebuild, rev, {q})
         /\ g.opened
  BY DEF Schedule, w
<1> HIDE DEF w, h
<1>3. CASE h = Settle(g, {q})
  <2> DEFINE s == Settle(g, {q})
  <2>1. Grown(g, s) /\ \A n : Known(g, n) => Known(s, n)
    BY SettleGrows
  <2>2. q \notin s.waiting /\ s.queue = g.queue
    BY DEF Settle, Orderly, Gates
  <2> HIDE DEF s
  <2>3. Good(s)
    BY <2>1, <2>2 DEF Grown, SameRun, Pending
  <2> QED BY <1>3, <2>3 DEF s
<1>4. CASE h = [w EXCEPT !.active.waiters = @ \cup {q}] /\ Joins(g, k, rev)
  <2> DEFINE job == [w.active EXCEPT !.waiters = @ \cup {q}]
  <2>1. w.active # None /\ w.active \in Jobs
    BY <1>1, <1>4 DEF Joins, Gates
  <2>2. /\ job \in Jobs /\ job # None /\ job.kind = w.active.kind /\ job.rev = w.active.rev
        /\ job.read = w.active.read
    BY <2>1, GateAssumption DEF Jobs
  <2>3. h = [w EXCEPT !.active = job]
    BY <1>4
  <2> HIDE DEF job
  <2>4. /\ h.queue = g.queue /\ h.opened = g.opened /\ h.deferred = g.deferred
        /\ h.active = job /\ h.completed = g.completed
    BY <1>1, <2>3 DEF Gates
  <2>5. SameRun(g, h)
    BY <1>1, <2>1, <2>2, <2>4 DEF SameRun
  <2>6. \A n : Known(g, n) => Known(h, n)
    BY <1>1, <2>1, <2>2, <2>4 DEF Known
  <2>7. \A l \in Kinds : Pending(g, l) => Pending(h, l)
    BY <2>4 DEF Pending, Queued
  <2> QED BY <1>4, <2>4, <2>5, <2>6, <2>7
<1>5. CASE /\ h = [w EXCEPT !.deferred[k] = [rebuild |-> @.rebuild \/ rebuild, rev |-> rev,
                                             waiters |-> @.waiters \cup {q}]]
           /\ ~g.opened
  <2> DEFINE old == w.deferred[k]
             new == [rebuild |-> old.rebuild \/ rebuild, rev |-> rev,
                     waiters |-> old.waiters \cup {q}]
             deferred == [w.deferred EXCEPT ![k] = new]
  <2>1. h = [w EXCEPT !.deferred = deferred]
    BY <1>5
  <2>2. new.rev = rev /\ new.waiters = old.waiters \cup {q}
    OBVIOUS
  <2> HIDE DEF new
  <2>3. \A l \in Kinds : deferred[l] = IF l = k THEN new ELSE g.deferred[l]
    BY <1>1 DEF Gates
  <2> HIDE DEF deferred
  <2>4. /\ h.queue = g.queue /\ h.opened = g.opened /\ h.deferred = deferred
        /\ h.active = g.active /\ h.completed = g.completed
    BY <1>1, <2>1 DEF Gates
  <2>5. SameRun(g, h)
    BY <2>4 DEF SameRun
  <2>6. \A n : Known(g, n) /\ NotLater(rev, n) => Known(h, n)
    BY <2>2, <2>3, <2>4 DEF Known
  <2>7. Pending(h, k) /\ \A l \in Kinds : Pending(g, l) => Pending(h, l)
    BY <1>1, <2>2, <2>3, <2>4 DEF Pending, Queued
  <2> QED BY <2>4, <2>5, <2>6, <2>7
<1>6. CASE h = Enqueue(p, k, rebuild, rev, {q}) /\ g.opened
  <2>1. /\ p \in Gates /\ p.queue = w.queue /\ p.opened = w.opened /\ p.deferred = w.deferred
        /\ p.active = w.active /\ p.completed = w.completed
        /\ p.drainScheduled = w.drainScheduled
    <3> HIDE DEF a
    <3> QED BY <1>1 DEF Gates
  <2> HIDE DEF p
  <2>2. Grown(g, p) /\ \A n : Known(g, n) => Known(p, n)
    BY <1>1, <2>1, SameQueue
  <2>3. /\ Grown(p, h) /\ Queued(h, k) # {}
        /\ \A n : Known(p, n) /\ NotLater(rev, n) => Known(h, n)
    <3>1. Orderly(p) /\ {q} \in SUBSET Requests /\ rev \in Revisions \cup {None}
      BY <2>2 DEF Grown
    <3> QED BY <1>6, <3>1, EnqueueGrows
  <2>4. Grown(g, h)
    BY <2>2, <2>3, GrownTwice
  <2>5. Pending(h, k) /\ \A l \in Kinds : Pending(g, l) => Pending(h, l)
    BY <2>3, <2>4 DEF Grown, Pending
  <2>6. SameRun(g, h)
    BY <2>4 DEF Grown, SameRun
  <2> QED BY <1>6, <2>2, <2>3, <2>4, <2>5, <2>6 DEF Grown
<1> QED BY <1>2, <1>3, <1>4, <1>5, <1>6

\* The head of the queue becomes the running job, and no other kind leaves it.
LEMMA DrainTakes ==
  ASSUME NEW g, Orderly(g), g.queue # <<>>, NEW read \in Revisions \cup {None}
  PROVE  LET h == [[g EXCEPT !.drainScheduled = FALSE]
                      EXCEPT !.active = [Head(g.queue) EXCEPT !.read = read], !.queue = Tail(@)]
         IN  /\ Head(g.queue).kind \in Kinds
             /\ h.active # None /\ h.active.kind = Head(g.queue).kind /\ h.active.read = read
             /\ h.completed = g.completed /\ h.opened = g.opened
             /\ \A l \in Kinds : l # Head(g.queue).kind /\ Pending(g, l) => Pending(h, l)
             /\ \A n : Known(g, n) => Known(h, n)
<1> DEFINE job == [Head(g.queue) EXCEPT !.read = read]
           h == [[g EXCEPT !.drainScheduled = FALSE]
                    EXCEPT !.active = [Head(g.queue) EXCEPT !.read = read], !.queue = Tail(@)]
<1>1. g \in Gates /\ g.queue \in Seq(Jobs) /\ DOMAIN g.queue = 1..Len(g.queue)
      /\ Len(g.queue) \in Nat /\ Len(g.queue) >= 1
  BY QueueDomain DEF Orderly
<1>2. /\ Head(g.queue) = g.queue[1] /\ Head(g.queue) \in Jobs
      /\ Tail(g.queue) \in Seq(Jobs) /\ DOMAIN Tail(g.queue) = 1..(Len(g.queue) - 1)
      /\ \A i \in 1..(Len(g.queue) - 1) : Tail(g.queue)[i] = g.queue[i + 1]
  BY <1>1, HeadTailProperties, LenProperties
<1>3. /\ job \in Jobs /\ job # None /\ job.kind = g.queue[1].kind /\ job.rev = g.queue[1].rev
      /\ job.read = read
  BY <1>2, GateAssumption DEF Jobs
<1>4. /\ h.queue = Tail(g.queue) /\ h.opened = g.opened /\ h.deferred = g.deferred
      /\ h.active = job /\ h.completed = g.completed
  <2> HIDE DEF job
  <2>1. h = [[g EXCEPT !.drainScheduled = FALSE] EXCEPT !.active = job, !.queue = Tail(g.queue)]
    BY <1>1 DEF job, Gates
  <2> QED BY <1>1, <2>1 DEF Gates
<1> DEFINE n == Len(g.queue)
<1>5. /\ n \in Nat /\ n >= 1 /\ DOMAIN g.queue = 1..n /\ DOMAIN h.queue = 1..(n - 1)
      /\ \A i \in 1..(n - 1) : h.queue[i] = g.queue[i + 1]
  BY <1>1, <1>2, <1>4
<1> HIDE DEF n, h, job
<1>6. ASSUME NEW l \in Kinds, l # Head(g.queue).kind, Pending(g, l) PROVE Pending(h, l)
  <2>1. CASE g.deferred[l].waiters # {}
    BY <1>4, <2>1 DEF Pending
  <2>2. CASE Queued(g, l) # {}
    <3>1. PICK i \in DOMAIN g.queue : g.queue[i].kind = l
      BY <2>2 DEF Queued
    <3>2. i # 1
      BY <1>2, <1>6, <3>1
    <3>3. i - 1 \in DOMAIN h.queue /\ (i - 1) + 1 = i
      BY <1>5, <3>2
    <3>4. h.queue[i - 1].kind = l
      BY <1>5, <3>1, <3>3
    <3> QED BY <3>3, <3>4 DEF Pending, Queued
  <2> QED BY <1>6, <2>1, <2>2 DEF Pending
<1>7. ASSUME NEW m, Known(g, m) PROVE Known(h, m)
  <2>1. NotLater(h.active.rev, m)
    BY <1>3, <1>4, <1>5, <1>7 DEF Known
  <2>2. ASSUME NEW i \in DOMAIN h.queue PROVE NotLater(h.queue[i].rev, m)
    <3>1. i + 1 \in DOMAIN g.queue /\ h.queue[i] = g.queue[i + 1]
      BY <1>5
    <3> QED BY <1>7, <3>1 DEF Known
  <2> QED BY <1>4, <1>7, <2>1, <2>2 DEF Known
<1>8. /\ Head(g.queue).kind \in Kinds
      /\ h.active # None /\ h.active.kind = Head(g.queue).kind /\ h.active.read = read
      /\ h.completed = g.completed /\ h.opened = g.opened
  BY <1>2, <1>3, <1>4 DEF Jobs
<1> QED BY <1>6, <1>7, <1>8, Zenon DEF h

LEMMA InvariantTypes ==
  ASSUME GateInv
  PROVE  /\ Orderly(gate) /\ Input \in Revisions /\ Input # None
         /\ observed \in Kinds /\ epoch \in Nat /\ Input.epoch = epoch
         /\ timer \in Nat \cup {None} /\ epoch # None
         /\ writer \in Seq(Revisions \cup {None}) /\ Len(writer) <= 2
         /\ gate.active # None =>
              /\ gate.active.kind \in Kinds
              /\ gate.active.rev \in Revisions \cup {None}
              /\ gate.active.read \in Revisions \cup {None}
         /\ \A k \in Kinds : gate.completed[k] \in Revisions \cup {None}
         /\ \A rev \in Revisions : rev # None /\ rev.epoch \in Nat
<1>1. TypeOK /\ Driven(gate) /\ Input \in Revisions
  BY InputRevision DEF GateInv
<1>9. writer \in Seq(Revisions \cup {None}) /\ Len(writer) <= 2
  BY <1>1 DEF TypeOK
<1>2. epoch \in 0..MaxEpoch /\ timer \in 0..MaxEpoch \cup {None} /\ MaxEpoch \in Nat
  BY <1>1, GateAssumption DEF TypeOK
<1>3. Input.epoch = epoch
  BY DEF Input
<1>4. gate.active # None =>
        /\ gate.active.kind \in Kinds
        /\ gate.active.rev \in Revisions \cup {None}
        /\ gate.active.read \in Revisions \cup {None}
  BY <1>1 DEF TypeOK, Gates, Jobs
<1>5. Orderly(gate) /\ observed \in Kinds
  BY <1>1 DEF TypeOK, Orderly, Driven
<1>6. \A k \in Kinds : gate.completed[k] \in Revisions \cup {None}
  BY <1>1 DEF TypeOK, Gates
<1>7. \A rev \in Revisions : rev # None /\ rev.epoch \in Nat
  BY GateAssumption DEF Revisions
<1>8. epoch # None
  BY <1>2, GateAssumption
<1> QED BY <1>1, <1>2, <1>3, <1>4, <1>5, <1>6, <1>7, <1>8, <1>9

LEMMA InitCurrent == Init => CurrentInv
<1> SUFFICES ASSUME Init PROVE CurrentInv
  OBVIOUS
<1>1. /\ gate.active = None /\ gate.queue = <<>> /\ ~gate.opened
      /\ \A k \in Kinds : gate.completed[k] = None /\ gate.deferred[k].rev = None
      /\ timer = None /\ switch = "none" /\ ~asked /\ observed \in Kinds
  BY DEF Init, NewGate
<1> QED BY <1>1 DEF CurrentInv, Answered, Remembered, Unread, OwnLast, AwaitsSnapshot, TimerOfRoot,
                    ClosedBySwitch, Known, NotLater

\* A call on the gate that starts and ends no run: it may forget what is
\* remembered, and what it lets go of is excused.
LEMMA CallCurrent ==
  ASSUME GateInv, CurrentInv,
         UNCHANGED <<timer, writer, projected, epoch, content, observed, asked>>,
         SameRun(gate, gate'), Known(gate', epoch),
         gate'.completed[observed] \in {None, gate.completed[observed]},
         excused => excused',
         Pending(gate, observed) /\ ~Pending(gate', observed) => excused',
         TimerOfRoot', ClosedBySwitch'
  PROVE  CurrentInv'
<1>1. Reading' <=> Reading
  BY DEF Reading, SameRun
<1>2. Live' <=> Live
  BY DEF Live
<1>3. Input' = Input /\ Latest' = Latest
  BY DEF Input, Latest
<1>4. Answered'
  <2>1. Pending(gate', observed') <=> Pending(gate', observed)
    OBVIOUS
  <2> QED BY <1>1, <1>2, <1>3, <2>1 DEF CurrentInv, Answered, SameRun, Reading
<1>5. Remembered'
  BY <1>1, <1>2, <1>3 DEF CurrentInv, Remembered
<1>6. Unread'
  BY DEF CurrentInv, Unread, SameRun
<1>7. OwnLast'
  BY DEF CurrentInv, OwnLast, AwaitsSnapshot, SameRun
<1> QED BY <1>4, <1>5, <1>6, <1>7 DEF CurrentInv

LEMMA DrainCurrent == GateInv /\ CurrentInv /\ DrainOne => CurrentInv'
<1> SUFFICES ASSUME GateInv, CurrentInv, DrainOne PROVE CurrentInv'
  OBVIOUS
<1> USE InvariantTypes
<1>1. /\ UNCHANGED <<writer, projected, epoch, switch, content, observed, asked>>
      /\ Input' = Input /\ Latest' = Latest
  BY DEF DrainOne, library, Input, Latest
<1>2. CASE gate.queue = <<>>
  <2>1. gate' = [gate EXCEPT !.drainScheduled = FALSE] /\ UNCHANGED <<timer, excused>>
    BY <1>2 DEF DrainOne
  <2>2. /\ gate'.queue = gate.queue /\ gate'.active = gate.active
        /\ gate'.completed = gate.completed /\ gate'.opened = gate.opened
        /\ gate'.deferred = gate.deferred
    BY <2>1 DEF Orderly, Gates
  <2>3. SameRun(gate, gate') /\ Known(gate', epoch)
    BY <2>2 DEF SameRun, CurrentInv, Known
  <2>4. Pending(gate, observed) <=> Pending(gate', observed)
    BY <2>2 DEF Pending, Queued
  <2>5. TimerOfRoot' /\ ClosedBySwitch'
    BY <1>1, <2>1, <2>2 DEF CurrentInv, TimerOfRoot, ClosedBySwitch
  <2> QED BY <1>1, <2>1, <2>2, <2>3, <2>4, <2>5, CallCurrent
<1>3. CASE gate.queue # <<>>
  <2> DEFINE k == Head(gate.queue).kind
             read == IF k = "usage" THEN Noted(k) ELSE None
  <2>1. /\ gate' = [[gate EXCEPT !.drainScheduled = FALSE]
                      EXCEPT !.active = [Head(gate.queue) EXCEPT !.read = read], !.queue = Tail(@)]
        /\ timer' = IF k = "search" THEN epoch ELSE timer
        /\ excused' = (excused /\ ~(k = "usage" /\ observed = k))
        /\ gate.drainScheduled
    BY <1>3 DEF DrainOne
  <2>2. read \in Revisions \cup {None} /\ gate.active = None
    BY <2>1 DEF Orderly, Noted
  <2>3. /\ k \in Kinds
        /\ gate'.active # None /\ gate'.active.kind = k /\ gate'.active.read = read
        /\ gate'.completed = gate.completed /\ gate'.opened = gate.opened
        /\ \A l \in Kinds : l # k /\ Pending(gate, l) => Pending(gate', l)
        /\ \A n : Known(gate, n) => Known(gate', n)
    <3> HIDE DEF read
    <3>1. Orderly(gate)
      OBVIOUS
    <3>2. LET h == [[gate EXCEPT !.drainScheduled = FALSE]
                      EXCEPT !.active = [Head(gate.queue) EXCEPT !.read = read], !.queue = Tail(@)]
          IN  /\ k \in Kinds
              /\ h.active # None /\ h.active.kind = k /\ h.active.read = read
              /\ h.completed = gate.completed /\ h.opened = gate.opened
              /\ \A l \in Kinds : l # k /\ Pending(gate, l) => Pending(h, l)
              /\ \A n : Known(gate, n) => Known(h, n)
      BY <1>3, <2>2, <3>1, DrainTakes, Zenon
    <3> QED BY <2>1, <3>2, Zenon
  <2>4. switch = "none"
    BY <1>3 DEF CurrentInv, ClosedBySwitch
  <2>5. ~Reading
    BY <2>2 DEF Reading
  <2>6. Unread' /\ OwnLast' /\ TimerOfRoot' /\ ClosedBySwitch' /\ Known(gate', epoch')
    <3>1. Unread'
      BY <1>1, <2>1, <2>3 DEF Unread, Noted
    <3>3. OwnLast'
      BY <2>3 DEF OwnLast, AwaitsSnapshot, Kinds
    <3>2. TimerOfRoot'
      BY <1>1, <2>1, <2>4 DEF CurrentInv, TimerOfRoot
    <3> QED BY <1>1, <2>3, <2>4, <3>1, <3>2, <3>3 DEF CurrentInv, ClosedBySwitch
  <2>7. Answered' /\ Remembered'
    <3>1. CASE observed = k /\ k = "usage"
      <4>1. Reading' /\ gate'.active.read = Input'
        BY <1>1, <2>3, <3>1 DEF Reading, Noted
      <4> QED BY <4>1 DEF Answered, Remembered
    <3>2. CASE observed = k /\ k = "search"
      <4>1. Live'
        BY <1>1, <2>1, <3>2 DEF Live
      <4> QED BY <4>1 DEF Answered, Remembered
    <3>3. CASE observed # k
      <4>1. ~Reading' /\ (excused' <=> excused)
        BY <1>1, <2>1, <2>3, <3>3 DEF Reading
      <4>2. Live' <=> Live
        BY <1>1, <2>1, <2>3, <3>3 DEF Live, Kinds
      <4>3. Pending(gate, observed) => Pending(gate', observed')
        BY <1>1, <2>3, <3>3
      <4>4. Answered'
        BY <1>1, <2>5, <4>1, <4>2, <4>3 DEF CurrentInv, Answered
      <4>5. Remembered'
        BY <1>1, <2>3, <2>5, <4>1, <4>2 DEF CurrentInv, Remembered
      <4> QED BY <4>4, <4>5
    <3> QED BY <2>3, <3>1, <3>2, <3>3 DEF Kinds
  <2> QED BY <2>6, <2>7 DEF CurrentInv
<1> QED BY <1>2, <1>3

LEMMA TimerCurrent == GateInv /\ CurrentInv /\ TimerFires => CurrentInv'
<1> SUFFICES ASSUME GateInv, CurrentInv, TimerFires PROVE CurrentInv'
  OBVIOUS
<1> USE InvariantTypes
<1>1. /\ UNCHANGED <<epoch, switch, content, observed, asked>> /\ Input' = Input
      /\ timer # None /\ timer' = None
  BY DEF TimerFires, library, Input
<1>2. TimerOfRoot' /\ ~Live'
  BY <1>1 DEF TimerOfRoot, Live
<1>3. CASE switch = "none" /\ timer = epoch
  <2> DEFINE own == gate.active # None /\ gate.active.kind = "search"
  <2>1. /\ writer' \in Handed(writer, Noted("search")) /\ projected' = projected
        /\ gate' = IF own THEN [gate EXCEPT !.active.read = Input] ELSE gate
        /\ excused' = IF observed = "search"
                       THEN ~own /\ RemembersOther(gate, Input) ELSE excused
    BY <1>3 DEF TimerFires
  <2>8. writer' # <<>> /\ (observed = "search" => writer'[Len(writer')] = Input')
    <3>1. Noted("search") \in Revisions \cup {None} /\ (observed = "search" => Noted("search") = Input)
      BY DEF Noted
    <3> QED BY <1>1, <2>1, <3>1, HandedLast
  <2>2. /\ gate'.queue = gate.queue /\ gate'.completed = gate.completed
        /\ gate'.opened = gate.opened /\ gate'.deferred = gate.deferred
        /\ ~own => gate'.active = gate.active
        /\ own => /\ gate'.active # None
                  /\ gate'.active.kind = "search" /\ gate'.active.rev = gate.active.rev
                  /\ gate'.active.read = Input
    <3>1. CASE own
      <4> DEFINE job == [gate.active EXCEPT !.read = Input]
      <4>1. /\ job \in Jobs /\ job.kind = "search" /\ job.rev = gate.active.rev
            /\ job.read = Input
        BY <3>1 DEF Orderly, Gates, Jobs
      <4>2. job # None
        BY <4>1, GateAssumption
      <4>3. gate' = [gate EXCEPT !.active = job]
        BY <2>1, <3>1
      <4> HIDE DEF job
      <4> QED BY <3>1, <4>1, <4>2, <4>3 DEF Orderly, Gates
    <3> QED BY <2>1, <3>1
  <2> HIDE DEF own
  <2>3. \A l : Pending(gate, l) <=> Pending(gate', l)
    BY <2>2 DEF Pending, Queued
  <2>4. Known(gate', epoch')
    BY <1>1, <2>2 DEF CurrentInv, Known, own
  <2>5. ClosedBySwitch'
    BY <1>1, <2>2 DEF CurrentInv, ClosedBySwitch
  <2>6. Unread'
    <3>1. CASE own
      BY <2>2, <3>1 DEF Unread
    <3>2. CASE ~own
      BY <1>1, <2>2, <3>2 DEF CurrentInv, Unread, own
    <3> QED BY <3>1, <3>2
  <2>9. OwnLast'
    <3>1. CASE own
      BY <1>1, <2>2, <2>8, <3>1 DEF OwnLast
    <3>2. CASE ~own
      BY <2>2, <3>2 DEF OwnLast, AwaitsSnapshot, own
    <3> QED BY <3>1, <3>2
  <2>7. Answered' /\ Remembered'
    <3>1. CASE observed = "search" /\ own
      <4>1. Reading' /\ gate'.active.read = Input'
        BY <1>1, <2>2, <3>1 DEF Reading
      <4> QED BY <4>1 DEF Answered, Remembered
    <3>2. CASE observed = "search" /\ ~own
      <4>1. ~Reading' /\ Latest' = Input'
        BY <1>1, <2>2, <2>8, <3>2 DEF Reading, Latest, own
      <4>2. excused' \/ gate.completed["search"] \in {None, Input}
        BY <2>1, <3>2 DEF RemembersOther
      <4>3. Answered'
        BY <4>1 DEF Answered
      <4>4. Remembered'
        BY <1>1, <2>2, <3>2, <4>1, <4>2 DEF Remembered
      <4> QED BY <4>3, <4>4
    <3>3. CASE observed = "usage"
      <4>1. Reading' <=> Reading
        BY <1>1, <2>2, <3>3 DEF Reading, own
      <4>2. Reading => gate'.active = gate.active
        BY <2>2, <3>3 DEF Reading, own
      <4>3. ~Live /\ Latest' = Latest /\ excused' = excused
        BY <1>1, <2>1, <3>3 DEF Live, Latest
      <4>4. Answered'
        BY <1>1, <2>3, <4>1, <4>2, <4>3 DEF CurrentInv, Answered
      <4>5. Remembered'
        BY <1>1, <2>2, <4>1, <4>3 DEF CurrentInv, Remembered
      <4> QED BY <4>4, <4>5
    <3> QED BY <3>1, <3>2, <3>3 DEF Kinds
  <2> QED BY <1>2, <2>4, <2>5, <2>6, <2>7, <2>9 DEF CurrentInv
<1>4. CASE ~(switch = "none" /\ timer = epoch)
  <2>1. UNCHANGED <<gate, writer, projected, excused>> /\ Latest' = Latest
    BY <1>1, <1>4 DEF TimerFires, Latest
  <2>2. timer # epoch
    BY <1>1, <1>4 DEF CurrentInv, TimerOfRoot
  <2>3. ~Live /\ (Reading' <=> Reading)
    BY <1>1, <2>1, <2>2 DEF Live, Reading
  <2>4. Answered'
    BY <1>1, <1>2, <2>1, <2>3 DEF CurrentInv, Answered
  <2>5. Remembered'
    BY <1>1, <1>2, <2>1, <2>3 DEF CurrentInv, Remembered
  <2>6. Unread' /\ OwnLast' /\ ClosedBySwitch' /\ Known(gate', epoch')
    BY <1>1, <2>1, <2>2 DEF CurrentInv, Unread, OwnLast, AwaitsSnapshot, ClosedBySwitch
  <2> QED BY <1>2, <2>4, <2>5, <2>6 DEF CurrentInv
<1> QED BY <1>3, <1>4

\* The end of a Usage run, or of a Search job that has not read.
LEMMA EndCurrent ==
  ASSUME GateInv, CurrentInv, SiblingFires \/ UsageSucceeds \/ UsageFails
  PROVE  CurrentInv'
<1> USE InvariantTypes
<1> DEFINE job == gate.active
<1>1. /\ UNCHANGED <<timer, writer, epoch, switch, content, observed, asked>> /\ Input' = Input
      /\ job # None
  BY DEF SiblingFires, UsageSucceeds, UsageFails, library, history, Input
<1>2. /\ gate'.active = None /\ gate'.queue = gate.queue /\ gate'.opened = gate.opened
      /\ gate'.deferred = gate.deferred
      /\ \A k \in Kinds : gate'.completed[k] \in {gate.completed[k], job.rev}
      /\ \A k \in Kinds : k # job.kind => gate'.completed[k] = gate.completed[k]
      /\ gate'.completed[job.kind] # gate.completed[job.kind] => job.rev # None
      /\ UsageSucceeds /\ job.rev # None => gate'.completed[job.kind] = job.rev
  <2>1. \E b \in BOOLEAN : gate' = EndJob(gate, b) /\ (UsageSucceeds => b)
    BY DEF SiblingFires, UsageSucceeds, UsageFails
  <2> QED BY <1>1, <2>1, EndJobEnds
<1> HIDE DEF job
<1>3. /\ Known(gate', epoch') /\ Unread' /\ OwnLast' /\ TimerOfRoot' /\ ClosedBySwitch'
      /\ ~Reading'
  BY <1>1, <1>2 DEF CurrentInv, Known, Unread, OwnLast, AwaitsSnapshot, TimerOfRoot,
                    ClosedBySwitch, Reading
<1>4. (Live' <=> Live) /\ (Pending(gate', observed) <=> Pending(gate, observed))
  BY <1>1, <1>2 DEF Live, Pending, Queued
<1>5. CASE observed # job.kind
  <2>1. ~Reading /\ Latest' = Latest /\ (excused' <=> excused)
    <3>1. ~Reading
      BY <1>5 DEF Reading, job
    <3>2. projected' = projected
      BY <1>5 DEF SiblingFires, UsageSucceeds, UsageFails, history, job
    <3>3. excused' <=> excused
      <4>1. SiblingFires => (excused' <=> excused)
        BY DEF SiblingFires, history
      <4>2. UsageSucceeds => (excused' <=> excused)
        BY <1>5, Zenon DEF UsageSucceeds, job
      <4>3. UsageFails => (excused' <=> excused)
        BY <1>5, Zenon DEF UsageFails, job
      <4> QED BY <4>1, <4>2, <4>3
    <3> QED BY <1>1, <3>1, <3>2, <3>3 DEF Latest
  <2>2. gate'.completed[observed] = gate.completed[observed]
    BY <1>2, <1>5
  <2>3. Answered'
    BY <1>1, <1>3, <1>4, <2>1 DEF CurrentInv, Answered
  <2>4. Remembered'
    BY <1>1, <1>3, <1>4, <2>1, <2>2 DEF CurrentInv, Remembered
  <2> QED BY <1>3, <2>3, <2>4 DEF CurrentInv
<1>6. CASE observed = job.kind /\ SiblingFires
  <2>1. ~Reading /\ Latest' = Latest /\ excused' = excused
        /\ job.kind = "search" /\ job.read = None
    BY <1>1, <1>6 DEF Reading, SiblingFires, Latest, history, job
  <2>2. Answered'
    BY <1>1, <1>3, <1>4, <2>1 DEF CurrentInv, Answered
  <2>3. ~Live => job.rev = None \/ job.rev.epoch < epoch
    BY <1>1, <1>6, <2>1 DEF CurrentInv, Unread, Live, job
  <2>4. ~Live => \/ gate'.completed[observed] = gate.completed[observed]
                 \/ gate'.completed[observed].epoch < epoch
    BY <1>2, <1>6, <2>3
  <2>5. Remembered'
    BY <1>1, <1>3, <1>4, <2>1, <2>4 DEF CurrentInv, Remembered
  <2> QED BY <1>3, <2>2, <2>5 DEF CurrentInv
<1>7. CASE observed = job.kind /\ UsageSucceeds
  <2>1. /\ observed = "usage" /\ Latest' = job.read /\ job.read # None
        /\ (excused' <=> excused \/ gate'.completed[job.kind] \notin {None, job.read})
    <3>1. observed = "usage" /\ projected' = job.read
      BY <1>7 DEF UsageSucceeds, job
    <3>2. job.read # None
      BY <1>1, <1>7, <3>1 DEF CurrentInv, Unread, job
    <3>3. excused' <=> excused \/ gate'.completed[job.kind] \notin {None, job.read}
      BY <1>7, <3>1, Zenon DEF UsageSucceeds, job
    <3> QED BY <1>1, <3>1, <3>2, <3>3 DEF Latest
  <2>4. Reading
    BY <1>1, <1>7, <2>1 DEF Reading, job
  <2>2. Answered'
    BY <1>1, <1>2, <1>3, <1>4, <1>7, <2>1, <2>4 DEF CurrentInv, Answered, job
  <2>3. Remembered'
    BY <1>1, <1>3, <1>7, <2>1 DEF Remembered
  <2> QED BY <1>3, <2>2, <2>3 DEF CurrentInv
<1>8. CASE observed = job.kind /\ UsageFails
  <2>1. excused'
    BY <1>8 DEF UsageFails, job
  <2> QED BY <1>3, <2>1 DEF CurrentInv, Answered, Remembered
<1> QED BY <1>5, <1>6, <1>7, <1>8

\* The job that waits for a snapshot has read, and is of the observed kind when
\* that is Search.
LEMMA AwaitedRead ==
  ASSUME observed = "search"
  PROVE  AwaitsSnapshot <=> Reading
  BY DEF AwaitsSnapshot, Reading

\* What a job that waits for a snapshot leaves when it ends, and what there is
\* when none does.
LEMMA SnapshotEnds ==
  ASSUME GateInv, CurrentInv, NEW b \in BOOLEAN,
         gate' = IF AwaitsSnapshot THEN EndJob(gate, b) ELSE gate,
         UNCHANGED <<timer, epoch, switch, content, observed, asked>>
  PROVE  /\ Known(gate', epoch') /\ Unread' /\ OwnLast' /\ TimerOfRoot' /\ ClosedBySwitch'
         /\ ~AwaitsSnapshot' /\ (Live' <=> Live)
         /\ Pending(gate', observed) <=> Pending(gate, observed)
         /\ gate'.completed["usage"] = gate.completed["usage"]
         /\ AwaitsSnapshot /\ b /\ gate.active.rev # None =>
              gate'.completed["search"] = gate.active.rev
         /\ ~AwaitsSnapshot => gate' = gate
         /\ observed = "usage" => (Reading' <=> Reading) /\ (Reading => gate' = gate)
<1> USE InvariantTypes
<1>1. CASE AwaitsSnapshot
  <2>1. gate.active # None /\ gate.active.kind = "search" /\ gate' = EndJob(gate, b)
    BY <1>1 DEF AwaitsSnapshot
  <2>2. /\ gate'.active = None /\ gate'.queue = gate.queue /\ gate'.opened = gate.opened
        /\ gate'.deferred = gate.deferred
        /\ \A k \in Kinds : gate'.completed[k] =
             IF k = "search" /\ b /\ gate.active.rev # None THEN gate.active.rev
             ELSE gate.completed[k]
    BY <2>1, EndJobEnds
  <2>3. /\ Known(gate', epoch') /\ Unread' /\ ~AwaitsSnapshot' /\ TimerOfRoot'
        /\ ClosedBySwitch'
    BY <2>2 DEF CurrentInv, Known, Unread, AwaitsSnapshot, TimerOfRoot, ClosedBySwitch
  <2>4. (Live' <=> Live) /\ (Pending(gate', observed) <=> Pending(gate, observed))
    BY <2>2 DEF Live, Pending, Queued
  <2>5. observed = "usage" => ~Reading /\ ~Reading'
    BY <2>1, <2>2 DEF Reading
  <2>6. gate'.completed["usage"] = gate.completed["usage"]
        /\ (b /\ gate.active.rev # None => gate'.completed["search"] = gate.active.rev)
    BY <2>2 DEF Kinds
  <2> QED BY <1>1, <2>3, <2>4, <2>5, <2>6 DEF OwnLast
<1>2. CASE ~AwaitsSnapshot
  <2>1. gate' = gate
    BY <1>2
  <2>2. /\ Known(gate', epoch') /\ Unread' /\ ~AwaitsSnapshot' /\ TimerOfRoot'
        /\ ClosedBySwitch' /\ (Live' <=> Live) /\ (Reading' <=> Reading)
    BY <1>2, <2>1 DEF CurrentInv, Unread, AwaitsSnapshot, TimerOfRoot, ClosedBySwitch, Live,
                      Reading
  <2> QED BY <1>2, <2>1, <2>2 DEF OwnLast
<1> QED BY <1>1, <1>2

LEMMA FailureCurrent ==
  ASSUME GateInv, CurrentInv, LastSnapshotFails
  PROVE  CurrentInv'
<1> USE InvariantTypes
<1>1. /\ UNCHANGED <<timer, projected, epoch, switch, content, observed, asked>>
      /\ gate' = IF AwaitsSnapshot THEN EndJob(gate, FALSE) ELSE gate
      /\ excused' = (excused \/ observed = "search")
  BY DEF LastSnapshotFails, library
<1>2. /\ Known(gate', epoch') /\ Unread' /\ OwnLast' /\ TimerOfRoot' /\ ClosedBySwitch'
      /\ (Live' <=> Live) /\ (Pending(gate', observed) <=> Pending(gate, observed))
      /\ gate'.completed["usage"] = gate.completed["usage"]
      /\ observed = "usage" => (Reading' <=> Reading) /\ (Reading => gate' = gate)
  BY <1>1, SnapshotEnds
<1>3. CASE observed = "search"
  <2>1. excused'
    BY <1>1, <1>3
  <2> QED BY <1>2, <2>1 DEF CurrentInv, Answered, Remembered
<1>4. CASE observed = "usage"
  <2>1. (excused' <=> excused) /\ Latest' = Latest /\ Input' = Input
    BY <1>1, <1>4 DEF Latest, Input
  <2>2. Answered'
    BY <1>1, <1>2, <1>4, <2>1 DEF CurrentInv, Answered
  <2>3. Remembered'
    BY <1>1, <1>2, <1>4, <2>1 DEF CurrentInv, Remembered
  <2> QED BY <1>2, <2>2, <2>3 DEF CurrentInv
<1> QED BY <1>3, <1>4 DEF Kinds

\* Another snapshot is still to come: the last one is the same.
LEMMA EarlierCurrent ==
  ASSUME GateInv, CurrentInv, writer # <<>>, writer' = Tail(writer), writer' # <<>>,
         UNCHANGED <<gate, timer, epoch, switch, content, observed, asked, excused>>,
         observed = "usage" => UNCHANGED projected
  PROVE  CurrentInv'
<1>1. observed \in Kinds /\ writer'[Len(writer')] = writer[Len(writer)]
  BY InvariantTypes, WriterTakes
<1>2. Latest' = Latest /\ Input' = Input /\ (Live' <=> Live) /\ (Reading' <=> Reading)
  BY <1>1 DEF Latest, Input, Live, Reading, Kinds
<1>3. Answered' /\ Remembered'
  BY <1>2 DEF CurrentInv, Answered, Remembered
<1>4. OwnLast'
  BY <1>1 DEF CurrentInv, OwnLast, AwaitsSnapshot
<1> QED BY <1>3, <1>4 DEF CurrentInv, Unread, TimerOfRoot, ClosedBySwitch

LEMMA SnapshotCurrent ==
  ASSUME GateInv, CurrentInv, SnapshotWritten \/ SnapshotFails \/ DatabaseBusy
  PROVE  CurrentInv'
<1> USE InvariantTypes
<1>1. CASE DatabaseBusy \/ (SnapshotFails /\ writer' = <<>>)
  BY <1>1, FailureCurrent DEF DatabaseBusy, SnapshotFails
<1>2. CASE SnapshotFails /\ writer' # <<>>
  BY <1>2, EarlierCurrent DEF SnapshotFails, library, history
<1>3. CASE SnapshotWritten /\ writer' # <<>>
  <2>1. excused' <=> excused
    BY <1>3, Zenon DEF SnapshotWritten
  <2>2. excused \in BOOLEAN /\ excused' \in BOOLEAN
    <3>1. excused \in BOOLEAN
      BY DEF GateInv, TypeOK
    <3>2. excused' \in BOOLEAN
      BY <1>3, Zenon DEF SnapshotWritten
    <3> QED BY <3>1, <3>2
  <2>3. excused' = excused
    BY <2>1, <2>2, Zenon
  <2> QED BY <1>3, <2>3, EarlierCurrent DEF SnapshotWritten, library
<1>4. CASE SnapshotWritten /\ writer' = <<>>
  <2>1. /\ UNCHANGED <<timer, epoch, switch, content, observed, asked>> /\ Input' = Input
        /\ writer # <<>> /\ Tail(writer) = <<>>
        /\ projected' = IF observed = "search" THEN Head(writer) ELSE projected
        /\ gate' = IF AwaitsSnapshot THEN EndJob(gate, TRUE) ELSE gate
    BY <1>4 DEF SnapshotWritten, library, Input
  <2>2. excused' <=> excused \/ RemembersOther(gate', Head(writer))
    BY <1>4, Zenon DEF SnapshotWritten
  <2>3. /\ Known(gate', epoch') /\ Unread' /\ OwnLast' /\ TimerOfRoot' /\ ClosedBySwitch'
        /\ ~AwaitsSnapshot' /\ (Live' <=> Live)
        /\ Pending(gate', observed) <=> Pending(gate, observed)
        /\ gate'.completed["usage"] = gate.completed["usage"]
        /\ AwaitsSnapshot /\ gate.active.rev # None =>
             gate'.completed["search"] = gate.active.rev
        /\ ~AwaitsSnapshot => gate' = gate
        /\ observed = "usage" => (Reading' <=> Reading) /\ (Reading => gate' = gate)
    BY <2>1, SnapshotEnds
  <2>4. Head(writer) = writer[Len(writer)]
    BY <2>1, WriterTakes
  <2>5. CASE observed = "search"
    <3>1. /\ Latest = Head(writer) /\ Latest' = Head(writer)
          /\ ~Reading'
          /\ excused' \/ gate'.completed["search"] \in {None, Head(writer)}
      <4>1. ~Reading'
        BY <2>1, <2>3, <2>5 DEF Reading, AwaitsSnapshot
      <4>2. Latest = Head(writer) /\ Latest' = Head(writer)
        BY <1>4, <2>1, <2>4, <2>5 DEF Latest
      <4>3. excused' \/ gate'.completed["search"] \in {None, Head(writer)}
        BY <2>2, <2>5 DEF RemembersOther
      <4> QED BY <4>1, <4>2, <4>3
    <3>2. Remembered'
      BY <2>1, <2>5, <3>1 DEF Remembered
    <3>3. Answered'
      <4>1. CASE AwaitsSnapshot
        <5>1. Reading /\ gate.active.read = Head(writer)
          BY <2>4, <2>5, <4>1, AwaitedRead DEF CurrentInv, OwnLast
        <5> QED BY <2>1, <2>2, <2>3, <2>5, <3>1, <4>1, <5>1 DEF CurrentInv, Answered
      <4>2. CASE ~AwaitsSnapshot
        <5>1. ~Reading
          BY <2>5, <4>2, AwaitedRead
        <5> QED BY <2>1, <2>2, <2>3, <2>5, <3>1, <5>1 DEF CurrentInv, Answered
      <4> QED BY <4>1, <4>2
    <3> QED BY <2>3, <3>2, <3>3 DEF CurrentInv
  <2>6. CASE observed = "usage"
    <3>1. (excused' <=> excused) /\ Latest' = Latest
      BY <2>1, <2>2, <2>6 DEF Latest, RemembersOther
    <3>2. Answered'
      BY <2>1, <2>3, <2>6, <3>1 DEF CurrentInv, Answered
    <3>3. Remembered'
      BY <2>1, <2>3, <2>6, <3>1 DEF CurrentInv, Remembered
    <3> QED BY <2>3, <3>2, <3>3 DEF CurrentInv
  <2> QED BY <2>5, <2>6 DEF Kinds
<1> QED BY <1>1, <1>2, <1>3, <1>4

LEMMA RequestCurrent ==
  ASSUME GateInv, CurrentInv, NEW q \in Requests, NEW k \in Kinds, NEW rebuild \in BOOLEAN,
         Request(k, q, rebuild)
  PROVE  CurrentInv'
<1> USE InvariantTypes
<1>1. /\ UNCHANGED <<timer, writer, projected, epoch, switch, content, observed>> /\ Input' = Input
      /\ gate' = Schedule(gate, k, q, rebuild, Input)
      /\ asked' = (asked \/ observed = k)
      /\ excused' = (excused \/ /\ observed = k
                                /\ q \notin gate'.waiting
                                /\ gate.completed[k] # Input \/ Busy(k))
  BY DEF Request, Ask, library, Input
<1>2. /\ SameRun(gate, gate') /\ gate'.completed = gate.completed /\ gate'.opened = gate.opened
      /\ ~gate.opened => gate'.queue = gate.queue
      /\ \A l \in Kinds : Pending(gate, l) => Pending(gate', l)
      /\ \A n : Known(gate, n) /\ NotLater(Input, n) => Known(gate', n)
      /\ q \notin gate'.waiting \/ Joins(gate, k, Input) \/ Pending(gate', k)
  BY <1>1, ScheduleAnswers
<1>3. NotLater(Input, epoch)
  BY DEF NotLater
<1>4. Known(gate', epoch') /\ TimerOfRoot' /\ ClosedBySwitch'
  BY <1>1, <1>2, <1>3 DEF CurrentInv, TimerOfRoot, ClosedBySwitch
<1>5. (Reading' <=> Reading) /\ (Live' <=> Live)
  BY <1>1, <1>2 DEF Reading, Live, SameRun
<1>6. Unread' /\ OwnLast' /\ Latest' = Latest
  BY <1>1, <1>2 DEF CurrentInv, Unread, OwnLast, AwaitsSnapshot, Latest, SameRun
<1>7. excused => excused'
  BY <1>1, Zenon
<1>8. Remembered'
  BY <1>1, <1>2, <1>5, <1>6, <1>7 DEF CurrentInv, Remembered
<1>9. Answered'
  <2> SUFFICES ASSUME asked', ~excused', ~Pending(gate', observed), ~Live
               PROVE  \/ /\ Reading
                         /\ \/ gate.active.read = Input
                            \/ gate.active.rev \notin {None, gate.active.read}
                      \/ ~Reading /\ Latest = Input
    BY <1>1, <1>2, <1>5, <1>6 DEF Answered, SameRun, Reading
  <2>1. CASE observed # k
    <3>1. asked
      BY <1>1, <2>1, Zenon
    <3> QED BY <1>2, <1>7, <3>1 DEF CurrentInv, Answered
  <2>2. CASE observed = k /\ Joins(gate, k, Input)
    <3>1. gate.active # None /\ gate.active.kind = k /\ gate.active.rev = Input
      BY <2>2 DEF Joins
    <3>2. gate.active.read # None
      <4>1. k = "usage" \/ (k = "search" /\ timer # epoch)
        BY <2>2 DEF Live, Kinds
      <4> QED BY <2>2, <3>1, <4>1 DEF CurrentInv, Unread
    <3> QED BY <2>2, <3>1, <3>2 DEF Reading
  <2>3. CASE observed = k /\ q \notin gate'.waiting
    <3>1. gate.completed[k] = Input /\ ~Busy(k)
      BY <1>1, <2>3, Zenon
    <3>2. ~Reading
      BY <2>3, <3>1 DEF Reading, Busy
    <3>3. gate.completed[observed] \in {None, Latest} \/ gate.completed[observed].epoch < epoch
      BY <1>7, <3>2 DEF CurrentInv, Remembered
    <3> QED BY <2>3, <3>1, <3>2, <3>3
  <2> QED BY <1>2, <2>1, <2>2, <2>3
<1> QED BY <1>4, <1>6, <1>8, <1>9 DEF CurrentInv

LEMMA ContentCurrent == GateInv /\ CurrentInv /\ ChangeContent => CurrentInv'
<1> SUFFICES ASSUME GateInv, CurrentInv, ChangeContent PROVE CurrentInv'
  OBVIOUS
<1>1. /\ asked' = FALSE
      /\ UNCHANGED <<gate, timer, writer, projected, epoch, switch, init, observed, excused>>
  BY DEF ChangeContent
<1>2. Answered'
  BY <1>1 DEF Answered
<1>3. Remembered'
  BY <1>1 DEF CurrentInv, Remembered, Live, Reading, Latest
<1> QED BY <1>1, <1>2, <1>3 DEF CurrentInv, Unread, OwnLast, AwaitsSnapshot, TimerOfRoot,
                                ClosedBySwitch

LEMMA InitializationCurrent ==
  ASSUME GateInv, CurrentInv,
         Boundary \/ FinishInit \/ FailInit \/ (\E dirty \in BOOLEAN : PlanInit(dirty))
  PROVE  CurrentInv'
<1>1. /\ Orderly(gate) /\ observed \in Kinds /\ Known(gate, epoch)
      /\ gate.completed[observed] \in {None, gate.completed[observed]}
  BY InvariantTypes DEF CurrentInv
<1>2. /\ UNCHANGED <<timer, writer, projected, epoch, switch, content, observed, asked>>
      /\ excused => excused'
  <2>1. UNCHANGED <<timer, writer, projected, epoch, switch, content, observed, asked>>
    BY DEF Boundary, FinishInit, FailInit, PlanInit, history
  <2>2. \/ excused' = Excuse(gate, gate')
        \/ excused' = excused
    BY DEF Boundary, FinishInit, FailInit, PlanInit, history
  <2>3. excused => excused'
    BY <2>2, Zenon DEF Excuse
  <2> QED BY <2>1, <2>3
<1>3. TimerOfRoot'
  BY <1>2 DEF CurrentInv, TimerOfRoot
<1>4. CASE Boundary
  <2>1. CASE switch = "none"
    <3>1. gate' = Open(gate)
      BY <1>4, <2>1 DEF Boundary
    <3>2. Orderly(gate') /\ gate'.active = gate.active /\ gate'.completed = gate.completed
          /\ Known(gate', epoch)
      BY <1>1, <3>1, OpenOpens
    <3>3. SameRun(gate, gate') /\ ClosedBySwitch'
      BY <1>2, <2>1, <3>2 DEF SameRun, ClosedBySwitch
    <3>4. Pending(gate, observed) /\ ~Pending(gate', observed) => excused'
      BY <1>4, Zenon DEF Boundary, Excuse
    <3> QED BY <1>1, <1>2, <1>3, <3>2, <3>3, <3>4, CallCurrent
  <2>2. CASE switch # "none"
    <3>1. gate' = gate
      BY <1>4, <2>2 DEF Boundary
    <3>2. SameRun(gate, gate') /\ ClosedBySwitch'
      BY <1>2, <3>1 DEF SameRun, ClosedBySwitch, CurrentInv
    <3> QED BY <1>1, <1>2, <1>3, <3>1, <3>2, CallCurrent
  <2> QED BY <2>1, <2>2
<1>5. ASSUME Grown(gate, gate'), Known(gate', epoch), ~gate.opened => gate'.queue = gate.queue
      PROVE  CurrentInv'
  <2>1. Pending(gate, observed) => Pending(gate', observed)
    BY <1>1, <1>5 DEF Grown, Pending
  <2>2. SameRun(gate, gate') /\ ClosedBySwitch'
    BY <1>2, <1>5 DEF SameRun, ClosedBySwitch, CurrentInv, Grown
  <2>3. gate'.completed[observed] \in {None, gate.completed[observed]}
    BY <1>5 DEF Grown
  <2> QED BY <1>1, <1>2, <1>3, <1>5, <2>1, <2>2, <2>3, CallCurrent
<1>6. CASE FinishInit
  <2>1. gate' = Finish(gate)
    BY <1>6 DEF FinishInit
  <2> QED BY <1>1, <1>5, <2>1, FinishSame
<1>7. CASE FailInit
  <2>1. gate' = Reset(gate)
    BY <1>7 DEF FailInit
  <2>2. /\ ~gate'.opened /\ gate'.queue = <<>> /\ gate'.active = gate.active
        /\ gate'.completed[observed] = None /\ Known(gate', epoch)
    BY <1>1, <2>1, ResetEmpties
  <2>3. SameRun(gate, gate') /\ ClosedBySwitch'
    BY <2>2 DEF SameRun, ClosedBySwitch
  <2>4. Pending(gate, observed) /\ ~Pending(gate', observed) => excused'
    BY <1>7, Zenon DEF FailInit, Excuse
  <2> QED BY <1>1, <1>2, <1>3, <2>2, <2>3, <2>4, CallCurrent
<1>8. ASSUME NEW dirty \in BOOLEAN, PlanInit(dirty) PROVE CurrentInv'
  <2>1. gate' = Prepare(gate, dirty)
    BY <1>8 DEF PlanInit
  <2> QED BY <1>1, <1>5, <2>1, PrepareGrows
<1> QED BY <1>4, <1>6, <1>7, <1>8

LEMMA SwitchCurrent ==
  ASSUME GateInv, CurrentInv,
         BeginSwitch \/ WriterCloses \/ ChangeRoot \/ CommitSwitch \/ FailSwitch
           \/ (\E dirty \in BOOLEAN : PlanSwitch(dirty))
  PROVE  CurrentInv'
<1>1. /\ Orderly(gate) /\ observed \in Kinds /\ Known(gate, epoch)
      /\ gate.completed[observed] \in {None, gate.completed[observed]}
  BY InvariantTypes DEF CurrentInv
<1>2. CASE BeginSwitch
  <2>1. /\ epoch' = epoch + 1 /\ switch = "none" /\ switch' = "begun" /\ asked' = FALSE
        /\ gate' = Prepare(Reset(gate), TRUE)
        /\ UNCHANGED <<timer, writer, init, content, observed>>
    BY <1>2 DEF BeginSwitch
  <2>2. /\ Orderly(Reset(gate)) /\ ~Reset(gate).opened /\ Reset(gate).queue = <<>>
        /\ Reset(gate).active = gate.active /\ Reset(gate).completed[observed] = None
        /\ Known(Reset(gate), epoch)
    BY <1>1, ResetEmpties
  <2>3. /\ ~gate'.opened /\ gate'.queue = <<>> /\ gate'.active = gate.active
        /\ gate'.completed[observed] = None /\ Known(gate', epoch)
    <3>1. TRUE \in BOOLEAN
      OBVIOUS
    <3>2. /\ Grown(Reset(gate), gate') /\ gate'.queue = Reset(gate).queue
          /\ Known(gate', epoch)
      BY <2>1, <2>2, <3>1, PrepareGrows
    <3> QED BY <2>2, <3>2 DEF Grown
  <2>4. ClosedBySwitch' /\ Answered' /\ Remembered'
    BY <2>1, <2>3 DEF ClosedBySwitch, Answered, Remembered
  <2>5. epoch \in Nat /\ (timer # None => timer \in Nat /\ timer < epoch')
    BY <2>1, InvariantTypes DEF CurrentInv, TimerOfRoot
  <2>6. TimerOfRoot'
    BY <2>1, <2>5 DEF TimerOfRoot
  <2>7. gate.active # None =>
          /\ gate.active.rev \in Revisions \cup {None}
          /\ gate.active.rev # None => gate.active.rev.epoch \in Nat
    BY InvariantTypes
  <2>8. Known(gate', epoch')
    <3>1. ASSUME NEW rev, NotLater(rev, epoch), rev # None => rev.epoch \in Nat
          PROVE  NotLater(rev, epoch')
      BY <2>1, <2>5, <3>1 DEF NotLater
    <3>2. /\ gate' \in Gates /\ DOMAIN gate'.queue = {}
      BY <1>2, <2>3, StepKeeps, QueueDomain DEF Next, GateInv, TypeOK
    <3>3. \A k \in Kinds : gate'.deferred[k].rev # None => gate'.deferred[k].rev.epoch \in Nat
      BY <3>2, InvariantTypes DEF Gates
    <3> QED BY <2>3, <2>7, <3>1, <3>2, <3>3 DEF Known
  <2>10. OwnLast'
    BY <2>1, <2>3 DEF CurrentInv, OwnLast, AwaitsSnapshot
  <2>9. Unread'
    <3>1. gate.active # None => gate.active.rev = None \/ gate.active.rev.epoch < epoch'
      BY <1>1, <2>1, <2>5, <2>7 DEF Known, NotLater
    <3> QED BY <2>1, <2>3, <3>1 DEF CurrentInv, Unread
  <2> QED BY <2>4, <2>6, <2>8, <2>9, <2>10 DEF CurrentInv
<1>3. ASSUME ~BeginSwitch, ~WriterCloses
      PROVE  /\ UNCHANGED <<timer, writer, projected, epoch, content, observed, asked>>
             /\ excused => excused'
             /\ switch' = "none" \/ switch # "none"
  <2>1. /\ UNCHANGED <<timer, writer, projected, epoch, content, observed, asked>>
        /\ switch' = "none" \/ switch # "none"
    BY <1>3 DEF ChangeRoot, CommitSwitch, FailSwitch, PlanSwitch, history, library
  <2>2. excused' = Excuse(gate, gate') \/ excused' = excused
    BY <1>3 DEF ChangeRoot, CommitSwitch, FailSwitch, PlanSwitch, history
  <2>3. excused => excused'
    BY <2>2, Zenon DEF Excuse
  <2> QED BY <2>1, <2>3
<1>4. ASSUME ~BeginSwitch, ~WriterCloses PROVE TimerOfRoot'
  BY <1>3, <1>4 DEF CurrentInv, TimerOfRoot
<1>5. CASE ChangeRoot /\ ~BeginSwitch /\ ~WriterCloses
  <2>1. gate' = gate /\ switch # "none"
    BY <1>5 DEF ChangeRoot
  <2>2. SameRun(gate, gate') /\ ClosedBySwitch'
    BY <2>1 DEF SameRun, ClosedBySwitch, CurrentInv
  <2> QED BY <1>1, <1>3, <1>4, <1>5, <2>1, <2>2, CallCurrent
<1>6. CASE CommitSwitch /\ ~BeginSwitch /\ ~WriterCloses
  <2>1. gate' = Finish(Open(gate)) /\ switch' = "none"
    BY <1>6 DEF CommitSwitch
  <2>2. /\ Orderly(Open(gate)) /\ Open(gate).active = gate.active
        /\ Open(gate).completed = gate.completed /\ Known(Open(gate), epoch)
    BY <1>1, OpenOpens
  <2>3. Grown(Open(gate), gate') /\ Known(gate', epoch)
    BY <2>1, <2>2, FinishSame
  <2>4. SameRun(gate, gate') /\ gate'.completed = gate.completed /\ ClosedBySwitch'
    BY <2>1, <2>2, <2>3 DEF SameRun, ClosedBySwitch, Grown
  <2>5. Pending(gate, observed) /\ ~Pending(gate', observed) => excused'
    BY <1>6, Zenon DEF CommitSwitch, Excuse
  <2> QED BY <1>1, <1>3, <1>4, <1>6, <2>3, <2>4, <2>5, CallCurrent
<1>7. CASE FailSwitch /\ ~BeginSwitch /\ ~WriterCloses
  <2>1. gate' = Reset(gate) /\ switch' = "none"
    BY <1>7 DEF FailSwitch
  <2>2. /\ ~gate'.opened /\ gate'.queue = <<>> /\ gate'.active = gate.active
        /\ gate'.completed[observed] = None /\ Known(gate', epoch)
    BY <1>1, <2>1, ResetEmpties
  <2>3. SameRun(gate, gate') /\ ClosedBySwitch'
    BY <2>1, <2>2 DEF SameRun, ClosedBySwitch
  <2>4. Pending(gate, observed) /\ ~Pending(gate', observed) => excused'
    BY <1>7, Zenon DEF FailSwitch, Excuse
  <2> QED BY <1>1, <1>3, <1>4, <1>7, <2>2, <2>3, <2>4, CallCurrent
<1>8. ASSUME NEW dirty \in BOOLEAN, PlanSwitch(dirty), ~BeginSwitch, ~WriterCloses
      PROVE  CurrentInv'
  <2>1. gate' = Prepare(gate, dirty) /\ switch = "moved" /\ switch' = switch
    BY <1>8 DEF PlanSwitch, library
  <2>2. /\ Grown(gate, gate') /\ Known(gate', epoch)
        /\ ~gate.opened => gate'.queue = gate.queue
    BY <1>1, <2>1, PrepareGrows
  <2>3. SameRun(gate, gate') /\ ClosedBySwitch' /\ gate'.completed = gate.completed
    BY <2>1, <2>2 DEF SameRun, ClosedBySwitch, CurrentInv, Grown
  <2>4. Pending(gate, observed) => Pending(gate', observed)
    BY <1>1, <2>2 DEF Grown, Pending
  <2> QED BY <1>1, <1>3, <1>4, <1>8, <2>2, <2>3, <2>4, CallCurrent
<1>9. CASE WriterCloses
  BY <1>9, FailureCurrent DEF WriterCloses
<1> QED BY <1>2, <1>5, <1>6, <1>7, <1>8, <1>9

LEMMA StepCurrent == GateInv /\ CurrentInv /\ [Next]_vars => CurrentInv'
<1> SUFFICES ASSUME GateInv, CurrentInv, [Next]_vars PROVE CurrentInv'
  OBVIOUS
<1>1. CASE RunJob
  BY <1>1, DrainCurrent, TimerCurrent, EndCurrent, SnapshotCurrent DEF RunJob
<1>2. CASE \E q \in Requests, k \in Kinds, rebuild \in BOOLEAN : Request(k, q, rebuild)
  BY <1>2, RequestCurrent
<1>3. CASE ChangeContent
  BY <1>3, ContentCurrent
<1>4. CASE Boundary \/ FinishInit \/ FailInit \/ (\E dirty \in BOOLEAN : PlanInit(dirty))
  BY <1>4, InitializationCurrent
<1>5. CASE BeginSwitch \/ WriterCloses \/ ChangeRoot \/ CommitSwitch \/ FailSwitch
             \/ (\E dirty \in BOOLEAN : PlanSwitch(dirty))
  BY <1>5, SwitchCurrent
<1>6. CASE UNCHANGED vars
  <2>1. UNCHANGED <<gate, timer, writer, projected, epoch, switch, content, observed, asked,
                   excused>>
    BY <1>6 DEF vars, library, history
  <2>2. /\ SameRun(gate, gate') /\ Known(gate', epoch) /\ TimerOfRoot' /\ ClosedBySwitch'
        /\ gate'.completed[observed] \in {None, gate.completed[observed]}
    BY <2>1 DEF SameRun, CurrentInv, TimerOfRoot, ClosedBySwitch
  <2> QED BY <2>1, <2>2, CallCurrent
<1> QED BY <1>1, <1>2, <1>3, <1>4, <1>5, <1>6 DEF Next

\* When the gate is quiet, what it projected last is what there is, for who
\* asked and was not let go: no order of requests, runs, timers, startups and
\* switches of the root leaves an older projection behind for good.
THEOREM QuietIsUpToDate == Spec => []QuietIsCurrent
<1>1. GateInv /\ CurrentInv => QuietIsCurrent
  <2> SUFFICES ASSUME GateInv, CurrentInv, Quiet, asked, ~excused PROVE projected = Input
    BY DEF QuietIsCurrent
  <2>1. gate.opened /\ gate.queue = <<>> /\ gate.active = None /\ timer = None
        /\ Latest = projected
    BY DEF Quiet, Latest
  <2>2. observed \in Kinds /\ epoch # None
    BY InvariantTypes
  <2>3. ~Pending(gate, observed)
    BY <2>1, <2>2 DEF Pending, Queued, GateInv, Sound, OpenHoldsNone
  <2>4. ~Live /\ ~Reading
    BY <2>1, <2>2 DEF Live, Reading
  <2> QED BY <2>1, <2>3, <2>4 DEF CurrentInv, Answered
<1>2. Spec => [](GateInv /\ CurrentInv)
  <2>1. Init => GateInv /\ CurrentInv
    BY InitEstablishes, InitCurrent
  <2>2. GateInv /\ CurrentInv /\ [Next]_vars => (GateInv /\ CurrentInv)'
    BY StepKeeps, StepCurrent
  <2> QED BY <2>1, <2>2, PTL DEF Spec
<1> QED BY <1>1, <1>2, PTL
==============================================================================
