----------------------- MODULE LibraryRecoveryProofs -----------------------
(***************************************************************************)
(* Proofs about LibraryRecovery, for any number of delays.                 *)
(*                                                                         *)
(* The functions of the program are operators from a state to a state, so  *)
(* there is a lemma for each operator (what it leaves alone, what it keeps *)
(* of the invariant), a lemma for each event, and the induction.           *)
(***************************************************************************)
EXTENDS LibraryRecovery, TLAPS

Fields ==
    {"initialized", "inventory", "activation", "stopped", "timer", "attempts", "pending",
     "active", "queue", "autoTimer", "health", "writerTimer", "writer", "init", "work",
     "rescan", "stranded"}

\* What an operator leaves alone: all fields but those in X.
Keeps(s, t, X) == \A f \in Fields \ X : t[f] = s[f]

\* What the handling of a failure may change.
Recovering == {"attempts", "timer", "autoTimer", "stopped", "queue", "pending", "rescan",
               "health", "active", "writerTimer", "stranded"}

-----------------------------------------------------------------------------
(* The invariant, in nine parts.                                           *)

\* What the coordinator keeps, from one of its operations to the next.
Coordinated(s) ==
    /\ HasWork(s) => s.stopped = "no" /\ s.activation = "none"
    /\ s.timer => Faults(s) # {} /\ s.active = NoLease
    /\ Faults(s) # {} /\ s.active = NoLease => s.timer

\* What is "latest" is the error that is shown, or that the plan of a startup
\* transaction has erased since.
Latest(s) ==
    /\ \A o \in Ops : s.pending[o] = "latest" =>
         s.health # "blocked" /\ (o = "initial" \/ s.initialized)
    /\ s.active # NoLease /\ s.active.revision = "latest" =>
         s.health # "blocked" /\ s.initialized

\* A lease is held by a transaction in flight.
LeaseHeld(s) ==
    s.active # NoLease =>
        \/ s.init.stage # "none" /\ s.init.lease = s.active.id
        \/ s.work # NoWork /\ s.work.lease = s.active.id

\* An initialization in flight has somebody who asked for it.
InFlight(s) ==
    /\ s.init.stage = "none" => s.init = NoInit
    /\ s.init.stage # "none" => s.init.callers # {}
    /\ s.init.lease # 0 => "lease" \in s.init.callers
    /\ s.writer = "initializing" <=> "writer" \in s.init.callers
    /\ s.activation = "switching" => s.writer = "none" /\ s.work = NoWork
    /\ s.init.stage = "hydrating" => s.initialized \/ "fault" \in s.stranded

\* RescanIsResumed, of a state.
Resumed(s) == s.rescan.paused /\ ~RecoveryBlocked(s) => "rescan" \in s.stranded

\* WakesAreServed, of a state.
Served(s) ==
    s.queue # {} /\ s.initialized /\ ~RecoveryBlocked(s) /\ ~s.autoTimer => "wake" \in s.stranded

\* An error is shown while it is being repaired, with or without the writer.
Repaired(s) ==
    s.health = "error" =>
        s.activation # "none" \/ s.stopped # "no" \/ HasWork(s) \/ "health" \in s.stranded

\* Writer-blocked has a retry that is due, or at work before its compensation.
Retried(s) ==
    s.health = "blocked" /\ ~s.writerTimer /\ s.writer \in {"none", "compensating"} =>
        s.activation # "none" \/ "health" \in s.stranded

\* A Library that should be initialized will be: it is no matter whether the
\* health still shows why.
Started(s) ==
    (s.inventory \/ Faults(s) # {}) /\ ~s.initialized =>
        \/ s.activation # "none" \/ s.stopped # "no"
        \/ "initial" \in Faults(s) \/ s.init.stage # "none"
        \/ s.writerTimer \/ s.writer = "probing" \/ "fault" \in s.stranded

Sound(s) ==
    /\ Coordinated(s) /\ Latest(s) /\ LeaseHeld(s) /\ InFlight(s)
    /\ Resumed(s) /\ Served(s) /\ Repaired(s) /\ Retried(s) /\ Started(s)

Good(s) == s \in State /\ Sound(s)

\* A fault that has been handled: somebody will attend to it, or it is one of
\* the named exceptions.
Attending(s, kind) ==
    /\ s.health = Shown(kind)
    /\ kind = "retry" => \/ s.stopped # "no"
                         \/ Faults(s) # {} /\ (s.initialized \/ "initial" \in Faults(s))
    /\ kind = "stop" => s.stopped # "no"
    /\ kind = "writer" => s.writerTimer
    /\ kind \in {"conflict", "identity"} => s.stranded = Strands

-----------------------------------------------------------------------------
(* The operators on the state, one lemma each.                             *)

\* A flag of the rescans may be set to any value.
LEMMA ScanUpdates ==
    ASSUME NEW s \in State, NEW b \in BOOLEAN
    PROVE  /\ [s EXCEPT !.rescan.paused = b] \in State
           /\ [s EXCEPT !.rescan.timer = b] \in State
           /\ [s EXCEPT !.rescan.dirty = b] \in State
           /\ [s EXCEPT !.rescan.running = b] \in State
<1>1. s.rescan \in Scans
  BY DEF State
<1>2. ASSUME NEW x \in Scans PROVE [s EXCEPT !.rescan = x] \in State
  BY DEF State
<1> QED
  BY <1>1, <1>2 DEF Scans

\* Pausing the rescans touches nothing else.
LEMMA PauseIs ==
    ASSUME NEW s \in State
    PROVE  /\ Pause(s) \in State
           /\ Keeps(s, Pause(s), {"rescan"})
           /\ Pause(s).rescan.paused
<1>1. Pause(s) \in State
  BY ScanUpdates DEF Pause
<1>2. Keeps(s, Pause(s), {"rescan"})
  BY DEF State, Pause, Keeps, Fields
<1> QED
  BY <1>1, <1>2 DEF Pause, State, Scans

\* A cleared coordinator has neither a fault nor a lease.
LEMMA ClearIs ==
    ASSUME NEW s \in State
    PROVE  /\ Clear(s) \in State
           /\ Keeps(s, Clear(s), {"pending", "active"})
           /\ Clear(s).pending = [o \in Ops |-> "none"] /\ Clear(s).active = NoLease
  BY DEF State, Clear, Keeps, Fields

\* A transition of the health ages every fault and drops none.
LEMMA TransitionIs ==
    ASSUME NEW s \in State, NEW h \in Healths
    PROVE  LET t == Transition(s, h)
           IN  /\ t \in State
               /\ Keeps(s, t, {"health", "pending", "active"})
               /\ t.health = h
               /\ Faults(t) = Faults(s)
               /\ \A o \in Ops : t.pending[o] # "latest"
               /\ t.active.id = s.active.id
               /\ t.active = NoLease <=> s.active = NoLease
               /\ t.active # NoLease => t.active.revision = "older"
<1> DEFINE aged == [s EXCEPT !.health = h,
                     !.pending = [o \in Ops |-> IF @[o] = "latest" THEN "older" ELSE @[o]]]
           t == Transition(s, h)
<1>1. t = IF s.active = NoLease THEN aged ELSE [aged EXCEPT !.active.revision = "older"]
  BY DEF Transition
<1>2. aged \in State /\ Keeps(s, aged, {"health", "pending"}) /\ aged.health = h
  BY DEF State, Keeps, Fields
<1>3. /\ \A o \in Ops : aged.pending[o] # "latest"
      /\ \A o \in Ops : aged.pending[o] # "none" <=> s.pending[o] # "none"
  <2>1. aged.pending = [o \in Ops |-> IF s.pending[o] = "latest" THEN "older" ELSE s.pending[o]]
    BY DEF State
  <2> QED
    BY <2>1
<1>4. aged.active = s.active
  BY <1>2 DEF Keeps, Fields
<1> HIDE DEF aged, t
<1>5. CASE s.active = NoLease
  <2>1. t = aged
    BY <1>1, <1>5
  <2>2. Faults(t) = Faults(s)
    BY <1>3, <2>1 DEF Faults
  <2>3. Keeps(s, t, {"health", "pending", "active"})
    BY <1>2, <2>1 DEF Keeps
  <2> QED
    BY <1>2, <1>3, <1>4, <2>1, <2>2, <2>3, <1>5 DEF t
<1>6. CASE s.active # NoLease
  <2>1. s.active \in Leased
    BY <1>6 DEF State
  <2>2. [s.active EXCEPT !.revision = "older"] \in Leased
    BY <2>1 DEF Leased
  <2>3. t = [aged EXCEPT !.active = [s.active EXCEPT !.revision = "older"]]
    BY <1>1, <1>4, <1>6
  <2>4. t \in State
    BY <1>2, <2>2, <2>3 DEF State
  <2>5. Keeps(aged, t, {"active"}) /\ t.active = [s.active EXCEPT !.revision = "older"]
    BY <1>2, <2>3 DEF State, Keeps, Fields
  <2>6. t.active.id = s.active.id /\ t.active.revision = "older" /\ t.active.id \in Leases
    BY <2>1, <2>5 DEF Leased
  <2>7. t.active # NoLease
    BY <2>6 DEF NoLease, Leases
  <2>8. t.pending = aged.pending
    BY <2>5 DEF Keeps, Fields
  <2>9. Faults(t) = Faults(s)
    BY <1>3, <2>8 DEF Faults
  <2>10. Keeps(s, t, {"health", "pending", "active"}) /\ t.health = h
    BY <1>2, <2>5 DEF Keeps, Fields
  <2> QED
    BY <1>3, <2>4, <2>6, <2>7, <2>8, <2>9, <2>10, <1>6 DEF t
<1> QED
  BY <1>5, <1>6

\* Naming an exception changes nothing that the program has.
LEMMA StrandIs ==
    ASSUME NEW s \in State, NEW what \in SUBSET Strands
    PROVE  /\ Strand(s, what) \in State
           /\ Keeps(s, Strand(s, what), {"stranded"})
           /\ Strand(s, what).stranded = s.stranded \cup what
  BY DEF State, Strand, Keeps, Fields

\* The faults are those of the pending operations.
LEMMA SameFaults ==
    ASSUME NEW s, NEW t, t.pending = s.pending
    PROVE  Faults(t) = Faults(s)
  BY DEF Faults

\* Without a pending operation there is no fault.
LEMMA NoFaults ==
    ASSUME NEW s, s.pending = [o \in Ops |-> "none"]
    PROVE  Faults(s) = {}
  BY DEF Faults

\* Scheduling a scan touches the rescans only and leaves them paused or not.
LEMMA ScheduleScanIs ==
    ASSUME NEW s \in State
    PROVE  LET t == ScheduleScan(s)
           IN  /\ t \in State
               /\ Keeps(s, t, {"rescan"})
               /\ t.rescan.paused = s.rescan.paused
<1>1. s.rescan \in Scans
  BY DEF State
<1>2. (s.rescan.timer \/ (s.rescan.dirty /\ ~s.rescan.running)) \in BOOLEAN
  BY Zenon
<1>3. ScheduleScan(s) \in State
  BY <1>2, ScanUpdates DEF ScheduleScan
<1>4. Keeps(s, ScheduleScan(s), {"rescan"})
  BY DEF State, ScheduleScan, Keeps, Fields
<1>5. ScheduleScan(s).rescan.paused = s.rescan.paused
  BY <1>1 DEF State, ScheduleScan, Scans
<1> QED
  BY <1>3, <1>4, <1>5

\* After a resume the rescans are not paused.
LEMMA ResumeIs ==
    ASSUME NEW s \in State
    PROVE  LET t == Resume(s)
           IN  /\ t \in State
               /\ Keeps(s, t, {"rescan"})
               /\ ~t.rescan.paused
<1> DEFINE u == [s EXCEPT !.rescan.paused = FALSE]
<1>1. u \in State
  BY ScanUpdates
<1>2. Keeps(s, u, {"rescan"})
  BY DEF State, Keeps, Fields
<1>3. u.rescan.paused = FALSE
  BY DEF State, Scans
<1>4. Resume(s) = ScheduleScan(u)
  BY DEF Resume
<1> HIDE DEF u
<1> QED
  BY <1>1, <1>2, <1>3, <1>4, ScheduleScanIs DEF Keeps, Fields

\* The rescans are no part of what they wait for.
LEMMA SameBlocked ==
    ASSUME NEW s, NEW t, Keeps(s, t, {"rescan"})
    PROVE  RecoveryBlocked(t) <=> RecoveryBlocked(s)
<1>1. Faults(t) = Faults(s)
  BY SameFaults DEF Keeps, Fields
<1> QED
  BY <1>1 DEF Keeps, Fields, RecoveryBlocked, HasWork, WriterRecovering

\* After resumeLibraryRescanIfSafe they are paused only while recovery is at work.
LEMMA ResumeIfSafeIs ==
    ASSUME NEW s \in State
    PROVE  LET t == ResumeIfSafe(s)
           IN  /\ t \in State
               /\ Keeps(s, t, {"rescan"})
               /\ RecoveryBlocked(t) <=> RecoveryBlocked(s)
               /\ t.rescan.paused => RecoveryBlocked(t)
<1>1. CASE RecoveryBlocked(s)
  BY <1>1 DEF ResumeIfSafe, Keeps
<1>2. CASE ~RecoveryBlocked(s)
  BY <1>2, ResumeIs, SameBlocked DEF ResumeIfSafe
<1> QED
  BY <1>1, <1>2

\* Arming does nothing, arms the timer, or ends the retries.
LEMMA ArmIs ==
    ASSUME NEW s \in State
    PROVE  LET t == Arm(s)
           IN  /\ t \in State
               /\ Keeps(s, t, {"attempts", "timer", "autoTimer", "stopped", "queue", "pending", "rescan"})
               /\ \/ /\ t = s
                     /\ \/ s.activation # "none" \/ s.stopped # "no" \/ s.timer
                        \/ s.active # NoLease \/ Faults(s) = {}
                  \/ /\ s.activation = "none" /\ s.stopped = "no" /\ s.active = NoLease
                     /\ Faults(s) # {}
                     /\ Keeps(s, t, {"attempts", "timer", "autoTimer"}) /\ t.timer
                  \/ /\ s.activation = "none" /\ s.stopped = "no" /\ s.active = NoLease
                     /\ ~t.timer /\ t.stopped = "exhausted" /\ Faults(t) = {} /\ t.queue = {}
<1> DEFINE t == Arm(s)
           idle == \/ s.activation # "none" \/ s.stopped # "no" \/ s.timer
                   \/ s.active # NoLease \/ Faults(s) = {}
<1>1. CASE idle
  BY <1>1 DEF Arm, Keeps
<1>2. CASE ~idle /\ s.attempts = MaxAttempts
  <2> DEFINE u == [s EXCEPT !.stopped = "exhausted", !.queue = {}]
  <2>1. u \in State /\ Keeps(s, u, {"stopped", "queue"}) /\ u.stopped = "exhausted" /\ u.queue = {}
    BY DEF State, Keeps, Fields
  <2>2. t = Pause(Clear(u))
    BY <1>2 DEF Arm
  <2> HIDE DEF u
  <2>3. Clear(u) \in State /\ Keeps(u, Clear(u), {"pending", "active"}) /\ Clear(u).active = NoLease
    BY <2>1, ClearIs
  <2>4. Clear(u).pending = [o \in Ops |-> "none"]
    BY <2>1, ClearIs
  <2>5. t \in State /\ Keeps(Clear(u), t, {"rescan"})
    BY <2>2, <2>3, PauseIs
  <2>6. Faults(t) = {}
    BY <2>4, <2>5, NoFaults DEF Keeps, Fields
  <2> HIDE DEF t
  <2>7. t.active = s.active
    BY <1>2, <2>3, <2>5 DEF Keeps, Fields
  <2>8. ~t.timer /\ t.stopped = "exhausted" /\ t.queue = {}
    BY <1>2, <2>1, <2>3, <2>5 DEF Keeps, Fields
  <2>9. Keeps(s, t, {"attempts", "timer", "autoTimer", "stopped", "queue", "pending", "rescan"})
    BY <2>1, <2>3, <2>5, <2>7 DEF Keeps, Fields
  <2> QED
    BY <1>2, <2>5, <2>6, <2>8, <2>9 DEF t
<1>3. CASE ~idle /\ s.attempts # MaxAttempts
  <2>1. t = [s EXCEPT !.attempts = @ + 1, !.timer = TRUE, !.autoTimer = FALSE]
    BY <1>3 DEF Arm
  <2>2. s.attempts + 1 \in 0..MaxAttempts
    BY <1>3, RecoveryAssumption DEF State
  <2>3. t \in State
    BY <2>1, <2>2 DEF State
  <2>4. Keeps(s, t, {"attempts", "timer", "autoTimer"}) /\ t.timer
    BY <2>1 DEF State, Keeps, Fields
  <2>5. Keeps(s, t, {"attempts", "timer", "autoTimer", "stopped", "queue", "pending", "rescan"})
    BY <2>4 DEF Keeps, Fields
  <2> QED
    BY <1>3, <2>3, <2>4, <2>5
<1> QED
  BY <1>1, <1>2, <1>3

\* After scheduleLibraryBacklogGlobalRecovery there is a fault that can be
\* repaired, unless the retries have ended.
LEMMA ScheduleIs ==
    ASSUME NEW s \in State, NEW op \in Ops, s.activation = "none", Coordinated(s)
    PROVE  LET t == Schedule(s, op)
           IN  /\ t \in State
               /\ Keeps(s, t, {"attempts", "timer", "autoTimer", "stopped", "queue", "pending", "rescan"})
               /\ Coordinated(t)
               /\ \/ t.stopped # "no"
                  \/ Faults(t) # {} /\ (t.initialized \/ "initial" \in Faults(t))
               /\ \A o \in Ops : t.pending[o] = "latest" =>
                    s.pending[o] = "latest" \/ o = "initial" \/ t.initialized
<1> DEFINE key == IF s.initialized THEN op ELSE "initial"
           p == [Pause(s) EXCEPT !.pending[key] = "latest"]
           t == Schedule(s, op)
           X == {"attempts", "timer", "autoTimer", "stopped", "queue", "pending", "rescan"}
<1>1. CASE s.stopped # "no"
  <2>1. t = s
    BY <1>1 DEF Schedule
  <2> QED
    BY <1>1, <2>1 DEF Keeps
<1>2. CASE s.stopped = "no"
  <2>1. t = Arm(p)
    BY <1>2 DEF Schedule
  <2>2. key \in Ops /\ (s.initialized \/ key = "initial")
    BY DEF Ops
  <2>3. Pause(s) \in State /\ Keeps(s, Pause(s), {"rescan"})
    BY PauseIs
  <2>4. Pause(s).pending = s.pending /\ s.pending \in [Ops -> {"none", "latest", "older"}]
    BY <2>3 DEF Keeps, Fields, State
  <2> HIDE DEF key
  <2>5. [Pause(s).pending EXCEPT ![key] = "latest"] \in [Ops -> {"none", "latest", "older"}]
    BY <2>2, <2>4
  <2>6. p = [Pause(s) EXCEPT !.pending = [Pause(s).pending EXCEPT ![key] = "latest"]]
    OBVIOUS
  <2>7. p \in State
    BY <2>3, <2>5, <2>6 DEF State
  <2>8. Keeps(Pause(s), p, {"pending"}) /\ p.pending = [s.pending EXCEPT ![key] = "latest"]
    BY <2>3, <2>4, <2>6 DEF Keeps, Fields, State
  <2> HIDE DEF p
  <2>9. Keeps(s, p, {"pending", "rescan"})
    BY <2>3, <2>8 DEF Keeps, Fields
  <2>10. key \in Faults(p)
    BY <2>2, <2>4, <2>8 DEF Faults
  <2>11. \A o \in Ops : p.pending[o] = "latest" => s.pending[o] = "latest" \/ o = key
    BY <2>2, <2>4, <2>8
  <2>12. s.active = NoLease \/ ~s.timer
    BY DEF Coordinated
  <2>13. t \in State /\ Keeps(p, t, X)
    BY <2>1, <2>7, ArmIs
  <2>14. Keeps(s, t, X)
    BY <2>9, <2>13 DEF Keeps, Fields
  <2>15. t.initialized = s.initialized /\ t.activation = "none" /\ t.active = s.active
    BY <2>14 DEF Keeps, Fields
  <2>16. p.activation = "none" /\ p.stopped = "no" /\ p.active = s.active /\ p.timer = s.timer
    BY <1>2, <2>9 DEF Keeps, Fields
  <2>17. CASE t = p /\ (p.timer \/ p.active # NoLease)
    BY <1>2, <2>2, <2>10, <2>11, <2>12, <2>13, <2>14, <2>15, <2>16, <2>17 DEF Coordinated, HasWork
  <2>18. CASE Keeps(p, t, {"attempts", "timer", "autoTimer"}) /\ t.timer /\ p.active = NoLease
    <3>1. t.pending = p.pending /\ t.stopped = "no"
      BY <2>16, <2>18 DEF Keeps, Fields
    <3>2. Faults(t) = Faults(p)
      BY <3>1, SameFaults
    <3> QED
      BY <2>2, <2>10, <2>11, <2>13, <2>14, <2>15, <2>16, <2>18, <3>1, <3>2 DEF Coordinated, HasWork
  <2>19. CASE p.active = NoLease /\ ~t.timer /\ t.stopped = "exhausted" /\ Faults(t) = {}
    <3>1. \A o \in Ops : t.pending[o] = "none"
      BY <2>19 DEF Faults
    <3> QED
      BY <2>13, <2>14, <2>15, <2>16, <2>19, <3>1 DEF Coordinated, HasWork
  <2> QED
    BY <2>1, <2>7, <2>10, <2>16, <2>17, <2>18, <2>19, ArmIs
<1> QED
  BY <1>1, <1>2 DEF State

\* A cleared schedule has no fault, no lease and no timer.
LEMMA ClearScheduleIs ==
    ASSUME NEW s \in State
    PROVE  LET t == ClearSchedule(s)
           IN  /\ t \in State
               /\ Keeps(s, t, {"pending", "active", "timer", "attempts", "stopped"})
               /\ ~HasWork(t) /\ ~t.timer
               /\ \A o \in Ops : t.pending[o] = "none"
<1> DEFINE u == Clear(s)
           t == ClearSchedule(s)
<1>1. /\ u \in State /\ Keeps(s, u, {"pending", "active"})
      /\ u.pending = [o \in Ops |-> "none"] /\ u.active = NoLease
  BY ClearIs
<1>2. t = [u EXCEPT !.timer = FALSE, !.attempts = 0, !.stopped = IF @ = "exhausted" THEN "no" ELSE @]
  BY DEF ClearSchedule
<1> HIDE DEF u, t
<1>3. 0 \in 0..MaxAttempts
  BY RecoveryAssumption
<1>4. t \in State
  <2> DEFINE stop == IF u.stopped = "exhausted" THEN "no" ELSE u.stopped
  <2>1. stop \in {"no", "safety", "exhausted"}
    BY <1>1 DEF State
  <2>2. t = [u EXCEPT !.timer = FALSE, !.attempts = 0, !.stopped = stop]
    BY <1>1, <1>2 DEF State
  <2> HIDE DEF stop
  <2> QED
    BY <1>1, <1>3, <2>1, <2>2 DEF State
<1>5. Keeps(u, t, {"timer", "attempts", "stopped"}) /\ ~t.timer
  BY <1>1, <1>2 DEF State, Keeps, Fields
<1>6. Keeps(s, t, {"pending", "active", "timer", "attempts", "stopped"})
  BY <1>1, <1>5 DEF Keeps, Fields
<1>7. t.pending = [o \in Ops |-> "none"] /\ t.active = NoLease
  BY <1>1, <1>5 DEF Keeps, Fields
<1>8. Faults(t) = {}
  BY <1>7, NoFaults
<1> QED
  BY <1>4, <1>5, <1>6, <1>7, <1>8 DEF HasWork, t

\* A safety stop leaves nothing to the coordinator.
LEMMA SafetyStopIs ==
    ASSUME NEW s \in State
    PROVE  LET t == SafetyStop(s)
           IN  /\ t \in State
               /\ Keeps(s, t, {"pending", "active", "timer", "attempts", "stopped", "rescan", "autoTimer", "queue"})
               /\ ~HasWork(t) /\ ~t.timer /\ t.stopped = "safety"
               /\ \A o \in Ops : t.pending[o] = "none"
<1> DEFINE u == ClearSchedule(Pause(s))
           t == SafetyStop(s)
<1>1. Pause(s) \in State /\ Keeps(s, Pause(s), {"rescan"})
  BY PauseIs
<1>2. /\ u \in State /\ Keeps(Pause(s), u, {"pending", "active", "timer", "attempts", "stopped"})
      /\ ~HasWork(u) /\ ~u.timer /\ \A o \in Ops : u.pending[o] = "none"
  BY <1>1, ClearScheduleIs
<1>3. t = [u EXCEPT !.stopped = "safety", !.autoTimer = FALSE, !.queue = {}]
  BY DEF SafetyStop
<1> HIDE DEF u, t
<1>4. t \in State /\ Keeps(u, t, {"stopped", "autoTimer", "queue"}) /\ t.stopped = "safety"
  BY <1>2, <1>3 DEF State, Keeps, Fields
<1>5. t.pending = u.pending /\ t.active = u.active /\ t.timer = u.timer
  BY <1>4 DEF Keeps, Fields
<1>6. ~HasWork(t)
  BY <1>2, <1>5 DEF HasWork, Faults
<1>7. Keeps(s, t, {"pending", "active", "timer", "attempts", "stopped", "rescan", "autoTimer", "queue"})
  BY <1>1, <1>2, <1>4 DEF Keeps, Fields
<1> QED
  BY <1>2, <1>4, <1>5, <1>6, <1>7 DEF t

\* A blocked writer has a retry due, but in a switch of the root.
LEMMA ScheduleWriterIs ==
    ASSUME NEW s \in State
    PROVE  LET t == ScheduleWriter(s)
           IN  /\ t \in State
               /\ Keeps(s, t, {"rescan", "writerTimer"})
               /\ s.health = "blocked" /\ s.activation = "none" => t.writerTimer
<1>1. CASE s.health # "blocked"
  BY <1>1 DEF ScheduleWriter, Keeps
<1>2. CASE s.health = "blocked"
  <2> DEFINE p == Pause(s)
             t == ScheduleWriter(s)
  <2>1. p \in State /\ Keeps(s, p, {"rescan"})
    BY PauseIs
  <2>2. t = [p EXCEPT !.writerTimer = @ \/ s.activation = "none"]
    BY <1>2 DEF ScheduleWriter
  <2> HIDE DEF p, t
  <2>3. (p.writerTimer \/ s.activation = "none") \in BOOLEAN
    BY Zenon
  <2>4. t \in State /\ Keeps(p, t, {"writerTimer"}) /\ t.writerTimer = (p.writerTimer \/ s.activation = "none")
    BY <2>1, <2>2, <2>3 DEF State, Keeps, Fields
  <2> QED
    BY <2>1, <2>4 DEF Keeps, Fields, t
<1> QED
  BY <1>1, <1>2

\* handleLibraryGlobalFailure, whatever the failure is, leaves a fault attended to.
LEMMA HandleIs ==
    ASSUME NEW s \in State, NEW kind \in Kinds, NEW op \in Ops,
           s.activation = "none", Coordinated(s)
    PROVE  LET t == Handle(s, kind, op)
           IN  /\ t \in State
               /\ Keeps(s, t, Recovering)
               /\ Coordinated(t) /\ Latest(t) /\ Attending(t, kind)
               /\ t.active = NoLease \/ t.active.id = s.active.id
               /\ kind # "stop" => t.active.id = s.active.id
               /\ s.stranded \subseteq t.stranded
<1> DEFINE h == Shown(kind)
           f == Transition(Pause(s), h)
           t == Handle(s, kind, op)
<1>1. Pause(s) \in State /\ Keeps(s, Pause(s), {"rescan"})
  BY PauseIs
<1>2. h \in Healths
  BY DEF Healths, Shown
<1>3. /\ f \in State /\ Keeps(Pause(s), f, {"health", "pending", "active"}) /\ f.health = h
      /\ Faults(f) = Faults(Pause(s)) /\ \A o \in Ops : f.pending[o] # "latest"
      /\ f.active.id = Pause(s).active.id
      /\ f.active = NoLease <=> Pause(s).active = NoLease
      /\ f.active # NoLease => f.active.revision = "older"
  BY <1>1, <1>2, TransitionIs
<1> HIDE DEF f
<1>4. /\ Keeps(s, f, {"rescan", "health", "pending", "active"}) /\ Faults(f) = Faults(s)
      /\ f.active.id = s.active.id
      /\ f.active = NoLease <=> s.active = NoLease
  BY <1>1, <1>3, SameFaults DEF Keeps, Fields
<1>5. f.activation = "none" /\ f.timer = s.timer /\ f.stopped = s.stopped /\ f.stranded = s.stranded
  BY <1>4 DEF Keeps, Fields
<1>6. Coordinated(f)
  BY <1>4, <1>5 DEF Coordinated, HasWork
<1>7. Latest(f)
  BY <1>3 DEF Latest
<1>8. CASE kind = "retry"
  <2>1. t = Schedule(f, op)
    BY <1>8 DEF Handle, f
  <2>2. /\ t \in State /\ Coordinated(t)
        /\ Keeps(f, t, {"attempts", "timer", "autoTimer", "stopped", "queue", "pending", "rescan"})
        /\ t.stopped # "no" \/ (Faults(t) # {} /\ (t.initialized \/ "initial" \in Faults(t)))
        /\ \A o \in Ops : t.pending[o] = "latest" =>
             f.pending[o] = "latest" \/ o = "initial" \/ t.initialized
    BY <1>3, <1>5, <1>6, <2>1, ScheduleIs
  <2>3. t.health = "error" /\ t.active = f.active /\ t.stranded = s.stranded
    BY <1>3, <1>5, <1>8, <2>2 DEF Keeps, Fields, Shown
  <2>4. Keeps(s, t, Recovering)
    BY <1>4, <2>2 DEF Keeps, Fields, Recovering
  <2>5. Latest(t)
    BY <1>3, <2>2, <2>3 DEF Latest
  <2> HIDE DEF t
  <2> QED
    BY <1>4, <1>8, <2>2, <2>3, <2>4, <2>5 DEF Attending, Shown, t
<1>9. CASE kind = "stop"
  <2>1. t = SafetyStop(f)
    BY <1>9 DEF Handle, f
  <2>2. /\ t \in State
        /\ Keeps(f, t, {"pending", "active", "timer", "attempts", "stopped", "rescan", "autoTimer", "queue"})
        /\ ~HasWork(t) /\ ~t.timer /\ t.stopped = "safety"
        /\ \A o \in Ops : t.pending[o] = "none"
    BY <1>3, <2>1, SafetyStopIs
  <2>3. t.health = "error" /\ t.stranded = s.stranded
    BY <1>3, <1>5, <1>9, <2>2 DEF Keeps, Fields, Shown
  <2>4. Keeps(s, t, Recovering)
    BY <1>4, <2>2 DEF Keeps, Fields, Recovering
  <2>5. Latest(t)
    BY <2>2 DEF Latest, HasWork
  <2> HIDE DEF t
  <2> QED
    BY <1>9, <2>2, <2>3, <2>4, <2>5 DEF Attending, Shown, Coordinated, HasWork, t
<1>10. CASE kind = "writer"
  <2>1. t = ScheduleWriter(f)
    BY <1>10 DEF Handle, f
  <2>2. t \in State /\ Keeps(f, t, {"rescan", "writerTimer"}) /\ t.writerTimer
    BY <1>3, <1>5, <1>10, <2>1, ScheduleWriterIs DEF Shown
  <2>3. /\ t.health = "blocked" /\ t.stranded = s.stranded /\ t.active = f.active
        /\ t.pending = f.pending /\ t.timer = f.timer /\ t.stopped = f.stopped
        /\ t.activation = f.activation
    BY <1>3, <1>5, <1>10, <2>2 DEF Keeps, Fields, Shown
  <2>4. Keeps(s, t, Recovering)
    BY <1>4, <2>2 DEF Keeps, Fields, Recovering
  <2> HIDE DEF t
  <2>5. Latest(t)
    BY <1>3, <2>3 DEF Latest
  <2>6. Coordinated(t)
    BY <1>6, <2>3, SameFaults DEF Coordinated, HasWork
  <2> QED
    BY <1>4, <1>10, <2>2, <2>3, <2>4, <2>5, <2>6 DEF Attending, Shown, t
<1>11. CASE kind \in {"conflict", "identity"}
  <2>1. t = Strand(f, Strands)
    BY <1>11 DEF Handle, f
  <2>2. t \in State /\ Keeps(f, t, {"stranded"}) /\ t.stranded = f.stranded \cup Strands
    BY <1>3, <2>1, StrandIs
  <2>3. /\ t.health = h /\ t.active = f.active
        /\ t.pending = f.pending /\ t.timer = f.timer /\ t.stopped = f.stopped
        /\ t.activation = f.activation
    BY <1>3, <1>5, <1>11, <2>2 DEF Keeps, Fields
  <2>4. Keeps(s, t, Recovering)
    BY <1>4, <2>2 DEF Keeps, Fields, Recovering
  <2> HIDE DEF t
  <2>5. Latest(t)
    BY <1>3, <2>3 DEF Latest
  <2>6. Coordinated(t)
    BY <1>6, <2>3, SameFaults DEF Coordinated, HasWork
  <2>7. t.stranded = Strands /\ s.stranded \subseteq t.stranded
    BY <1>5, <2>2 DEF State
  <2> QED
    BY <1>4, <1>11, <2>2, <2>3, <2>4, <2>5, <2>6, <2>7 DEF Attending, t
<1> QED
  BY <1>8, <1>9, <1>10, <1>11 DEF Kinds

-----------------------------------------------------------------------------

\* A backlog run starts or, when there is something else to do, does not.
LEMMA StartBacklogIs ==
    ASSUME NEW s \in State, NEW mode \in Modes, NEW id \in {0} \cup Leases
    PROVE  LET t == StartBacklog(s, mode, id)
               busy == \/ s.activation # "none" \/ ~s.initialized
                       \/ s.init.stage # "none" \/ s.work # NoWork
           IN  \/ busy /\ t = s
               \/ /\ ~busy /\ t \in State /\ Keeps(s, t, {"queue", "rescan", "work"})
                  /\ t.work = [op |-> mode, stage |-> "planning", lease |-> id]
                  /\ t.work # NoWork
<1> DEFINE t == StartBacklog(s, mode, id)
           p == Pause(s)
           w == [op |-> mode, stage |-> "planning", lease |-> id]
           q == IF id = 0 THEN p.queue \ {mode} ELSE p.queue
           busy == s.activation # "none" \/ ~s.initialized \/ s.init.stage # "none" \/ s.work # NoWork
<1>1. CASE busy
  BY <1>1 DEF StartBacklog
<1>2. CASE ~busy
  <2>1. p \in State /\ Keeps(s, p, {"rescan"})
    BY PauseIs
  <2>2. w \in Works
    BY DEF Works, Ops, Modes
  <2>3. w.op = mode /\ mode # "none"
    BY DEF Modes
  <2>4. w # NoWork
    BY <2>3 DEF NoWork
  <2>5. q \in SUBSET Modes
    BY <2>1 DEF State
  <2>6. t = [p EXCEPT !.work = w, !.queue = q]
    BY <1>2, <2>1 DEF StartBacklog, State
  <2> HIDE DEF t, p, w, q
  <2>7. t \in State /\ Keeps(p, t, {"queue", "work"}) /\ t.work = w
    BY <2>1, <2>2, <2>5, <2>6 DEF State, Keeps, Fields
  <2>8. Keeps(s, t, {"queue", "rescan", "work"})
    BY <2>1, <2>7 DEF Keeps, Fields
  <2> QED
    BY <1>2, <2>4, <2>7, <2>8 DEF t, w
<1> QED
  BY <1>1, <1>2

\* What is taken from the queue is in it.
LEMMA FirstIs ==
    ASSUME NEW Q \in SUBSET Modes
    PROVE  First(Q) \in Modes /\ (Q # {} => First(Q) \in Q)
  BY DEF First, Modes

\* A wake serves the queue or leaves it to what is at work.
LEMMA WakeIs ==
    ASSUME NEW s \in State, NEW mode \in Modes
    PROVE  LET t == Wake(s, mode)
           IN  /\ t \in State
               /\ Keeps(s, t, {"queue", "rescan", "work"})
               /\ \/ t.work = s.work
                  \/ /\ t.work # NoWork /\ s.work = NoWork
                     /\ ~HasWork(s) /\ s.activation = "none" /\ s.stopped = "no"
               /\ Served(t)
               /\ Resumed(s) => Resumed(t)
<1> DEFINE r == [s EXCEPT !.queue = @ \cup {mode}]
           t == Wake(s, mode)
           b == StartBacklog(r, First(r.queue), 0)
<1>1. r \in State /\ Keeps(s, r, {"queue"})
  BY DEF State, Keeps, Fields
<1>2. /\ r.activation = s.activation /\ r.stopped = s.stopped /\ r.timer = s.timer
      /\ r.pending = s.pending /\ r.active = s.active /\ r.work = s.work
      /\ r.health = s.health /\ r.writerTimer = s.writerTimer /\ r.writer = s.writer
      /\ r.init = s.init /\ r.rescan = s.rescan /\ r.stranded = s.stranded
  BY <1>1 DEF Keeps, Fields
<1>3. RecoveryBlocked(r) <=> RecoveryBlocked(s)
  BY <1>2, SameFaults DEF RecoveryBlocked, HasWork, WriterRecovering
<1>4. CASE s.stopped # "no"
  <2>1. t = s
    BY <1>4 DEF Wake
  <2> QED
    BY <1>4, <2>1 DEF Keeps, Served, RecoveryBlocked
<1>5. CASE s.stopped = "no" /\ (s.timer \/ HasWork(s) \/ WriterRecovering(s))
  <2>1. t = r
    BY <1>5 DEF Wake
  <2>2. RecoveryBlocked(s)
    BY <1>5 DEF RecoveryBlocked
  <2> QED
    BY <1>1, <1>2, <1>3, <2>1, <2>2 DEF Keeps, Served, Resumed
<1>6. CASE s.stopped = "no" /\ ~(s.timer \/ HasWork(s) \/ WriterRecovering(s))
  <2>1. t = b
    BY <1>6 DEF Wake
  <2> HIDE DEF r
  <2>2. First(r.queue) \in Modes
    BY <1>1, FirstIs DEF State
  <2>3. CASE /\ \/ r.activation # "none" \/ ~r.initialized
                \/ r.init.stage # "none" \/ r.work # NoWork
             /\ b = r
    <3>1. RecoveryBlocked(r) \/ ~r.initialized
      BY <2>3 DEF RecoveryBlocked
    <3>2. Served(r)
      BY <3>1 DEF Served
    <3>3. Resumed(s) => Resumed(r)
      BY <1>2, <1>3 DEF Resumed
    <3>4. Keeps(s, r, {"queue", "rescan", "work"})
      BY <1>1 DEF Keeps
    <3> QED
      BY <1>1, <1>2, <2>1, <2>3, <3>2, <3>3, <3>4
  <2>4. CASE /\ r.activation = "none" /\ r.work = NoWork
             /\ b \in State /\ Keeps(r, b, {"queue", "rescan", "work"}) /\ b.work # NoWork
    <3>1. RecoveryBlocked(b)
      BY <2>4 DEF RecoveryBlocked
    <3>2. Keeps(s, b, {"queue", "rescan", "work"})
      BY <1>1, <2>4 DEF Keeps, Fields
    <3> QED
      BY <1>2, <1>6, <2>1, <2>4, <3>1, <3>2 DEF Served, Resumed
  <2>5. 0 \in {0} \cup Leases
    OBVIOUS
  <2>6. \/ /\ \/ r.activation # "none" \/ ~r.initialized
              \/ r.init.stage # "none" \/ r.work # NoWork
           /\ b = r
        \/ /\ ~(\/ r.activation # "none" \/ ~r.initialized
                \/ r.init.stage # "none" \/ r.work # NoWork)
           /\ b \in State /\ Keeps(r, b, {"queue", "rescan", "work"}) /\ b.work # NoWork
    BY <1>1, <2>2, <2>5, StartBacklogIs
  <2> QED
    BY <2>3, <2>4, <2>6
<1> QED
  BY <1>4, <1>5, <1>6

\* So does the wake that takes the first of the queue.
LEMMA WakeQueuedIs ==
    ASSUME NEW s \in State
    PROVE  LET t == WakeQueued(s)
           IN  /\ t \in State
               /\ Keeps(s, t, {"queue", "rescan", "work"})
               /\ \/ t.work = s.work
                  \/ /\ t.work # NoWork /\ s.work = NoWork
                     /\ ~HasWork(s) /\ s.activation = "none" /\ s.stopped = "no"
               /\ Served(t)
               /\ Resumed(s) => Resumed(t)
<1>1. CASE s.queue = {} \/ s.activation # "none"
  <2>1. WakeQueued(s) = s
    BY <1>1 DEF WakeQueued
  <2> QED
    BY <1>1, <2>1 DEF Keeps, Served, RecoveryBlocked
<1>2. CASE ~(s.queue = {} \/ s.activation # "none")
  <2> DEFINE r == [s EXCEPT !.queue = @ \ {First(@)}]
             t == WakeQueued(s)
  <2>1. t = Wake(r, First(s.queue))
    BY <1>2 DEF WakeQueued
  <2>2. r \in State /\ Keeps(s, r, {"queue"})
    BY DEF State, Keeps, Fields
  <2> HIDE DEF r, t
  <2>3. First(s.queue) \in Modes
    BY FirstIs DEF State
  <2>4. /\ t \in State /\ Keeps(r, t, {"queue", "rescan", "work"})
        /\ \/ t.work = r.work
           \/ /\ t.work # NoWork /\ r.work = NoWork
              /\ ~HasWork(r) /\ r.activation = "none" /\ r.stopped = "no"
        /\ Served(t)
        /\ Resumed(r) => Resumed(t)
    BY <2>1, <2>2, <2>3, WakeIs
  <2>5. /\ r.activation = s.activation /\ r.stopped = s.stopped /\ r.timer = s.timer
        /\ r.pending = s.pending /\ r.active = s.active /\ r.work = s.work
        /\ r.health = s.health /\ r.writerTimer = s.writerTimer /\ r.writer = s.writer
        /\ r.init = s.init /\ r.rescan = s.rescan /\ r.stranded = s.stranded
    BY <2>2 DEF Keeps, Fields
  <2>6. HasWork(r) <=> HasWork(s)
    BY <2>5, SameFaults DEF HasWork
  <2>7. RecoveryBlocked(r) <=> RecoveryBlocked(s)
    BY <2>5, <2>6 DEF RecoveryBlocked, WriterRecovering
  <2>8. Resumed(s) => Resumed(r)
    BY <2>5, <2>7 DEF Resumed
  <2>9. Keeps(s, t, {"queue", "rescan", "work"})
    BY <2>2, <2>4 DEF Keeps, Fields
  <2> QED
    BY <2>4, <2>5, <2>6, <2>8, <2>9 DEF t
<1> QED
  BY <1>1, <1>2

\* A completed lease leaves the coordinator in order, and the health right.
LEMMA CompleteIs ==
    ASSUME NEW s \in State, NEW id \in {0} \cup Leases, Coordinated(s), Latest(s)
    PROVE  LET t == Complete(s, id)
               mine == id # 0 /\ s.active.id = id
           IN  /\ t \in State
               /\ Keeps(s, t, Recovering \ {"writerTimer"})
               /\ Coordinated(t) /\ Latest(t)
               /\ s.stranded \subseteq t.stranded
               /\ t.health \in {s.health, "well"}
               /\ Started(s) => Started(t)
               /\ ~mine => t = s
               /\ mine => t.active = NoLease /\ Repaired(t) /\ Resumed(t)
<1> DEFINE t == Complete(s, id)
           mine == id # 0 /\ s.active.id = id
           done == [s EXCEPT !.active = NoLease, !.attempts = 0]
           X == {"active", "attempts"}
<1>1. CASE ~mine
  <2>1. t = s
    BY <1>1 DEF Complete
  <2> QED
    BY <1>1, <2>1 DEF Keeps
<1>2. CASE mine
  <2>1. s.active # NoLease /\ HasWork(s) /\ s.stopped = "no" /\ s.activation = "none" /\ ~s.timer
    BY <1>2 DEF Coordinated, HasWork, NoLease
  <2>2. 0 \in 0..MaxAttempts
    BY RecoveryAssumption
  <2>3. done \in State /\ Keeps(s, done, X) /\ done.active = NoLease
    BY <2>2 DEF State, Keeps, Fields
  <2>4. t = IF Faults(done) # {} THEN Arm(done)
            ELSE ResumeIfSafe(IF s.active.revision = "latest"
                              THEN Transition(done, "well")
                              ELSE Strand(done, {"health"}))
    BY <1>2 DEF Complete
  <2> HIDE DEF done, t
  <2>5. /\ done.pending = s.pending /\ done.stopped = "no" /\ done.activation = "none"
        /\ ~done.timer /\ done.health = s.health /\ done.stranded = s.stranded
        /\ done.writerTimer = s.writerTimer /\ done.writer = s.writer
        /\ done.initialized = s.initialized /\ done.inventory = s.inventory /\ done.init = s.init
    BY <2>1, <2>3 DEF Keeps, Fields
  <2>6. Faults(done) = Faults(s)
    BY <2>5, SameFaults
  <2>7. CASE Faults(s) # {}
    <3>1. t = Arm(done)
      BY <2>4, <2>6, <2>7
    <3>2. /\ t \in State
          /\ Keeps(done, t, {"attempts", "timer", "autoTimer", "stopped", "queue", "pending", "rescan"})
          /\ \/ Keeps(done, t, {"attempts", "timer", "autoTimer"}) /\ t.timer
             \/ ~t.timer /\ t.stopped = "exhausted" /\ Faults(t) = {} /\ t.queue = {}
      BY <2>3, <2>5, <2>6, <2>7, <3>1, ArmIs
    <3>3. Keeps(s, t, Recovering \ {"writerTimer"})
      BY <2>3, <3>2 DEF Keeps, Fields, Recovering
    <3>4. /\ t.active = NoLease /\ t.health = s.health /\ t.stranded = s.stranded
          /\ t.initialized = s.initialized /\ t.inventory = s.inventory /\ t.init = s.init
          /\ t.activation = "none" /\ t.writerTimer = s.writerTimer /\ t.writer = s.writer
      BY <2>3, <2>5, <3>2 DEF Keeps, Fields
    <3>5. CASE Keeps(done, t, {"attempts", "timer", "autoTimer"}) /\ t.timer
      <4>1. t.pending = s.pending /\ t.stopped = "no"
        BY <2>5, <3>5 DEF Keeps, Fields
      <4>2. Faults(t) = Faults(s)
        BY <4>1, SameFaults
      <4>3. RecoveryBlocked(t) /\ HasWork(t)
        BY <2>7, <4>2 DEF RecoveryBlocked, HasWork
      <4>4. Coordinated(t)
        BY <2>7, <3>4, <3>5, <4>1, <4>2 DEF Coordinated, HasWork
      <4>5. Latest(t)
        BY <3>4, <4>1 DEF Latest
      <4>6. Started(s) => Started(t)
        BY <2>1, <3>4, <4>1, <4>2 DEF Started
      <4> QED
        BY <1>2, <3>2, <3>3, <3>4, <4>3, <4>4, <4>5, <4>6 DEF Repaired, Resumed, t
    <3>6. CASE ~t.timer /\ t.stopped = "exhausted" /\ Faults(t) = {} /\ t.queue = {}
      <4>1. \A o \in Ops : t.pending[o] = "none"
        BY <3>6 DEF Faults
      <4>2. RecoveryBlocked(t) /\ ~HasWork(t)
        BY <3>4, <3>6 DEF RecoveryBlocked, HasWork
      <4> QED
        BY <1>2, <3>2, <3>3, <3>4, <3>6, <4>1, <4>2
           DEF Coordinated, Latest, Started, Repaired, Resumed, t
    <3> QED
      BY <3>2, <3>5, <3>6
  <2>8. CASE Faults(s) = {}
    <3> DEFINE u == IF s.active.revision = "latest" THEN Transition(done, "well")
                    ELSE Strand(done, {"health"})
    <3>1. t = ResumeIfSafe(u)
      BY <2>4, <2>6, <2>8
    <3>2. /\ u \in State /\ Keeps(done, u, {"health", "pending", "active", "stranded"})
          /\ Faults(u) = {} /\ u.active = NoLease
          /\ s.stranded \subseteq u.stranded
          /\ \/ u.health = "well" /\ s.active.revision = "latest"
             \/ u.health = s.health /\ "health" \in u.stranded
      <4>1. CASE s.active.revision = "latest"
        <5>1. u = Transition(done, "well") /\ "well" \in Healths
          BY <4>1 DEF Healths
        <5> HIDE DEF u
        <5> QED
          BY <2>3, <2>5, <2>6, <2>8, <4>1, <5>1, TransitionIs DEF Keeps, Fields
      <4>2. CASE s.active.revision # "latest"
        <5>1. u = Strand(done, {"health"}) /\ {"health"} \in SUBSET Strands
          BY <4>2 DEF Strands
        <5> HIDE DEF u
        <5>2. u \in State /\ Keeps(done, u, {"stranded"}) /\ u.stranded = done.stranded \cup {"health"}
          BY <2>3, <5>1, StrandIs
        <5>3. u.pending = done.pending /\ u.active = done.active /\ u.health = done.health
          BY <5>2 DEF Keeps, Fields
        <5>4. Faults(u) = {}
          BY <2>6, <2>8, <5>3, SameFaults
        <5> QED
          BY <2>3, <2>5, <5>2, <5>3, <5>4 DEF Keeps
      <4> QED
        BY <4>1, <4>2
    <3> HIDE DEF u
    <3>3. /\ t \in State /\ Keeps(u, t, {"rescan"})
          /\ t.rescan.paused => RecoveryBlocked(t)
      BY <3>1, <3>2, ResumeIfSafeIs
    <3>4. Keeps(s, t, Recovering \ {"writerTimer"})
      BY <2>3, <3>2, <3>3 DEF Keeps, Fields, Recovering
    <3>5. /\ t.active = NoLease /\ t.health = u.health /\ t.stranded = u.stranded
          /\ t.initialized = s.initialized /\ t.inventory = s.inventory /\ t.init = s.init
          /\ t.activation = "none" /\ t.stopped = "no" /\ ~t.timer /\ t.pending = u.pending
          /\ t.writerTimer = s.writerTimer /\ t.writer = s.writer
      BY <2>5, <3>2, <3>3 DEF Keeps, Fields
    <3>6. Faults(t) = {} /\ \A o \in Ops : t.pending[o] = "none"
      BY <3>2, <3>5 DEF Faults
    <3>7. Started(s) => Started(t)
      <4>1. CASE s.active.revision = "latest"
        <5>1. t.initialized
          BY <2>1, <3>5, <4>1 DEF Latest
        <5> QED
          BY <5>1 DEF Started
      <4>2. CASE s.active.revision # "latest"
        <5>1. t.health = s.health
          BY <3>2, <3>5, <4>2
        <5> QED
          BY <2>1, <2>8, <3>2, <3>5, <3>6, <5>1 DEF Started
      <4> QED
        BY <4>1, <4>2
    <3>8. Repaired(t) /\ Resumed(t) /\ Coordinated(t) /\ Latest(t)
      BY <3>2, <3>3, <3>5, <3>6 DEF Repaired, Resumed, Coordinated, Latest, HasWork
    <3> QED
      BY <1>2, <3>2, <3>3, <3>4, <3>5, <3>7, <3>8 DEF t
  <2> QED
    BY <2>7, <2>8
<1> QED
  BY <1>1, <1>2

\* More exceptions break nothing.
LEMMA StrandKeeps ==
    ASSUME NEW s, NEW t, Keeps(s, t, {"stranded"}), s.stranded \subseteq t.stranded
    PROVE  /\ HasWork(t) <=> HasWork(s)
           /\ RecoveryBlocked(t) <=> RecoveryBlocked(s)
           /\ Faults(t) = Faults(s)
           /\ Coordinated(s) => Coordinated(t)
           /\ Latest(s) => Latest(t)
           /\ LeaseHeld(s) => LeaseHeld(t)
           /\ InFlight(s) => InFlight(t)
           /\ Resumed(s) => Resumed(t)
           /\ Served(s) => Served(t)
           /\ Repaired(s) => Repaired(t)
           /\ Retried(s) => Retried(t)
           /\ Started(s) => Started(t)
<1>1. /\ t.initialized = s.initialized /\ t.inventory = s.inventory
      /\ t.activation = s.activation /\ t.stopped = s.stopped /\ t.timer = s.timer
      /\ t.pending = s.pending /\ t.active = s.active /\ t.queue = s.queue
      /\ t.autoTimer = s.autoTimer /\ t.health = s.health /\ t.writerTimer = s.writerTimer
      /\ t.writer = s.writer /\ t.init = s.init /\ t.work = s.work /\ t.rescan = s.rescan
  BY DEF Keeps, Fields
<1>2. Faults(t) = Faults(s)
  BY <1>1, SameFaults
<1>3. HasWork(t) <=> HasWork(s)
  BY <1>1, <1>2 DEF HasWork
<1>4. RecoveryBlocked(t) <=> RecoveryBlocked(s)
  BY <1>1, <1>3 DEF RecoveryBlocked, WriterRecovering
<1>5. Coordinated(s) => Coordinated(t)
  BY <1>1, <1>2, <1>3 DEF Coordinated
<1>6. (Latest(s) => Latest(t)) /\ (LeaseHeld(s) => LeaseHeld(t))
  BY <1>1 DEF Latest, LeaseHeld
<1>7. InFlight(s) => InFlight(t)
  BY <1>1 DEF InFlight
<1>8. (Resumed(s) => Resumed(t)) /\ (Served(s) => Served(t)) /\ (Repaired(s) => Repaired(t))
  BY <1>1, <1>3, <1>4 DEF Resumed, Served, Repaired
<1>9. (Retried(s) => Retried(t)) /\ (Started(s) => Started(t))
  BY <1>1, <1>2 DEF Retried, Started
<1> QED
  BY <1>2, <1>3, <1>4, <1>5, <1>6, <1>7, <1>8, <1>9

\* The same of the lease of an initialization.
LEMMA CompleteInitialIs ==
    ASSUME NEW s \in State, NEW id \in {0} \cup Leases, Coordinated(s), Latest(s)
    PROVE  LET t == CompleteInitial(s, id)
               mine == id # 0 /\ s.active.id = id
           IN  /\ t \in State
               /\ Keeps(s, t, Recovering \ {"writerTimer"})
               /\ Coordinated(t) /\ Latest(t)
               /\ s.stranded \subseteq t.stranded
               /\ t.health \in {s.health, "well"}
               /\ Started(s) => Started(t)
               /\ Served(s) => Served(t)
               /\ Resumed(s) => Resumed(t)
               /\ Repaired(s) => Repaired(t)
               /\ ~mine => t.active = s.active
               /\ mine => t.active = NoLease /\ Repaired(t) /\ Resumed(t)
<1> DEFINE t == CompleteInitial(s, id)
           mine == id # 0 /\ s.active.id = id
           c == Complete(s, id)
<1>1. CASE s.active.id # id
  <2>1. t = s
    BY <1>1 DEF CompleteInitial
  <2> QED
    BY <1>1, <2>1 DEF Keeps
<1>2. CASE s.active.id = id
  <2>1. t = Strand(c, {"wake"}) /\ {"wake"} \in SUBSET Strands
    BY <1>2 DEF CompleteInitial, Strands
  <2>2. /\ c \in State /\ Keeps(s, c, Recovering \ {"writerTimer"})
        /\ Coordinated(c) /\ Latest(c) /\ s.stranded \subseteq c.stranded
        /\ c.health \in {s.health, "well"}
        /\ Started(s) => Started(c)
        /\ ~mine => c = s
        /\ mine => c.active = NoLease /\ Repaired(c) /\ Resumed(c)
    BY CompleteIs
  <2> HIDE DEF t, c, mine
  <2>3. t \in State /\ Keeps(c, t, {"stranded"}) /\ t.stranded = c.stranded \cup {"wake"}
    BY <2>1, <2>2, StrandIs
  <2>4. c.stranded \subseteq t.stranded
    BY <2>3
  <2>5. /\ Coordinated(t) /\ Latest(t)
        /\ Started(c) => Started(t)
        /\ Resumed(c) => Resumed(t)
        /\ Repaired(c) => Repaired(t)
    BY <2>2, <2>3, <2>4, StrandKeeps
  <2>6. Served(t)
    BY <2>3 DEF Served
  <2>7. Keeps(s, t, Recovering \ {"writerTimer"}) /\ t.active = c.active /\ t.health = c.health
    BY <2>2, <2>3 DEF Keeps, Fields, Recovering
  <2>8. s.stranded \subseteq t.stranded
    BY <2>2, <2>4
  <2> QED
    BY <2>2, <2>3, <2>5, <2>6, <2>7, <2>8 DEF t, mine
<1> QED
  BY <1>1, <1>2

\* A lease that is given back leaves the fault attended to.
LEMMA ReleaseIs ==
    ASSUME NEW s \in State, NEW id \in {0} \cup Leases, NEW kind \in Kinds,
           Coordinated(s), Latest(s), Attending(s, kind), s.activation = "none"
    PROVE  LET t == Release(s, id, kind)
           IN  /\ t \in State
               /\ Keeps(s, t, Recovering \ {"writerTimer", "health", "stranded"})
               /\ Coordinated(t) /\ Latest(t) /\ Attending(t, kind)
               /\ \/ t.active = NoLease
                  \/ t.active = s.active /\ (id = 0 \/ t.active.id # id)
<1> DEFINE t == Release(s, id, kind)
<1>1. CASE kind = "stop"
  <2>1. t = s
    BY <1>1 DEF Release
  <2>2. s.active = NoLease
    BY <1>1 DEF Attending, Coordinated, HasWork
  <2> QED
    BY <2>1, <2>2 DEF Keeps
<1>2. CASE id = 0 \/ s.active.id # id
  <2>1. t = s
    BY <1>2 DEF Release
  <2> QED
    BY <1>2, <2>1 DEF Keeps
<1>3. CASE kind # "stop" /\ id # 0 /\ s.active.id = id
  <2>1. s.active # NoLease /\ HasWork(s) /\ s.stopped = "no" /\ ~s.timer
    BY <1>3 DEF Coordinated, HasWork, NoLease
  <2>2. CASE kind = "retry"
    <3> DEFINE u == [s EXCEPT !.active = NoLease]
    <3>1. t = Arm(u)
      BY <1>3, <2>2 DEF Release
    <3>2. u \in State /\ Keeps(s, u, {"active"}) /\ u.active = NoLease
      BY DEF State, Keeps, Fields
    <3> HIDE DEF u, t
    <3>3. /\ u.activation = "none" /\ u.stopped = "no" /\ ~u.timer /\ u.pending = s.pending
          /\ u.health = s.health /\ u.initialized = s.initialized
      BY <2>1, <3>2 DEF Keeps, Fields
    <3>4. Faults(u) = Faults(s) /\ Faults(s) # {}
      BY <2>1, <2>2, <3>3, SameFaults DEF Attending
    <3>5. /\ t \in State
          /\ Keeps(u, t, {"attempts", "timer", "autoTimer", "stopped", "queue", "pending", "rescan"})
          /\ \/ Keeps(u, t, {"attempts", "timer", "autoTimer"}) /\ t.timer
             \/ ~t.timer /\ t.stopped = "exhausted" /\ Faults(t) = {} /\ t.queue = {}
      BY <3>1, <3>2, <3>3, <3>4, ArmIs
    <3>6. /\ t.active = NoLease /\ t.health = s.health /\ t.initialized = s.initialized
          /\ t.activation = "none"
      BY <3>2, <3>3, <3>5 DEF Keeps, Fields
    <3>7. Keeps(s, t, Recovering \ {"writerTimer", "health", "stranded"})
      BY <3>2, <3>5 DEF Keeps, Fields, Recovering
    <3>8. CASE Keeps(u, t, {"attempts", "timer", "autoTimer"}) /\ t.timer
      <4>1. t.pending = s.pending /\ t.stopped = "no"
        BY <3>3, <3>8 DEF Keeps, Fields
      <4>2. Faults(t) = Faults(s)
        BY <4>1, SameFaults
      <4>3. Coordinated(t)
        BY <3>4, <3>6, <3>8, <4>1, <4>2 DEF Coordinated, HasWork
      <4>4. Latest(t)
        BY <3>6, <4>1 DEF Latest
      <4>5. Attending(t, kind)
        BY <2>1, <2>2, <3>6, <4>2 DEF Attending
      <4> QED
        BY <3>5, <3>6, <3>7, <4>3, <4>4, <4>5 DEF t
    <3>9. CASE ~t.timer /\ t.stopped = "exhausted" /\ Faults(t) = {} /\ t.queue = {}
      <4>1. \A o \in Ops : t.pending[o] = "none"
        BY <3>9 DEF Faults
      <4>2. Coordinated(t) /\ Latest(t)
        BY <3>6, <3>9, <4>1 DEF Coordinated, Latest, HasWork
      <4>3. Attending(t, kind)
        BY <2>2, <3>6, <3>9 DEF Attending
      <4> QED
        BY <3>5, <3>6, <3>7, <4>2, <4>3 DEF t
    <3> QED
      BY <3>5, <3>8, <3>9
  <2>3. CASE kind \in {"writer", "conflict", "identity"}
    <3> DEFINE c == Clear(s)
    <3>1. t = [c EXCEPT !.attempts = 0]
      BY <1>3, <2>3 DEF Release
    <3>2. /\ c \in State /\ Keeps(s, c, {"pending", "active"}) /\ c.active = NoLease
          /\ c.pending = [o \in Ops |-> "none"]
      BY ClearIs
    <3>3. 0 \in 0..MaxAttempts
      BY RecoveryAssumption
    <3> HIDE DEF t, c
    <3>4. t \in State /\ Keeps(c, t, {"attempts"})
      BY <3>1, <3>2, <3>3 DEF State, Keeps, Fields
    <3>5. Keeps(s, t, {"pending", "active", "attempts"})
      BY <3>2, <3>4 DEF Keeps, Fields
    <3>6. /\ t.active = NoLease /\ t.pending = [o \in Ops |-> "none"] /\ ~t.timer
          /\ t.health = s.health /\ t.stranded = s.stranded /\ t.writerTimer = s.writerTimer
      BY <2>1, <3>2, <3>4, <3>5 DEF Keeps, Fields
    <3>7. Faults(t) = {} /\ \A o \in Ops : t.pending[o] = "none"
      BY <3>6, NoFaults
    <3>8. Coordinated(t) /\ Latest(t)
      BY <3>6, <3>7 DEF Coordinated, Latest, HasWork
    <3>9. Attending(t, kind)
      BY <2>3, <3>6 DEF Attending
    <3>10. Keeps(s, t, Recovering \ {"writerTimer", "health", "stranded"})
      BY <3>5 DEF Keeps, Fields, Recovering
    <3> QED
      BY <3>4, <3>6, <3>8, <3>9, <3>10 DEF t
  <2> QED
    BY <1>3, <2>2, <2>3 DEF Kinds
<1> QED
  BY <1>1, <1>2, <1>3

\* A fault that is attended to explains whatever else is put off.
LEMMA AttendingIs ==
    ASSUME NEW s, NEW kind \in Kinds, Attending(s, kind)
    PROVE  Resumed(s) /\ Served(s) /\ Repaired(s) /\ Retried(s) /\ Started(s)
<1>1. RecoveryBlocked(s) \/ s.stranded = Strands
  BY DEF Attending, RecoveryBlocked, HasWork, WriterRecovering, Kinds
<1>2. Resumed(s) /\ Served(s)
  BY <1>1 DEF Resumed, Served, Strands
<1>3. Repaired(s)
  BY DEF Attending, Shown, Repaired, HasWork, Kinds, Strands
<1>4. Retried(s) /\ Started(s)
  BY DEF Attending, Shown, Retried, Started, Kinds, Strands
<1> QED
  BY <1>2, <1>3, <1>4

\* The end of a transaction resumes the rescans and serves the queue.
LEMMA EndWorkIs ==
    ASSUME NEW s \in State, NEW blocked \in BOOLEAN
    PROVE  LET t == EndWork(s, blocked)
           IN  /\ t \in State
               /\ Keeps(s, t, {"queue", "rescan", "work"})
               /\ t.work = NoWork \/ ~HasWork(t)
               /\ s.activation # "none" => t.work = NoWork
               /\ Resumed(t)
               /\ ~blocked => Served(t)
<1> DEFINE u == [s EXCEPT !.work = NoWork]
           e == ResumeIfSafe(u)
           t == EndWork(s, blocked)
<1>1. t = IF blocked THEN e ELSE WakeQueued(e)
  BY DEF EndWork
<1>2. u \in State /\ Keeps(s, u, {"work"}) /\ u.work = NoWork
  BY DEF State, Keeps, Fields
<1> HIDE DEF u, t
<1>3. /\ e \in State /\ Keeps(u, e, {"rescan"})
      /\ e.rescan.paused => RecoveryBlocked(e)
  BY <1>2, ResumeIfSafeIs
<1> HIDE DEF e
<1>4. Keeps(s, e, {"rescan", "work"}) /\ e.work = NoWork /\ Resumed(e)
  BY <1>2, <1>3 DEF Keeps, Fields, Resumed
<1>5. CASE blocked
  <2>1. t = e
    BY <1>1, <1>5
  <2> QED
    BY <1>3, <1>4, <1>5, <2>1 DEF Keeps, t
<1>6. CASE ~blocked
  <2>1. t = WakeQueued(e)
    BY <1>1, <1>6
  <2>2. /\ t \in State
        /\ Keeps(e, t, {"queue", "rescan", "work"})
        /\ \/ t.work = e.work
           \/ /\ t.work # NoWork /\ e.work = NoWork
              /\ ~HasWork(e) /\ e.activation = "none" /\ e.stopped = "no"
        /\ Served(t)
        /\ Resumed(e) => Resumed(t)
    BY <1>3, <2>1, WakeQueuedIs
  <2>3. t.pending = e.pending /\ t.active = e.active
    BY <2>2 DEF Keeps, Fields
  <2>4. HasWork(t) <=> HasWork(e)
    BY <2>3, SameFaults DEF HasWork
  <2>5. Keeps(s, t, {"queue", "rescan", "work"}) /\ e.activation = s.activation
    BY <1>4, <2>2 DEF Keeps, Fields
  <2> QED
    BY <1>4, <2>2, <2>4, <2>5 DEF t
<1> QED
  BY <1>5, <1>6

\* An initialization begins, or a caller joins the one in flight.
LEMMA BeginInitIs ==
    ASSUME NEW s \in State, NEW caller \in {"lease", "loadAll", "writer"},
           NEW id \in {0} \cup Leases, s.init.stage = "none" => s.init = NoInit
    PROVE  LET t == BeginInit(s, caller, id)
           IN  /\ t \in State
               /\ Keeps(s, t, {"init", "rescan", "health", "pending", "active"})
               /\ Faults(t) = Faults(s)
               /\ t.active.id = s.active.id
               /\ t.active = NoLease <=> s.active = NoLease
               /\ t.init.stage # "none"
               /\ t.init.callers = s.init.callers \cup {caller}
               /\ t.init.stage = "hydrating" => s.init.stage = "hydrating"
               /\ t.init.lease = IF s.init.stage = "none" THEN id ELSE s.init.lease
               /\ t.health \in {s.health, "well"}
               /\ s.init.stage = "none" => t.health = "well"
               /\ Latest(s) \/ s.init.stage = "none" => Latest(t)
<1> DEFINE t == BeginInit(s, caller, id)
<1>1. CASE s.init.stage # "none"
  <2> DEFINE i == [s.init EXCEPT !.callers = @ \cup {caller}]
  <2>1. s.init \in Inits
    BY DEF State
  <2>2. i \in Inits /\ i.stage = s.init.stage /\ i.lease = s.init.lease
        /\ i.callers = s.init.callers \cup {caller}
    BY <2>1 DEF Inits
  <2>3. t = [s EXCEPT !.init = i]
    BY <1>1 DEF BeginInit
  <2> HIDE DEF i, t
  <2>4. t \in State /\ Keeps(s, t, {"init"}) /\ t.init = i
    BY <2>2, <2>3 DEF State, Keeps, Fields
  <2>5. /\ t.pending = s.pending /\ t.active = s.active /\ t.health = s.health
        /\ t.initialized = s.initialized
    BY <2>4 DEF Keeps, Fields
  <2>6. Faults(t) = Faults(s)
    BY <2>5, SameFaults
  <2>7. Latest(s) => Latest(t)
    BY <2>5 DEF Latest
  <2>8. Keeps(s, t, {"init", "rescan", "health", "pending", "active"})
    BY <2>4 DEF Keeps
  <2> QED
    BY <1>1, <2>2, <2>4, <2>5, <2>6, <2>7, <2>8 DEF t
<1>2. CASE s.init.stage = "none"
  <2> DEFINE p == Pause(s)
             u == Transition(p, "well")
             i == [stage |-> "planning", callers |-> {caller}, lease |-> id]
  <2>1. t = [u EXCEPT !.init = i]
    BY <1>2 DEF BeginInit
  <2>2. p \in State /\ Keeps(s, p, {"rescan"})
    BY PauseIs
  <2>3. "well" \in Healths
    BY DEF Healths
  <2> HIDE DEF p, t
  <2>4. /\ u \in State /\ Keeps(p, u, {"health", "pending", "active"}) /\ u.health = "well"
        /\ Faults(u) = Faults(p) /\ \A o \in Ops : u.pending[o] # "latest"
        /\ u.active.id = p.active.id
        /\ u.active = NoLease <=> p.active = NoLease
        /\ u.active # NoLease => u.active.revision = "older"
    BY <2>2, <2>3, TransitionIs
  <2>5. i \in Inits
    BY DEF Inits
  <2>6. s.init.callers = {} /\ i.callers = s.init.callers \cup {caller}
    BY <1>2 DEF NoInit
  <2>7. i.stage = "planning" /\ i.lease = id
    OBVIOUS
  <2> HIDE DEF u, i
  <2>8. t \in State /\ Keeps(u, t, {"init"}) /\ t.init = i
    BY <2>1, <2>4, <2>5 DEF State, Keeps, Fields
  <2>9. /\ t.pending = u.pending /\ t.active = u.active /\ t.health = u.health
        /\ p.pending = s.pending /\ p.active = s.active
    BY <2>2, <2>8 DEF Keeps, Fields
  <2>10. Faults(t) = Faults(s)
    BY <2>4, <2>9, SameFaults
  <2>11. Latest(t)
    BY <2>4, <2>9 DEF Latest
  <2>12. Keeps(s, t, {"init", "rescan", "health", "pending", "active"})
    BY <2>2, <2>4, <2>8 DEF Keeps, Fields
  <2> QED
    BY <1>2, <2>4, <2>6, <2>7, <2>8, <2>9, <2>10, <2>11, <2>12 DEF t
<1> QED
  BY <1>1, <1>2

\* An exception that is over is not needed any more.
LEMMA AttendedIs ==
    ASSUME NEW s \in State
    PROVE  /\ Attended(s) \in State
           /\ Sound(s) => Sound(Attended(s))
<1> DEFINE t == Attended(s)
           rest == {x \in s.stranded : CASE x = "rescan" -> s.rescan.paused /\ ~RecoveryBlocked(s)
                                         [] x = "wake" -> s.queue # {} /\ ~RecoveryBlocked(s)
                                         [] x = "health" -> s.health # "well"
                                         [] x = "fault" -> ~s.initialized}
<1>1. t = [s EXCEPT !.stranded = rest]
  BY DEF Attended, State
<1>2. rest \in SUBSET Strands
  BY DEF State
<1>3. /\ s.rescan.paused /\ ~RecoveryBlocked(s) /\ "rescan" \in s.stranded => "rescan" \in rest
      /\ s.queue # {} /\ ~RecoveryBlocked(s) /\ "wake" \in s.stranded => "wake" \in rest
      /\ s.health # "well" /\ "health" \in s.stranded => "health" \in rest
      /\ ~s.initialized /\ "fault" \in s.stranded => "fault" \in rest
  OBVIOUS
<1> HIDE DEF t, rest
<1>4. t \in State /\ Keeps(s, t, {"stranded"}) /\ t.stranded = rest
  BY <1>1, <1>2 DEF State, Keeps, Fields
<1>5. /\ t.initialized = s.initialized /\ t.inventory = s.inventory
      /\ t.activation = s.activation /\ t.stopped = s.stopped /\ t.timer = s.timer
      /\ t.pending = s.pending /\ t.active = s.active /\ t.queue = s.queue
      /\ t.autoTimer = s.autoTimer /\ t.health = s.health /\ t.writerTimer = s.writerTimer
      /\ t.writer = s.writer /\ t.init = s.init /\ t.work = s.work /\ t.rescan = s.rescan
  BY <1>4 DEF Keeps, Fields
<1>6. Faults(t) = Faults(s)
  BY <1>5, SameFaults
<1>7. HasWork(t) <=> HasWork(s)
  BY <1>5, <1>6 DEF HasWork
<1>8. RecoveryBlocked(t) <=> RecoveryBlocked(s)
  BY <1>5, <1>7 DEF RecoveryBlocked, WriterRecovering
<1>9. SUFFICES ASSUME Sound(s) PROVE Sound(t)
  BY <1>4 DEF t
<1>10. Coordinated(t) /\ Latest(t) /\ LeaseHeld(t)
  BY <1>5, <1>6, <1>7, <1>9 DEF Sound, Coordinated, Latest, LeaseHeld
<1>11. InFlight(t)
  BY <1>3, <1>4, <1>5, <1>9 DEF Sound, InFlight
<1>12. Resumed(t) /\ Served(t)
  BY <1>3, <1>4, <1>5, <1>8, <1>9 DEF Sound, Resumed, Served
<1>13. Repaired(t) /\ Retried(t)
  BY <1>3, <1>4, <1>5, <1>7, <1>9 DEF Sound, Repaired, Retried
<1>14. Started(t)
  BY <1>3, <1>4, <1>5, <1>6, <1>9 DEF Sound, Started
<1> QED
  BY <1>10, <1>11, <1>12, <1>13, <1>14 DEF Sound

\* While the root is being switched nothing has to be attended to.
LEMMA SwitchingIs ==
    ASSUME NEW s, s.activation # "none"
    PROVE  Resumed(s) /\ Served(s) /\ Repaired(s) /\ Retried(s) /\ Started(s)
  BY DEF Resumed, Served, Repaired, Retried, Started, RecoveryBlocked

\* What the queue, the scans and the work do not touch.
LEMMA QueueKeeps ==
    ASSUME NEW s, NEW t, Keeps(s, t, {"queue", "rescan", "work", "autoTimer"})
    PROVE  /\ HasWork(t) <=> HasWork(s)
           /\ Coordinated(s) => Coordinated(t)
           /\ Latest(s) => Latest(t)
           /\ Repaired(s) => Repaired(t)
           /\ Retried(s) => Retried(t)
           /\ Started(s) => Started(t)
           /\ \A kind \in Kinds : Attending(s, kind) => Attending(t, kind)
           /\ InFlight(s) /\ (s.activation = "switching" => t.work = NoWork) => InFlight(t)
           /\ LeaseHeld(s) /\ (t.work = s.work \/ ~HasWork(s)) => LeaseHeld(t)
<1>1. /\ t.initialized = s.initialized /\ t.inventory = s.inventory
      /\ t.activation = s.activation /\ t.stopped = s.stopped /\ t.timer = s.timer
      /\ t.pending = s.pending /\ t.active = s.active
      /\ t.health = s.health /\ t.writerTimer = s.writerTimer
      /\ t.writer = s.writer /\ t.init = s.init /\ t.stranded = s.stranded
  BY DEF Keeps, Fields
<1>2. Faults(t) = Faults(s)
  BY <1>1, SameFaults
<1>3. HasWork(t) <=> HasWork(s)
  BY <1>1, <1>2 DEF HasWork
<1>4. Coordinated(s) => Coordinated(t)
  BY <1>1, <1>2, <1>3 DEF Coordinated
<1>5. Latest(s) => Latest(t)
  BY <1>1 DEF Latest
<1>6. (Repaired(s) => Repaired(t)) /\ (Retried(s) => Retried(t)) /\ (Started(s) => Started(t))
  BY <1>1, <1>2, <1>3 DEF Repaired, Retried, Started
<1>7. \A kind \in Kinds : Attending(s, kind) => Attending(t, kind)
  BY <1>1, <1>2 DEF Attending
<1>8. InFlight(s) /\ (s.activation = "switching" => t.work = NoWork) => InFlight(t)
  BY <1>1 DEF InFlight
<1>9. LeaseHeld(s) /\ (t.work = s.work \/ ~HasWork(s)) => LeaseHeld(t)
  BY <1>1 DEF LeaseHeld, HasWork
<1> QED
  BY <1>3, <1>4, <1>5, <1>6, <1>7, <1>8, <1>9

\* A wake keeps the invariant (settleProviderBootstrap, and every other).
LEMMA WakeStep ==
    ASSUME NEW s, Good(s), NEW mode \in Modes
    PROVE  Good(Wake(s, mode))
<1> DEFINE t == Wake(s, mode)
<1>1. /\ t \in State
      /\ Keeps(s, t, {"queue", "rescan", "work"})
      /\ \/ t.work = s.work
         \/ /\ t.work # NoWork /\ s.work = NoWork
            /\ ~HasWork(s) /\ s.activation = "none" /\ s.stopped = "no"
      /\ Served(t)
      /\ Resumed(s) => Resumed(t)
  BY WakeIs DEF Good
<1> HIDE DEF t
<1>2. Keeps(s, t, {"queue", "rescan", "work", "autoTimer"})
  BY <1>1 DEF Keeps
<1>3. s.activation = "switching" => t.work = NoWork
  BY <1>1 DEF Good, Sound, InFlight
<1> QED
  BY <1>1, <1>2, <1>3, QueueKeeps DEF Good, Sound, t

\* The wake of the queue keeps the invariant.
LEMMA WakeQueuedStep ==
    ASSUME NEW s, Good(s)
    PROVE  Good(WakeQueued(s))
<1> DEFINE t == WakeQueued(s)
<1>1. /\ t \in State
      /\ Keeps(s, t, {"queue", "rescan", "work"})
      /\ \/ t.work = s.work
         \/ /\ t.work # NoWork /\ s.work = NoWork
            /\ ~HasWork(s) /\ s.activation = "none" /\ s.stopped = "no"
      /\ Served(t)
      /\ Resumed(s) => Resumed(t)
  BY WakeQueuedIs DEF Good
<1> HIDE DEF t
<1>2. Keeps(s, t, {"queue", "rescan", "work", "autoTimer"})
  BY <1>1 DEF Keeps
<1>3. s.activation = "switching" => t.work = NoWork
  BY <1>1 DEF Good, Sound, InFlight
<1> QED
  BY <1>1, <1>2, <1>3, QueueKeeps DEF Good, Sound, t

\* A step of the rescans keeps the invariant if it pauses them only with a reason.
LEMMA ScanStep ==
    ASSUME NEW s, Good(s), NEW t \in State, Keeps(s, t, {"rescan"}),
           t.rescan.paused => s.rescan.paused \/ RecoveryBlocked(s)
    PROVE  Good(t)
<1>1. Keeps(s, t, {"queue", "rescan", "work", "autoTimer"})
  BY DEF Keeps
<1>2. /\ t.work = s.work /\ t.queue = s.queue /\ t.initialized = s.initialized
      /\ t.autoTimer = s.autoTimer /\ t.stranded = s.stranded /\ t.activation = s.activation
  BY DEF Keeps, Fields
<1>3. RecoveryBlocked(t) <=> RecoveryBlocked(s)
  BY SameBlocked
<1>4. Resumed(t) /\ Served(t)
  BY <1>2, <1>3 DEF Good, Sound, Resumed, Served
<1>5. s.activation = "switching" => t.work = NoWork
  BY <1>2 DEF Good, Sound, InFlight
<1> QED
  BY <1>1, <1>2, <1>4, <1>5, QueueKeeps DEF Good, Sound

\* The end of a transaction whose lease, if it had one, has been given back.
LEMMA EndWorkStep ==
    ASSUME NEW s \in State, NEW blocked \in BOOLEAN,
           Coordinated(s), Latest(s), InFlight(s), Repaired(s), Retried(s), Started(s),
           s.activation # "switching",
           s.active # NoLease => s.init.stage # "none" /\ s.init.lease = s.active.id,
           blocked => \E kind \in Kinds : Attending(s, kind)
    PROVE  Good(EndWork(s, blocked))
<1> DEFINE t == EndWork(s, blocked)
<1>1. /\ t \in State
      /\ Keeps(s, t, {"queue", "rescan", "work"})
      /\ Resumed(t)
      /\ ~blocked => Served(t)
  BY EndWorkIs
<1> HIDE DEF t
<1>2. Keeps(s, t, {"queue", "rescan", "work", "autoTimer"})
  BY <1>1 DEF Keeps
<1>3. /\ Coordinated(t) /\ Latest(t) /\ InFlight(t) /\ Repaired(t) /\ Retried(t) /\ Started(t)
      /\ \A kind \in Kinds : Attending(s, kind) => Attending(t, kind)
  BY <1>2, QueueKeeps
<1>4. t.active = s.active /\ t.init = s.init
  BY <1>1 DEF Keeps, Fields
<1>5. LeaseHeld(t)
  BY <1>4 DEF LeaseHeld
<1>6. Served(t)
  BY <1>1, <1>3, AttendingIs
<1> QED
  BY <1>1, <1>3, <1>5, <1>6 DEF Good, Sound, t

\* A transaction names a lease or none.
LEMMA LeaseOfWork ==
    ASSUME NEW s \in State, s.work # NoWork
    PROVE  s.work \in Works /\ s.work.lease \in {0} \cup Leases
  BY DEF State, Works

\* A lease that is out has a number.
LEMMA ActiveLease ==
    ASSUME NEW s \in State, s.active # NoLease
    PROVE  s.active.id \in Leases /\ s.active.id # 0
  BY DEF State, Leased, Leases

\* The success of a transaction keeps the invariant.
LEMMA WorkSucceedsStep ==
    ASSUME NEW s, Good(s), s.work # NoWork
    PROVE  Good(WorkSucceeds(s))
<1> DEFINE id == s.work.lease
           c == Complete(s, id)
           t == WorkSucceeds(s)
<1>1. s \in State /\ Coordinated(s) /\ Latest(s) /\ LeaseHeld(s) /\ InFlight(s)
      /\ Repaired(s) /\ Retried(s) /\ Started(s)
  BY DEF Good, Sound
<1>2. id \in {0} \cup Leases
  BY <1>1, LeaseOfWork
<1>3. s.activation # "switching"
  BY <1>1 DEF InFlight
<1>4. s.active # NoLease /\ s.active.id # id => s.init.stage # "none" /\ s.init.lease = s.active.id
  BY <1>1 DEF LeaseHeld
<1>5. CASE id # 0 \/ s.work.op = "refresh"
  <2>1. t = EndWork(c, FALSE)
    BY <1>5 DEF WorkSucceeds
  <2>2. /\ c \in State
        /\ Keeps(s, c, Recovering \ {"writerTimer"})
        /\ Coordinated(c) /\ Latest(c)
        /\ s.stranded \subseteq c.stranded
        /\ c.health \in {s.health, "well"}
        /\ Started(c)
        /\ ~(id # 0 /\ s.active.id = id) => c = s
        /\ id # 0 /\ s.active.id = id => c.active = NoLease /\ Repaired(c)
    BY <1>1, <1>2, CompleteIs
  <2> HIDE DEF c, id, t
  <2>3. /\ c.writerTimer = s.writerTimer /\ c.writer = s.writer /\ c.activation = s.activation
        /\ c.init = s.init /\ c.work = s.work /\ c.initialized = s.initialized
    BY <2>2 DEF Keeps, Fields, Recovering
  <2>4. Repaired(c)
    BY <1>1, <2>2
  <2>5. Retried(c)
    BY <1>1, <2>2, <2>3 DEF Retried
  <2>6. InFlight(c)
    BY <1>1, <2>2, <2>3 DEF InFlight
  <2>7. c.active # NoLease => c.init.stage # "none" /\ c.init.lease = c.active.id
    BY <1>1, <1>4, <2>2, <2>3, ActiveLease
  <2> QED
    BY <1>3, <2>1, <2>2, <2>3, <2>4, <2>5, <2>6, <2>7, EndWorkStep DEF t
<1>6. CASE /\ id = 0
           /\ HasWork(s) \/ s.queue = {} \/ s.activation # "none" \/ s.stopped = "safety"
           /\ s.work.op # "refresh"
  <2>1. t = EndWork(s, FALSE)
    BY <1>6 DEF WorkSucceeds
  <2>2. s.active # NoLease => s.init.stage # "none" /\ s.init.lease = s.active.id
    BY <1>1, <1>4, <1>6, ActiveLease
  <2> QED
    BY <1>1, <1>3, <2>1, <2>2, EndWorkStep
<1>7. CASE /\ id = 0 /\ s.work.op # "refresh"
           /\ ~(HasWork(s) \/ s.queue = {} \/ s.activation # "none" \/ s.stopped = "safety")
  <2> DEFINE w == [op |-> First(s.queue), stage |-> "planning", lease |-> 0]
             q == s.queue \ {First(s.queue)}
  <2>1. t = [s EXCEPT !.work = w, !.queue = q]
    BY <1>1, <1>7 DEF WorkSucceeds, State
  <2>2. First(s.queue) \in Modes
    BY <1>1, FirstIs DEF State
  <2>3. w \in Works /\ q \in SUBSET Modes /\ w.op = First(s.queue)
    BY <1>1, <2>2 DEF Works, State, Ops, Modes
  <2>4. w # NoWork
    BY <2>2, <2>3 DEF NoWork, Modes
  <2> HIDE DEF w, q, t
  <2>5. t \in State /\ Keeps(s, t, {"work", "queue"}) /\ t.work = w
    BY <1>1, <2>1, <2>3 DEF State, Keeps, Fields
  <2>6. Keeps(s, t, {"queue", "rescan", "work", "autoTimer"})
    BY <2>5 DEF Keeps
  <2>7. Resumed(t) /\ Served(t)
    BY <2>4, <2>5 DEF Resumed, Served, RecoveryBlocked
  <2> QED
    BY <1>1, <1>3, <1>7, <2>5, <2>6, <2>7, QueueKeeps DEF Good, Sound, t
<1> QED
  BY <1>5, <1>6, <1>7

\* The failure of a transaction keeps the invariant.
LEMMA WorkFailsStep ==
    ASSUME NEW s, Good(s), s.work # NoWork, NEW kind \in Kinds
    PROVE  Good(WorkFails(s, kind))
<1> DEFINE id == s.work.lease
           op == IF s.work.stage = "refreshing" THEN "refresh" ELSE s.work.op
           h == Handle(s, kind, op)
           asked == IF kind = "writer" /\ s.work.op \in Modes
                    THEN [h EXCEPT !.queue = @ \cup {s.work.op}] ELSE h
           r == Release(asked, id, kind)
           t == WorkFails(s, kind)
<1>1. s \in State /\ Coordinated(s) /\ Latest(s) /\ LeaseHeld(s) /\ InFlight(s)
      /\ Repaired(s) /\ Retried(s) /\ Started(s)
  BY DEF Good, Sound
<1>2. id \in {0} \cup Leases /\ op \in Ops
  BY <1>1, LeaseOfWork DEF Works, Ops
<1>3. s.activation # "switching"
  BY <1>1 DEF InFlight
<1>4. CASE s.activation # "none"
  <2>1. t = EndWork(s, FALSE)
    BY <1>4 DEF WorkFails
  <2>2. s.active = NoLease
    BY <1>1, <1>4 DEF Coordinated, HasWork
  <2> QED
    BY <1>1, <1>3, <2>1, <2>2, EndWorkStep
<1>5. CASE s.activation = "none"
  <2>1. t = EndWork(r, TRUE)
    BY <1>5 DEF WorkFails
  <2>2. /\ h \in State /\ Keeps(s, h, Recovering)
        /\ Coordinated(h) /\ Latest(h) /\ Attending(h, kind)
        /\ h.active = NoLease \/ h.active.id = s.active.id
        /\ s.stranded \subseteq h.stranded
    BY <1>1, <1>2, <1>5, HandleIs
  <2> HIDE DEF h, op
  <2>3. asked \in State /\ Keeps(h, asked, {"queue"})
    <3>1. CASE kind = "writer" /\ s.work.op \in Modes
      <4>1. h.queue \cup {s.work.op} \in SUBSET Modes
        BY <2>2, <3>1 DEF State
      <4>2. asked = [h EXCEPT !.queue = h.queue \cup {s.work.op}]
        BY <2>2, <3>1 DEF State
      <4> HIDE DEF asked
      <4> QED
        BY <2>2, <4>1, <4>2 DEF State, Keeps, Fields
    <3>2. CASE ~(kind = "writer" /\ s.work.op \in Modes)
      BY <2>2, <3>2 DEF Keeps
    <3> QED
      BY <3>1, <3>2
  <2> HIDE DEF asked
  <2>4. Keeps(h, asked, {"queue", "rescan", "work", "autoTimer"})
    BY <2>3 DEF Keeps
  <2>5. Coordinated(asked) /\ Latest(asked) /\ Attending(asked, kind)
    BY <2>2, <2>4, QueueKeeps
  <2>6. /\ asked.activation = "none" /\ asked.active = h.active /\ asked.init = s.init
        /\ asked.stranded = h.stranded /\ asked.initialized = s.initialized
        /\ asked.writer = s.writer /\ asked.work = s.work
    BY <1>5, <2>2, <2>3 DEF Keeps, Fields, Recovering
  <2>7. /\ r \in State
        /\ Keeps(asked, r, Recovering \ {"writerTimer", "health", "stranded"})
        /\ Coordinated(r) /\ Latest(r) /\ Attending(r, kind)
        /\ r.active = NoLease \/ (r.active = asked.active /\ (id = 0 \/ r.active.id # id))
    BY <1>2, <2>3, <2>5, <2>6, ReleaseIs
  <2> HIDE DEF r, id
  <2>8. /\ r.activation = "none" /\ r.init = s.init /\ r.stranded = h.stranded
        /\ r.initialized = s.initialized /\ r.writer = s.writer /\ r.work = s.work
    BY <2>6, <2>7 DEF Keeps, Fields, Recovering
  <2>9. InFlight(r)
    BY <1>1, <2>2, <2>8 DEF InFlight
  <2>10. r.active # NoLease => r.init.stage # "none" /\ r.init.lease = r.active.id
    <3>1. SUFFICES ASSUME r.active # NoLease PROVE r.init.stage # "none" /\ r.init.lease = r.active.id
      OBVIOUS
    <3>2. r.active.id = s.active.id /\ r.active.id # 0 /\ r.active.id # id
      BY <2>2, <2>6, <2>7, <3>1, ActiveLease
    <3>3. s.active # NoLease
      BY <3>2 DEF NoLease
    <3> QED
      BY <1>1, <2>8, <3>2, <3>3 DEF LeaseHeld, id
  <2>11. Repaired(r) /\ Retried(r) /\ Started(r)
    BY <2>7, AttendingIs
  <2> QED
    BY <2>1, <2>7, <2>8, <2>9, <2>10, <2>11, EndWorkStep
<1> QED
  BY <1>4, <1>5

\* A dispatch gives the lease to a transaction in flight, whatever it leases.
LEMMA DispatchStep ==
    ASSUME NEW s, Good(s), s.timer, s.activation = "none", s.init.stage = "none",
           s.work = NoWork, ~WriterRecovering(s),
           NEW op \in Faults(s), op # "initial" => s.initialized, NEW id \in Leases
    PROVE  LET d == [s EXCEPT
                       !.timer = FALSE,
                       !.active = [id |-> id, op |-> op, revision |-> s.pending[op]],
                       !.pending = IF op = "initial" THEN [o \in Ops |-> "none"]
                                   ELSE [@ EXCEPT ![op] = "none"]]
           IN  /\ op = "initial" /\ d.initialized => Good(CompleteInitial(d, id))
               /\ op = "initial" /\ ~d.initialized => Good(BeginInit(d, "lease", id))
               /\ op = "refresh" =>
                    Good([d EXCEPT !.work = [op |-> op, stage |-> "refreshing", lease |-> id]])
               /\ op \in Modes => Good(StartBacklog(d, op, id))
<1> DEFINE a == [id |-> id, op |-> op, revision |-> s.pending[op]]
           p == IF op = "initial" THEN [o \in Ops |-> "none"] ELSE [s.pending EXCEPT ![op] = "none"]
           d == [s EXCEPT !.timer = FALSE,
                          !.active = [id |-> id, op |-> op, revision |-> s.pending[op]],
                          !.pending = IF op = "initial" THEN [o \in Ops |-> "none"]
                                      ELSE [@ EXCEPT ![op] = "none"]]
<1>1. s \in State /\ Coordinated(s) /\ Latest(s) /\ LeaseHeld(s) /\ InFlight(s)
      /\ Repaired(s) /\ Retried(s) /\ Started(s)
  BY DEF Good, Sound
<1>2. op \in Ops /\ s.pending \in [Ops -> {"none", "latest", "older"}] /\ s.pending[op] # "none"
  BY <1>1 DEF Faults, State
<1>3. a \in Leased /\ a.id = id /\ a.revision = s.pending[op]
  BY <1>2 DEF Leased
<1>4. p \in [Ops -> {"none", "latest", "older"}] /\ \A o \in Ops : p[o] \in {"none", s.pending[o]}
  BY <1>2
<1>5. d = [s EXCEPT !.timer = FALSE, !.active = a, !.pending = p]
  BY <1>1 DEF State
<1> HIDE DEF a, p, d
<1>6. d \in State /\ Keeps(s, d, {"timer", "active", "pending"}) /\ ~d.timer /\ d.active = a /\ d.pending = p
  BY <1>1, <1>3, <1>4, <1>5 DEF State, Keeps, Fields
<1>7. /\ d.activation = "none" /\ d.stopped = s.stopped /\ d.init = s.init /\ d.work = NoWork
      /\ d.initialized = s.initialized /\ d.health = s.health /\ d.writer = s.writer
      /\ d.writerTimer = s.writerTimer /\ d.stranded = s.stranded
  BY <1>6 DEF Keeps, Fields
<1>8. d.active # NoLease /\ d.active.id = id
  BY <1>3, <1>6 DEF NoLease, Leases
<1>9. HasWork(d) /\ RecoveryBlocked(d)
  BY <1>8 DEF HasWork, RecoveryBlocked
<1>10. s.stopped = "no" /\ s.init = NoInit
  BY <1>1 DEF Coordinated, HasWork, InFlight
<1>11. Coordinated(d)
  BY <1>6, <1>7, <1>8, <1>10 DEF Coordinated
<1>12. s.health # "blocked" /\ s.writer = "none"
  BY DEF WriterRecovering
<1>13. InFlight(d)
  BY <1>1, <1>7 DEF InFlight
<1>14. d.initialized => Latest(d)
  BY <1>1, <1>2, <1>3, <1>4, <1>6, <1>7 DEF Latest
<1>15. ASSUME op = "initial", d.initialized
       PROVE  Good(CompleteInitial(d, id))
  <2> DEFINE t == CompleteInitial(d, id)
  <2>1. id # 0
    BY DEF Leases
  <2>2. Started(d) /\ Served(d)
    BY <1>9, <1>15 DEF Started, Served
  <2>3. /\ t \in State
        /\ Keeps(d, t, Recovering \ {"writerTimer"})
        /\ Coordinated(t) /\ Latest(t)
        /\ d.stranded \subseteq t.stranded
        /\ t.health \in {d.health, "well"}
        /\ Started(t) /\ Served(t)
        /\ t.active = NoLease /\ Repaired(t) /\ Resumed(t)
    BY <1>6, <1>8, <1>11, <1>14, <1>15, <2>1, <2>2, CompleteInitialIs
  <2> HIDE DEF t
  <2>4. /\ t.writer = d.writer /\ t.activation = d.activation
        /\ t.init = d.init /\ t.work = d.work /\ t.initialized = d.initialized
    BY <2>3 DEF Keeps, Fields, Recovering
  <2>5. InFlight(t)
    BY <1>13, <1>15, <2>4 DEF InFlight
  <2>6. Retried(t) /\ LeaseHeld(t)
    BY <1>7, <1>12, <2>3 DEF Retried, LeaseHeld
  <2> QED
    BY <2>3, <2>5, <2>6 DEF Good, Sound, t
<1>16. ASSUME op = "initial", ~d.initialized
       PROVE  Good(BeginInit(d, "lease", id))
  <2> DEFINE t == BeginInit(d, "lease", id)
  <2>1. d.init.stage = "none" /\ d.init.callers = {} /\ d.init = NoInit
    BY <1>7, <1>10 DEF NoInit
  <2>2. id \in {0} \cup Leases
    OBVIOUS
  <2>3. /\ t \in State
        /\ Keeps(d, t, {"init", "rescan", "health", "pending", "active"})
        /\ Faults(t) = Faults(d)
        /\ t.active.id = d.active.id
        /\ t.active = NoLease <=> d.active = NoLease
        /\ t.init.stage # "none"
        /\ t.init.callers = d.init.callers \cup {"lease"}
        /\ t.init.stage = "hydrating" => d.init.stage = "hydrating"
        /\ t.init.lease = id
        /\ t.health = "well"
        /\ Latest(t)
    BY <1>6, <2>1, <2>2, BeginInitIs
  <2> HIDE DEF t
  <2>4. /\ t.writer = d.writer /\ t.activation = d.activation /\ t.timer = d.timer
        /\ t.stopped = d.stopped /\ t.work = d.work /\ t.initialized = d.initialized
    BY <2>3 DEF Keeps, Fields
  <2>5. Coordinated(t)
    BY <1>11, <2>3, <2>4 DEF Coordinated, HasWork
  <2>6. RecoveryBlocked(t)
    BY <2>3 DEF RecoveryBlocked
  <2>7. Resumed(t) /\ Served(t) /\ Repaired(t) /\ Retried(t) /\ Started(t)
    BY <2>3, <2>6 DEF Resumed, Served, Repaired, Retried, Started
  <2>8. InFlight(t)
    BY <1>7, <1>12, <2>1, <2>3, <2>4 DEF InFlight
  <2>9. LeaseHeld(t)
    BY <1>8, <2>3 DEF LeaseHeld
  <2> QED
    BY <2>3, <2>5, <2>7, <2>8, <2>9 DEF Good, Sound, t
\* What begins a transaction that holds the lease.
<1>17. ASSUME NEW t \in State, Keeps(d, t, {"queue", "rescan", "work"}), d.initialized,
              t.work # NoWork, t.work.lease = id
       PROVE  Good(t)
  <2>1. Keeps(d, t, {"queue", "rescan", "work", "autoTimer"})
    BY <1>17 DEF Keeps
  <2>2. RecoveryBlocked(t)
    BY <1>17 DEF RecoveryBlocked
  <2>3. Resumed(t) /\ Served(t)
    BY <2>2 DEF Resumed, Served
  <2>4. Repaired(d) /\ Retried(d) /\ Started(d)
    BY <1>7, <1>9, <1>12, <1>17 DEF Repaired, Retried, Started
  <2>5. t.active = d.active
    BY <1>17 DEF Keeps, Fields
  <2>6. LeaseHeld(t)
    BY <1>8, <1>17, <2>5 DEF LeaseHeld
  <2>7. Coordinated(t) /\ Latest(t) /\ InFlight(t) /\ Repaired(t) /\ Retried(t) /\ Started(t)
    BY <1>7, <1>11, <1>13, <1>14, <1>17, <2>1, <2>4, QueueKeeps
  <2> QED
    BY <1>17, <2>3, <2>6, <2>7 DEF Good, Sound
<1>18. ASSUME op = "refresh"
       PROVE  Good([d EXCEPT !.work = [op |-> op, stage |-> "refreshing", lease |-> id]])
  <2> DEFINE w == [op |-> op, stage |-> "refreshing", lease |-> id]
             t == [d EXCEPT !.work = w]
  <2>1. w \in Works /\ w.op = "refresh" /\ w.lease = id
    BY <1>18 DEF Works, Ops
  <2>2. w # NoWork
    BY <2>1 DEF NoWork
  <2> HIDE DEF w
  <2>3. t \in State /\ Keeps(d, t, {"work"}) /\ t.work = w
    BY <1>6, <2>1 DEF State, Keeps, Fields
  <2> HIDE DEF t
  <2>4. Keeps(d, t, {"queue", "rescan", "work"})
    BY <2>3 DEF Keeps
  <2>5. Good(t)
    BY <1>7, <1>17, <1>18, <2>1, <2>2, <2>3, <2>4
  <2> QED
    BY <2>5 DEF t, w
<1>19. ASSUME op \in Modes
       PROVE  Good(StartBacklog(d, op, id))
  <2> DEFINE t == StartBacklog(d, op, id)
  <2>1. d.initialized
    BY <1>7, <1>19 DEF Modes
  <2>2. id \in {0} \cup Leases
    OBVIOUS
  <2>3. /\ t \in State /\ Keeps(d, t, {"queue", "rescan", "work"})
        /\ t.work = [op |-> op, stage |-> "planning", lease |-> id] /\ t.work # NoWork
    BY <1>6, <1>7, <1>19, <2>1, <2>2, StartBacklogIs
  <2>4. t.work.lease = id
    BY <2>3
  <2> QED
    BY <1>17, <2>1, <2>3, <2>4
<1> QED
  BY <1>15, <1>16, <1>18, <1>19 DEF d

\* An initialization that no lease asked for keeps the invariant.
LEMMA BeginInitStep ==
    ASSUME NEW s \in State, NEW caller \in {"loadAll", "writer"},
           Coordinated(s), Latest(s), LeaseHeld(s), Repaired(s), Retried(s),
           s.init.stage = "none" => s.init = NoInit,
           s.init.lease # 0 => "lease" \in s.init.callers,
           s.writer = "initializing" <=> "writer" \in s.init.callers \cup {caller},
           s.activation = "switching" => s.writer = "none" /\ s.work = NoWork,
           s.init.stage = "hydrating" => s.initialized \/ "fault" \in s.stranded
    PROVE  Good(BeginInit(s, caller, 0))
<1> DEFINE t == BeginInit(s, caller, 0)
<1>1. 0 \in {0} \cup Leases
  OBVIOUS
<1>2. /\ t \in State
      /\ Keeps(s, t, {"init", "rescan", "health", "pending", "active"})
      /\ Faults(t) = Faults(s)
      /\ t.active.id = s.active.id
      /\ t.active = NoLease <=> s.active = NoLease
      /\ t.init.stage # "none"
      /\ t.init.callers = s.init.callers \cup {caller}
      /\ t.init.stage = "hydrating" => s.init.stage = "hydrating"
      /\ t.init.lease = IF s.init.stage = "none" THEN 0 ELSE s.init.lease
      /\ t.health \in {s.health, "well"}
      /\ Latest(t)
  BY <1>1, BeginInitIs
<1> HIDE DEF t
<1>3. /\ t.writer = s.writer /\ t.activation = s.activation /\ t.timer = s.timer
      /\ t.stopped = s.stopped /\ t.work = s.work /\ t.initialized = s.initialized
      /\ t.writerTimer = s.writerTimer /\ t.stranded = s.stranded
  BY <1>2 DEF Keeps, Fields
<1>4. HasWork(t) <=> HasWork(s)
  BY <1>2 DEF HasWork
<1>5. Coordinated(t)
  BY <1>2, <1>3, <1>4 DEF Coordinated
<1>6. RecoveryBlocked(t)
  BY <1>2 DEF RecoveryBlocked
<1>7. Resumed(t) /\ Served(t) /\ Started(t)
  BY <1>2, <1>6 DEF Resumed, Served, Started
<1>8. Repaired(t) /\ Retried(t)
  BY <1>2, <1>3, <1>4 DEF Repaired, Retried
<1>9. InFlight(t)
  BY <1>2, <1>3 DEF InFlight
<1>10. LeaseHeld(t)
  BY <1>2, <1>3 DEF LeaseHeld
<1> QED
  BY <1>2, <1>5, <1>7, <1>8, <1>9, <1>10 DEF Good, Sound, t

\* What the fields in X do not touch, for the state of writer recovery.
LEMMA EndWriterStep ==
    ASSUME NEW s \in State,
           NEW n, n = [s EXCEPT !.writer = "none"],
           Coordinated(n), Latest(n), LeaseHeld(n), InFlight(n),
           Repaired(n), Retried(n), Started(n)
    PROVE  Good(EndWriter(s))
<1> DEFINE e == ResumeIfSafe(n)
           t == EndWriter(s)
<1>1. n \in State /\ Keeps(s, n, {"writer"})
  BY DEF State, Keeps, Fields
<1>2. t = IF s.health = "blocked" THEN e ELSE WakeQueued(e)
  BY DEF EndWriter
<1>3. /\ e \in State /\ Keeps(n, e, {"rescan"})
      /\ e.rescan.paused => RecoveryBlocked(e)
  BY <1>1, ResumeIfSafeIs
<1> HIDE DEF e, t
<1>4. e.work = n.work /\ e.health = s.health /\ e.activation = n.activation
  BY <1>1, <1>3 DEF Keeps, Fields
<1>5. Keeps(n, e, {"queue", "rescan", "work", "autoTimer"})
  BY <1>3 DEF Keeps
<1>6. n.activation = "switching" => e.work = NoWork
  BY <1>4 DEF InFlight
<1>7. /\ Coordinated(e) /\ Latest(e) /\ LeaseHeld(e) /\ InFlight(e)
      /\ Repaired(e) /\ Retried(e) /\ Started(e)
  BY <1>4, <1>5, <1>6, QueueKeeps
<1>8. Resumed(e)
  BY <1>3 DEF Resumed
<1>9. CASE s.health = "blocked"
  <2>1. Served(e)
    BY <1>4, <1>9 DEF Served, RecoveryBlocked, WriterRecovering
  <2>2. t = e
    BY <1>2, <1>9
  <2> QED
    BY <1>3, <1>7, <1>8, <2>1, <2>2 DEF Good, Sound, t
<1>10. CASE s.health # "blocked"
  <2> DEFINE w == WakeQueued(e)
  <2>1. /\ w \in State
        /\ Keeps(e, w, {"queue", "rescan", "work"})
        /\ \/ w.work = e.work
           \/ /\ w.work # NoWork /\ e.work = NoWork
              /\ ~HasWork(e) /\ e.activation = "none" /\ e.stopped = "no"
        /\ Served(w) /\ Resumed(w)
    BY <1>3, <1>8, WakeQueuedIs
  <2>2. t = w
    BY <1>2, <1>10
  <2> HIDE DEF w
  <2>3. Keeps(e, w, {"queue", "rescan", "work", "autoTimer"})
    BY <2>1 DEF Keeps
  <2>4. e.activation = "switching" => w.work = NoWork
    BY <1>7, <2>1 DEF InFlight
  <2>5. /\ Coordinated(w) /\ Latest(w) /\ LeaseHeld(w) /\ InFlight(w)
        /\ Repaired(w) /\ Retried(w) /\ Started(w)
    BY <1>7, <2>1, <2>3, <2>4, QueueKeeps
  <2> QED
    BY <2>1, <2>2, <2>5 DEF Good, Sound, t
<1> QED
  BY <1>9, <1>10

\* A failure of writer recovery keeps the invariant.
LEMMA WriterFailsStep ==
    ASSUME NEW s \in State, NEW kind \in Kinds,
           Coordinated(s), LeaseHeld(s), InFlight([s EXCEPT !.writer = "none"]),
           s.activation # "none" => Latest(s)
    PROVE  Good(WriterFails(s, kind))
<1> DEFINE m == [s EXCEPT !.writer = "none"]
           h == Handle(s, kind, "initial")
           x == IF kind = "writer" THEN h ELSE [h EXCEPT !.writerTimer = FALSE]
           n == [x EXCEPT !.writer = "none"]
           t == WriterFails(s, kind)
<1>1. m \in State /\ Keeps(s, m, {"writer"}) /\ m.writer = "none"
  BY DEF State, Keeps, Fields
<1>2. InFlight(m)
  OBVIOUS
<1> HIDE DEF m
<1>3. CASE s.activation # "none"
  <2>1. t = EndWriter(s)
    BY <1>3 DEF WriterFails
  <2>2. /\ m.activation = s.activation /\ m.pending = s.pending /\ m.active = s.active
        /\ m.stopped = s.stopped /\ m.timer = s.timer /\ m.health = s.health
        /\ m.initialized = s.initialized /\ m.init = s.init /\ m.work = s.work
    BY <1>1 DEF Keeps, Fields
  <2>3. Repaired(m) /\ Retried(m) /\ Started(m)
    BY <1>3, <2>2, SwitchingIs
  <2>4. Coordinated(m) /\ Latest(m) /\ LeaseHeld(m)
    BY <1>3, <2>2, SameFaults DEF Coordinated, Latest, LeaseHeld, HasWork
  <2> QED
    BY <1>2, <2>1, <2>3, <2>4, EndWriterStep DEF m
<1>4. CASE s.activation = "none"
  <2>1. t = EndWriter(x)
    BY <1>4 DEF WriterFails
  <2>2. "initial" \in Ops
    BY DEF Ops
  <2>3. /\ h \in State /\ Keeps(s, h, Recovering)
        /\ Coordinated(h) /\ Latest(h) /\ Attending(h, kind)
        /\ h.active = NoLease \/ h.active.id = s.active.id
        /\ s.stranded \subseteq h.stranded
    BY <1>4, <2>2, HandleIs
  <2> HIDE DEF h, t
  <2>4. x \in State /\ Keeps(h, x, {"writerTimer"}) /\ (kind = "writer" => x.writerTimer = h.writerTimer)
    <3>1. CASE kind = "writer"
      BY <2>3, <3>1 DEF Keeps
    <3>2. CASE kind # "writer"
      <4>1. x = [h EXCEPT !.writerTimer = FALSE]
        BY <3>2
      <4> HIDE DEF x
      <4> QED
        BY <2>3, <3>2, <4>1 DEF State, Keeps, Fields
    <3> QED
      BY <3>1, <3>2
  <2> HIDE DEF x
  <2>5. n \in State /\ Keeps(x, n, {"writer"}) /\ n.writer = "none"
    BY <2>4 DEF State, Keeps, Fields
  <2>6. /\ n.activation = "none" /\ n.pending = h.pending /\ n.active = h.active
        /\ n.stopped = h.stopped /\ n.timer = h.timer /\ n.health = h.health
        /\ n.initialized = h.initialized /\ n.stranded = h.stranded
        /\ kind = "writer" => n.writerTimer = h.writerTimer
    BY <1>4, <2>3, <2>4, <2>5 DEF Keeps, Fields, Recovering
  <2>7. n.init = s.init /\ n.work = s.work /\ n.initialized = s.initialized
    BY <2>3, <2>4, <2>5 DEF Keeps, Fields, Recovering
  <2> HIDE DEF n
  <2>8. Faults(n) = Faults(h)
    BY <2>6, SameFaults
  <2>9. Coordinated(n) /\ Latest(n)
    <3>1. h.activation = "none"
      BY <1>4, <2>3 DEF Keeps, Fields, Recovering
    <3> QED
      BY <2>3, <2>6, <2>8, <3>1 DEF Coordinated, Latest, HasWork
  <2>10. Attending(n, kind)
    BY <2>3, <2>6, <2>8 DEF Attending
  <2>11. LeaseHeld(n)
    <3>1. SUFFICES ASSUME n.active # NoLease PROVE s.active # NoLease /\ s.active.id = n.active.id
      BY <2>7 DEF LeaseHeld
    <3>2. n.active.id # 0
      BY <2>5, <3>1, ActiveLease
    <3> QED
      BY <2>3, <2>6, <3>1, <3>2 DEF NoLease
  <2>12. InFlight(n)
    <3>1. /\ m.init = s.init /\ m.activation = "none" /\ m.initialized = s.initialized
          /\ m.stranded = s.stranded
      BY <1>1, <1>4 DEF Keeps, Fields
    <3> QED
      BY <1>1, <1>2, <2>3, <2>5, <2>6, <2>7, <3>1 DEF InFlight
  <2>13. Repaired(n) /\ Retried(n) /\ Started(n)
    BY <2>10, AttendingIs
  <2> QED
    BY <2>1, <2>4, <2>9, <2>11, <2>12, <2>13, EndWriterStep DEF n, t
<1> QED
  BY <1>3, <1>4

\* The finally of an initialization, before its callers go on.
LEMMA SettleInitIs ==
    ASSUME NEW s \in State, NEW u \in State, NEW mode \in Modes,
           Coordinated(s), InFlight(s),
           Keeps(s, u, {"initialized", "health", "pending", "active", "writerTimer"}),
           Faults(u) = Faults(s), u.active = NoLease <=> s.active = NoLease
    PROVE  LET w == SettleInit(u, mode)
           IN  /\ w \in State
               /\ Keeps(u, w, {"init", "queue", "rescan", "work"})
               /\ w.init = NoInit
               /\ Coordinated(w) /\ (Latest(u) => Latest(w))
               /\ Resumed(w) /\ Served(w)
               /\ s.work # NoWork => w.work = s.work
               /\ w.activation = "switching" => w.work = NoWork
<1> DEFINE n == [u EXCEPT !.init = NoInit]
           e == ResumeIfSafe(n)
           w == SettleInit(u, mode)
<1>1. w = Wake(e, mode)
  BY DEF SettleInit
<1>2. NoInit \in Inits
  BY DEF NoInit, Inits
<1>3. n \in State /\ Keeps(u, n, {"init"}) /\ n.init = NoInit
  BY <1>2 DEF State, Keeps, Fields
<1> HIDE DEF n, w
<1>4. /\ e \in State /\ Keeps(n, e, {"rescan"})
      /\ e.rescan.paused => RecoveryBlocked(e)
  BY <1>3, ResumeIfSafeIs
<1> HIDE DEF e
<1>5. Resumed(e)
  BY <1>4 DEF Resumed
<1>6. /\ w \in State
      /\ Keeps(e, w, {"queue", "rescan", "work"})
      /\ \/ w.work = e.work
         \/ /\ w.work # NoWork /\ e.work = NoWork
            /\ ~HasWork(e) /\ e.activation = "none" /\ e.stopped = "no"
      /\ Served(w) /\ Resumed(w)
  BY <1>1, <1>4, <1>5, WakeIs
<1>7. Keeps(u, w, {"init", "queue", "rescan", "work"}) /\ w.init = NoInit
  BY <1>3, <1>4, <1>6 DEF Keeps, Fields
<1>8. e.work = s.work /\ e.activation = s.activation
  BY <1>3, <1>4 DEF Keeps, Fields
<1>9. /\ w.activation = s.activation /\ w.stopped = s.stopped /\ w.timer = s.timer
      /\ w.pending = u.pending /\ w.active = u.active /\ w.health = u.health
      /\ w.initialized = u.initialized
  BY <1>7 DEF Keeps, Fields
<1>10. Faults(w) = Faults(s)
  BY <1>9, SameFaults
<1>11. Coordinated(w)
  BY <1>9, <1>10 DEF Coordinated, HasWork
<1>12. Latest(u) => Latest(w)
  BY <1>9 DEF Latest
<1>13. w.activation = "switching" => w.work = NoWork
  BY <1>6, <1>8, <1>9 DEF InFlight
<1> QED
  BY <1>6, <1>7, <1>8, <1>11, <1>12, <1>13 DEF w

\* The success of an initialization, for all its callers, keeps the invariant.
LEMMA InitSucceedsStep ==
    ASSUME NEW s, Good(s), s.init.stage = "hydrating", NEW mode \in Modes
    PROVE  Good(InitSucceeds(s, mode))
<1> DEFINE v == Transition(s, "well")
           u == [v EXCEPT !.writerTimer = FALSE]
           w == SettleInit(u, mode)
           id == s.init.lease
           c == IF "lease" \in s.init.callers THEN CompleteInitial(w, id) ELSE w
           k == ClearSchedule(c)
           f == [k EXCEPT !.writerTimer = FALSE, !.writer = "compensating"]
           t == InitSucceeds(s, mode)
<1>1. s \in State /\ Coordinated(s) /\ LeaseHeld(s) /\ InFlight(s)
  BY DEF Good, Sound
<1>2. t = IF "writer" \in s.init.callers THEN f ELSE c
  BY DEF InitSucceeds
<1>3. "well" \in Healths
  BY DEF Healths
<1>4. /\ v \in State
      /\ Keeps(s, v, {"health", "pending", "active"})
      /\ v.health = "well"
      /\ Faults(v) = Faults(s)
      /\ \A o \in Ops : v.pending[o] # "latest"
      /\ v.active.id = s.active.id
      /\ v.active = NoLease <=> s.active = NoLease
      /\ v.active # NoLease => v.active.revision = "older"
  BY <1>1, <1>3, TransitionIs
<1> HIDE DEF v, t
<1>5. u \in State /\ Keeps(v, u, {"writerTimer"})
  BY <1>4 DEF State, Keeps, Fields
<1> HIDE DEF u
<1>6. /\ u.pending = v.pending /\ u.active = v.active /\ u.health = "well"
      /\ u.initialized = s.initialized /\ u.stranded = s.stranded /\ u.writer = s.writer
      /\ u.activation = s.activation
  BY <1>4, <1>5 DEF Keeps, Fields
<1>7. Keeps(s, u, {"initialized", "health", "pending", "active", "writerTimer"})
  BY <1>4, <1>5 DEF Keeps, Fields
<1>8. Faults(u) = Faults(s) /\ Latest(u)
  BY <1>4, <1>6, SameFaults DEF Latest
<1>9. /\ w \in State
      /\ Keeps(u, w, {"init", "queue", "rescan", "work"})
      /\ w.init = NoInit
      /\ Coordinated(w) /\ Latest(w)
      /\ Resumed(w) /\ Served(w)
      /\ s.work # NoWork => w.work = s.work
      /\ w.activation = "switching" => w.work = NoWork
  BY <1>1, <1>4, <1>5, <1>6, <1>7, <1>8, SettleInitIs
<1> HIDE DEF w
<1>10. /\ w.health = "well" /\ w.initialized = s.initialized /\ w.stranded = s.stranded
       /\ w.writer = s.writer /\ w.activation = s.activation /\ w.active = u.active
  BY <1>6, <1>9 DEF Keeps, Fields
<1>11. s.initialized \/ "fault" \in s.stranded
  BY <1>1 DEF InFlight
<1>12. id \in {0} \cup Leases
  BY <1>1 DEF State, Inits
<1>13. Started(w)
  BY <1>10, <1>11 DEF Started
<1>14. /\ c \in State
       /\ Keeps(w, c, Recovering \ {"writerTimer"})
       /\ Coordinated(c) /\ Latest(c)
       /\ w.stranded \subseteq c.stranded
       /\ c.health = "well"
       /\ Served(c) /\ Resumed(c)
       /\ ~("lease" \in s.init.callers /\ id # 0 /\ w.active.id = id) => c.active = w.active
       /\ "lease" \in s.init.callers /\ id # 0 /\ w.active.id = id => c.active = NoLease
  <2>1. CASE "lease" \in s.init.callers
    <3> DEFINE d == CompleteInitial(w, id)
    <3>1. c = d
      BY <2>1
    <3> HIDE DEF c
    <3>2. /\ d \in State
          /\ Keeps(w, d, Recovering \ {"writerTimer"})
          /\ Coordinated(d) /\ Latest(d)
          /\ w.stranded \subseteq d.stranded
          /\ d.health \in {w.health, "well"}
          /\ Served(d) /\ Resumed(d)
          /\ ~(id # 0 /\ w.active.id = id) => d.active = w.active
          /\ id # 0 /\ w.active.id = id => d.active = NoLease
      BY <1>9, <1>12, CompleteInitialIs
    <3> HIDE DEF d, id
    <3> QED
      BY <1>10, <2>1, <3>1, <3>2
  <2>2. CASE "lease" \notin s.init.callers
    <3>1. c = w
      BY <2>2
    <3> HIDE DEF c, id
    <3> QED
      BY <1>9, <1>10, <2>2, <3>1 DEF Keeps
  <2> QED
    BY <2>1, <2>2
<1> HIDE DEF c
<1>15. /\ c.initialized = s.initialized /\ c.writer = s.writer /\ c.activation = s.activation
       /\ c.init = NoInit /\ c.work = w.work
  BY <1>9, <1>10, <1>14 DEF Keeps, Fields, Recovering
<1>16. c.initialized \/ "fault" \in c.stranded
  BY <1>10, <1>11, <1>14, <1>15
<1>17. CASE "writer" \notin s.init.callers
  <2>1. t = c
    BY <1>2, <1>17
  <2>2. LeaseHeld(c)
    <3>1. SUFFICES ASSUME c.active # NoLease PROVE c.work # NoWork /\ c.work.lease = c.active.id
      BY DEF LeaseHeld
    <3>2. c.active = w.active /\ ~("lease" \in s.init.callers /\ id # 0 /\ w.active.id = id)
      BY <1>14, <3>1
    <3>3. c.active.id # 0 /\ c.active.id = s.active.id
      BY <1>4, <1>6, <1>10, <1>14, <3>1, <3>2, ActiveLease
    <3>4. s.active # NoLease
      BY <3>3 DEF NoLease
    <3>5. ~(s.init.lease = s.active.id)
      BY <1>1, <1>10, <3>2, <3>3 DEF InFlight
    <3> QED
      BY <1>1, <1>9, <1>15, <3>3, <3>4, <3>5 DEF LeaseHeld
  <2>3. InFlight(c)
    BY <1>1, <1>9, <1>10, <1>15, <1>17 DEF InFlight, NoInit
  <2>4. Repaired(c) /\ Retried(c) /\ Started(c)
    BY <1>14, <1>16 DEF Repaired, Retried, Started
  <2> QED
    BY <1>14, <2>1, <2>2, <2>3, <2>4 DEF Good, Sound, t
<1>18. CASE "writer" \in s.init.callers
  <2>1. t = f
    BY <1>2, <1>18
  <2>2. /\ k \in State
        /\ Keeps(c, k, {"pending", "active", "timer", "attempts", "stopped"})
        /\ ~HasWork(k) /\ ~k.timer
        /\ \A o \in Ops : k.pending[o] = "none"
    BY <1>14, ClearScheduleIs
  <2> HIDE DEF k
  <2>3. f \in State /\ Keeps(k, f, {"writerTimer", "writer"}) /\ f.writer = "compensating"
    BY <2>2 DEF State, Keeps, Fields
  <2> HIDE DEF f
  <2>4. /\ f.pending = k.pending /\ f.active = k.active /\ ~f.timer /\ f.health = "well"
        /\ f.initialized = s.initialized /\ f.stranded = c.stranded
        /\ f.activation = s.activation /\ f.init = NoInit
    BY <1>14, <1>15, <2>2, <2>3 DEF Keeps, Fields
  <2>5. Faults(f) = {} /\ f.active = NoLease /\ ~HasWork(f)
    BY <2>2, <2>4 DEF HasWork, Faults
  <2>6. Coordinated(f) /\ Latest(f) /\ LeaseHeld(f)
    BY <2>2, <2>4, <2>5 DEF Coordinated, Latest, LeaseHeld
  <2>7. Resumed(f) /\ Served(f)
    BY <2>3 DEF Resumed, Served, RecoveryBlocked, WriterRecovering
  <2>8. Repaired(f) /\ Retried(f) /\ Started(f)
    BY <1>15, <1>16, <2>4 DEF Repaired, Retried, Started
  <2>9. InFlight(f)
    BY <1>1, <1>18, <2>3, <2>4 DEF InFlight, NoInit
  <2> QED
    BY <2>1, <2>3, <2>6, <2>7, <2>8, <2>9 DEF Good, Sound, t
<1> QED
  BY <1>17, <1>18

\* An initialization that has failed, when its callers have handled it or
\* have not been asked to.
LEMMA InitFailsStep ==
    ASSUME NEW s, Good(s), s.init.stage # "none", NEW mode \in Modes, NEW kind \in Kinds
    PROVE  Good(InitFails(s, mode, kind))
<1> DEFINE u == [s EXCEPT !.initialized = FALSE]
           w == SettleInit(u, mode)
           id == s.init.lease
           Caller(x, c) == IF c \in s.init.callers /\ s.activation = "none"
                           THEN Handle(x, kind, "initial") ELSE x
           a == Caller(w, "lease")
           r == Release(a, id, kind)
           l == Caller(r, "loadAll")
           t == InitFails(s, mode, kind)
<1>1. s \in State /\ Coordinated(s) /\ LeaseHeld(s) /\ InFlight(s) /\ Latest(s)
  BY DEF Good, Sound
<1>2. t = IF "writer" \in s.init.callers THEN WriterFails(l, kind) ELSE l
  BY DEF InitFails
<1>3. u \in State /\ Keeps(s, u, {"initialized"})
  BY <1>1 DEF State, Keeps, Fields
<1> HIDE DEF u, t
<1>4. u.pending = s.pending /\ u.active = s.active /\ u.writer = s.writer /\ u.activation = s.activation
  BY <1>3 DEF Keeps, Fields
<1>5. Keeps(s, u, {"initialized", "health", "pending", "active", "writerTimer"}) /\ Faults(u) = Faults(s)
  BY <1>3, <1>4, SameFaults DEF Keeps
<1>6. /\ w \in State
      /\ Keeps(u, w, {"init", "queue", "rescan", "work"})
      /\ w.init = NoInit
      /\ Coordinated(w)
      /\ Resumed(w) /\ Served(w)
      /\ s.work # NoWork => w.work = s.work
      /\ w.activation = "switching" => w.work = NoWork
  BY <1>1, <1>3, <1>4, <1>5, SettleInitIs
<1> HIDE DEF w
<1>7. /\ w.pending = s.pending /\ w.active = s.active /\ w.writer = s.writer
      /\ w.activation = s.activation
  BY <1>4, <1>6 DEF Keeps, Fields
<1>8. id \in {0} \cup Leases /\ "initial" \in Ops
  BY <1>1 DEF State, Inits, Ops
\* What a state between the callers has kept.
<1> DEFINE Between(x) ==
             /\ x \in State /\ Coordinated(x)
             /\ x.activation = s.activation /\ x.writer = s.writer
             /\ x.init = NoInit /\ x.work = w.work
             /\ x.active # NoLease => x.active.id = s.active.id
<1>9. Between(w)
  BY <1>6, <1>7
<1>10. CASE s.activation # "none"
  <2>1. a = w
    BY <1>10
  <2>2. w.active = NoLease /\ w.active.id = 0
    BY <1>6, <1>7, <1>10 DEF Coordinated, HasWork, NoLease
  <2>3. r = w
    BY <2>1, <2>2 DEF Release
  <2>4. l = w
    BY <1>10, <2>3
  <2>5. /\ Resumed(w) /\ Served(w) /\ Repaired(w) /\ Retried(w) /\ Started(w)
    BY <1>7, <1>10, SwitchingIs
  <2>6. \A o \in Ops : w.pending[o] = "none"
    BY <1>6, <1>7, <1>10 DEF Coordinated, HasWork, Faults
  <2>7. LeaseHeld(w) /\ Latest(w)
    BY <2>2, <2>6 DEF LeaseHeld, Latest
  <2>8. CASE "writer" \in s.init.callers
    <3> DEFINE m == [w EXCEPT !.writer = "none"]
    <3>1. m \in State /\ Keeps(w, m, {"writer"}) /\ m.writer = "none"
      BY <1>6 DEF State, Keeps, Fields
    <3> HIDE DEF m
    <3>2. m.init = NoInit /\ m.activation = w.activation /\ m.work = w.work
      BY <1>6, <3>1 DEF Keeps, Fields
    <3>3. InFlight(m)
      BY <1>6, <3>1, <3>2 DEF InFlight, NoInit
    <3>4. Good(WriterFails(w, kind))
      BY <1>6, <2>7, <3>3, WriterFailsStep DEF m
    <3> QED
      BY <1>2, <2>4, <2>8, <3>4 DEF t
  <2>9. CASE "writer" \notin s.init.callers
    <3>1. InFlight(w)
      BY <1>1, <1>6, <1>7, <2>9 DEF InFlight, NoInit
    <3>2. t = w
      BY <1>2, <2>4, <2>9
    <3> QED
      BY <1>6, <2>5, <2>7, <3>1, <3>2 DEF Good, Sound, t
  <2> QED
    BY <2>8, <2>9
<1>11. CASE s.activation = "none"
  <2>1. ASSUME NEW x, Between(x)
        PROVE  LET h == Handle(x, kind, "initial")
               IN  Between(h) /\ Latest(h) /\ Attending(h, kind) /\ (h.active = NoLease \/ h.active.id = x.active.id)
    <3> DEFINE h == Handle(x, kind, "initial")
    <3>1. /\ h \in State /\ Keeps(x, h, Recovering)
          /\ Coordinated(h) /\ Latest(h) /\ Attending(h, kind)
          /\ h.active = NoLease \/ h.active.id = x.active.id
      BY <1>8, <1>11, <2>1, HandleIs
    <3> HIDE DEF h
    <3>2. /\ h.activation = x.activation /\ h.writer = x.writer /\ h.init = x.init /\ h.work = x.work
      BY <3>1 DEF Keeps, Fields, Recovering
    <3>3. h.active # NoLease => x.active # NoLease
      BY <3>1, ActiveLease DEF NoLease
    <3> QED
      BY <2>1, <3>1, <3>2, <3>3 DEF h
  <2> HIDE DEF Between
  \* The lease: handled and given back, or nobody's.
  <2>2. /\ Between(r)
        /\ id # 0 => r.active = NoLease \/ r.active.id # id
        /\ "lease" \in s.init.callers => Latest(r) /\ Attending(r, kind)
    <3>1. CASE "lease" \in s.init.callers
      <4> DEFINE h == Handle(w, kind, "initial")
      <4>1. a = h
        BY <1>11, <3>1
      <4>2. Between(h) /\ Latest(h) /\ Attending(h, kind)
        BY <1>9, <2>1
      <4> HIDE DEF h, a
      <4>3. h \in State /\ Coordinated(h) /\ h.activation = "none"
        BY <1>11, <4>2 DEF Between
      <4>4. /\ r \in State
            /\ Keeps(h, r, Recovering \ {"writerTimer", "health", "stranded"})
            /\ Coordinated(r) /\ Latest(r) /\ Attending(r, kind)
            /\ r.active = NoLease \/ (r.active = h.active /\ (id = 0 \/ r.active.id # id))
        BY <1>8, <4>1, <4>2, <4>3, ReleaseIs
      <4> HIDE DEF r, id
      <4>5. r.activation = h.activation /\ r.writer = h.writer /\ r.init = h.init /\ r.work = h.work
        BY <4>4 DEF Keeps, Fields, Recovering
      <4> QED
        BY <4>2, <4>4, <4>5 DEF Between
    <3>2. CASE "lease" \notin s.init.callers
      <4>1. id = 0
        BY <1>1, <3>2 DEF InFlight
      <4>2. a = w
        BY <3>2
      <4> HIDE DEF a, id
      <4>3. r = w
        BY <4>1, <4>2 DEF Release
      <4> QED
        BY <1>9, <3>2, <4>1, <4>3
    <3> QED
      BY <3>1, <3>2
  <2> HIDE DEF r
  <2>3. /\ Between(l)
        /\ id # 0 => l.active = NoLease \/ l.active.id # id
        /\ "lease" \in s.init.callers \/ "loadAll" \in s.init.callers => Latest(l) /\ Attending(l, kind)
    <3>1. CASE "loadAll" \in s.init.callers
      <4> DEFINE h == Handle(r, kind, "initial")
      <4>1. l = h
        BY <1>11, <3>1
      <4>2. Between(h) /\ Latest(h) /\ Attending(h, kind) /\ (h.active = NoLease \/ h.active.id = r.active.id)
        BY <2>1, <2>2
      <4> HIDE DEF h, l, id
      <4>3. r.active = NoLease => r.active.id = 0
        BY DEF NoLease
      <4>4. h.active # NoLease => h.active.id # 0
        BY <4>2, ActiveLease DEF Between
      <4> QED
        BY <2>2, <4>1, <4>2, <4>3, <4>4
    <3>2. CASE "loadAll" \notin s.init.callers
      <4>1. l = r
        BY <3>2
      <4> HIDE DEF l, id
      <4> QED
        BY <2>2, <3>2, <4>1
    <3> QED
      BY <3>1, <3>2
  <2> HIDE DEF l
  <2>4. /\ l \in State /\ Coordinated(l) /\ l.activation = "none" /\ l.init = NoInit
        /\ l.writer = s.writer /\ l.work = w.work
        /\ l.active # NoLease => l.active.id = s.active.id
    BY <1>11, <2>3 DEF Between
  <2>5. LeaseHeld(l)
    <3>1. SUFFICES ASSUME l.active # NoLease PROVE l.work # NoWork /\ l.work.lease = l.active.id
      BY DEF LeaseHeld
    <3>2. l.active.id = s.active.id /\ l.active.id # 0
      BY <2>4, <3>1, ActiveLease
    <3>3. s.active # NoLease /\ s.init.lease # s.active.id
      BY <2>3, <3>1, <3>2 DEF NoLease
    <3> QED
      BY <1>1, <1>6, <2>4, <3>2, <3>3 DEF LeaseHeld
  <2>6. CASE "writer" \in s.init.callers
    <3> DEFINE m == [l EXCEPT !.writer = "none"]
    <3>1. m \in State /\ Keeps(l, m, {"writer"}) /\ m.writer = "none"
      BY <2>4 DEF State, Keeps, Fields
    <3> HIDE DEF m
    <3>2. m.init = NoInit /\ m.activation = "none"
      BY <2>4, <3>1 DEF Keeps, Fields
    <3>3. InFlight(m)
      BY <3>1, <3>2 DEF InFlight, NoInit
    <3>4. Good(WriterFails(l, kind))
      BY <2>4, <2>5, <3>3, WriterFailsStep DEF m
    <3> QED
      BY <1>2, <2>6, <3>4 DEF t
  <2>7. CASE "writer" \notin s.init.callers
    <3>1. "lease" \in s.init.callers \/ "loadAll" \in s.init.callers
      BY <1>1, <2>7 DEF InFlight, State, Inits
    <3>2. t = l
      BY <1>2, <2>7
    <3>3. InFlight(l)
      BY <1>1, <2>4, <2>7 DEF InFlight, NoInit
    <3> QED
      BY <2>3, <2>4, <2>5, <3>1, <3>2, <3>3, AttendingIs DEF Good, Sound, t
  <2> QED
    BY <2>6, <2>7
<1> QED
  BY <1>10, <1>11

-----------------------------------------------------------------------------
(* The events.                                                             *)

\* Another health ages what is pending and touches nothing else of this.
LEMMA TransitionKeeps ==
    ASSUME NEW s \in State, NEW h \in Healths
    PROVE  LET t == Transition(s, h)
           IN  /\ t \in State /\ Keeps(s, t, {"health", "pending", "active"}) /\ t.health = h
               /\ Faults(t) = Faults(s) /\ (HasWork(t) <=> HasWork(s))
               /\ Coordinated(s) => Coordinated(t)
               /\ Latest(t)
               /\ LeaseHeld(s) => LeaseHeld(t)
               /\ InFlight(s) => InFlight(t)
               /\ Started(s) => Started(t)
<1> DEFINE t == Transition(s, h)
<1>1. /\ t \in State
      /\ Keeps(s, t, {"health", "pending", "active"})
      /\ t.health = h
      /\ Faults(t) = Faults(s)
      /\ \A o \in Ops : t.pending[o] # "latest"
      /\ t.active.id = s.active.id
      /\ t.active = NoLease <=> s.active = NoLease
      /\ t.active # NoLease => t.active.revision = "older"
  BY TransitionIs
<1> HIDE DEF t
<1>2. /\ t.writer = s.writer /\ t.activation = s.activation /\ t.timer = s.timer
      /\ t.stopped = s.stopped /\ t.work = s.work /\ t.initialized = s.initialized
      /\ t.init = s.init /\ t.stranded = s.stranded /\ t.inventory = s.inventory
      /\ t.writerTimer = s.writerTimer
  BY <1>1 DEF Keeps, Fields
<1>3. HasWork(t) <=> HasWork(s)
  BY <1>1 DEF HasWork
<1>4. Coordinated(s) => Coordinated(t)
  BY <1>1, <1>2, <1>3 DEF Coordinated
<1>5. Latest(t) /\ (LeaseHeld(s) => LeaseHeld(t))
  BY <1>1, <1>2 DEF Latest, LeaseHeld
<1>6. InFlight(s) => InFlight(t)
  BY <1>2 DEF InFlight
<1>7. Started(s) => Started(t)
  BY <1>1, <1>2 DEF Started
<1> QED
  BY <1>1, <1>3, <1>4, <1>5, <1>6, <1>7 DEF t

\* What the timers, the inventory and writer recovery do not touch.
LEMMA FlagKeeps ==
    ASSUME NEW s, NEW t, Keeps(s, t, {"writerTimer", "writer", "inventory", "autoTimer", "rescan"})
    PROVE  /\ HasWork(t) <=> HasWork(s)
           /\ Faults(t) = Faults(s)
           /\ Coordinated(s) => Coordinated(t)
           /\ Latest(s) => Latest(t)
           /\ LeaseHeld(s) => LeaseHeld(t)
           /\ Repaired(s) => Repaired(t)
           /\ Started(s) /\ t.inventory = s.inventory
                /\ (s.writer = "probing" => t.writer = "probing")
                /\ (s.writerTimer => t.writerTimer) => Started(t)
           /\ InFlight(s) /\ t.writer = s.writer => InFlight(t)
<1>1. /\ t.initialized = s.initialized
      /\ t.activation = s.activation /\ t.stopped = s.stopped /\ t.timer = s.timer
      /\ t.pending = s.pending /\ t.active = s.active /\ t.work = s.work
      /\ t.health = s.health /\ t.init = s.init /\ t.stranded = s.stranded
  BY DEF Keeps, Fields
<1>2. Faults(t) = Faults(s)
  BY <1>1, SameFaults
<1>3. HasWork(t) <=> HasWork(s)
  BY <1>1, <1>2 DEF HasWork
<1>4. Coordinated(s) => Coordinated(t)
  BY <1>1, <1>2, <1>3 DEF Coordinated
<1>5. (Latest(s) => Latest(t)) /\ (LeaseHeld(s) => LeaseHeld(t))
  BY <1>1 DEF Latest, LeaseHeld
<1>6. Repaired(s) => Repaired(t)
  BY <1>1, <1>3 DEF Repaired
<1>7. Started(s) /\ t.inventory = s.inventory
        /\ (s.writer = "probing" => t.writer = "probing")
        /\ (s.writerTimer => t.writerTimer) => Started(t)
  BY <1>1, <1>2 DEF Started
<1>8. InFlight(s) /\ t.writer = s.writer => InFlight(t)
  BY <1>1 DEF InFlight
<1> QED
  BY <1>2, <1>3, <1>4, <1>5, <1>6, <1>7, <1>8

\* A retry of the writer keeps the invariant.
LEMMA RetryWriterStep ==
    ASSUME NEW s \in State, s.health = "blocked",
           Coordinated(s), Latest(s), LeaseHeld(s), InFlight(s), Repaired(s)
    PROVE  Good(RetryWriter(s))
<1> DEFINE t == RetryWriter(s)
<1>1. RecoveryBlocked(s)
  BY DEF RecoveryBlocked, WriterRecovering
<1>2. Resumed(s) /\ Served(s)
  BY <1>1 DEF Resumed, Served
<1>3. CASE s.activation # "none" \/ s.writer \notin {"none", "compensating"}
  <2>1. t = s
    BY <1>3 DEF RetryWriter
  <2>2. Retried(s)
    BY <1>3 DEF Retried
  <2>3. s.writer = "initializing" => s.init.stage # "none"
    BY DEF InFlight, NoInit
  <2>4. Started(s)
    BY <1>3, <2>3 DEF Started, State
  <2> QED
    BY <1>2, <2>1, <2>2, <2>4 DEF Good, Sound
<1>4. CASE s.activation = "none" /\ s.writer = "none"
  <2>1. t = [s EXCEPT !.writer = "probing"]
    BY <1>4 DEF RetryWriter
  <2> HIDE DEF t
  <2>2. t \in State /\ Keeps(s, t, {"writer"}) /\ t.writer = "probing"
    BY <2>1 DEF State, Keeps, Fields
  <2>3. /\ t.health = "blocked" /\ t.init = s.init /\ t.activation = s.activation
        /\ t.initialized = s.initialized /\ t.stranded = s.stranded /\ t.inventory = s.inventory
    BY <2>2 DEF Keeps, Fields
  <2>4. Keeps(s, t, {"writerTimer", "writer", "inventory", "autoTimer", "rescan"})
    BY <2>2 DEF Keeps
  <2>5. Resumed(t) /\ Served(t) /\ Retried(t) /\ Started(t)
    BY <2>2, <2>3 DEF Resumed, Served, Retried, Started, RecoveryBlocked, WriterRecovering
  <2>6. InFlight(t)
    BY <1>4, <2>2, <2>3 DEF InFlight
  <2> QED
    BY <2>2, <2>3, <2>4, <2>5, <2>6, FlagKeeps DEF Good, Sound, t
<1>5. CASE s.activation = "none" /\ s.writer = "compensating"
  <2>1. t = Strand(s, Strands) /\ Strands \in SUBSET Strands
    BY <1>5 DEF RetryWriter
  <2> HIDE DEF t
  <2>2. t \in State /\ Keeps(s, t, {"stranded"}) /\ t.stranded = s.stranded \cup Strands
    BY <2>1, StrandIs
  <2>3. s.stranded \subseteq t.stranded /\ {"health", "fault"} \subseteq t.stranded
    BY <2>2 DEF Strands
  <2>4. Retried(t) /\ Started(t)
    BY <2>3 DEF Retried, Started
  <2> QED
    BY <1>2, <2>2, <2>3, <2>4, StrandKeeps DEF Good, Sound, t
<1> QED
  BY <1>3, <1>4, <1>5

\* A due retry that finds another health, too, keeps the invariant.
LEMMA TimeToRetryStep ==
    ASSUME NEW s, Good(s)
    PROVE  Good(TimeToRetry(s))
<1> DEFINE due == [s EXCEPT !.writerTimer = FALSE]
           t == TimeToRetry(s)
<1>1. /\ s \in State /\ Coordinated(s) /\ Latest(s) /\ LeaseHeld(s) /\ InFlight(s)
      /\ Resumed(s) /\ Served(s) /\ Repaired(s) /\ Retried(s) /\ Started(s)
  BY DEF Good, Sound
<1>2. t = IF s.health = "blocked" THEN RetryWriter(due)
          ELSE IF s.writerTimer THEN Strand(due, {"rescan", "wake", "fault"}) ELSE due
  BY DEF TimeToRetry
<1>3. due \in State /\ Keeps(s, due, {"writerTimer"}) /\ ~due.writerTimer
  BY <1>1 DEF State, Keeps, Fields
<1> HIDE DEF due, t
<1>4. Keeps(s, due, {"writerTimer", "writer", "inventory", "autoTimer", "rescan"})
  BY <1>3 DEF Keeps
<1>5. /\ due.health = s.health /\ due.inventory = s.inventory /\ due.writer = s.writer
      /\ due.activation = s.activation /\ due.stopped = s.stopped /\ due.timer = s.timer
      /\ due.init = s.init /\ due.work = s.work /\ due.rescan = s.rescan /\ due.queue = s.queue
      /\ due.stranded = s.stranded /\ due.initialized = s.initialized /\ due.autoTimer = s.autoTimer
  BY <1>3 DEF Keeps, Fields
<1>6. /\ Coordinated(due) /\ Latest(due) /\ LeaseHeld(due) /\ InFlight(due)
      /\ Repaired(due) /\ (~s.writerTimer => Started(due)) /\ (HasWork(due) <=> HasWork(s))
  BY <1>1, <1>4, <1>5, FlagKeeps
<1>7. CASE s.health = "blocked"
  BY <1>2, <1>3, <1>5, <1>6, <1>7, RetryWriterStep DEF t
<1>8. CASE s.health # "blocked" /\ s.writerTimer
  <2>1. t = Strand(due, {"rescan", "wake", "fault"}) /\ {"rescan", "wake", "fault"} \in SUBSET Strands
    BY <1>2, <1>8 DEF Strands
  <2>2. /\ t \in State /\ Keeps(due, t, {"stranded"})
        /\ t.stranded = due.stranded \cup {"rescan", "wake", "fault"}
    BY <1>3, <2>1, StrandIs
  <2>3. due.stranded \subseteq t.stranded
    BY <2>2
  <2>4. Resumed(t) /\ Served(t) /\ Started(t)
    BY <2>2 DEF Resumed, Served, Started
  <2>5. Retried(due)
    BY <1>5, <1>8 DEF Retried
  <2> QED
    BY <1>6, <2>2, <2>3, <2>4, <2>5, StrandKeeps DEF Good, Sound, t
<1>9. CASE s.health # "blocked" /\ ~s.writerTimer
  <2>1. t = due
    BY <1>2, <1>9
  <2>2. RecoveryBlocked(due) <=> RecoveryBlocked(s)
    BY <1>3, <1>5, <1>6, <1>9 DEF RecoveryBlocked, WriterRecovering
  <2>3. Resumed(due) /\ Served(due) /\ Retried(due)
    BY <1>1, <1>5, <1>9, <2>2 DEF Resumed, Served, Retried
  <2> QED
    BY <1>3, <1>6, <1>9, <2>1, <2>3 DEF Good, Sound, t
<1> QED
  BY <1>7, <1>8, <1>9

\* sessions:loadAll keeps the invariant.
LEMMA LoadAllStep ==
    ASSUME NEW s, Good(s)
    PROVE  LET u == [s EXCEPT !.inventory = TRUE]
           IN  Good(IF u.initialized \/ u.stopped # "no" \/ u.timer THEN u
                    ELSE IF u.health = "blocked" THEN RetryWriter(u)
                    ELSE BeginInit(u, "loadAll", 0))
<1> DEFINE u == [s EXCEPT !.inventory = TRUE]
<1>1. /\ s \in State /\ Coordinated(s) /\ Latest(s) /\ LeaseHeld(s) /\ InFlight(s)
      /\ Resumed(s) /\ Served(s) /\ Repaired(s) /\ Retried(s) /\ Started(s)
  BY DEF Good, Sound
<1>2. u \in State /\ Keeps(s, u, {"inventory"}) /\ u.inventory
  BY <1>1 DEF State, Keeps, Fields
<1> HIDE DEF u
<1>3. Keeps(s, u, {"writerTimer", "writer", "inventory", "autoTimer", "rescan"})
  BY <1>2 DEF Keeps
<1>4. /\ u.health = s.health /\ u.writer = s.writer /\ u.writerTimer = s.writerTimer
      /\ u.activation = s.activation /\ u.stopped = s.stopped /\ u.timer = s.timer
      /\ u.init = s.init /\ u.work = s.work /\ u.rescan = s.rescan /\ u.queue = s.queue
      /\ u.stranded = s.stranded /\ u.initialized = s.initialized /\ u.autoTimer = s.autoTimer
  BY <1>2 DEF Keeps, Fields
<1>5. /\ Coordinated(u) /\ Latest(u) /\ LeaseHeld(u) /\ InFlight(u)
      /\ Repaired(u) /\ (HasWork(u) <=> HasWork(s)) /\ Faults(u) = Faults(s)
  BY <1>1, <1>3, <1>4, FlagKeeps
<1>6. RecoveryBlocked(u) <=> RecoveryBlocked(s)
  BY <1>4, <1>5 DEF RecoveryBlocked, WriterRecovering
<1>7. Resumed(u) /\ Served(u) /\ Retried(u)
  BY <1>1, <1>4, <1>6 DEF Resumed, Served, Retried
<1>8. CASE u.initialized \/ u.stopped # "no" \/ u.timer
  <2>1. Started(u)
    BY <1>1, <1>4, <1>5, <1>8 DEF Started, Coordinated
  <2>2. Good(u)
    BY <1>2, <1>5, <1>7, <2>1 DEF Good, Sound
  <2> QED
    BY <1>8, <2>2 DEF u
<1>9. CASE ~(u.initialized \/ u.stopped # "no" \/ u.timer) /\ u.health = "blocked"
  <2>1. Good(RetryWriter(u))
    BY <1>2, <1>5, <1>9, RetryWriterStep
  <2> QED
    BY <1>9, <2>1 DEF u
<1>10. CASE ~(u.initialized \/ u.stopped # "no" \/ u.timer) /\ u.health # "blocked"
  <2>1. u.writer = "initializing" <=> "writer" \in u.init.callers \cup {"loadAll"}
    BY <1>5 DEF InFlight
  <2>2. Good(BeginInit(u, "loadAll", 0))
    BY <1>2, <1>5, <1>7, <2>1, BeginInitStep DEF InFlight
  <2> QED
    BY <1>10, <2>2 DEF u
<1> QED
  BY <1>8, <1>9, <1>10

\* The timer of the automatic backlog keeps the invariant.
LEMMA AutomaticRetryStep ==
    ASSUME NEW s, Good(s)
    PROVE  Good(Wake([s EXCEPT !.autoTimer = FALSE], "automatic"))
<1> DEFINE u == [s EXCEPT !.autoTimer = FALSE]
           t == Wake(u, "automatic")
<1>1. s \in State /\ Sound(s)
  BY DEF Good
<1>2. u \in State /\ Keeps(s, u, {"autoTimer"})
  BY <1>1 DEF State, Keeps, Fields
<1>3. "automatic" \in Modes
  BY DEF Modes
<1> HIDE DEF u
<1>4. /\ t \in State
      /\ Keeps(u, t, {"queue", "rescan", "work"})
      /\ \/ t.work = u.work
         \/ /\ t.work # NoWork /\ u.work = NoWork
            /\ ~HasWork(u) /\ u.activation = "none" /\ u.stopped = "no"
      /\ Served(t)
      /\ Resumed(u) => Resumed(t)
  BY <1>2, <1>3, WakeIs
<1> HIDE DEF t
<1>5. /\ u.health = s.health /\ u.writer = s.writer /\ u.writerTimer = s.writerTimer
      /\ u.activation = s.activation /\ u.stopped = s.stopped /\ u.timer = s.timer
      /\ u.init = s.init /\ u.work = s.work /\ u.rescan = s.rescan
      /\ u.stranded = s.stranded /\ u.pending = s.pending /\ u.active = s.active
  BY <1>2 DEF Keeps, Fields
<1>6. HasWork(u) <=> HasWork(s)
  BY <1>5, SameFaults DEF HasWork
<1>7. Resumed(u)
  BY <1>1, <1>5, <1>6 DEF Sound, Resumed, RecoveryBlocked, WriterRecovering
<1>8. Keeps(s, t, {"queue", "rescan", "work", "autoTimer"})
  BY <1>2, <1>4 DEF Keeps, Fields
<1>9. s.activation = "switching" => t.work = NoWork
  BY <1>1, <1>4, <1>5 DEF Sound, InFlight
<1>10. /\ Coordinated(s) /\ Latest(s) /\ LeaseHeld(s) /\ InFlight(s)
       /\ Repaired(s) /\ Retried(s) /\ Started(s)
  BY <1>1 DEF Sound
<1>11. t.work = s.work \/ ~HasWork(s)
  BY <1>4, <1>5, <1>6
<1>12. /\ Coordinated(t) /\ Latest(t) /\ Repaired(t) /\ Retried(t) /\ Started(t)
       /\ InFlight(t) /\ LeaseHeld(t)
  BY <1>8, <1>9, <1>10, <1>11, QueueKeeps
<1> QED
  BY <1>4, <1>7, <1>12 DEF Good, Sound, t, u

\* Planning the next run keeps the invariant.
LEMMA PlanNextStep ==
    ASSUME NEW s, Good(s), NEW planned \in BOOLEAN, s.work # NoWork \/ s.init.stage # "none"
    PROVE  LET t == PlanNext(s, planned)
           IN  Good(t) /\ Keeps(s, t, {"autoTimer"})
<1> DEFINE b == planned /\ s.activation = "none"
           t == PlanNext(s, planned)
<1>1. s \in State /\ Sound(s)
  BY DEF Good
<1>2. b \in BOOLEAN
  BY Zenon
<1>3. t = [s EXCEPT !.autoTimer = b]
  BY DEF PlanNext
<1> HIDE DEF b, t
<1>4. t \in State /\ Keeps(s, t, {"autoTimer"})
  BY <1>1, <1>2, <1>3 DEF State, Keeps, Fields
<1>5. Keeps(s, t, {"queue", "rescan", "work", "autoTimer"})
  BY <1>4 DEF Keeps
<1>6. t.work = s.work /\ t.init = s.init
  BY <1>4 DEF Keeps, Fields
<1>7. RecoveryBlocked(t)
  BY <1>6 DEF RecoveryBlocked
<1>8. Resumed(t) /\ Served(t)
  BY <1>7 DEF Resumed, Served
<1>9. s.activation = "switching" => t.work = NoWork
  BY <1>1, <1>6 DEF Sound, InFlight
<1> QED
  BY <1>1, <1>4, <1>5, <1>6, <1>8, <1>9, QueueKeeps DEF Good, Sound, t

\* A backlog run that has synchronized keeps the invariant.
LEMMA BacklogSyncedStep ==
    ASSUME NEW s, Good(s), NEW planned \in BOOLEAN, NEW committed \in BOOLEAN, s.work # NoWork
    PROVE  LET u == PlanNext(s, planned)
           IN  Good(IF committed /\ u.activation = "none"
                    THEN [u EXCEPT !.work.stage = "refreshing"] ELSE WorkSucceeds(u))
<1> DEFINE u == PlanNext(s, planned)
           w == [u.work EXCEPT !.stage = "refreshing"]
           t == [u EXCEPT !.work.stage = "refreshing"]
<1>1. Good(u) /\ Keeps(s, u, {"autoTimer"})
  BY PlanNextStep
<1> HIDE DEF u
<1>2. u \in State /\ Sound(u) /\ u.work # NoWork
  BY <1>1 DEF Good, Keeps, Fields
<1>3. Good(WorkSucceeds(u))
  BY <1>1, <1>2, WorkSucceedsStep
<1>4. u.work \in Works
  BY <1>2 DEF State
<1>5. w \in Works /\ w.lease = u.work.lease /\ w.stage = "refreshing" /\ w.op = u.work.op
  BY <1>4 DEF Works
<1>6. w # NoWork
  BY <1>4, <1>5 DEF NoWork, Works, Ops, Modes
<1>7. t = [u EXCEPT !.work = w]
  BY <1>2 DEF State
<1> HIDE DEF w, t
<1>8. t \in State /\ Keeps(u, t, {"work"}) /\ t.work = w
  BY <1>2, <1>5, <1>7 DEF State, Keeps, Fields
<1>9. Keeps(u, t, {"queue", "rescan", "work", "autoTimer"})
  BY <1>8 DEF Keeps
<1>10. t.active = u.active /\ t.init = u.init
  BY <1>8 DEF Keeps, Fields
<1>11. LeaseHeld(t)
  BY <1>2, <1>5, <1>6, <1>8, <1>10 DEF Sound, LeaseHeld
<1>12. Resumed(t) /\ Served(t)
  BY <1>6, <1>8 DEF Resumed, Served, RecoveryBlocked
<1>13. u.activation # "switching"
  BY <1>2 DEF Sound, InFlight
<1>14. Good(t)
  BY <1>2, <1>8, <1>9, <1>11, <1>12, <1>13, QueueKeeps DEF Good, Sound
<1> QED
  BY <1>3, <1>14 DEF u, t

\* Another stage of a transaction in flight keeps the invariant, and so does a
\* better health with it.
LEMMA StageKeeps ==
    ASSUME NEW s, Good(s), NEW t \in State, Keeps(s, t, {"init", "work", "health"}),
           t.health \in {s.health, "well"},
           t.init.stage = "none" <=> s.init.stage = "none",
           t.init.stage = "hydrating" => s.init.stage = "hydrating",
           t.init.lease = s.init.lease, t.init.callers = s.init.callers,
           t.init.stage = "none" => t.init = s.init,
           t.work = NoWork <=> s.work = NoWork,
           t.work # NoWork => t.work.lease = s.work.lease,
           s.work # NoWork \/ s.init.stage # "none"
    PROVE  Good(t)
<1>1. /\ s \in State /\ Coordinated(s) /\ Latest(s) /\ LeaseHeld(s) /\ InFlight(s)
      /\ Repaired(s) /\ Retried(s) /\ Started(s)
  BY DEF Good, Sound
<1>2. /\ t.initialized = s.initialized /\ t.inventory = s.inventory
      /\ t.activation = s.activation /\ t.stopped = s.stopped /\ t.timer = s.timer
      /\ t.pending = s.pending /\ t.active = s.active /\ t.writerTimer = s.writerTimer
      /\ t.writer = s.writer /\ t.stranded = s.stranded
  BY DEF Keeps, Fields
<1>3. Faults(t) = Faults(s)
  BY <1>2, SameFaults
<1>4. HasWork(t) <=> HasWork(s)
  BY <1>2, <1>3 DEF HasWork
<1>5. Coordinated(t)
  BY <1>1, <1>2, <1>3, <1>4 DEF Coordinated
<1>6. Latest(t)
  BY <1>1, <1>2 DEF Latest
<1>7. LeaseHeld(t)
  BY <1>1, <1>2 DEF LeaseHeld
<1>8. InFlight(t)
  BY <1>1, <1>2 DEF InFlight
<1>9. Resumed(t) /\ Served(t)
  BY DEF Resumed, Served, RecoveryBlocked
<1>10. Repaired(t) /\ Retried(t)
  BY <1>1, <1>2, <1>4 DEF Repaired, Retried
<1>11. Started(t)
  BY <1>1, <1>2, <1>3 DEF Started
<1> QED
  BY <1>5, <1>6, <1>7, <1>8, <1>9, <1>10, <1>11 DEF Good, Sound

\* A backlog run that has its plan keeps the invariant, although the health of the
\* writer is forgotten.
LEMMA BacklogPlannedStep ==
    ASSUME NEW s, Good(s), s.work # NoWork
    PROVE  Good([Proven(s) EXCEPT !.work.stage = "syncing"])
<1> DEFINE w == [s.work EXCEPT !.stage = "syncing"]
           t == [Proven(s) EXCEPT !.work.stage = "syncing"]
<1>1. s \in State /\ s.work \in Works
  BY DEF Good, State
<1>2. w \in Works /\ w.lease = s.work.lease /\ w.op = s.work.op
  BY <1>1 DEF Works
<1>3. w # NoWork
  BY <1>1, <1>2 DEF NoWork, Works, Ops, Modes
<1>4. t = [s EXCEPT !.health = "well", !.work = w]
  BY <1>1 DEF Proven, State
<1> HIDE DEF w, t
<1>5. t \in State /\ Keeps(s, t, {"health", "work"}) /\ t.work = w /\ t.health = "well"
  BY <1>1, <1>2, <1>4 DEF State, Keeps, Fields, Healths
<1>6. t.init = s.init /\ Keeps(s, t, {"init", "work", "health"})
  BY <1>5 DEF Keeps, Fields
<1> QED
  BY <1>2, <1>3, <1>5, <1>6, StageKeeps DEF t

\* An initialization that has its plan keeps the invariant, for the same reason.
LEMMA InitPlannedStep ==
    ASSUME NEW s, Good(s), s.init.stage = "planning"
    PROVE  Good([Proven(s) EXCEPT !.init.stage = "syncing"])
<1> DEFINE i == [s.init EXCEPT !.stage = "syncing"]
           t == [Proven(s) EXCEPT !.init.stage = "syncing"]
<1>1. s \in State /\ s.init \in Inits
  BY DEF Good, State
<1>2. i \in Inits /\ i.lease = s.init.lease /\ i.callers = s.init.callers /\ i.stage = "syncing"
  BY <1>1 DEF Inits
<1>3. t = [s EXCEPT !.health = "well", !.init = i]
  BY <1>1 DEF Proven, State
<1> HIDE DEF i, t
<1>4. t \in State /\ Keeps(s, t, {"health", "init"}) /\ t.init = i /\ t.health = "well"
  BY <1>1, <1>2, <1>3 DEF State, Keeps, Fields, Healths
<1>5. t.work = s.work /\ Keeps(s, t, {"init", "work", "health"})
  BY <1>4 DEF Keeps, Fields
<1> QED
  BY <1>2, <1>4, <1>5, StageKeeps DEF t

\* An initialization that has synchronized keeps the invariant.
LEMMA InitSyncedStep ==
    ASSUME NEW s, Good(s), NEW planned \in BOOLEAN, s.init.stage = "syncing"
    PROVE  LET u == PlanNext(s, planned)
           IN  /\ Good([u EXCEPT !.init.stage = "planning"])
               /\ Good([u EXCEPT !.init.stage = "hydrating", !.initialized = TRUE])
<1> DEFINE u == PlanNext(s, planned)
           n == [u EXCEPT !.init.stage = "planning"]
           j == [u.init EXCEPT !.stage = "planning"]
           i == [u.init EXCEPT !.stage = "hydrating"]
           t == [u EXCEPT !.init.stage = "hydrating", !.initialized = TRUE]
<1>1. Good(u) /\ Keeps(s, u, {"autoTimer"})
  BY PlanNextStep
<1> HIDE DEF u
<1>2. /\ u \in State /\ u.init.stage = "syncing"
      /\ Coordinated(u) /\ Latest(u) /\ LeaseHeld(u) /\ InFlight(u) /\ Repaired(u) /\ Retried(u)
  BY <1>1 DEF Good, Sound, Keeps, Fields
<1>3. u.init \in Inits
  BY <1>2 DEF State
<1>4. i \in Inits /\ i.lease = u.init.lease /\ i.stage = "hydrating" /\ i.callers = u.init.callers
  BY <1>3 DEF Inits
<1>5. t = [u EXCEPT !.init = i, !.initialized = TRUE]
  BY <1>2 DEF State
<1>15. Good(n)
  <2>1. j \in Inits /\ j.lease = u.init.lease /\ j.stage = "planning" /\ j.callers = u.init.callers
    BY <1>3 DEF Inits
  <2>2. n = [u EXCEPT !.init = j]
    BY <1>2 DEF State
  <2> HIDE DEF j, n
  <2>3. n \in State /\ Keeps(u, n, {"init"}) /\ n.init = j
    BY <1>2, <2>1, <2>2 DEF State, Keeps, Fields
  <2>4. n.work = u.work /\ n.health = u.health /\ Keeps(u, n, {"init", "work", "health"})
    BY <2>3 DEF Keeps, Fields
  <2> QED
    BY <1>1, <1>2, <2>1, <2>3, <2>4, StageKeeps
<1> HIDE DEF i, t, n
<1>6. t \in State /\ Keeps(u, t, {"init", "initialized"}) /\ t.init = i /\ t.initialized
  BY <1>2, <1>4, <1>5 DEF State, Keeps, Fields
<1>7. /\ t.health = u.health /\ t.writer = u.writer /\ t.writerTimer = u.writerTimer
      /\ t.activation = u.activation /\ t.stopped = u.stopped /\ t.timer = u.timer
      /\ t.work = u.work /\ t.stranded = u.stranded /\ t.pending = u.pending /\ t.active = u.active
  BY <1>6 DEF Keeps, Fields
<1>8. Faults(t) = Faults(u)
  BY <1>7, SameFaults
<1>9. HasWork(t) <=> HasWork(u)
  BY <1>7, <1>8 DEF HasWork
<1>10. Coordinated(t)
  BY <1>2, <1>7, <1>8, <1>9 DEF Coordinated
<1>11. Latest(t)
  BY <1>2, <1>6, <1>7 DEF Latest
<1>12. LeaseHeld(t) /\ InFlight(t)
  BY <1>2, <1>4, <1>6, <1>7 DEF LeaseHeld, InFlight
<1>13. Resumed(t) /\ Served(t) /\ Started(t)
  BY <1>4, <1>6 DEF Resumed, Served, Started, RecoveryBlocked
<1>14. Repaired(t) /\ Retried(t)
  BY <1>2, <1>7, <1>9 DEF Repaired, Retried
<1> QED
  BY <1>6, <1>10, <1>11, <1>12, <1>13, <1>14, <1>15 DEF Good, Sound, t, u, n

\* Writer recovery: the answer of its probe, and its end.
LEMMA ProbedStep ==
    ASSUME NEW s, Good(s), s.writer = "probing"
    PROVE  Good(IF s.activation # "none" THEN EndWriter(s)
                ELSE BeginInit([s EXCEPT !.writer = "initializing"], "writer", 0))
<1>1. /\ s \in State /\ Coordinated(s) /\ Latest(s) /\ LeaseHeld(s) /\ InFlight(s)
      /\ Resumed(s) /\ Served(s) /\ Repaired(s) /\ Retried(s) /\ Started(s)
  BY DEF Good, Sound
<1>2. CASE s.activation # "none"
  <2> DEFINE n == [s EXCEPT !.writer = "none"]
  <2>1. n \in State /\ Keeps(s, n, {"writer"}) /\ n.writer = "none"
    BY <1>1 DEF State, Keeps, Fields
  <2> HIDE DEF n
  <2>2. Keeps(s, n, {"writerTimer", "writer", "inventory", "autoTimer", "rescan"})
    BY <2>1 DEF Keeps
  <2>3. /\ n.init = s.init /\ n.activation = s.activation /\ n.work = s.work
        /\ n.initialized = s.initialized /\ n.stranded = s.stranded /\ n.inventory = s.inventory
    BY <2>1 DEF Keeps, Fields
  <2>4. InFlight(n)
    BY <1>1, <2>1, <2>3 DEF InFlight
  <2>5. Retried(n)
    BY <1>2, <2>3 DEF Retried
  <2>6. Started(n)
    BY <1>2, <2>3 DEF Started
  <2>7. Good(EndWriter(s))
    BY <1>1, <2>2, <2>4, <2>5, <2>6, FlagKeeps, EndWriterStep DEF n
  <2> QED
    BY <1>2, <2>7
<1>3. CASE s.activation = "none"
  <2> DEFINE n == [s EXCEPT !.writer = "initializing"]
  <2>1. n \in State /\ Keeps(s, n, {"writer"}) /\ n.writer = "initializing"
    BY <1>1 DEF State, Keeps, Fields
  <2> HIDE DEF n
  <2>2. Keeps(s, n, {"writerTimer", "writer", "inventory", "autoTimer", "rescan"})
    BY <2>1 DEF Keeps
  <2>3. /\ n.init = s.init /\ n.activation = s.activation
        /\ n.initialized = s.initialized /\ n.stranded = s.stranded
    BY <2>1 DEF Keeps, Fields
  <2>4. Coordinated(n) /\ Latest(n) /\ LeaseHeld(n) /\ Repaired(n)
    BY <1>1, <2>2, FlagKeeps
  <2>5. Retried(n)
    BY <2>1 DEF Retried
  <2>6. /\ n.init.stage = "none" => n.init = NoInit
        /\ n.init.lease # 0 => "lease" \in n.init.callers
        /\ n.writer = "initializing" <=> "writer" \in n.init.callers \cup {"writer"}
        /\ n.activation = "switching" => n.writer = "none" /\ n.work = NoWork
        /\ n.init.stage = "hydrating" => n.initialized \/ "fault" \in n.stranded
    BY <1>1, <1>3, <2>1, <2>3 DEF InFlight
  <2>7. Good(BeginInit(n, "writer", 0))
    BY <2>1, <2>4, <2>5, <2>6, BeginInitStep
  <2> QED
    BY <1>3, <2>7 DEF n
<1> QED
  BY <1>2, <1>3

\* A failed probe keeps the invariant.
LEMMA ProbeFailsStep ==
    ASSUME NEW s, Good(s), s.writer = "probing", NEW kind \in Kinds
    PROVE  Good(WriterFails(s, kind))
<1> DEFINE n == [s EXCEPT !.writer = "none"]
<1>1. s \in State /\ Coordinated(s) /\ Latest(s) /\ LeaseHeld(s) /\ InFlight(s)
  BY DEF Good, Sound
<1>2. n \in State /\ Keeps(s, n, {"writer"}) /\ n.writer = "none"
  BY <1>1 DEF State, Keeps, Fields
<1> HIDE DEF n
<1>3. /\ n.init = s.init /\ n.activation = s.activation /\ n.work = s.work
      /\ n.initialized = s.initialized /\ n.stranded = s.stranded
  BY <1>2 DEF Keeps, Fields
<1>4. InFlight(n)
  BY <1>1, <1>2, <1>3 DEF InFlight
<1> QED
  BY <1>1, <1>4, WriterFailsStep DEF n

\* The end of the compensation keeps the invariant.
LEMMA CompensatedStep ==
    ASSUME NEW s, Good(s), s.writer = "compensating"
    PROVE  Good(EndWriter(s))
<1> DEFINE n == [s EXCEPT !.writer = "none"]
<1>1. /\ s \in State /\ Coordinated(s) /\ Latest(s) /\ LeaseHeld(s) /\ InFlight(s)
      /\ Repaired(s) /\ Retried(s) /\ Started(s)
  BY DEF Good, Sound
<1>2. n \in State /\ Keeps(s, n, {"writer"}) /\ n.writer = "none"
  BY <1>1 DEF State, Keeps, Fields
<1> HIDE DEF n
<1>3. /\ n.init = s.init /\ n.activation = s.activation /\ n.work = s.work
      /\ n.initialized = s.initialized /\ n.stranded = s.stranded /\ n.inventory = s.inventory
      /\ n.health = s.health /\ n.writerTimer = s.writerTimer
  BY <1>2 DEF Keeps, Fields
<1>4. Keeps(s, n, {"writerTimer", "writer", "inventory", "autoTimer", "rescan"})
  BY <1>2 DEF Keeps
<1>5. InFlight(n)
  BY <1>1, <1>2, <1>3 DEF InFlight
<1>6. Retried(n)
  BY <1>1, <1>3 DEF Retried
<1> QED
  BY <1>1, <1>3, <1>4, <1>5, <1>6, FlagKeeps, EndWriterStep DEF n

-----------------------------------------------------------------------------
(* The rescans.                                                            *)

\* A failure that no transaction of the coordinator has met.
LEMMA HandleStep ==
    ASSUME NEW s, Good(s), s.activation = "none", NEW kind \in Kinds, NEW op \in Ops
    PROVE  Good(Handle(s, kind, op))
<1> DEFINE t == Handle(s, kind, op)
<1>1. s \in State /\ Coordinated(s) /\ LeaseHeld(s) /\ InFlight(s)
  BY DEF Good, Sound
<1>2. /\ t \in State /\ Keeps(s, t, Recovering)
      /\ Coordinated(t) /\ Latest(t) /\ Attending(t, kind)
      /\ t.active = NoLease \/ t.active.id = s.active.id
      /\ s.stranded \subseteq t.stranded
  BY <1>1, HandleIs
<1> HIDE DEF t
<1>3. /\ t.init = s.init /\ t.work = s.work /\ t.writer = s.writer
      /\ t.activation = s.activation /\ t.initialized = s.initialized
  BY <1>2 DEF Keeps, Fields, Recovering
<1>4. InFlight(t)
  BY <1>1, <1>2, <1>3 DEF InFlight
<1>5. LeaseHeld(t)
  <2>1. SUFFICES ASSUME t.active # NoLease PROVE LeaseHeld(t)
    BY DEF LeaseHeld
  <2>2. t.active.id = s.active.id /\ t.active.id \in Leases
    BY <1>2, <2>1, ActiveLease
  <2>3. s.active # NoLease
    BY <2>2 DEF NoLease, Leases
  <2> QED
    BY <1>1, <1>3, <2>2, <2>3 DEF LeaseHeld
<1>6. Resumed(t) /\ Served(t) /\ Repaired(t) /\ Retried(t) /\ Started(t)
  BY <1>2, AttendingIs
<1> QED
  BY <1>2, <1>4, <1>5, <1>6 DEF Good, Sound, t

\* Setting a flag of the rescans but paused leaves paused alone.
LEMMA FlagOfScan ==
    ASSUME NEW s \in State, NEW b \in BOOLEAN
    PROVE  /\ Keeps(s, [s EXCEPT !.rescan.dirty = b], {"rescan"})
           /\ [s EXCEPT !.rescan.dirty = b].rescan.paused = s.rescan.paused
           /\ Keeps(s, [s EXCEPT !.rescan.timer = b], {"rescan"})
           /\ [s EXCEPT !.rescan.timer = b].rescan.paused = s.rescan.paused
           /\ Keeps(s, [s EXCEPT !.rescan.running = b], {"rescan"})
           /\ [s EXCEPT !.rescan.running = b].rescan.paused = s.rescan.paused
<1>1. s.rescan \in Scans
  BY DEF State
<1>2. /\ Keeps(s, [s EXCEPT !.rescan.dirty = b], {"rescan"})
      /\ Keeps(s, [s EXCEPT !.rescan.timer = b], {"rescan"})
      /\ Keeps(s, [s EXCEPT !.rescan.running = b], {"rescan"})
  BY DEF State, Keeps, Fields
<1>3. /\ [s EXCEPT !.rescan.dirty = b].rescan.paused = s.rescan.paused
      /\ [s EXCEPT !.rescan.timer = b].rescan.paused = s.rescan.paused
      /\ [s EXCEPT !.rescan.running = b].rescan.paused = s.rescan.paused
  BY <1>1 DEF State, Scans
<1> QED
  BY <1>2, <1>3

\* After a scan the rescans are paused as before.
LEMMA ScanAgainIs ==
    ASSUME NEW s \in State
    PROVE  LET t == ScanAgain(s)
           IN  t \in State /\ Keeps(s, t, {"rescan"}) /\ t.rescan.paused = s.rescan.paused
<1> DEFINE u == [s EXCEPT !.rescan.running = FALSE]
<1>1. u \in State /\ Keeps(s, u, {"rescan"}) /\ u.rescan.paused = s.rescan.paused
  BY ScanUpdates, FlagOfScan
<1>2. ScanAgain(s) = ScheduleScan(u)
  BY DEF ScanAgain
<1> HIDE DEF u
<1> QED
  BY <1>1, <1>2, ScheduleScanIs DEF Keeps

\* A postponed scan touches the rescans only.
LEMMA PostponeIs ==
    ASSUME NEW s \in State
    PROVE  LET t == Postpone(s)
           IN  t \in State /\ Keeps(s, t, {"rescan"})
<1> DEFINE u == [s EXCEPT !.rescan.dirty = TRUE]
<1>1. u \in State /\ Keeps(s, u, {"rescan"})
  BY ScanUpdates, FlagOfScan
<1>2. Postpone(s) = ScanAgain(Pause(u))
  BY DEF Postpone
<1> HIDE DEF u
<1>3. Pause(u) \in State /\ Keeps(u, Pause(u), {"rescan"})
  BY <1>1, PauseIs
<1>4. Postpone(s) \in State /\ Keeps(Pause(u), Postpone(s), {"rescan"})
  BY <1>2, <1>3, ScanAgainIs
<1> QED
  BY <1>1, <1>3, <1>4 DEF Keeps

\* A change of the directory keeps the invariant.
LEMMA DirectoryChangesStep ==
    ASSUME NEW s, Good(s)
    PROVE  LET u == [s EXCEPT !.rescan.dirty = TRUE]
           IN  Good(IF u.rescan.paused THEN u ELSE ScheduleScan(u))
<1> DEFINE u == [s EXCEPT !.rescan.dirty = TRUE]
<1>1. s \in State
  BY DEF Good
<1>2. u \in State /\ Keeps(s, u, {"rescan"}) /\ u.rescan.paused = s.rescan.paused
  BY <1>1, ScanUpdates, FlagOfScan
<1> HIDE DEF u
<1>3. /\ ScheduleScan(u) \in State /\ Keeps(u, ScheduleScan(u), {"rescan"})
      /\ ScheduleScan(u).rescan.paused = u.rescan.paused
  BY <1>2, ScheduleScanIs
<1>4. Keeps(s, ScheduleScan(u), {"rescan"})
  BY <1>2, <1>3 DEF Keeps
<1>5. Good(u) /\ Good(ScheduleScan(u))
  BY <1>2, <1>3, <1>4, ScanStep
<1> QED
  BY <1>5 DEF u

\* The timer of the rescans keeps the invariant.
LEMMA FlushStep ==
    ASSUME NEW s, Good(s)
    PROVE  LET u == [s EXCEPT !.rescan.timer = FALSE]
               begun == [u EXCEPT !.rescan.dirty = FALSE, !.rescan.running = TRUE]
           IN  Good(IF u.rescan.running \/ ~u.rescan.dirty \/ u.rescan.paused THEN u
                    ELSE IF RecoveryBlocked(u) THEN Postpone(begun) ELSE begun)
<1> DEFINE u == [s EXCEPT !.rescan.timer = FALSE]
           clean == [u EXCEPT !.rescan.dirty = FALSE]
           begun == [u EXCEPT !.rescan.dirty = FALSE, !.rescan.running = TRUE]
<1>1. s \in State
  BY DEF Good
<1>2. u \in State /\ Keeps(s, u, {"rescan"}) /\ u.rescan.paused = s.rescan.paused
  BY <1>1, ScanUpdates, FlagOfScan
<1> HIDE DEF u
<1>3. clean \in State /\ Keeps(u, clean, {"rescan"}) /\ clean.rescan.paused = u.rescan.paused
  BY <1>2, ScanUpdates, FlagOfScan
<1>4. begun = [clean EXCEPT !.rescan.running = TRUE]
  OBVIOUS
<1> HIDE DEF clean, begun
<1>5. begun \in State /\ Keeps(clean, begun, {"rescan"}) /\ begun.rescan.paused = clean.rescan.paused
  BY <1>3, <1>4, ScanUpdates, FlagOfScan
<1>6. Postpone(begun) \in State /\ Keeps(begun, Postpone(begun), {"rescan"})
  BY <1>5, PostponeIs
<1>7. Keeps(s, begun, {"rescan"}) /\ Keeps(s, Postpone(begun), {"rescan"})
  BY <1>2, <1>3, <1>5, <1>6 DEF Keeps
<1>8. Good(u) /\ Good(begun)
  BY <1>2, <1>3, <1>5, <1>7, ScanStep
<1>9. RecoveryBlocked(u) => Good(Postpone(begun))
  BY <1>2, <1>6, <1>7, ScanStep, SameBlocked
<1> QED
  BY <1>8, <1>9 DEF u, begun

\* The end of a scan keeps the invariant.
LEMMA ScannedStep ==
    ASSUME NEW s, Good(s)
    PROVE  Good(ScanAgain(s)) /\ (RecoveryBlocked(s) => Good(Postpone(s)))
<1>1. s \in State
  BY DEF Good
<1> QED
  BY <1>1, ScanAgainIs, PostponeIs, ScanStep

\* The failure of a scan keeps the invariant.
LEMMA ScanFailsStep ==
    ASSUME NEW s, Good(s), NEW kind \in Kinds
    PROVE  /\ s.activation = "none" => Good(ScanAgain(Handle(s, kind, "refresh")))
           /\ Good(ScanAgain(s))
<1>1. "refresh" \in Ops
  BY DEF Ops
<1>2. s.activation = "none" => Good(Handle(s, kind, "refresh"))
  BY <1>1, HandleStep
<1> QED
  BY <1>2, ScannedStep

-----------------------------------------------------------------------------
(* The live synchronization.                                               *)

\* A live synchronization that succeeds keeps the invariant.
LEMMA LiveSucceedsStep ==
    ASSUME NEW s, Good(s), s.activation = "none", NEW wake \in BOOLEAN
    PROVE  LET unblocked ==
                   IF s.health = "blocked"
                   THEN [Transition(Strand(s, {"rescan", "wake", "fault"}), "well")
                           EXCEPT !.writerTimer = FALSE]
                   ELSE s
           IN  Good(IF wake THEN Wake(unblocked, "automatic") ELSE unblocked)
<1> DEFINE a == Strand(s, {"rescan", "wake", "fault"})
           b == Transition(a, "well")
           c == [b EXCEPT !.writerTimer = FALSE]
           u == IF s.health = "blocked" THEN c ELSE s
<1>1. /\ s \in State /\ Coordinated(s) /\ Latest(s) /\ LeaseHeld(s) /\ InFlight(s)
      /\ Resumed(s) /\ Served(s) /\ Repaired(s) /\ Retried(s) /\ Started(s)
  BY DEF Good, Sound
<1>2. {"rescan", "wake", "fault"} \in SUBSET Strands
  BY DEF Strands
<1>3. /\ a \in State /\ Keeps(s, a, {"stranded"})
      /\ a.stranded = s.stranded \cup {"rescan", "wake", "fault"}
  BY <1>1, <1>2, StrandIs
<1> HIDE DEF a
<1>4. s.stranded \subseteq a.stranded
  BY <1>3
<1>5. Coordinated(a) /\ LeaseHeld(a) /\ InFlight(a)
  BY <1>1, <1>3, <1>4, StrandKeeps
<1>6. "well" \in Healths
  BY DEF Healths
<1>7. /\ b \in State /\ Keeps(a, b, {"health", "pending", "active"}) /\ b.health = "well"
      /\ Coordinated(b) /\ Latest(b) /\ LeaseHeld(b) /\ InFlight(b)
  BY <1>3, <1>5, <1>6, TransitionKeeps
<1> HIDE DEF b
<1>8. c \in State /\ Keeps(b, c, {"writerTimer"})
  BY <1>7 DEF State, Keeps, Fields
<1> HIDE DEF c
<1>9. Keeps(b, c, {"writerTimer", "writer", "inventory", "autoTimer", "rescan"})
  BY <1>8 DEF Keeps
<1>10. c.writer = b.writer /\ c.health = "well" /\ c.stranded = b.stranded
  BY <1>7, <1>8 DEF Keeps, Fields
<1>11. {"rescan", "wake", "fault"} \subseteq c.stranded
  BY <1>3, <1>7, <1>10 DEF Keeps, Fields
<1>12. Coordinated(c) /\ Latest(c) /\ LeaseHeld(c) /\ InFlight(c)
  BY <1>7, <1>9, <1>10, FlagKeeps
<1>13. Resumed(c) /\ Served(c) /\ Repaired(c) /\ Retried(c) /\ Started(c)
  BY <1>10, <1>11 DEF Resumed, Served, Repaired, Retried, Started
<1>14. Good(c)
  BY <1>8, <1>12, <1>13 DEF Good, Sound
<1>15. Good(u)
  BY <1>14
<1>16. "automatic" \in Modes
  BY DEF Modes
<1>17. Good(Wake(u, "automatic"))
  BY <1>15, <1>16, WakeStep
<1> QED
  BY <1>15, <1>17 DEF u, c, b, a

\* A live synchronization that fails keeps the invariant.
LEMMA LiveFailsStep ==
    ASSUME NEW s, Good(s), s.activation = "none"
    PROVE  Good(ScheduleWriter(Transition(s, "blocked"))) /\ \A h \in Healths \ {"blocked"} : Good(Tell(s, h))
<1>1. /\ s \in State /\ Coordinated(s) /\ Latest(s) /\ LeaseHeld(s) /\ InFlight(s)
      /\ Resumed(s) /\ Served(s) /\ Repaired(s) /\ Retried(s) /\ Started(s)
  BY DEF Good, Sound
<1>2. Good(ScheduleWriter(Transition(s, "blocked")))
  <2> DEFINE b == Transition(s, "blocked")
             t == ScheduleWriter(b)
  <2>1. "blocked" \in Healths
    BY DEF Healths
  <2>2. /\ b \in State /\ Keeps(s, b, {"health", "pending", "active"}) /\ b.health = "blocked"
        /\ Coordinated(b) /\ Latest(b) /\ LeaseHeld(b) /\ InFlight(b)
    BY <1>1, <2>1, TransitionKeeps
  <2> HIDE DEF b
  <2>3. b.activation = "none"
    BY <2>2 DEF Keeps, Fields
  <2>4. t \in State /\ Keeps(b, t, {"rescan", "writerTimer"}) /\ t.writerTimer
    BY <2>2, <2>3, ScheduleWriterIs
  <2> HIDE DEF t
  <2>5. Keeps(b, t, {"writerTimer", "writer", "inventory", "autoTimer", "rescan"})
    BY <2>4 DEF Keeps
  <2>6. t.writer = b.writer /\ t.health = "blocked"
    BY <2>2, <2>4 DEF Keeps, Fields
  <2>7. Coordinated(t) /\ Latest(t) /\ LeaseHeld(t) /\ InFlight(t)
    BY <2>2, <2>5, <2>6, FlagKeeps
  <2>8. RecoveryBlocked(t)
    BY <2>6 DEF RecoveryBlocked, WriterRecovering
  <2>9. Resumed(t) /\ Served(t) /\ Repaired(t) /\ Retried(t) /\ Started(t)
    BY <2>4, <2>6, <2>8 DEF Resumed, Served, Repaired, Retried, Started
  <2> QED
    BY <2>4, <2>7, <2>9 DEF Good, Sound, t, b
<1>3. ASSUME NEW h \in Healths, h # "blocked" PROVE Good(Tell(s, h))
  <2> DEFINE what == IF WriterRecovering(s) THEN Strands ELSE {"health"}
             a == Strand(s, what)
             t == Tell(s, h)
  <2>1. what \in SUBSET Strands /\ "health" \in what
    BY DEF Strands
  <2>2. t = Transition(a, h)
    BY DEF Tell
  <2>3. WriterRecovering(s) => what = Strands
    OBVIOUS
  <2> HIDE DEF what
  <2>4. a \in State /\ Keeps(s, a, {"stranded"}) /\ a.stranded = s.stranded \cup what
    BY <1>1, <2>1, StrandIs
  <2> HIDE DEF a, t
  <2>5. s.stranded \subseteq a.stranded
    BY <2>4
  <2>6. /\ Coordinated(a) /\ LeaseHeld(a) /\ InFlight(a)
        /\ Resumed(a) /\ Served(a) /\ Started(a)
        /\ (RecoveryBlocked(a) <=> RecoveryBlocked(s))
    BY <1>1, <2>4, <2>5, StrandKeeps
  <2>8. /\ t \in State /\ Keeps(a, t, {"health", "pending", "active"}) /\ t.health # "blocked"
        /\ Coordinated(t) /\ Latest(t) /\ LeaseHeld(t) /\ InFlight(t) /\ Started(t)
        /\ Faults(t) = Faults(a) /\ (HasWork(t) <=> HasWork(a))
    BY <1>3, <2>2, <2>4, <2>6, TransitionKeeps
  <2>9. /\ t.initialized = a.initialized /\ t.inventory = a.inventory
        /\ t.activation = a.activation /\ t.stopped = a.stopped /\ t.timer = a.timer
        /\ t.queue = a.queue /\ t.autoTimer = a.autoTimer /\ t.writerTimer = a.writerTimer
        /\ t.writer = a.writer /\ t.init = a.init /\ t.work = a.work /\ t.rescan = a.rescan
        /\ t.stranded = a.stranded
    BY <2>8 DEF Keeps, Fields
  <2>10. /\ a.health = s.health /\ a.writerTimer = s.writerTimer /\ a.writer = s.writer
    BY <2>4 DEF Keeps, Fields
  <2>11. "health" \in t.stranded /\ (WriterRecovering(s) => Strands \subseteq t.stranded)
    BY <2>1, <2>3, <2>4, <2>9
  <2>12. CASE WriterRecovering(s)
    <3>1. "rescan" \in t.stranded /\ "wake" \in t.stranded /\ "fault" \in t.stranded
      BY <2>11, <2>12 DEF Strands
    <3>2. Resumed(t) /\ Served(t) /\ Repaired(t) /\ Retried(t) /\ Started(t)
      BY <2>11, <3>1 DEF Resumed, Served, Repaired, Retried, Started
    <3> QED
      BY <2>8, <3>2 DEF Good, Sound, t
  <2>13. CASE ~WriterRecovering(s)
    <3>1. ~WriterRecovering(t) /\ ~WriterRecovering(a) /\ a.health # "blocked"
      BY <2>8, <2>9, <2>10, <2>13 DEF WriterRecovering
    <3>2. RecoveryBlocked(t) <=> RecoveryBlocked(a)
      BY <2>8, <2>9, <3>1 DEF RecoveryBlocked
    <3>3. Resumed(t) /\ Served(t)
      BY <2>6, <2>9, <3>2 DEF Resumed, Served
    <3>4. Repaired(t) /\ Retried(t)
      BY <2>8, <2>11 DEF Repaired, Retried
    <3> QED
      BY <2>8, <3>3, <3>4 DEF Good, Sound, t
  <2> QED
    BY <2>12, <2>13
<1> QED
  BY <1>2, <1>3

-----------------------------------------------------------------------------
(* The switch of the root.                                                 *)

\* The beginning of a switch keeps the invariant.
LEMMA ActivateStep ==
    ASSUME NEW s, Good(s), s.activation = "none"
    PROVE  Good([ClearSchedule(Pause(s)) EXCEPT
                   !.activation = "draining", !.autoTimer = FALSE, !.stopped = "no",
                   !.queue = {}, !.writerTimer = FALSE, !.rescan.dirty = FALSE])
<1> DEFINE c == ClearSchedule(Pause(s))
           x == [c EXCEPT !.activation = "draining", !.autoTimer = FALSE, !.stopped = "no",
                          !.queue = {}, !.writerTimer = FALSE]
           t == [c EXCEPT !.activation = "draining", !.autoTimer = FALSE, !.stopped = "no",
                          !.queue = {}, !.writerTimer = FALSE, !.rescan.dirty = FALSE]
<1>1. s \in State /\ InFlight(s)
  BY DEF Good, Sound
<1>2. Pause(s) \in State /\ Keeps(s, Pause(s), {"rescan"})
  BY <1>1, PauseIs
<1>3. /\ c \in State /\ Keeps(Pause(s), c, {"pending", "active", "timer", "attempts", "stopped"})
      /\ ~HasWork(c) /\ ~c.timer
  BY <1>2, ClearScheduleIs
<1> HIDE DEF c
<1>4. /\ x \in State /\ Keeps(c, x, {"activation", "autoTimer", "stopped", "queue", "writerTimer"})
      /\ x.activation = "draining"
  BY <1>3 DEF State, Keeps, Fields
<1>5. t = [x EXCEPT !.rescan.dirty = FALSE]
  OBVIOUS
<1> HIDE DEF x, t
<1>6. t \in State /\ Keeps(x, t, {"rescan"})
  BY <1>4, <1>5, ScanUpdates, FlagOfScan
<1>7. /\ t.activation = "draining" /\ t.pending = c.pending /\ t.active = c.active
      /\ t.timer = c.timer
  BY <1>4, <1>6 DEF Keeps, Fields
<1>8. ~HasWork(t) /\ ~t.timer
  BY <1>3, <1>7, SameFaults DEF HasWork
<1>9. Coordinated(t)
  BY <1>8 DEF Coordinated, HasWork
<1>10. Latest(t) /\ LeaseHeld(t)
  BY <1>8 DEF Latest, LeaseHeld, HasWork, Faults
<1>11. /\ t.init = s.init /\ t.writer = s.writer /\ t.work = s.work
       /\ t.initialized = s.initialized /\ t.stranded = s.stranded
  BY <1>2, <1>3, <1>4, <1>6 DEF Keeps, Fields
<1>12. InFlight(t)
  BY <1>1, <1>7, <1>11 DEF InFlight
<1>13. Resumed(t) /\ Served(t) /\ Repaired(t) /\ Retried(t) /\ Started(t)
  BY <1>7, SwitchingIs
<1> QED
  BY <1>6, <1>9, <1>10, <1>12, <1>13 DEF Good, Sound, t, c

\* Taking the runtime down keeps the invariant.
LEMMA SwitchRootStep ==
    ASSUME NEW s, Good(s), s.activation = "draining",
           s.init.stage = "none", s.work = NoWork, s.writer = "none"
    PROVE  Good([Transition(s, "well") EXCEPT
                   !.activation = "switching", !.initialized = FALSE])
<1> DEFINE b == Transition(s, "well")
           t == [b EXCEPT !.activation = "switching", !.initialized = FALSE]
<1>1. s \in State /\ Coordinated(s) /\ Latest(s) /\ LeaseHeld(s) /\ InFlight(s)
  BY DEF Good, Sound
<1>2. "well" \in Healths
  BY DEF Healths
<1>3. /\ b \in State /\ Keeps(s, b, {"health", "pending", "active"})
      /\ (HasWork(b) <=> HasWork(s)) /\ Coordinated(b)
  BY <1>1, <1>2, TransitionKeeps
<1> HIDE DEF b
<1>4. ~HasWork(b) /\ ~b.timer
  BY <1>1, <1>3 DEF Coordinated, HasWork
<1>5. /\ t \in State /\ Keeps(b, t, {"activation", "initialized"}) /\ t.activation = "switching"
  BY <1>3 DEF State, Keeps, Fields
<1> HIDE DEF t
<1>6. t.pending = b.pending /\ t.active = b.active /\ t.timer = b.timer
  BY <1>5 DEF Keeps, Fields
<1>7. ~HasWork(t) /\ ~t.timer
  BY <1>4, <1>6, SameFaults DEF HasWork
<1>8. Coordinated(t)
  BY <1>7 DEF Coordinated, HasWork
<1>9. Latest(t) /\ LeaseHeld(t)
  BY <1>7 DEF Latest, LeaseHeld, HasWork, Faults
<1>10. t.init = s.init /\ t.writer = "none" /\ t.work = NoWork
  BY <1>3, <1>5 DEF Keeps, Fields
<1>11. InFlight(t)
  BY <1>1, <1>10 DEF InFlight
<1>12. Resumed(t) /\ Served(t) /\ Repaired(t) /\ Retried(t) /\ Started(t)
  BY <1>5, SwitchingIs
<1> QED
  BY <1>5, <1>8, <1>9, <1>11, <1>12 DEF Good, Sound, t, b

\* Outside a switch the coordinator has never a fault without its timer.
LEMMA ArmNothing ==
    ASSUME NEW s, Coordinated(s)
    PROVE  Arm(s) = s
  BY DEF Arm, Coordinated

\* The finally of a switch resumes the scans and serves the queue.
LEMMA EndSwitchStep ==
    ASSUME NEW s \in State, NEW settled \in BOOLEAN, s.activation = "none",
           Coordinated(s), Latest(s), LeaseHeld(s), InFlight(s),
           Repaired(s), Retried(s), Started(s)
    PROVE  Good(EndSwitch(s, settled))
<1> DEFINE q == IF settled THEN [s EXCEPT !.queue = @ \cup {"provider"}] ELSE s
           w == WakeQueued(q)
           r == ResumeIfSafe(w)
<1>1. q \in State /\ Keeps(s, q, {"queue"})
  BY DEF State, Keeps, Fields, Modes
<1> HIDE DEF q
<1>2. /\ w \in State /\ Keeps(q, w, {"queue", "rescan", "work"})
      /\ w.work = q.work \/ ~HasWork(q)
      /\ Served(w)
  BY <1>1, WakeQueuedIs
<1> HIDE DEF w
<1>3. /\ r \in State /\ Keeps(w, r, {"rescan"}) /\ (RecoveryBlocked(r) <=> RecoveryBlocked(w))
      /\ r.rescan.paused => RecoveryBlocked(r)
  BY <1>2, ResumeIfSafeIs
<1> HIDE DEF r
<1>4. Resumed(r)
  BY <1>3 DEF Resumed
<1>5. /\ r.queue = w.queue /\ r.initialized = w.initialized /\ r.autoTimer = w.autoTimer
      /\ r.stranded = w.stranded /\ r.work = w.work
  BY <1>3 DEF Keeps, Fields
<1>6. Served(r)
  BY <1>2, <1>3, <1>5 DEF Served
<1>7. Keeps(s, r, {"queue", "rescan", "work", "autoTimer"})
  BY <1>1, <1>2, <1>3 DEF Keeps, Fields
<1>8. q.work = s.work /\ q.pending = s.pending /\ q.active = s.active
  BY <1>1 DEF Keeps, Fields
<1>9. r.work = s.work \/ ~HasWork(s)
  BY <1>2, <1>5, <1>8, SameFaults DEF HasWork
<1>10. /\ Coordinated(r) /\ Latest(r) /\ Repaired(r) /\ Retried(r) /\ Started(r)
       /\ InFlight(r) /\ LeaseHeld(r)
  BY <1>7, <1>9, QueueKeeps
<1>11. EndSwitch(s, settled) = Arm(r)
  BY DEF EndSwitch, r, w, q
<1>12. EndSwitch(s, settled) = r
  BY <1>10, <1>11, ArmNothing
<1> QED
  BY <1>3, <1>4, <1>6, <1>10, <1>12 DEF Good, Sound

\* A switch that commits keeps the invariant.
LEMMA SwitchCommitsStep ==
    ASSUME NEW s, Good(s), s.activation = "switching", NEW settled \in BOOLEAN
    PROVE  Good(EndSwitch([Transition(s, "well") EXCEPT
                             !.activation = "none", !.initialized = TRUE], settled))
<1> DEFINE b == Transition(s, "well")
           t == [b EXCEPT !.activation = "none", !.initialized = TRUE]
<1>1. /\ s \in State /\ Coordinated(s) /\ Latest(s) /\ LeaseHeld(s) /\ InFlight(s)
  BY DEF Good, Sound
<1>2. "well" \in Healths
  BY DEF Healths
<1>3. /\ b \in State /\ Keeps(s, b, {"health", "pending", "active"}) /\ b.health = "well"
      /\ (HasWork(b) <=> HasWork(s)) /\ Coordinated(b) /\ InFlight(b)
  BY <1>1, <1>2, TransitionKeeps
<1> HIDE DEF b
<1>4. ~HasWork(b) /\ ~b.timer
  BY <1>1, <1>3 DEF Coordinated, HasWork
<1>5. /\ t \in State /\ Keeps(b, t, {"activation", "initialized"})
      /\ t.activation = "none" /\ t.initialized
  BY <1>3 DEF State, Keeps, Fields
<1> HIDE DEF t
<1>6. /\ t.pending = b.pending /\ t.active = b.active /\ t.timer = b.timer /\ t.health = "well"
      /\ t.init = b.init /\ t.writer = b.writer /\ t.stranded = b.stranded
  BY <1>3, <1>5 DEF Keeps, Fields
<1>7. ~HasWork(t) /\ ~t.timer
  BY <1>4, <1>6, SameFaults DEF HasWork
<1>8. Coordinated(t)
  BY <1>7 DEF Coordinated, HasWork
<1>9. Latest(t) /\ LeaseHeld(t)
  BY <1>7 DEF Latest, LeaseHeld, HasWork, Faults
<1>10. InFlight(t)
  BY <1>3, <1>5, <1>6 DEF InFlight
<1>11. Repaired(t) /\ Retried(t) /\ Started(t)
  BY <1>5, <1>6 DEF Repaired, Retried, Started
<1>12. Good(EndSwitch(t, settled))
  BY <1>5, <1>8, <1>9, <1>10, <1>11, EndSwitchStep
<1> QED
  BY <1>12 DEF t, b

\* What SwitchFails makes of the state.
SwitchedBack(s, kind, settled) ==
    LET down == [s EXCEPT !.activation = "none", !.initialized = FALSE]
        failed == Handle(IF s.init = NoInit THEN down ELSE Strand(down, {"fault"}),
                         kind, "initial")
        watched == [failed EXCEPT !.rescan =
                      [dirty |-> FALSE, timer |-> FALSE, running |-> FALSE,
                       paused |-> RecoveryBlocked(failed)]]
    IN  EndSwitch(IF kind = "stop" THEN failed ELSE watched, settled)

\* A switch that fails keeps the invariant.
LEMMA SwitchFailsStep ==
    ASSUME NEW s, Good(s), s.activation = "switching", NEW settled \in BOOLEAN, NEW kind \in Kinds
    PROVE  Good(SwitchedBack(s, kind, settled))
<1> DEFINE down == [s EXCEPT !.activation = "none", !.initialized = FALSE]
           base == IF s.init = NoInit THEN down ELSE Strand(down, {"fault"})
           failed == Handle(base, kind, "initial")
           scans == [dirty |-> FALSE, timer |-> FALSE, running |-> FALSE,
                     paused |-> RecoveryBlocked(failed)]
           watched == [failed EXCEPT !.rescan = scans]
<1>1. s \in State /\ Coordinated(s) /\ InFlight(s)
  BY DEF Good, Sound
<1>2. ~HasWork(s) /\ ~s.timer
  BY <1>1 DEF Coordinated, HasWork
<1>3. down \in State /\ Keeps(s, down, {"activation", "initialized"}) /\ down.activation = "none"
  BY <1>1 DEF State, Keeps, Fields
<1> HIDE DEF down
<1>4. /\ Strand(down, {"fault"}) \in State /\ Keeps(down, Strand(down, {"fault"}), {"stranded"})
      /\ Strand(down, {"fault"}).stranded = down.stranded \cup {"fault"}
  BY <1>3, StrandIs DEF Strands
<1>5. /\ base \in State /\ Keeps(s, base, {"activation", "initialized", "stranded"})
      /\ base.activation = "none" /\ (s.init # NoInit => "fault" \in base.stranded)
  <2>1. CASE s.init = NoInit
    BY <1>3, <2>1 DEF Keeps
  <2>2. CASE s.init # NoInit
    <3>1. base = Strand(down, {"fault"})
      BY <2>2
    <3> HIDE DEF base
    <3>2. base.activation = "none" /\ "fault" \in base.stranded
      BY <1>3, <1>4, <3>1 DEF Keeps, Fields
    <3>3. Keeps(s, base, {"activation", "initialized", "stranded"})
      BY <1>3, <1>4, <3>1 DEF Keeps, Fields
    <3> QED
      BY <1>4, <3>1, <3>2, <3>3
  <2> QED
    BY <2>1, <2>2
<1> HIDE DEF base
<1>6. /\ base.pending = s.pending /\ base.active = s.active /\ base.timer = s.timer
      /\ base.init = s.init /\ base.writer = s.writer
  BY <1>5 DEF Keeps, Fields
<1>7. ~HasWork(base)
  BY <1>2, <1>6, SameFaults DEF HasWork
<1>8. Coordinated(base)
  BY <1>2, <1>6, <1>7 DEF Coordinated, HasWork
<1>9. "initial" \in Ops
  BY DEF Ops
<1>10. /\ failed \in State /\ Keeps(base, failed, Recovering)
       /\ Coordinated(failed) /\ Latest(failed) /\ Attending(failed, kind)
       /\ failed.active = NoLease \/ failed.active.id = base.active.id
       /\ base.stranded \subseteq failed.stranded
  BY <1>5, <1>8, <1>9, HandleIs
<1> HIDE DEF failed
<1>11. failed.active = NoLease
  <2>1. base.active.id = 0
    BY <1>7 DEF HasWork, NoLease
  <2> QED
    BY <1>10, <2>1, ActiveLease
<1>12. LeaseHeld(failed)
  BY <1>11 DEF LeaseHeld
<1>13. /\ failed.init = s.init /\ failed.writer = s.writer /\ failed.activation = "none"
  BY <1>5, <1>6, <1>10 DEF Keeps, Fields, Recovering
<1>14. failed.init.stage = "hydrating" => "fault" \in failed.stranded
  BY <1>5, <1>10, <1>13 DEF NoInit
<1>15. InFlight(failed)
  BY <1>1, <1>13, <1>14 DEF InFlight
<1>16. Repaired(failed) /\ Retried(failed) /\ Started(failed)
  BY <1>10, AttendingIs
<1>17. RecoveryBlocked(failed) \in BOOLEAN
  BY Zenon DEF RecoveryBlocked
<1>18. scans \in Scans
  BY <1>17 DEF Scans
<1> HIDE DEF scans
<1>19. watched \in State /\ Keeps(failed, watched, {"rescan"})
  BY <1>10, <1>18 DEF State, Keeps, Fields
<1> HIDE DEF watched
<1>20. Keeps(failed, watched, {"writerTimer", "writer", "inventory", "autoTimer", "rescan"})
  BY <1>19 DEF Keeps
<1>21. /\ watched.health = failed.health /\ watched.writerTimer = failed.writerTimer
       /\ watched.writer = failed.writer /\ watched.activation = failed.activation
       /\ watched.stranded = failed.stranded /\ watched.inventory = failed.inventory
  BY <1>19 DEF Keeps, Fields
<1>22. /\ Coordinated(watched) /\ Latest(watched) /\ LeaseHeld(watched) /\ InFlight(watched)
       /\ Repaired(watched) /\ Started(watched)
  BY <1>10, <1>12, <1>15, <1>16, <1>20, <1>21, FlagKeeps
<1>23. Retried(watched)
  BY <1>16, <1>21 DEF Retried
<1>24. Good(EndSwitch(watched, settled))
  BY <1>13, <1>19, <1>21, <1>22, <1>23, EndSwitchStep
<1>25. Good(EndSwitch(failed, settled))
  BY <1>10, <1>12, <1>13, <1>15, <1>16, EndSwitchStep
<1> QED
  BY <1>24, <1>25 DEF SwitchedBack, watched, scans, failed, base, down

-----------------------------------------------------------------------------
(* The invariant of the specification, and what follows from it.           *)

RecoveryInv == Good(lib)

\* The initial state has the invariant.
LEMMA RecoveryInit == Init => RecoveryInv
<1>1. SUFFICES ASSUME Init PROVE Good(lib)
  BY DEF RecoveryInv
<1>2. 0 \in 0..MaxAttempts
  BY RecoveryAssumption
<1>3. NoInit \in Inits
  BY DEF NoInit, Inits
<1>4. lib \in State
  BY <1>1, <1>2, <1>3 DEF Init, State, Ops, Modes, Healths, Scans, Strands
<1>5. Faults(lib) = {} /\ lib.active = NoLease /\ ~HasWork(lib)
  BY <1>1 DEF Init, Faults, HasWork
<1>6. Coordinated(lib) /\ Latest(lib) /\ LeaseHeld(lib)
  BY <1>1, <1>5 DEF Init, Coordinated, Latest, LeaseHeld, Faults
<1>7. InFlight(lib)
  BY <1>1 DEF Init, InFlight, NoInit
<1>8. Resumed(lib) /\ Served(lib) /\ Repaired(lib) /\ Retried(lib) /\ Started(lib)
  BY <1>1, <1>5 DEF Init, Resumed, Served, Repaired, Retried, Started
<1> QED
  BY <1>4, <1>6, <1>7, <1>8 DEF Good, Sound

\* Every step keeps the invariant.
LEMMA RecoveryNext == RecoveryInv /\ [Next]_lib => RecoveryInv'
<1>1. SUFFICES ASSUME Good(lib), [Next]_lib PROVE Good(lib')
  BY DEF RecoveryInv, Good
<1>2. ASSUME NEW t, Good(t), Becomes(t) PROVE Good(lib')
  BY <1>2, AttendedIs DEF Becomes, Good
<1>3. CASE LoadAll
  BY <1>1, <1>2, <1>3, LoadAllStep DEF LoadAll
<1>4. CASE ProviderSettles
  <2>1. Good(Wake(lib, "provider"))
    BY <1>1, WakeStep DEF Modes
  <2> QED
    BY <1>2, <1>4, <2>1 DEF ProviderSettles
<1>5. CASE AutomaticRetry
  BY <1>1, <1>2, <1>5, AutomaticRetryStep DEF AutomaticRetry
<1>6. CASE Dispatch
  <2> DEFINE id == CHOOSE i \in Leases : lib.init.lease # i
             d(op) == [lib EXCEPT
                         !.timer = FALSE,
                         !.active = [id |-> id, op |-> op, revision |-> lib.pending[op]],
                         !.pending = IF op = "initial" THEN [o \in Ops |-> "none"]
                                     ELSE [@ EXCEPT ![op] = "none"]]
             begun(op) == CASE op = "initial" /\ d(op).initialized -> CompleteInitial(d(op), id)
                            [] op = "initial" /\ ~d(op).initialized -> BeginInit(d(op), "lease", id)
                            [] op = "refresh" ->
                                 [d(op) EXCEPT !.work = [op |-> op, stage |-> "refreshing", lease |-> id]]
                            [] op \in Modes -> StartBacklog(d(op), op, id)
  <2>1. PICK op \in Faults(lib) : /\ op # "initial" => lib.initialized
                                  /\ Becomes(begun(op))
    BY <1>6 DEF Dispatch
  <2>2. id \in Leases
    BY DEF Leases
  <2>3. /\ lib.timer /\ lib.activation = "none" /\ lib.init.stage = "none"
        /\ lib.work = NoWork /\ ~WriterRecovering(lib)
    BY <1>6 DEF Dispatch
  <2>4. op \in Ops
    BY <2>1 DEF Faults
  <2> HIDE DEF id
  <2>5. /\ op = "initial" /\ d(op).initialized => Good(CompleteInitial(d(op), id))
        /\ op = "initial" /\ ~d(op).initialized => Good(BeginInit(d(op), "lease", id))
        /\ op = "refresh" =>
             Good([d(op) EXCEPT !.work = [op |-> op, stage |-> "refreshing", lease |-> id]])
        /\ op \in Modes => Good(StartBacklog(d(op), op, id))
    BY <1>1, <2>1, <2>2, <2>3, DispatchStep
  <2>6. op = "initial" \/ op = "refresh" \/ op \in Modes
    BY <2>4 DEF Ops
  <2> HIDE DEF d
  <2>7. Good(begun(op))
    BY <2>5, <2>6 DEF Modes
  <2> QED
    BY <1>2, <2>1, <2>7
<1>7. ASSUME NEW c \in BOOLEAN, NEW p \in BOOLEAN, BacklogSynced(c, p) PROVE Good(lib')
  BY <1>1, <1>2, <1>7, BacklogSyncedStep DEF BacklogSynced
<1>8. CASE Refreshed
  BY <1>1, <1>2, <1>8, WorkSucceedsStep DEF Refreshed
<1>9. ASSUME NEW k \in Kinds, TransactionFails(k) PROVE Good(lib')
  BY <1>1, <1>2, <1>9, WorkFailsStep DEF TransactionFails
<1>10. ASSUME NEW p \in BOOLEAN, NEW m \in BOOLEAN, InitSynced(p, m) PROVE Good(lib')
  BY <1>1, <1>2, <1>10, InitSyncedStep DEF InitSynced
<1>11. ASSUME NEW m \in Modes, InitHydrated(m) PROVE Good(lib')
  BY <1>1, <1>2, <1>11, InitSucceedsStep DEF InitHydrated
<1>12. ASSUME NEW m \in Modes, NEW k \in Kinds, InitializationFails(m, k) PROVE Good(lib')
  BY <1>1, <1>2, <1>12, InitFailsStep DEF InitializationFails
<1>13. CASE WriterTimer
  BY <1>1, <1>2, <1>13, TimeToRetryStep DEF WriterTimer
<1>14. CASE RetryByHand
  BY <1>1, <1>2, <1>14, TimeToRetryStep DEF RetryByHand
<1>15. CASE Probed
  BY <1>1, <1>2, <1>15, ProbedStep DEF Probed
<1>16. CASE Compensated
  BY <1>1, <1>2, <1>16, CompensatedStep DEF Compensated
<1>17. ASSUME NEW k \in Kinds, ProbeFails(k) PROVE Good(lib')
  BY <1>1, <1>2, <1>17, ProbeFailsStep DEF ProbeFails
<1>18. CASE DirectoryChanges
  BY <1>1, <1>2, <1>18, DirectoryChangesStep DEF DirectoryChanges
<1>19. CASE Flush
  BY <1>1, <1>2, <1>19, FlushStep DEF Flush
<1>20. CASE Scanned
  BY <1>1, <1>2, <1>20, ScannedStep DEF Scanned
<1>21. ASSUME NEW k \in Kinds, ScanFails(k) PROVE Good(lib')
  BY <1>1, <1>2, <1>21, ScanFailsStep DEF ScanFails
<1>22. ASSUME NEW w \in BOOLEAN, LiveSucceeds(w) PROVE Good(lib')
  BY <1>1, <1>2, <1>22, LiveSucceedsStep DEF LiveSucceeds
<1>23. ASSUME NEW h \in Healths, LiveFails(h) PROVE Good(lib')
  BY <1>1, <1>2, <1>23, LiveFailsStep DEF LiveFails
<1>24. CASE Activate
  BY <1>1, <1>2, <1>24, ActivateStep DEF Activate
<1>25. CASE SwitchRoot
  BY <1>1, <1>2, <1>25, SwitchRootStep DEF SwitchRoot
<1>26. ASSUME NEW s \in BOOLEAN, SwitchCommits(s) PROVE Good(lib')
  BY <1>1, <1>2, <1>26, SwitchCommitsStep DEF SwitchCommits
<1>27. ASSUME NEW k \in Kinds, NEW s \in BOOLEAN, SwitchFails(k, s) PROVE Good(lib')
  <2>1. lib.activation = "switching" /\ Becomes(SwitchedBack(lib, k, s))
    BY <1>27, Zenon DEF SwitchFails, SwitchedBack
  <2>2. Good(SwitchedBack(lib, k, s))
    BY <1>1, <2>1, SwitchFailsStep
  <2> QED
    BY <1>2, <2>1, <2>2
<1>28. CASE UNCHANGED lib
  BY <1>1, <1>28
<1>29. CASE BacklogPlanned
  BY <1>1, <1>2, <1>29, BacklogPlannedStep DEF BacklogPlanned
<1>30. CASE InitPlanned
  BY <1>1, <1>2, <1>30, InitPlannedStep DEF InitPlanned
<1> QED
  BY <1>1, <1>3, <1>4, <1>5, <1>6, <1>7, <1>8, <1>9, <1>10, <1>11, <1>12, <1>13, <1>14, <1>15,
     <1>16, <1>17, <1>18, <1>19, <1>20, <1>21, <1>22, <1>23, <1>24, <1>25, <1>26, <1>27, <1>28,
     <1>29, <1>30
     DEF Next

\* The coordinator, its lease, the initialization in flight and the health fit
\* together at every step of the main process.
THEOREM RecoveryInvariant == Spec => []RecoveryInv
<1> QED
  BY RecoveryInit, RecoveryNext, PTL DEF Spec

\* The state has its type: the attempts of libraryBacklogGlobalRetryDelay are
\* bounded, however faults, leases and timers interleave.
THEOREM RecoveryTypes == Spec => []TypeOK
<1>1. RecoveryInv => TypeOK
  BY DEF RecoveryInv, Good, TypeOK
<1> QED
  BY <1>1, RecoveryInvariant, PTL

\* A fault of the coordinator has a timer or a lease, a lease has a transaction in
\* flight that gives it back, and no fault waits for a Library nobody initializes.
THEOREM FaultsDriven == Spec => []FaultsAreDriven
<1>1. RecoveryInv => FaultsAreDriven
  <2>1. SUFFICES ASSUME RecoveryInv PROVE FaultsAreDriven
    OBVIOUS
  <2>2. Coordinated(lib) /\ LeaseHeld(lib) /\ Started(lib)
    BY <2>1 DEF RecoveryInv, Good, Sound
  <2>3. Faults(lib) # {} => HasWork(lib)
    BY DEF HasWork
  <2> QED
    BY <2>2, <2>3 DEF FaultsAreDriven, Coordinated, LeaseHeld, Started, WriterRecovering
<1> QED
  BY <1>1, RecoveryInvariant, PTL

\* libraryRescan is paused only while something is at work that resumes it, apart
\* from the named exceptions.
THEOREM RescansResumed == Spec => []RescanIsResumed
<1>1. RecoveryInv => RescanIsResumed
  BY DEF RecoveryInv, Good, Sound, Resumed, RescanIsResumed
<1> QED
  BY <1>1, RecoveryInvariant, PTL

\* A wake that runLibraryBacklogRecovery has queued is served when what it waited
\* for is over, apart from the named exceptions.
THEOREM WakesServed == Spec => []WakesAreServed
<1>1. RecoveryInv => WakesAreServed
  BY DEF RecoveryInv, Good, Sound, Served, WakesAreServed
<1> QED
  BY <1>1, RecoveryInvariant, PTL

\* An error is shown only while it is recovered from, writer-blocked only while a
\* retry is due, and a Library that should be initialized is or will be, apart
\* from the named exceptions.
THEOREM HealthComesRight == Spec => []HealthRecovers
<1>1. RecoveryInv => HealthRecovers
  <2>1. SUFFICES ASSUME RecoveryInv PROVE HealthRecovers
    OBVIOUS
  <2>2. Repaired(lib) /\ Retried(lib) /\ Started(lib)
    BY <2>1 DEF RecoveryInv, Good, Sound
  <2>3. ~RecoveryBlocked(lib) =>
          /\ lib.activation = "none" /\ lib.stopped = "no" /\ ~HasWork(lib) /\ Faults(lib) = {}
          /\ lib.init.stage = "none" /\ lib.health # "blocked"
          /\ ~lib.writerTimer /\ lib.writer = "none"
    BY DEF RecoveryBlocked, HasWork, WriterRecovering
  <2> QED
    BY <2>2, <2>3 DEF HealthRecovers, Repaired, Retried, Started
<1> QED
  BY <1>1, RecoveryInvariant, PTL

=============================================================================
