---------------------- MODULE RuntimeSupervisor_proofs ----------------------
(***************************************************************************)
(* TypeOK and QuietWhenStopped of RuntimeSupervisor for any number of      *)
(* services, faults, calls and attempts.                                   *)
(*                                                                         *)
(* The argument: the holder of the lifecycle lock is the only one that     *)
(* changes _active, apart from the watchdog, which starts nothing that is  *)
(* not in _active as long as the event of the stop is set before the first *)
(* service is torn down (EventKept, Rounds).  So what the supervisor has   *)
(* started is in _active (Covered), and a stop or a rollback that leaves   *)
(* nothing behind has emptied it (Remains), which nobody fills again       *)
(* before the next start has changed the health (Apart, Reported).         *)
(***************************************************************************)
EXTENDS RuntimeSupervisor, TLAPS

(* Who holds the lifecycle lock, and what the exit for an update can do. *)
Locking ==
    /\ lock = "gate" <=> pc["gate"] \in {"spawn", "confirm", "rollback", "stopping"}
    /\ lock = "update" <=> pc["update"] = "stopping"
    /\ pc["update"] \in {"idle", "leave", "stopping", "join"}

(* The event stays set from a stop's first step to its last. *)
EventKept ==
    /\ \A c \in Caller : Underway(c) /\ ~overlooked => event
    /\ pc["gate"] = "rollback" => event

(* While the event is not set, the watchdog deals with active services. *)
Rounds ==
    (~overlooked /\ ~event) =>
        /\ watch \in {"look", "lock", "report"} => seen \subseteq active
        /\ watch = "lock" => target \in active

(* What the supervisor has started it will also stop. *)
Covered ==
    ~overlooked => \A s \in Service : Alive(s) /\ by[s] = "supervisor" => s \in active

(* A stop or rollback that has not failed leaves only what it has to reach. *)
Remains ==
    \A c \in Caller :
        /\ pc[c] \in {"stopping", "rollback"} /\ ~failed[c] => active \subseteq todo[c]
        /\ pc[c] = "join" /\ ~failed[c] /\ ~overlooked => active = {}

Starts == pc["gate"] \in {"spawn", "confirm", "rollback"}

(* A start and the end of a stop exclude each other. *)
Apart == pc["update"] = "join" /\ Starts => overlooked

(* The health says "stopped" or "start_failed" only of an empty runtime. *)
Reported ==
    (~overlooked /\ health \in {"stopped", "start_failed"}) => active = {} /\ ~Starts

IInv == TypeOK /\ Locking /\ EventKept /\ Rounds /\ Covered /\ Remains /\ Apart /\ Reported

LEMMA TypeKept ==
    ASSUME TypeOK, Next
    PROVE  TypeOK'
<1>1. CASE Enter
  BY <1>1, NAssumption, BoundAssumption DEF Enter, callers, watchdog, resuming, TypeOK, Service, Caller, Collection, Catalog, NoService, States, Steps
<1>2. CASE Refused
  BY <1>2, NAssumption, BoundAssumption DEF Refused, callers, watchdog, resuming, TypeOK, Service, Caller, Collection, Catalog, NoService, States, Steps
<1>3. CASE Begin
  BY <1>3, NAssumption, BoundAssumption DEF Begin, Underway, callers, watchdog, resuming, TypeOK, Service, Caller, Collection, Catalog, NoService, States, Steps
<1>4. CASE SpawnNext
  <2>1. thread' \in [Service -> {"off", "run", "ending"}] /\ by' \in [Service -> {"supervisor", "outside"}]
    BY <1>4, NAssumption, BoundAssumption DEF SpawnNext, Spawned, Fault, Rollback, First, callers, watchdog, resuming, TypeOK, Service, Caller, Collection, Catalog, NoService, States, Steps
  <2>2. active' \subseteq Service
    BY <1>4, NAssumption, BoundAssumption DEF SpawnNext, Spawned, Fault, Rollback, First, callers, watchdog, resuming, TypeOK, Service, Caller, Collection, Catalog, NoService, States, Steps
  <2>3. \A S \in SUBSET Service, c \in Caller : [todo EXCEPT ![c] = S] \in [Caller -> SUBSET Service]
    BY <1>4, NAssumption, BoundAssumption DEF SpawnNext, Spawned, Fault, Rollback, First, callers, watchdog, resuming, TypeOK, Service, Caller, Collection, Catalog, NoService, States, Steps
  <2>4. todo' \in [Caller -> SUBSET Service]
    BY <1>4, NAssumption, BoundAssumption, <2>2, <2>3 DEF SpawnNext, Spawned, Fault, Rollback, First, callers, watchdog, resuming, TypeOK, Service, Caller, Collection, Catalog, NoService, States, Steps
  <2>5. pc' \in [Caller -> Steps]
    BY <1>4, NAssumption, BoundAssumption DEF SpawnNext, Spawned, Fault, Rollback, First, callers, watchdog, resuming, TypeOK, Service, Caller, Collection, Catalog, NoService, States, Steps
  <2>6. faults' \in 0..MaxFault
    BY <1>4, NAssumption, BoundAssumption DEF SpawnNext, Spawned, Fault, Rollback, First, callers, watchdog, resuming, TypeOK, Service, Caller, Collection, Catalog, NoService, States, Steps
  <2>7. event' \in BOOLEAN
    BY <1>4, NAssumption, BoundAssumption DEF SpawnNext, Spawned, Fault, Rollback, First, callers, watchdog, resuming, TypeOK, Service, Caller, Collection, Catalog, NoService, States, Steps
  <2>8. UNCHANGED <<lock, started, health, page, asks, failed, licensed, overlooked,
                     watchdog, resuming>>
    BY <1>4 DEF SpawnNext
  <2>9. halted' \subseteq Service
    BY <1>4 DEF SpawnNext, Spawned, TypeOK
  <2>. QED
    BY <2>1, <2>2, <2>4, <2>5, <2>6, <2>7, <2>8, <2>9, NAssumption, BoundAssumption DEF TypeOK, callers, watchdog, resuming
<1>5. CASE Cancelled
  BY <1>5, NAssumption, BoundAssumption DEF Cancelled, Rollback, callers, watchdog, resuming, TypeOK, Service, Caller, Collection, Catalog, NoService, States, Steps
<1>6. CASE SpawnOwn
  BY <1>6, NAssumption, BoundAssumption DEF SpawnOwn, callers, watchdog, resuming, TypeOK, Service, Caller, Collection, Catalog, NoService, States, Steps
<1>7. CASE Confirm
  BY <1>7, NAssumption, BoundAssumption DEF Confirm, callers, watchdog, resuming, TypeOK, Service, Caller, Collection, Catalog, NoService, States, Steps
<1>8. CASE RolledBack
  BY <1>8, NAssumption, BoundAssumption DEF RolledBack, Joined, Incomplete, callers, watchdog, resuming, TypeOK, Service, Caller, Collection, Catalog, NoService, States, Steps
<1>9. ASSUME NEW c \in Caller, Leave(c) PROVE TypeOK'
  BY <1>9, NAssumption, BoundAssumption DEF Leave, callers, watchdog, resuming, TypeOK, Service, Caller, Collection, Catalog, NoService, States, Steps
<1>10. ASSUME NEW c \in Caller, Lock(c) PROVE TypeOK'
  BY <1>10, NAssumption, BoundAssumption DEF Lock, callers, watchdog, resuming, TypeOK, Service, Caller, Collection, Catalog, NoService, States, Steps
<1>11. ASSUME NEW c \in Caller, StopChild(c) PROVE TypeOK'
  <2>1. thread' \in [Service -> {"off", "run", "ending"}] /\ by' \in [Service -> {"supervisor", "outside"}]
    BY <1>11, NAssumption, BoundAssumption DEF StopChild, SeenAlive, Ended, Outlives, Fault, Last, callers, watchdog, resuming, TypeOK, Service, Caller, Collection, Catalog, NoService, States, Steps
  <2>2. active' \subseteq Service
    BY <1>11, NAssumption, BoundAssumption DEF StopChild, SeenAlive, Ended, Outlives, Fault, Last, callers, watchdog, resuming, TypeOK, Service, Caller, Collection, Catalog, NoService, States, Steps
  <2>3. todo' \in [Caller -> SUBSET Service]
    BY <1>11, NAssumption, BoundAssumption DEF StopChild, SeenAlive, Ended, Outlives, Fault, Last, callers, watchdog, resuming, TypeOK, Service, Caller, Collection, Catalog, NoService, States, Steps
  <2>4. failed' = failed \/ failed' = [failed EXCEPT ![c] = TRUE]
    BY <1>11, NAssumption, BoundAssumption DEF StopChild, SeenAlive, Ended, Outlives, Fault, Last, callers, watchdog, resuming, TypeOK, Service, Caller, Collection, Catalog, NoService, States, Steps
  <2>5. faults' \in 0..MaxFault
    BY <1>11, NAssumption, BoundAssumption DEF StopChild, SeenAlive, Ended, Outlives, Fault, Last, callers, watchdog, resuming, TypeOK, Service, Caller, Collection, Catalog, NoService, States, Steps
  <2>6. UNCHANGED <<halted, lock, event, started, health, page, asks, pc, licensed, overlooked,
                     watchdog, resuming>>
    BY <1>11 DEF StopChild, SeenAlive, Ended, Outlives
  <2>7. failed' \in [Caller -> BOOLEAN]
    <3>1. CASE failed' = failed
      BY <3>1 DEF TypeOK
    <3>2. CASE failed' = [failed EXCEPT ![c] = TRUE]
      BY <3>2 DEF TypeOK
    <3>. QED
      BY <2>4, <3>1, <3>2
  <2>. QED
    BY <2>1, <2>2, <2>3, <2>5, <2>6, <2>7, NAssumption, BoundAssumption DEF TypeOK, callers, watchdog, resuming
<1>12. ASSUME NEW c \in Caller, Release(c) PROVE TypeOK'
  BY <1>12, NAssumption, BoundAssumption DEF Release, callers, watchdog, resuming, TypeOK, Service, Caller, Collection, Catalog, NoService, States, Steps
<1>13. ASSUME NEW c \in Caller, Stopped(c) PROVE TypeOK'
  <2>1. failed' \in [Caller -> BOOLEAN]
    BY <1>13, NAssumption, BoundAssumption DEF Stopped, Joined, Incomplete, callers, watchdog, resuming, TypeOK, Service, Caller, Collection, Catalog, NoService, States, Steps
  <2>2. pc' \in [Caller -> Steps]
    BY <1>13, NAssumption, BoundAssumption DEF Stopped, Joined, Incomplete, callers, watchdog, resuming, TypeOK, Service, Caller, Collection, Catalog, NoService, States, Steps
  <2>3. started' \in BOOLEAN /\ licensed' \in BOOLEAN /\ health' \in States
    BY <1>13, NAssumption, BoundAssumption DEF Stopped, Joined, Incomplete, callers, watchdog, resuming, TypeOK, Service, Caller, Collection, Catalog, NoService, States, Steps
  <2>4. UNCHANGED <<thread, by, halted, lock, event, active, page, faults, asks,
                     todo, overlooked, watchdog, resuming>>
    BY <1>13 DEF Stopped
  <2>. QED
    BY <2>1, <2>2, <2>3, <2>4, NAssumption, BoundAssumption DEF TypeOK, callers, watchdog, resuming
<1>14. CASE WatchTick
  BY <1>14, NAssumption, BoundAssumption DEF WatchTick, callers, watchdog, resuming, TypeOK, Service, Caller, Collection, Catalog, NoService, States, Steps
<1>15. CASE WatchEnds
  BY <1>15, NAssumption, BoundAssumption DEF WatchEnds, callers, watchdog, resuming, TypeOK, Service, Caller, Collection, Catalog, NoService, States, Steps
<1>16. CASE WatchRoundOver
  BY <1>16, NAssumption, BoundAssumption DEF WatchRoundOver, callers, watchdog, resuming, TypeOK, Service, Caller, Collection, Catalog, NoService, States, Steps
<1>17. CASE WatchLook
  <2>1. seen' \subseteq Service
    BY <1>17, NAssumption, BoundAssumption DEF WatchLook, SeenAlive, First, callers, watchdog, resuming, TypeOK, Service, Caller, Collection, Catalog, NoService, States, Steps
  <2>2. watch' \in {"look", "lock"} /\ target' \in Service \cup {NoService}
    BY <1>17, NAssumption, BoundAssumption DEF WatchLook, SeenAlive, First, callers, watchdog, resuming, TypeOK, Service, Caller, Collection, Catalog, NoService, States, Steps
  <2>3. watch' = "lock" => target' \in Service
    BY <1>17, NAssumption, BoundAssumption DEF WatchLook, SeenAlive, First, callers, watchdog, resuming, TypeOK, Service, Caller, Collection, Catalog, NoService, States, Steps
  <2>4. held' \subseteq Service
    BY <1>17, NAssumption, BoundAssumption DEF WatchLook, SeenAlive, First, callers, watchdog, resuming, TypeOK, Service, Caller, Collection, Catalog, NoService, States, Steps
  <2>5. health' \in States
    BY <1>17, NAssumption, BoundAssumption DEF WatchLook, SeenAlive, First, callers, watchdog, resuming, TypeOK, Service, Caller, Collection, Catalog, NoService, States, Steps
  <2>6. UNCHANGED <<thread, by, halted, lock, event, started, active, page, faults, asks,
                     callers, resuming>>
    BY <1>17 DEF WatchLook
  <2>. QED
    BY <2>1, <2>2, <2>3, <2>4, <2>5, <2>6, NAssumption, BoundAssumption DEF TypeOK, callers, watchdog, resuming
<1>18. CASE WatchGivesUp
  BY <1>18, NAssumption, BoundAssumption DEF WatchGivesUp, MayRestart, callers, watchdog, resuming, TypeOK, Service, Caller, Collection, Catalog, NoService, States, Steps
<1>19. CASE WatchRestart
  <2>1. thread' \in [Service -> {"off", "run", "ending"}] /\ by' \in [Service -> {"supervisor", "outside"}]
    BY <1>19, NAssumption, BoundAssumption DEF WatchRestart, Spawned, Fault, MayRestart, callers, watchdog, resuming, TypeOK, Service, Caller, Collection, Catalog, NoService, States, Steps
  <2>2. faults' \in 0..MaxFault
    BY <1>19, NAssumption, BoundAssumption DEF WatchRestart, Spawned, Fault, MayRestart, callers, watchdog, resuming, TypeOK, Service, Caller, Collection, Catalog, NoService, States, Steps
  <2>3. halted' \subseteq Service /\ held' \subseteq Service
    BY <1>19 DEF WatchRestart, Spawned, TypeOK
  <2>. QED
    BY <1>19, NAssumption, BoundAssumption, <2>1, <2>2, <2>3 DEF WatchRestart, Fault, MayRestart, callers, watchdog, resuming, TypeOK, Service, Caller, Collection, Catalog, NoService, States, Steps
<1>20. CASE WatchReport
  BY <1>20, NAssumption, BoundAssumption DEF WatchReport, callers, watchdog, resuming, TypeOK, Service, Caller, Collection, Catalog, NoService, States, Steps
<1>21. CASE ResumeCalls
  <2>1. tries' \in 0..MaxResume
    BY <1>21, NAssumption, BoundAssumption DEF ResumeCalls, callers, watchdog, resuming, TypeOK, Service, Caller, Collection, Catalog, NoService, States, Steps
  <2>. QED
    BY <1>21, NAssumption, BoundAssumption, <2>1 DEF ResumeCalls, callers, watchdog, resuming, TypeOK, Service, Caller, Collection, Catalog, NoService, States, Steps
<1>22. CASE ResumeReturns
  <2>1. PICK S \in {{}, {Catalog}, {Catalog, Collection}} : SpawnedOutside(S)
    BY <1>22 DEF ResumeReturns
  <2>2. /\ thread' \in [Service -> {"off", "run", "ending"}]
        /\ by' \in [Service -> {"supervisor", "outside"}]
        /\ halted' \subseteq Service
    BY <2>1 DEF SpawnedOutside, TypeOK
  <2>3. tries' \in 0..MaxResume /\ (resume' = "wait" => tries' < MaxResume)
    BY <1>22, BoundAssumption DEF ResumeReturns, TypeOK
  <2>4. faults' \in 0..MaxFault
    BY <1>22, BoundAssumption DEF ResumeReturns, Fault, TypeOK
  <2>5. resume' \in {"none", "wait", "call"}
    BY <1>22 DEF ResumeReturns
  <2>. QED
    BY <1>22, <2>2, <2>3, <2>4, <2>5 DEF ResumeReturns, callers, watchdog, TypeOK
<1>23. CASE PageAsks
  BY <1>23, NAssumption, BoundAssumption DEF PageAsks, callers, watchdog, resuming, TypeOK, Service, Caller, Collection, Catalog, NoService, States, Steps
<1>24. CASE PageServed
  <2>1. Catalog \in Service /\ Collection \in Service
    BY NAssumption DEF Catalog, Collection, Service
  <2>2. /\ thread' \in [Service -> {"off", "run", "ending"}]
        /\ by' \in [Service -> {"supervisor", "outside"}]
        /\ halted' \subseteq Service
    BY <1>24, <2>1 DEF PageServed, SpawnedOutside, Ended, Outlives, TypeOK
  <2>3. faults' \in 0..MaxFault
    BY <1>24, BoundAssumption DEF PageServed, Outlives, Fault, TypeOK
  <2>4. page' \in {"none", "start", "stop", "stopping"}
    BY <1>24 DEF PageServed
  <2>. QED
    BY <1>24, <2>2, <2>3, <2>4 DEF PageServed, callers, watchdog, resuming, TypeOK
<1>25. ASSUME NEW s \in Service, Dies(s) PROVE TypeOK'
  BY <1>25, NAssumption, BoundAssumption DEF Dies, Ended, Fault, callers, watchdog, resuming, TypeOK, Service, Caller, Collection, Catalog, NoService, States, Steps
<1>26. ASSUME NEW s \in Service, Ripen(s) PROVE TypeOK'
  BY <1>26, NAssumption, BoundAssumption DEF Ripen, callers, watchdog, resuming, TypeOK, Service, Caller, Collection, Catalog, NoService, States, Steps
<1>27. CASE Quiescent
  BY <1>27, NAssumption, BoundAssumption DEF Quiescent, vars, callers, watchdog, resuming, TypeOK, Service, Caller, Collection, Catalog, NoService, States, Steps
<1>. QED
  BY <1>1, <1>2, <1>3, <1>4, <1>5, <1>6, <1>7, <1>8, <1>9, <1>10, <1>11, <1>12, <1>13, <1>14, <1>15, <1>16, <1>17, <1>18, <1>19, <1>20, <1>21, <1>22, <1>23, <1>24, <1>25, <1>26, <1>27 DEF Next, Starting, Stopping, Watching, Outside

LEMMA LockingKept ==
    ASSUME TypeOK, Locking, Next
    PROVE  Locking'
<1>1. CASE Enter
  BY <1>1 DEF Enter, callers, watchdog, resuming, Locking, TypeOK, Caller, Steps
<1>2. CASE Refused
  BY <1>2 DEF Refused, callers, watchdog, resuming, Locking, TypeOK, Caller, Steps
<1>3. CASE Begin
  BY <1>3 DEF Begin, Underway, callers, watchdog, resuming, Locking, TypeOK, Caller, Steps
<1>4. CASE SpawnNext
  BY <1>4 DEF SpawnNext, Spawned, Fault, Rollback, First, callers, watchdog, resuming, Locking, TypeOK, Caller, Steps
<1>5. CASE Cancelled
  BY <1>5 DEF Cancelled, Rollback, callers, watchdog, resuming, Locking, TypeOK, Caller, Steps
<1>6. CASE SpawnOwn
  BY <1>6 DEF SpawnOwn, callers, watchdog, resuming, Locking, TypeOK, Caller, Steps
<1>7. CASE Confirm
  BY <1>7 DEF Confirm, callers, watchdog, resuming, Locking, TypeOK, Caller, Steps
<1>8. CASE RolledBack
  BY <1>8 DEF RolledBack, Joined, Incomplete, callers, watchdog, resuming, Locking, TypeOK, Caller, Steps
<1>9. ASSUME NEW c \in Caller, Leave(c) PROVE Locking'
  BY <1>9 DEF Leave, callers, watchdog, resuming, Locking, TypeOK, Caller, Steps
<1>10. ASSUME NEW c \in Caller, Lock(c) PROVE Locking'
  BY <1>10 DEF Lock, callers, watchdog, resuming, Locking, TypeOK, Caller, Steps
<1>11. ASSUME NEW c \in Caller, StopChild(c) PROVE Locking'
  BY <1>11 DEF StopChild, SeenAlive, Ended, Outlives, Fault, Last, callers, watchdog, resuming, Locking, TypeOK, Caller, Steps
<1>12. ASSUME NEW c \in Caller, Release(c) PROVE Locking'
  BY <1>12 DEF Release, callers, watchdog, resuming, Locking, TypeOK, Caller, Steps
<1>13. ASSUME NEW c \in Caller, Stopped(c) PROVE Locking'
  BY <1>13 DEF Stopped, Joined, Incomplete, callers, watchdog, resuming, Locking, TypeOK, Caller, Steps
<1>14. CASE WatchTick
  BY <1>14 DEF WatchTick, callers, watchdog, resuming, Locking, TypeOK, Caller, Steps
<1>15. CASE WatchEnds
  BY <1>15 DEF WatchEnds, callers, watchdog, resuming, Locking, TypeOK, Caller, Steps
<1>16. CASE WatchRoundOver
  BY <1>16 DEF WatchRoundOver, callers, watchdog, resuming, Locking, TypeOK, Caller, Steps
<1>17. CASE WatchLook
  BY <1>17 DEF WatchLook, SeenAlive, First, callers, watchdog, resuming, Locking, TypeOK, Caller, Steps
<1>18. CASE WatchGivesUp
  BY <1>18 DEF WatchGivesUp, MayRestart, callers, watchdog, resuming, Locking, TypeOK, Caller, Steps
<1>19. CASE WatchRestart
  BY <1>19 DEF WatchRestart, Spawned, Fault, MayRestart, callers, watchdog, resuming, Locking, TypeOK, Caller, Steps
<1>20. CASE WatchReport
  BY <1>20 DEF WatchReport, callers, watchdog, resuming, Locking, TypeOK, Caller, Steps
<1>21. CASE ResumeCalls
  BY <1>21 DEF ResumeCalls, callers, watchdog, resuming, Locking, TypeOK, Caller, Steps
<1>22. CASE ResumeReturns
  BY <1>22 DEF ResumeReturns, SpawnedOutside, Fault, callers, watchdog, resuming, Locking, TypeOK, Caller, Steps
<1>23. CASE PageAsks
  BY <1>23 DEF PageAsks, callers, watchdog, resuming, Locking, TypeOK, Caller, Steps
<1>24. CASE PageServed
  BY <1>24 DEF PageServed, SpawnedOutside, Ended, Outlives, Fault, callers, watchdog, resuming, Locking, TypeOK, Caller, Steps
<1>25. ASSUME NEW s \in Service, Dies(s) PROVE Locking'
  BY <1>25 DEF Dies, Ended, Fault, callers, watchdog, resuming, Locking, TypeOK, Caller, Steps
<1>26. ASSUME NEW s \in Service, Ripen(s) PROVE Locking'
  BY <1>26 DEF Ripen, callers, watchdog, resuming, Locking, TypeOK, Caller, Steps
<1>27. CASE Quiescent
  BY <1>27 DEF Quiescent, vars, callers, watchdog, resuming, Locking, TypeOK, Caller, Steps
<1>. QED
  BY <1>1, <1>2, <1>3, <1>4, <1>5, <1>6, <1>7, <1>8, <1>9, <1>10, <1>11, <1>12, <1>13, <1>14, <1>15, <1>16, <1>17, <1>18, <1>19, <1>20, <1>21, <1>22, <1>23, <1>24, <1>25, <1>26, <1>27 DEF Next, Starting, Stopping, Watching, Outside

LEMMA EventStays ==
    ASSUME TypeOK, Locking, EventKept, Next
    PROVE  EventKept'
<1>1. CASE Enter
  BY <1>1 DEF Enter, callers, watchdog, resuming, EventKept, Locking, TypeOK, Caller, Steps, Underway
<1>2. CASE Refused
  BY <1>2 DEF Refused, callers, watchdog, resuming, EventKept, Locking, TypeOK, Caller, Steps, Underway
<1>3. CASE Begin
  BY <1>3 DEF Begin, Underway, callers, watchdog, resuming, EventKept, Locking, TypeOK, Caller, Steps
<1>4. CASE SpawnNext
  BY <1>4 DEF SpawnNext, Spawned, Fault, Rollback, First, callers, watchdog, resuming, EventKept, Locking, TypeOK, Caller, Steps, Underway
<1>5. CASE Cancelled
  BY <1>5 DEF Cancelled, Rollback, callers, watchdog, resuming, EventKept, Locking, TypeOK, Caller, Steps, Underway
<1>6. CASE SpawnOwn
  BY <1>6 DEF SpawnOwn, callers, watchdog, resuming, EventKept, Locking, TypeOK, Caller, Steps, Underway
<1>7. CASE Confirm
  BY <1>7 DEF Confirm, callers, watchdog, resuming, EventKept, Locking, TypeOK, Caller, Steps, Underway
<1>8. CASE RolledBack
  BY <1>8 DEF RolledBack, Joined, Incomplete, callers, watchdog, resuming, EventKept, Locking, TypeOK, Caller, Steps, Underway
<1>9. ASSUME NEW c \in Caller, Leave(c) PROVE EventKept'
  BY <1>9 DEF Leave, callers, watchdog, resuming, EventKept, Locking, TypeOK, Caller, Steps, Underway
<1>10. ASSUME NEW c \in Caller, Lock(c) PROVE EventKept'
  BY <1>10 DEF Lock, callers, watchdog, resuming, EventKept, Locking, TypeOK, Caller, Steps, Underway
<1>11. ASSUME NEW c \in Caller, StopChild(c) PROVE EventKept'
  BY <1>11 DEF StopChild, SeenAlive, Ended, Outlives, Fault, Last, callers, watchdog, resuming, EventKept, Locking, TypeOK, Caller, Steps, Underway
<1>12. ASSUME NEW c \in Caller, Release(c) PROVE EventKept'
  BY <1>12 DEF Release, callers, watchdog, resuming, EventKept, Locking, TypeOK, Caller, Steps, Underway
<1>13. ASSUME NEW c \in Caller, Stopped(c) PROVE EventKept'
  BY <1>13 DEF Stopped, Joined, Incomplete, callers, watchdog, resuming, EventKept, Locking, TypeOK, Caller, Steps, Underway
<1>14. CASE WatchTick
  BY <1>14 DEF WatchTick, callers, watchdog, resuming, EventKept, Locking, TypeOK, Caller, Steps, Underway
<1>15. CASE WatchEnds
  BY <1>15 DEF WatchEnds, callers, watchdog, resuming, EventKept, Locking, TypeOK, Caller, Steps, Underway
<1>16. CASE WatchRoundOver
  BY <1>16 DEF WatchRoundOver, callers, watchdog, resuming, EventKept, Locking, TypeOK, Caller, Steps, Underway
<1>17. CASE WatchLook
  BY <1>17 DEF WatchLook, SeenAlive, First, callers, watchdog, resuming, EventKept, Locking, TypeOK, Caller, Steps, Underway
<1>18. CASE WatchGivesUp
  BY <1>18 DEF WatchGivesUp, MayRestart, callers, watchdog, resuming, EventKept, Locking, TypeOK, Caller, Steps, Underway
<1>19. CASE WatchRestart
  BY <1>19 DEF WatchRestart, Spawned, Fault, MayRestart, callers, watchdog, resuming, EventKept, Locking, TypeOK, Caller, Steps, Underway
<1>20. CASE WatchReport
  BY <1>20 DEF WatchReport, callers, watchdog, resuming, EventKept, Locking, TypeOK, Caller, Steps, Underway
<1>21. CASE ResumeCalls
  BY <1>21 DEF ResumeCalls, callers, watchdog, resuming, EventKept, Locking, TypeOK, Caller, Steps, Underway
<1>22. CASE ResumeReturns
  BY <1>22 DEF ResumeReturns, SpawnedOutside, Fault, callers, watchdog, resuming, EventKept, Locking, TypeOK, Caller, Steps, Underway
<1>23. CASE PageAsks
  BY <1>23 DEF PageAsks, callers, watchdog, resuming, EventKept, Locking, TypeOK, Caller, Steps, Underway
<1>24. CASE PageServed
  BY <1>24 DEF PageServed, SpawnedOutside, Ended, Outlives, Fault, callers, watchdog, resuming, EventKept, Locking, TypeOK, Caller, Steps, Underway
<1>25. ASSUME NEW s \in Service, Dies(s) PROVE EventKept'
  BY <1>25 DEF Dies, Ended, Fault, callers, watchdog, resuming, EventKept, Locking, TypeOK, Caller, Steps, Underway
<1>26. ASSUME NEW s \in Service, Ripen(s) PROVE EventKept'
  BY <1>26 DEF Ripen, callers, watchdog, resuming, EventKept, Locking, TypeOK, Caller, Steps, Underway
<1>27. CASE Quiescent
  BY <1>27 DEF Quiescent, vars, callers, watchdog, resuming, EventKept, Locking, TypeOK, Caller, Steps, Underway
<1>. QED
  BY <1>1, <1>2, <1>3, <1>4, <1>5, <1>6, <1>7, <1>8, <1>9, <1>10, <1>11, <1>12, <1>13, <1>14, <1>15, <1>16, <1>17, <1>18, <1>19, <1>20, <1>21, <1>22, <1>23, <1>24, <1>25, <1>26, <1>27 DEF Next, Starting, Stopping, Watching, Outside

LEMMA RoundsKept ==
    ASSUME TypeOK, Locking, EventKept, Rounds, Next
    PROVE  Rounds'
<1>1. CASE Enter
  BY <1>1 DEF Enter, callers, watchdog, resuming, Rounds, EventKept, Locking, TypeOK, Caller, Underway, OwnThreads
<1>2. CASE Refused
  BY <1>2 DEF Refused, callers, watchdog, resuming, Rounds, EventKept, Locking, TypeOK, Caller, Underway, OwnThreads
<1>3. CASE Begin
  BY <1>3 DEF Begin, Underway, callers, watchdog, resuming, Rounds, EventKept, Locking, TypeOK, Caller, OwnThreads
<1>4. CASE SpawnNext
  BY <1>4 DEF SpawnNext, Spawned, Fault, Rollback, First, callers, watchdog, resuming, Rounds, EventKept, Locking, TypeOK, Caller, Underway, OwnThreads
<1>5. CASE Cancelled
  BY <1>5 DEF Cancelled, Rollback, callers, watchdog, resuming, Rounds, EventKept, Locking, TypeOK, Caller, Underway, OwnThreads
<1>6. CASE SpawnOwn
  BY <1>6 DEF SpawnOwn, callers, watchdog, resuming, Rounds, EventKept, Locking, TypeOK, Caller, Underway, OwnThreads
<1>7. CASE Confirm
  BY <1>7 DEF Confirm, callers, watchdog, resuming, Rounds, EventKept, Locking, TypeOK, Caller, Underway, OwnThreads
<1>8. CASE RolledBack
  BY <1>8 DEF RolledBack, Joined, Incomplete, callers, watchdog, resuming, Rounds, EventKept, Locking, TypeOK, Caller, Underway, OwnThreads
<1>9. ASSUME NEW c \in Caller, Leave(c) PROVE Rounds'
  BY <1>9 DEF Leave, callers, watchdog, resuming, Rounds, EventKept, Locking, TypeOK, Caller, Underway, OwnThreads
<1>10. ASSUME NEW c \in Caller, Lock(c) PROVE Rounds'
  BY <1>10 DEF Lock, callers, watchdog, resuming, Rounds, EventKept, Locking, TypeOK, Caller, Underway, OwnThreads
<1>11. ASSUME NEW c \in Caller, StopChild(c) PROVE Rounds'
  BY <1>11 DEF StopChild, SeenAlive, Ended, Outlives, Fault, Last, callers, watchdog, resuming, Rounds, EventKept, Locking, TypeOK, Caller, Underway, OwnThreads
<1>12. ASSUME NEW c \in Caller, Release(c) PROVE Rounds'
  BY <1>12 DEF Release, callers, watchdog, resuming, Rounds, EventKept, Locking, TypeOK, Caller, Underway, OwnThreads
<1>13. ASSUME NEW c \in Caller, Stopped(c) PROVE Rounds'
  BY <1>13 DEF Stopped, Joined, Incomplete, callers, watchdog, resuming, Rounds, EventKept, Locking, TypeOK, Caller, Underway, OwnThreads
<1>14. CASE WatchTick
  BY <1>14 DEF WatchTick, callers, watchdog, resuming, Rounds, EventKept, Locking, TypeOK, Caller, Underway, OwnThreads
<1>15. CASE WatchEnds
  BY <1>15 DEF WatchEnds, callers, watchdog, resuming, Rounds, EventKept, Locking, TypeOK, Caller, Underway, OwnThreads
<1>16. CASE WatchRoundOver
  BY <1>16 DEF WatchRoundOver, callers, watchdog, resuming, Rounds, EventKept, Locking, TypeOK, Caller, Underway, OwnThreads
<1>17. CASE WatchLook
  BY <1>17 DEF WatchLook, SeenAlive, First, callers, watchdog, resuming, Rounds, EventKept, Locking, TypeOK, Caller, Underway, OwnThreads
<1>18. CASE WatchGivesUp
  BY <1>18 DEF WatchGivesUp, MayRestart, callers, watchdog, resuming, Rounds, EventKept, Locking, TypeOK, Caller, Underway, OwnThreads
<1>19. CASE WatchRestart
  BY <1>19 DEF WatchRestart, Spawned, Fault, MayRestart, callers, watchdog, resuming, Rounds, EventKept, Locking, TypeOK, Caller, Underway, OwnThreads
<1>20. CASE WatchReport
  BY <1>20 DEF WatchReport, callers, watchdog, resuming, Rounds, EventKept, Locking, TypeOK, Caller, Underway, OwnThreads
<1>21. CASE ResumeCalls
  BY <1>21 DEF ResumeCalls, callers, watchdog, resuming, Rounds, EventKept, Locking, TypeOK, Caller, Underway, OwnThreads
<1>22. CASE ResumeReturns
  BY <1>22 DEF ResumeReturns, SpawnedOutside, Fault, callers, watchdog, resuming, Rounds, EventKept, Locking, TypeOK, Caller, Underway, OwnThreads
<1>23. CASE PageAsks
  BY <1>23 DEF PageAsks, callers, watchdog, resuming, Rounds, EventKept, Locking, TypeOK, Caller, Underway, OwnThreads
<1>24. CASE PageServed
  BY <1>24 DEF PageServed, SpawnedOutside, Ended, Outlives, Fault, callers, watchdog, resuming, Rounds, EventKept, Locking, TypeOK, Caller, Underway, OwnThreads
<1>25. ASSUME NEW s \in Service, Dies(s) PROVE Rounds'
  BY <1>25 DEF Dies, Ended, Fault, callers, watchdog, resuming, Rounds, EventKept, Locking, TypeOK, Caller, Underway, OwnThreads
<1>26. ASSUME NEW s \in Service, Ripen(s) PROVE Rounds'
  BY <1>26 DEF Ripen, callers, watchdog, resuming, Rounds, EventKept, Locking, TypeOK, Caller, Underway, OwnThreads
<1>27. CASE Quiescent
  BY <1>27 DEF Quiescent, vars, callers, watchdog, resuming, Rounds, EventKept, Locking, TypeOK, Caller, Underway, OwnThreads
<1>. QED
  BY <1>1, <1>2, <1>3, <1>4, <1>5, <1>6, <1>7, <1>8, <1>9, <1>10, <1>11, <1>12, <1>13, <1>14, <1>15, <1>16, <1>17, <1>18, <1>19, <1>20, <1>21, <1>22, <1>23, <1>24, <1>25, <1>26, <1>27 DEF Next, Starting, Stopping, Watching, Outside

LEMMA CoveredKept ==
    ASSUME TypeOK, Rounds, EventKept, Covered, Next
    PROVE  Covered'
<1>1. CASE Enter
  BY <1>1 DEF Enter, callers, watchdog, resuming, Covered, Rounds, TypeOK, Alive
<1>2. CASE Refused
  BY <1>2 DEF Refused, callers, watchdog, resuming, Covered, Rounds, TypeOK, Alive
<1>3. CASE Begin
  BY <1>3 DEF Begin, Underway, callers, watchdog, resuming, Covered, Rounds, TypeOK, Alive
<1>4. CASE SpawnNext
  BY <1>4 DEF SpawnNext, Spawned, Fault, Rollback, First, callers, watchdog, resuming, Covered, Rounds, TypeOK, Alive
<1>5. CASE Cancelled
  BY <1>5 DEF Cancelled, Rollback, callers, watchdog, resuming, Covered, Rounds, TypeOK, Alive
<1>6. CASE SpawnOwn
  BY <1>6 DEF SpawnOwn, callers, watchdog, resuming, Covered, Rounds, TypeOK, Alive
<1>7. CASE Confirm
  BY <1>7 DEF Confirm, callers, watchdog, resuming, Covered, Rounds, TypeOK, Alive
<1>8. CASE RolledBack
  BY <1>8 DEF RolledBack, Joined, Incomplete, callers, watchdog, resuming, Covered, Rounds, TypeOK, Alive
<1>9. ASSUME NEW c \in Caller, Leave(c) PROVE Covered'
  BY <1>9 DEF Leave, callers, watchdog, resuming, Covered, Rounds, TypeOK, Alive
<1>10. ASSUME NEW c \in Caller, Lock(c) PROVE Covered'
  BY <1>10 DEF Lock, callers, watchdog, resuming, Covered, Rounds, TypeOK, Alive
<1>11. ASSUME NEW c \in Caller, StopChild(c) PROVE Covered'
  BY <1>11 DEF StopChild, SeenAlive, Ended, Outlives, Fault, Last, callers, watchdog, resuming, Covered, Rounds, TypeOK, Alive
<1>12. ASSUME NEW c \in Caller, Release(c) PROVE Covered'
  BY <1>12 DEF Release, callers, watchdog, resuming, Covered, Rounds, TypeOK, Alive
<1>13. ASSUME NEW c \in Caller, Stopped(c) PROVE Covered'
  BY <1>13 DEF Stopped, Joined, Incomplete, callers, watchdog, resuming, Covered, Rounds, TypeOK, Alive
<1>14. CASE WatchTick
  BY <1>14 DEF WatchTick, callers, watchdog, resuming, Covered, Rounds, TypeOK, Alive
<1>15. CASE WatchEnds
  BY <1>15 DEF WatchEnds, callers, watchdog, resuming, Covered, Rounds, TypeOK, Alive
<1>16. CASE WatchRoundOver
  BY <1>16 DEF WatchRoundOver, callers, watchdog, resuming, Covered, Rounds, TypeOK, Alive
<1>17. CASE WatchLook
  BY <1>17 DEF WatchLook, SeenAlive, First, callers, watchdog, resuming, Covered, Rounds, TypeOK, Alive
<1>18. CASE WatchGivesUp
  BY <1>18 DEF WatchGivesUp, MayRestart, callers, watchdog, resuming, Covered, Rounds, TypeOK, Alive
<1>19. CASE WatchRestart
  BY <1>19 DEF WatchRestart, Spawned, Fault, MayRestart, callers, watchdog, resuming, Covered, Rounds, TypeOK, Alive
<1>20. CASE WatchReport
  BY <1>20 DEF WatchReport, callers, watchdog, resuming, Covered, Rounds, TypeOK, Alive
<1>21. CASE ResumeCalls
  BY <1>21 DEF ResumeCalls, callers, watchdog, resuming, Covered, Rounds, TypeOK, Alive
<1>22. CASE ResumeReturns
  BY <1>22 DEF ResumeReturns, SpawnedOutside, Fault, callers, watchdog, resuming, Covered, Rounds, TypeOK, Alive
<1>23. CASE PageAsks
  BY <1>23 DEF PageAsks, callers, watchdog, resuming, Covered, Rounds, TypeOK, Alive
<1>24. CASE PageServed
  BY <1>24 DEF PageServed, SpawnedOutside, Ended, Outlives, Fault, callers, watchdog, resuming, Covered, Rounds, TypeOK, Alive
<1>25. ASSUME NEW s \in Service, Dies(s) PROVE Covered'
  BY <1>25 DEF Dies, Ended, Fault, callers, watchdog, resuming, Covered, Rounds, TypeOK, Alive
<1>26. ASSUME NEW s \in Service, Ripen(s) PROVE Covered'
  BY <1>26 DEF Ripen, callers, watchdog, resuming, Covered, Rounds, TypeOK, Alive
<1>27. CASE Quiescent
  BY <1>27 DEF Quiescent, vars, callers, watchdog, resuming, Covered, Rounds, TypeOK, Alive
<1>. QED
  BY <1>1, <1>2, <1>3, <1>4, <1>5, <1>6, <1>7, <1>8, <1>9, <1>10, <1>11, <1>12, <1>13, <1>14, <1>15, <1>16, <1>17, <1>18, <1>19, <1>20, <1>21, <1>22, <1>23, <1>24, <1>25, <1>26, <1>27 DEF Next, Starting, Stopping, Watching, Outside

LEMMA RemainsHolds ==
    ASSUME TypeOK, Locking, Apart, Remains, Next
    PROVE  Remains'
<1>1. CASE Enter
  BY <1>1 DEF Enter, callers, watchdog, resuming, Remains, Locking, Apart, Starts, TypeOK, Caller, Steps
<1>2. CASE Refused
  BY <1>2 DEF Refused, callers, watchdog, resuming, Remains, Locking, Apart, Starts, TypeOK, Caller, Steps
<1>3. CASE Begin
  BY <1>3 DEF Begin, Underway, callers, watchdog, resuming, Remains, Locking, Apart, Starts, TypeOK, Caller, Steps
<1>4. CASE SpawnNext
  BY <1>4 DEF SpawnNext, Spawned, Fault, Rollback, First, callers, watchdog, resuming, Remains, Locking, Apart, Starts, TypeOK, Caller, Steps
<1>5. CASE Cancelled
  BY <1>5 DEF Cancelled, Rollback, callers, watchdog, resuming, Remains, Locking, Apart, Starts, TypeOK, Caller, Steps
<1>6. CASE SpawnOwn
  BY <1>6 DEF SpawnOwn, callers, watchdog, resuming, Remains, Locking, Apart, Starts, TypeOK, Caller, Steps
<1>7. CASE Confirm
  BY <1>7 DEF Confirm, callers, watchdog, resuming, Remains, Locking, Apart, Starts, TypeOK, Caller, Steps
<1>8. CASE RolledBack
  BY <1>8 DEF RolledBack, Joined, Incomplete, callers, watchdog, resuming, Remains, Locking, Apart, Starts, TypeOK, Caller, Steps
<1>9. ASSUME NEW c \in Caller, Leave(c) PROVE Remains'
  BY <1>9 DEF Leave, callers, watchdog, resuming, Remains, Locking, Apart, Starts, TypeOK, Caller, Steps
<1>10. ASSUME NEW c \in Caller, Lock(c) PROVE Remains'
  BY <1>10 DEF Lock, callers, watchdog, resuming, Remains, Locking, Apart, Starts, TypeOK, Caller, Steps
<1>11. ASSUME NEW c \in Caller, StopChild(c) PROVE Remains'
  BY <1>11 DEF StopChild, SeenAlive, Ended, Outlives, Fault, Last, callers, watchdog, resuming, Remains, Locking, Apart, Starts, TypeOK, Caller, Steps
<1>12. ASSUME NEW c \in Caller, Release(c) PROVE Remains'
  BY <1>12 DEF Release, callers, watchdog, resuming, Remains, Locking, Apart, Starts, TypeOK, Caller, Steps
<1>13. ASSUME NEW c \in Caller, Stopped(c) PROVE Remains'
  BY <1>13 DEF Stopped, Joined, Incomplete, callers, watchdog, resuming, Remains, Locking, Apart, Starts, TypeOK, Caller, Steps
<1>14. CASE WatchTick
  BY <1>14 DEF WatchTick, callers, watchdog, resuming, Remains, Locking, Apart, Starts, TypeOK, Caller, Steps
<1>15. CASE WatchEnds
  BY <1>15 DEF WatchEnds, callers, watchdog, resuming, Remains, Locking, Apart, Starts, TypeOK, Caller, Steps
<1>16. CASE WatchRoundOver
  BY <1>16 DEF WatchRoundOver, callers, watchdog, resuming, Remains, Locking, Apart, Starts, TypeOK, Caller, Steps
<1>17. CASE WatchLook
  BY <1>17 DEF WatchLook, SeenAlive, First, callers, watchdog, resuming, Remains, Locking, Apart, Starts, TypeOK, Caller, Steps
<1>18. CASE WatchGivesUp
  BY <1>18 DEF WatchGivesUp, MayRestart, callers, watchdog, resuming, Remains, Locking, Apart, Starts, TypeOK, Caller, Steps
<1>19. CASE WatchRestart
  BY <1>19 DEF WatchRestart, Spawned, Fault, MayRestart, callers, watchdog, resuming, Remains, Locking, Apart, Starts, TypeOK, Caller, Steps
<1>20. CASE WatchReport
  BY <1>20 DEF WatchReport, callers, watchdog, resuming, Remains, Locking, Apart, Starts, TypeOK, Caller, Steps
<1>21. CASE ResumeCalls
  BY <1>21 DEF ResumeCalls, callers, watchdog, resuming, Remains, Locking, Apart, Starts, TypeOK, Caller, Steps
<1>22. CASE ResumeReturns
  BY <1>22 DEF ResumeReturns, SpawnedOutside, Fault, callers, watchdog, resuming, Remains, Locking, Apart, Starts, TypeOK, Caller, Steps
<1>23. CASE PageAsks
  BY <1>23 DEF PageAsks, callers, watchdog, resuming, Remains, Locking, Apart, Starts, TypeOK, Caller, Steps
<1>24. CASE PageServed
  BY <1>24 DEF PageServed, SpawnedOutside, Ended, Outlives, Fault, callers, watchdog, resuming, Remains, Locking, Apart, Starts, TypeOK, Caller, Steps
<1>25. ASSUME NEW s \in Service, Dies(s) PROVE Remains'
  BY <1>25 DEF Dies, Ended, Fault, callers, watchdog, resuming, Remains, Locking, Apart, Starts, TypeOK, Caller, Steps
<1>26. ASSUME NEW s \in Service, Ripen(s) PROVE Remains'
  BY <1>26 DEF Ripen, callers, watchdog, resuming, Remains, Locking, Apart, Starts, TypeOK, Caller, Steps
<1>27. CASE Quiescent
  BY <1>27 DEF Quiescent, vars, callers, watchdog, resuming, Remains, Locking, Apart, Starts, TypeOK, Caller, Steps
<1>. QED
  BY <1>1, <1>2, <1>3, <1>4, <1>5, <1>6, <1>7, <1>8, <1>9, <1>10, <1>11, <1>12, <1>13, <1>14, <1>15, <1>16, <1>17, <1>18, <1>19, <1>20, <1>21, <1>22, <1>23, <1>24, <1>25, <1>26, <1>27 DEF Next, Starting, Stopping, Watching, Outside

LEMMA ApartKept ==
    ASSUME TypeOK, Locking, Apart, Next
    PROVE  Apart'
<1>1. CASE Enter
  BY <1>1 DEF Enter, callers, watchdog, resuming, Apart, Starts, Locking, TypeOK, Caller, Steps, Underway
<1>2. CASE Refused
  BY <1>2 DEF Refused, callers, watchdog, resuming, Apart, Starts, Locking, TypeOK, Caller, Steps, Underway
<1>3. CASE Begin
  BY <1>3 DEF Begin, Underway, callers, watchdog, resuming, Apart, Starts, Locking, TypeOK, Caller, Steps
<1>4. CASE SpawnNext
  BY <1>4 DEF SpawnNext, Spawned, Fault, Rollback, First, callers, watchdog, resuming, Apart, Starts, Locking, TypeOK, Caller, Steps, Underway
<1>5. CASE Cancelled
  BY <1>5 DEF Cancelled, Rollback, callers, watchdog, resuming, Apart, Starts, Locking, TypeOK, Caller, Steps, Underway
<1>6. CASE SpawnOwn
  BY <1>6 DEF SpawnOwn, callers, watchdog, resuming, Apart, Starts, Locking, TypeOK, Caller, Steps, Underway
<1>7. CASE Confirm
  BY <1>7 DEF Confirm, callers, watchdog, resuming, Apart, Starts, Locking, TypeOK, Caller, Steps, Underway
<1>8. CASE RolledBack
  BY <1>8 DEF RolledBack, Joined, Incomplete, callers, watchdog, resuming, Apart, Starts, Locking, TypeOK, Caller, Steps, Underway
<1>9. ASSUME NEW c \in Caller, Leave(c) PROVE Apart'
  BY <1>9 DEF Leave, callers, watchdog, resuming, Apart, Starts, Locking, TypeOK, Caller, Steps, Underway
<1>10. ASSUME NEW c \in Caller, Lock(c) PROVE Apart'
  BY <1>10 DEF Lock, callers, watchdog, resuming, Apart, Starts, Locking, TypeOK, Caller, Steps, Underway
<1>11. ASSUME NEW c \in Caller, StopChild(c) PROVE Apart'
  BY <1>11 DEF StopChild, SeenAlive, Ended, Outlives, Fault, Last, callers, watchdog, resuming, Apart, Starts, Locking, TypeOK, Caller, Steps, Underway
<1>12. ASSUME NEW c \in Caller, Release(c) PROVE Apart'
  BY <1>12 DEF Release, callers, watchdog, resuming, Apart, Starts, Locking, TypeOK, Caller, Steps, Underway
<1>13. ASSUME NEW c \in Caller, Stopped(c) PROVE Apart'
  BY <1>13 DEF Stopped, Joined, Incomplete, callers, watchdog, resuming, Apart, Starts, Locking, TypeOK, Caller, Steps, Underway
<1>14. CASE WatchTick
  BY <1>14 DEF WatchTick, callers, watchdog, resuming, Apart, Starts, Locking, TypeOK, Caller, Steps, Underway
<1>15. CASE WatchEnds
  BY <1>15 DEF WatchEnds, callers, watchdog, resuming, Apart, Starts, Locking, TypeOK, Caller, Steps, Underway
<1>16. CASE WatchRoundOver
  BY <1>16 DEF WatchRoundOver, callers, watchdog, resuming, Apart, Starts, Locking, TypeOK, Caller, Steps, Underway
<1>17. CASE WatchLook
  BY <1>17 DEF WatchLook, SeenAlive, First, callers, watchdog, resuming, Apart, Starts, Locking, TypeOK, Caller, Steps, Underway
<1>18. CASE WatchGivesUp
  BY <1>18 DEF WatchGivesUp, MayRestart, callers, watchdog, resuming, Apart, Starts, Locking, TypeOK, Caller, Steps, Underway
<1>19. CASE WatchRestart
  BY <1>19 DEF WatchRestart, Spawned, Fault, MayRestart, callers, watchdog, resuming, Apart, Starts, Locking, TypeOK, Caller, Steps, Underway
<1>20. CASE WatchReport
  BY <1>20 DEF WatchReport, callers, watchdog, resuming, Apart, Starts, Locking, TypeOK, Caller, Steps, Underway
<1>21. CASE ResumeCalls
  BY <1>21 DEF ResumeCalls, callers, watchdog, resuming, Apart, Starts, Locking, TypeOK, Caller, Steps, Underway
<1>22. CASE ResumeReturns
  BY <1>22 DEF ResumeReturns, SpawnedOutside, Fault, callers, watchdog, resuming, Apart, Starts, Locking, TypeOK, Caller, Steps, Underway
<1>23. CASE PageAsks
  BY <1>23 DEF PageAsks, callers, watchdog, resuming, Apart, Starts, Locking, TypeOK, Caller, Steps, Underway
<1>24. CASE PageServed
  BY <1>24 DEF PageServed, SpawnedOutside, Ended, Outlives, Fault, callers, watchdog, resuming, Apart, Starts, Locking, TypeOK, Caller, Steps, Underway
<1>25. ASSUME NEW s \in Service, Dies(s) PROVE Apart'
  BY <1>25 DEF Dies, Ended, Fault, callers, watchdog, resuming, Apart, Starts, Locking, TypeOK, Caller, Steps, Underway
<1>26. ASSUME NEW s \in Service, Ripen(s) PROVE Apart'
  BY <1>26 DEF Ripen, callers, watchdog, resuming, Apart, Starts, Locking, TypeOK, Caller, Steps, Underway
<1>27. CASE Quiescent
  BY <1>27 DEF Quiescent, vars, callers, watchdog, resuming, Apart, Starts, Locking, TypeOK, Caller, Steps, Underway
<1>. QED
  BY <1>1, <1>2, <1>3, <1>4, <1>5, <1>6, <1>7, <1>8, <1>9, <1>10, <1>11, <1>12, <1>13, <1>14, <1>15, <1>16, <1>17, <1>18, <1>19, <1>20, <1>21, <1>22, <1>23, <1>24, <1>25, <1>26, <1>27 DEF Next, Starting, Stopping, Watching, Outside

LEMMA ReportedKept ==
    ASSUME TypeOK, Locking, Apart, Remains, Reported, Next
    PROVE  Reported'
<1>1. CASE Enter
  BY <1>1 DEF Enter, callers, watchdog, resuming, Reported, Starts, Apart, Remains, Locking, TypeOK, Caller, Steps
<1>2. CASE Refused
  BY <1>2 DEF Refused, callers, watchdog, resuming, Reported, Starts, Apart, Remains, Locking, TypeOK, Caller, Steps
<1>3. CASE Begin
  BY <1>3 DEF Begin, Underway, callers, watchdog, resuming, Reported, Starts, Apart, Remains, Locking, TypeOK, Caller, Steps
<1>4. CASE SpawnNext
  BY <1>4 DEF SpawnNext, Spawned, Fault, Rollback, First, callers, watchdog, resuming, Reported, Starts, Apart, Remains, Locking, TypeOK, Caller, Steps
<1>5. CASE Cancelled
  BY <1>5 DEF Cancelled, Rollback, callers, watchdog, resuming, Reported, Starts, Apart, Remains, Locking, TypeOK, Caller, Steps
<1>6. CASE SpawnOwn
  BY <1>6 DEF SpawnOwn, callers, watchdog, resuming, Reported, Starts, Apart, Remains, Locking, TypeOK, Caller, Steps
<1>7. CASE Confirm
  BY <1>7 DEF Confirm, callers, watchdog, resuming, Reported, Starts, Apart, Remains, Locking, TypeOK, Caller, Steps
<1>8. CASE RolledBack
  BY <1>8 DEF RolledBack, Joined, Incomplete, callers, watchdog, resuming, Reported, Starts, Apart, Remains, Locking, TypeOK, Caller, Steps
<1>9. ASSUME NEW c \in Caller, Leave(c) PROVE Reported'
  BY <1>9 DEF Leave, callers, watchdog, resuming, Reported, Starts, Apart, Remains, Locking, TypeOK, Caller, Steps
<1>10. ASSUME NEW c \in Caller, Lock(c) PROVE Reported'
  BY <1>10 DEF Lock, callers, watchdog, resuming, Reported, Starts, Apart, Remains, Locking, TypeOK, Caller, Steps
<1>11. ASSUME NEW c \in Caller, StopChild(c) PROVE Reported'
  BY <1>11 DEF StopChild, SeenAlive, Ended, Outlives, Fault, Last, callers, watchdog, resuming, Reported, Starts, Apart, Remains, Locking, TypeOK, Caller, Steps
<1>12. ASSUME NEW c \in Caller, Release(c) PROVE Reported'
  BY <1>12 DEF Release, callers, watchdog, resuming, Reported, Starts, Apart, Remains, Locking, TypeOK, Caller, Steps
<1>13. ASSUME NEW c \in Caller, Stopped(c) PROVE Reported'
  BY <1>13 DEF Stopped, Joined, Incomplete, callers, watchdog, resuming, Reported, Starts, Apart, Remains, Locking, TypeOK, Caller, Steps
<1>14. CASE WatchTick
  BY <1>14 DEF WatchTick, callers, watchdog, resuming, Reported, Starts, Apart, Remains, Locking, TypeOK, Caller, Steps
<1>15. CASE WatchEnds
  BY <1>15 DEF WatchEnds, callers, watchdog, resuming, Reported, Starts, Apart, Remains, Locking, TypeOK, Caller, Steps
<1>16. CASE WatchRoundOver
  BY <1>16 DEF WatchRoundOver, callers, watchdog, resuming, Reported, Starts, Apart, Remains, Locking, TypeOK, Caller, Steps
<1>17. CASE WatchLook
  BY <1>17 DEF WatchLook, SeenAlive, First, callers, watchdog, resuming, Reported, Starts, Apart, Remains, Locking, TypeOK, Caller, Steps
<1>18. CASE WatchGivesUp
  BY <1>18 DEF WatchGivesUp, MayRestart, callers, watchdog, resuming, Reported, Starts, Apart, Remains, Locking, TypeOK, Caller, Steps
<1>19. CASE WatchRestart
  BY <1>19 DEF WatchRestart, Spawned, Fault, MayRestart, callers, watchdog, resuming, Reported, Starts, Apart, Remains, Locking, TypeOK, Caller, Steps
<1>20. CASE WatchReport
  BY <1>20 DEF WatchReport, callers, watchdog, resuming, Reported, Starts, Apart, Remains, Locking, TypeOK, Caller, Steps
<1>21. CASE ResumeCalls
  BY <1>21 DEF ResumeCalls, callers, watchdog, resuming, Reported, Starts, Apart, Remains, Locking, TypeOK, Caller, Steps
<1>22. CASE ResumeReturns
  BY <1>22 DEF ResumeReturns, SpawnedOutside, Fault, callers, watchdog, resuming, Reported, Starts, Apart, Remains, Locking, TypeOK, Caller, Steps
<1>23. CASE PageAsks
  BY <1>23 DEF PageAsks, callers, watchdog, resuming, Reported, Starts, Apart, Remains, Locking, TypeOK, Caller, Steps
<1>24. CASE PageServed
  BY <1>24 DEF PageServed, SpawnedOutside, Ended, Outlives, Fault, callers, watchdog, resuming, Reported, Starts, Apart, Remains, Locking, TypeOK, Caller, Steps
<1>25. ASSUME NEW s \in Service, Dies(s) PROVE Reported'
  BY <1>25 DEF Dies, Ended, Fault, callers, watchdog, resuming, Reported, Starts, Apart, Remains, Locking, TypeOK, Caller, Steps
<1>26. ASSUME NEW s \in Service, Ripen(s) PROVE Reported'
  BY <1>26 DEF Ripen, callers, watchdog, resuming, Reported, Starts, Apart, Remains, Locking, TypeOK, Caller, Steps
<1>27. CASE Quiescent
  BY <1>27 DEF Quiescent, vars, callers, watchdog, resuming, Reported, Starts, Apart, Remains, Locking, TypeOK, Caller, Steps
<1>. QED
  BY <1>1, <1>2, <1>3, <1>4, <1>5, <1>6, <1>7, <1>8, <1>9, <1>10, <1>11, <1>12, <1>13, <1>14, <1>15, <1>16, <1>17, <1>18, <1>19, <1>20, <1>21, <1>22, <1>23, <1>24, <1>25, <1>26, <1>27 DEF Next, Starting, Stopping, Watching, Outside

LEMMA Started == Init => IInv
<1>. SUFFICES ASSUME Init PROVE IInv
  OBVIOUS
<1>1. TypeOK
  <2>1. /\ thread \in [Service -> {"off", "run", "ending"}]
        /\ by \in [Service -> {"supervisor", "outside"}]
    BY DEF Init
  <2>2. /\ pc \in [Caller -> Steps]
        /\ todo \in [Caller -> SUBSET Service]
        /\ failed \in [Caller -> BOOLEAN]
    BY DEF Init, Steps
  <2>3. /\ tries \in 0..MaxResume
        /\ faults \in 0..MaxFault /\ asks \in 0..MaxAsk
    BY BoundAssumption DEF Init
  <2>. QED
    BY <2>1, <2>2, <2>3 DEF Init, TypeOK, NoService, States
<1>2. Locking /\ EventKept /\ Apart /\ Reported
  BY DEF Init, Locking, EventKept, Underway, Caller, Apart, Starts, Reported
<1>3. Rounds /\ Covered /\ Remains
  BY DEF Init, Rounds, Covered, Alive, Remains, Caller
<1>. QED
  BY <1>1, <1>2, <1>3 DEF IInv

LEMMA StepKeeps == IInv /\ [Next]_vars => IInv'
<1>1. ASSUME IInv, Next PROVE IInv'
  BY <1>1, TypeKept, LockingKept, EventStays, RoundsKept, CoveredKept, RemainsHolds,
     ApartKept, ReportedKept DEF IInv
<1>2. ASSUME IInv, UNCHANGED vars PROVE IInv'
  BY <1>2 DEF vars, callers, watchdog, resuming, IInv, TypeOK, Locking, EventKept, Underway,
     Rounds, Covered, Alive, Remains, Apart, Starts, Reported
<1>. QED
  BY <1>1, <1>2

THEOREM InductiveInvariant == Spec => []IInv
BY Started, StepKeeps, PTL DEF Spec

\* Every variable of the supervisor keeps its type, for any number of services,
\* faults and calls (BackgroundRuntimeSupervisor).
THEOREM Typed == Spec => []TypeOK
<1>1. IInv => TypeOK
  BY DEF IInv
<1>. QED
  BY <1>1, InductiveInvariant, PTL

\* Nothing the supervisor has started outlives a stop that is reported complete
\* or a start that was taken back (stop, start, _watchdog_once).
THEOREM NothingLeftBehind == Spec => []QuietWhenStopped
<1>1. IInv => QuietWhenStopped
  BY DEF IInv, QuietWhenStopped, Reported, Covered, TypeOK
<1>. QED
  BY <1>1, InductiveInvariant, PTL
=============================================================================
