------------------------- MODULE RuntimeSupervisor -------------------------
(***************************************************************************)
(* services/runtime_supervisor.py with the callers of gui_app.py and       *)
(* api/views.py: the background services are started together (with a      *)
(* rollback), watched, restarted and stopped.                              *)
(*                                                                         *)
(* Callers of start() and stop():                                          *)
(*   gate    enterLicensedApplication and _stop_licensed_runtime, which    *)
(*           exclude each other by _licensed_runtime_lock;                 *)
(*   update  the exit for an update, which calls stop() without that lock. *)
(* Threads of the supervisor: the watchdog and the thread that resumes the *)
(* saved monitoring.  The user's page, and this resume thread, start and   *)
(* stop the catalog and the collection themselves, without the supervisor. *)
(*                                                                         *)
(* A service is its thread: "off", "run", or "ending" (it was told to stop *)
(* and outlived the wait of its stopper).  Services are numbered in the    *)
(* order of the registry; the catalog and the collection are the last two. *)
(* All of them are watched.  One lifecycle lock, one event per start: a    *)
(* start replaces the event only when the threads of the last start are    *)
(* gone, so one flag says whether the present event is set.                *)
(***************************************************************************)
EXTENDS Naturals, FiniteSets

CONSTANTS
    N,          \* number of services
    MaxFault,   \* bound: services that die, starters and stoppers that fail
    MaxAsk,     \* bound: calls of the gate, the update and the page
    MaxResume   \* attempts to resume the saved monitoring (3 in the source)

ASSUME NAssumption == N \in Nat \ {0, 1}
ASSUME BoundAssumption == MaxFault \in Nat /\ MaxAsk \in Nat /\ MaxResume \in Nat \ {0}

VARIABLES
    thread,     \* thread of each service
    by,         \* who started it: an outside caller, or else the supervisor
    halted,     \* services the user has stopped by the page (history)
    lock,       \* holder of _lifecycle_lock
    event,      \* _stop.is_set()
    started,    \* _started
    active,     \* _active
    held,       \* services whose _next_recovery is in the watchdog's future
    health,     \* _health["state"]
    pc,         \* where each caller is
    todo,       \* services its start or stop has still to reach
    failed,     \* the stop or rollback of the caller has left a service behind
    licensed,   \* _licensed_runtime_started of the gate
    watch,      \* the watchdog thread
    seen,       \* services of its round it has not looked at
    target,     \* service it restarts
    resume,     \* the resume thread
    tries,      \* its attempts, none when it has ended
    page,       \* a call of the user's page that is on its way
    overlooked, \* a start has replaced the event of a stop that was underway
    faults, asks

callers == <<pc, todo, failed, licensed, overlooked>>
watchdog == <<watch, seen, target, held>>
resuming == <<resume, tries>>
vars == <<thread, by, halted, lock, event, started, active, health, page, faults, asks,
          callers, watchdog, resuming>>

Service == 1..N
Catalog == N - 1
Collection == N
Caller == {"gate", "update"}
NoService == 0
States == {"stopped", "starting", "running", "degraded", "start_failed",
           "rollback_incomplete", "stop_incomplete"}
Steps == {"idle", "enter", "spawn", "confirm", "rollback",
          "leave", "stopping", "join"}

Alive(s) == thread[s] # "off"

(* _handles[s].is_alive(): the handle of the catalog is the thread which   *)
(* the supervisor has started, also when others have replaced that thread; *)
(* the collection is asked for its thread.                                 *)
SeenAlive(s) == Alive(s) /\ (s = Catalog => by[s] = "supervisor")

OwnThreads == {watch, resume} \ {"none"}
Fault == faults < MaxFault /\ faults' = faults + 1

-----------------------------------------------------------------------------
(* The contract of a service module: its starter returns the thread that   *)
(* lives or makes one; its stopper tells the thread to end and waits.      *)

Spawned(s) ==
    /\ thread' = [thread EXCEPT ![s] = IF Alive(s) THEN @ ELSE "run"]
    /\ by' = [by EXCEPT ![s] = "supervisor"]
    /\ halted' = halted \ {s}

(* start() of the controller: two starters that do not wait, one step; the *)
(* one of the catalog comes first and may be all that is reached.          *)
SpawnedOutside(S) ==
    /\ thread' = [s \in Service |-> IF s \in S /\ ~Alive(s) THEN "run" ELSE thread[s]]
    /\ by' = [s \in Service |-> IF s \in S /\ ~Alive(s) THEN "outside" ELSE by[s]]
    /\ halted' = halted \ S

Ended(s) ==
    /\ thread' = [thread EXCEPT ![s] = "off"]
    /\ by' = [by EXCEPT ![s] = "supervisor"]

Outlives(s) ==
    /\ Alive(s) /\ Fault
    /\ thread' = [thread EXCEPT ![s] = "ending"] /\ UNCHANGED by

Dies(s) ==
    /\ \/ thread[s] = "run" /\ Fault
       \/ thread[s] = "ending" /\ UNCHANGED faults
    /\ Ended(s)
    /\ UNCHANGED <<halted, lock, event, started, active, health, page, asks,
                   callers, watchdog, resuming>>

-----------------------------------------------------------------------------
(* start(), called by the gate under its own lock                          *)

Enter ==
    /\ pc["gate"] = "idle" /\ ~licensed
    /\ asks < MaxAsk /\ asks' = asks + 1
    /\ pc' = [pc EXCEPT !["gate"] = "enter"]
    /\ UNCHANGED <<thread, by, halted, lock, event, started, active, health, page, faults,
                   todo, failed, licensed, overlooked, watchdog, resuming>>

(* The gate, which calls start only when it knows of no runtime, never     *)
(* finds one that has started: the early return is not taken.              *)

(* thread.join(timeout=3.0): a thread that waits for an event which is set *)
(* ends at once; one inside a call, or waiting for another event, may not. *)
MayOutlast == \E t \in {watch, resume} : t # "none" /\ (t # "wait" \/ ~event)

(* The last runtime has left services or threads behind. *)
Refused ==
    /\ pc["gate"] = "enter" /\ lock = "free" /\ ~started
    /\ active # {} \/ MayOutlast
    /\ pc' = [pc EXCEPT !["gate"] = "idle"]
    /\ UNCHANGED <<thread, by, halted, lock, event, started, active, health, page, faults, asks,
                   todo, failed, licensed, overlooked, watchdog, resuming>>

Underway(c) == pc[c] \in {"leave", "stopping", "join"}

Begin ==
    /\ pc["gate"] = "enter" /\ lock = "free" /\ ~started
    /\ active = {} /\ OwnThreads = {}
    /\ lock' = "gate"
    /\ event' = FALSE
    /\ held' = {}
    /\ health' = "starting"
    /\ pc' = [pc EXCEPT !["gate"] = "spawn"]
    /\ todo' = [todo EXCEPT !["gate"] = Service]
    /\ failed' = [failed EXCEPT !["gate"] = FALSE]
    /\ overlooked' = (overlooked \/ Underway("update"))
    /\ UNCHANGED <<thread, by, halted, started, active, page, faults, asks, licensed,
                   watch, seen, target, resuming>>

First(S) == {s \in S : \A t \in S : s <= t}
Last(S) == {s \in S : \A t \in S : t <= s}

(* The failing starter is in _active too: it may have left a thread. *)
Rollback ==
    /\ event' = TRUE
    /\ pc' = [pc EXCEPT !["gate"] = "rollback"]

SpawnNext ==
    /\ pc["gate"] = "spawn" /\ ~event
    /\ \E s \in First(todo["gate"]) :
        /\ active' = active \cup {s}
        /\ \/ /\ Spawned(s)
              /\ todo' = [todo EXCEPT !["gate"] = @ \ {s}]
              /\ UNCHANGED <<event, pc, faults>>
           \/ /\ Fault
              /\ Spawned(s) \/ UNCHANGED <<thread, by, halted>>
              /\ Rollback
              /\ todo' = [todo EXCEPT !["gate"] = active']
    /\ UNCHANGED <<lock, started, health, page, asks, failed, licensed, overlooked,
                   watchdog, resuming>>

Cancelled ==
    /\ pc["gate"] \in {"spawn", "confirm"} /\ event
    /\ Rollback
    /\ todo' = [todo EXCEPT !["gate"] = active]
    /\ UNCHANGED <<thread, by, halted, lock, started, active, health, page, faults, asks,
                   failed, licensed, overlooked, watchdog, resuming>>

SpawnOwn ==
    /\ pc["gate"] = "spawn" /\ todo["gate"] = {} /\ ~event
    /\ watch' = "wait" /\ resume' = "wait" /\ tries' = 0
    /\ pc' = [pc EXCEPT !["gate"] = "confirm"]
    /\ UNCHANGED <<thread, by, halted, lock, event, started, active, health, page, faults, asks,
                   todo, failed, licensed, overlooked, seen, target, held>>

Confirm ==
    /\ pc["gate"] = "confirm" /\ ~event
    /\ started' = TRUE
    /\ health' = "running"
    /\ lock' = "free"
    /\ pc' = [pc EXCEPT !["gate"] = "idle"]
    /\ licensed' = TRUE
    /\ UNCHANGED <<thread, by, halted, event, active, page, faults, asks,
                   todo, failed, overlooked, watchdog, resuming>>

(* _join_own_threads at the end of a rollback or a stop: the caller goes   *)
(* on when the threads are gone, or when they outlast the wait.            *)
Joined == OwnThreads = {} \/ MayOutlast
Incomplete(c) == failed[c] \/ OwnThreads # {}

RolledBack ==
    /\ pc["gate"] = "rollback" /\ todo["gate"] = {}
    /\ Joined
    /\ started' = FALSE
    /\ failed' = [failed EXCEPT !["gate"] = FALSE]
    /\ health' = IF Incomplete("gate") THEN "rollback_incomplete" ELSE "start_failed"
    /\ lock' = "free"
    /\ pc' = [pc EXCEPT !["gate"] = "idle"]
    /\ UNCHANGED <<thread, by, halted, event, active, page, faults, asks,
                   todo, licensed, overlooked, watchdog, resuming>>

-----------------------------------------------------------------------------
(* stop(), called by the gate and by the update                            *)

(* The event is set before the lifecycle lock is asked for. *)
Leave(c) ==
    /\ pc[c] = "idle" /\ (c = "gate" => licensed)
    /\ asks < MaxAsk /\ asks' = asks + 1
    /\ event' = TRUE
    /\ pc' = [pc EXCEPT ![c] = "leave"]
    /\ UNCHANGED <<thread, by, halted, lock, started, active, health, page, faults,
                   todo, failed, licensed, overlooked, watchdog, resuming>>

Lock(c) ==
    /\ pc[c] = "leave" /\ lock = "free"
    /\ lock' = c
    /\ pc' = [pc EXCEPT ![c] = "stopping"]
    /\ todo' = [todo EXCEPT ![c] = active]
    /\ failed' = [failed EXCEPT ![c] = FALSE]
    /\ UNCHANGED <<thread, by, halted, event, started, active, health, page, faults, asks,
                   licensed, overlooked, watchdog, resuming>>

(* _stop_children: in reverse order; a service whose thread is seen to     *)
(* live after its stopper has returned, or whose stopper raises, stays in  *)
(* _active.                                                                *)
StopChild(c) ==
    /\ pc[c] \in {"stopping", "rollback"}
    /\ \E s \in Last(todo[c]) :
        /\ todo' = [todo EXCEPT ![c] = @ \ {s}]
        /\ \/ /\ Ended(s)
              /\ active' = active \ {s}
              /\ UNCHANGED <<failed, faults>>
           \/ /\ Outlives(s) /\ SeenAlive(s)
              /\ failed' = [failed EXCEPT ![c] = TRUE]
              /\ UNCHANGED active
           \/ /\ Outlives(s) /\ ~SeenAlive(s)
              /\ active' = active \ {s}
              /\ UNCHANGED failed
    /\ UNCHANGED <<halted, lock, event, started, health, page, asks, pc, licensed, overlooked,
                   watchdog, resuming>>

(* The lock is given back before the threads are joined: the watchdog may  *)
(* be waiting for it.                                                      *)
Release(c) ==
    /\ pc[c] = "stopping" /\ todo[c] = {}
    /\ lock' = "free"
    /\ pc' = [pc EXCEPT ![c] = "join"]
    /\ UNCHANGED <<thread, by, halted, event, started, active, health, page, faults, asks,
                   todo, failed, licensed, overlooked, watchdog, resuming>>

StoppedPatiently(c) ==    \* join() without a timeout
    /\ pc[c] = "join" /\ OwnThreads = {}
    /\ started' = FALSE
    /\ failed' = [failed EXCEPT ![c] = FALSE]
    /\ health' = IF Incomplete(c) THEN "stop_incomplete" ELSE "stopped"
    /\ pc' = [pc EXCEPT ![c] = "idle"]
    /\ licensed' = IF c = "gate" THEN FALSE ELSE licensed
    /\ UNCHANGED <<thread, by, halted, lock, event, active, page, faults, asks,
                   todo, overlooked, watchdog, resuming>>

Stopped(c) ==
    /\ pc[c] = "join"
    /\ Joined
    /\ started' = FALSE
    /\ failed' = [failed EXCEPT ![c] = FALSE]
    /\ health' = IF Incomplete(c) THEN "stop_incomplete" ELSE "stopped"
    /\ pc' = [pc EXCEPT ![c] = "idle"]
    /\ licensed' = IF c = "gate" THEN FALSE ELSE licensed
    /\ UNCHANGED <<thread, by, halted, lock, event, active, page, faults, asks,
                   todo, overlooked, watchdog, resuming>>

-----------------------------------------------------------------------------
(* The watchdog                                                            *)

WatchTick ==
    /\ watch = "wait" /\ ~event
    /\ watch' = "look" /\ seen' = active
    /\ UNCHANGED <<thread, by, halted, lock, event, started, active, health, page, faults, asks,
                   callers, target, held, resuming>>

WatchEnds ==
    /\ watch = "wait" /\ event
    /\ watch' = "none" /\ held' = {}
    /\ UNCHANGED <<thread, by, halted, lock, event, started, active, health, page, faults, asks,
                   callers, seen, target, resuming>>

WatchRoundOver ==
    /\ watch = "look" /\ (seen = {} \/ event)
    /\ watch' = "wait" /\ seen' = {}
    /\ UNCHANGED <<thread, by, halted, lock, event, started, active, health, page, faults, asks,
                   callers, target, held, resuming>>

WatchLook ==
    /\ watch = "look" /\ ~event
    /\ \E s \in First(seen) :
        /\ seen' = seen \ {s}
        /\ IF SeenAlive(s) \/ s \in held
           THEN UNCHANGED <<watch, target, held>>
           ELSE /\ watch' = "lock" /\ target' = s
                /\ held' = IF s = Collection THEN held ELSE held \cup {s}
        /\ health' = IF s = Collection /\ Alive(s) /\ started THEN "running" ELSE health
    /\ UNCHANGED <<thread, by, halted, lock, event, started, active, page, faults, asks,
                   callers, resuming>>

(* The second look at the event, under the lifecycle lock. *)
MayRestartBlindly == TRUE

MayRestart == ~event

WatchGivesUp ==
    /\ watch = "lock" /\ lock = "free" /\ ~MayRestart
    /\ watch' = "wait" /\ seen' = {} /\ target' = NoService
    /\ UNCHANGED <<thread, by, halted, lock, event, started, active, health, page, faults, asks,
                   callers, held, resuming>>

(* stop() and start() of the dead service, or the recovery of the          *)
(* collection; a failing one is tried again after the pause, or at once    *)
(* when the recovery has raised.  A catalog that others have started is    *)
(* told to stop, and may outlive that.                                     *)
WatchRestartUncaught ==    \* an exception of the starter ends the watchdog
    /\ watch = "lock" /\ lock = "free" /\ MayRestart
    /\ \/ Spawned(target) /\ watch' = "report" /\ UNCHANGED <<faults, target>>
       \/ Fault /\ watch' = "none" /\ target' = NoService /\ UNCHANGED <<thread, by, halted>>
    /\ held' = held \cup {target}
    /\ UNCHANGED <<lock, event, started, active, health, page, asks,
                   callers, seen, resuming>>

WatchRestart ==
    /\ watch = "lock" /\ lock = "free" /\ MayRestart
    /\ \/ /\ Spawned(target) /\ UNCHANGED faults
          /\ held' = held \cup {target}
       \/ /\ Fault /\ UNCHANGED <<thread, by, halted>>
          /\ held' \in {held, held \cup {target}}
       \/ /\ target # Collection /\ Alive(target) /\ Fault
          /\ thread' = [thread EXCEPT ![target] = "ending"]
          /\ by' = [by EXCEPT ![target] = "supervisor"]
          /\ halted' = halted \ {target}
          /\ held' = held \cup {target}
    /\ watch' = "report"
    /\ UNCHANGED <<lock, event, started, active, health, page, asks,
                   callers, seen, target, resuming>>

(* The outcome of a recovery is written after the lock was given back. *)
WatchReport ==
    /\ watch = "report"
    /\ health' = IF target # Collection THEN health
                 ELSE IF Alive(target) THEN "running" ELSE "degraded"
    /\ watch' = "look" /\ target' = NoService
    /\ UNCHANGED <<thread, by, halted, lock, event, started, active, page, faults, asks,
                   callers, seen, held, resuming>>

(* _next_recovery has passed. *)
Ripen(s) ==
    /\ s \in held
    /\ held' = held \ {s}
    /\ UNCHANGED <<thread, by, halted, lock, event, started, active, health, page, faults, asks,
                   callers, watch, seen, target, resuming>>

-----------------------------------------------------------------------------
(* Starts of catalog and collection that pass the supervisor by            *)

ResumeCalls ==
    /\ resume = "wait"
    /\ IF event THEN resume' = "none" /\ tries' = 0
       ELSE resume' = "call" /\ tries' = tries + 1
    /\ UNCHANGED <<thread, by, halted, lock, event, started, active, health, page, faults, asks,
                   callers, watchdog>>

(* start_from_saved_session: start() of the controller when the session is *)
(* available, whatever has become of the event.                            *)
ResumeReturns ==
    /\ resume = "call"
    /\ \/ /\ SpawnedOutside({Catalog, Collection}) \/ SpawnedOutside({})
          /\ resume' = "none" /\ UNCHANGED faults
       \/ /\ Fault
          /\ SpawnedOutside({}) \/ SpawnedOutside({Catalog})
          /\ resume' = IF tries < MaxResume THEN "wait" ELSE "none"
    /\ tries' = IF resume' = "none" THEN 0 ELSE tries
    /\ UNCHANGED <<lock, event, started, active, health, page, asks,
                   callers, watchdog>>

(* The page is served while the application is entered. *)
PageAsks ==
    /\ page = "none" /\ licensed
    /\ asks < MaxAsk /\ asks' = asks + 1
    /\ page' \in {"start", "stop"}
    /\ UNCHANGED <<thread, by, halted, lock, event, started, active, health, faults,
                   callers, watchdog, resuming>>

(* start() and stop() of the controller.  The stop tells the catalog, which*)
(* may outlive the wait, before the collection, which is cancelled at once.*)
PageServed ==
    /\ \/ /\ page = "start" /\ SpawnedOutside({Catalog, Collection})
          /\ page' = "none" /\ UNCHANGED faults
       \/ /\ page = "stop"
          /\ (Ended(Catalog) /\ UNCHANGED faults) \/ Outlives(Catalog)
          /\ halted' = halted \cup {Catalog}
          /\ page' = "stopping"
       \/ /\ page = "stopping" /\ Ended(Collection) /\ UNCHANGED faults
          /\ halted' = halted \cup {Collection}
          /\ page' = "none"
    /\ UNCHANGED <<lock, event, started, active, health, asks,
                   callers, watchdog, resuming>>

-----------------------------------------------------------------------------
Init ==
    /\ thread = [s \in Service |-> "off"] /\ by = [s \in Service |-> "supervisor"]
    /\ halted = {}
    /\ lock = "free" /\ event = FALSE /\ started = FALSE /\ active = {} /\ held = {}
    /\ health = "stopped"
    /\ pc = [c \in Caller |-> "idle"] /\ todo = [c \in Caller |-> {}]
    /\ failed = [c \in Caller |-> FALSE]
    /\ licensed = FALSE /\ overlooked = FALSE
    /\ watch = "none" /\ seen = {} /\ target = NoService
    /\ resume = "none" /\ tries = 0 /\ page = "none"
    /\ faults = 0 /\ asks = 0

Starting == Refused \/ Begin \/ SpawnNext \/ Cancelled \/ SpawnOwn
            \/ Confirm \/ RolledBack
Stopping(c) == Lock(c) \/ StopChild(c) \/ Release(c) \/ Stopped(c)
Watching == WatchTick \/ WatchEnds \/ WatchRoundOver \/ WatchLook \/ WatchGivesUp
            \/ WatchRestart \/ WatchReport
Outside == ResumeCalls \/ ResumeReturns \/ PageAsks \/ PageServed

(* Nobody asks any more and everything asked for is done. *)
Quiescent ==
    /\ asks = MaxAsk /\ page = "none" /\ OwnThreads = {} /\ held = {}
    /\ \A c \in Caller : pc[c] = "idle"
    /\ \A s \in Service : thread[s] # "ending"
    /\ UNCHANGED vars

Next ==
    \/ Enter \/ Starting
    \/ \E c \in Caller : Leave(c) \/ Stopping(c)
    \/ Watching \/ Outside
    \/ \E s \in Service : Dies(s) \/ Ripen(s)
    \/ Quiescent

Spec == Init /\ [][Next]_vars

LiveSpec ==
    /\ Spec
    /\ WF_vars(Starting)
    /\ \A c \in Caller : WF_vars(Stopping(c))
    /\ WF_vars(Watching)
    /\ WF_vars(ResumeCalls \/ ResumeReturns)
    /\ WF_vars(PageServed)
    /\ \A s \in Service : WF_vars(Ripen(s)) /\ WF_vars(thread[s] = "ending" /\ Dies(s))

-----------------------------------------------------------------------------
TypeOK ==
    /\ thread \in [Service -> {"off", "run", "ending"}]
    /\ by \in [Service -> {"supervisor", "outside"}]
    /\ halted \subseteq Service
    /\ lock \in Caller \cup {"free"}
    /\ event \in BOOLEAN /\ started \in BOOLEAN /\ licensed \in BOOLEAN
    /\ overlooked \in BOOLEAN
    /\ active \subseteq Service /\ held \subseteq Service /\ seen \subseteq Service
    /\ health \in States
    /\ pc \in [Caller -> Steps]
    /\ todo \in [Caller -> SUBSET Service]
    /\ failed \in [Caller -> BOOLEAN]
    /\ watch \in {"none", "wait", "look", "lock", "report"}
    /\ target \in Service \cup {NoService}
    /\ watch \in {"lock", "report"} => target \in Service
    /\ resume \in {"none", "wait", "call"}
    /\ tries \in 0..MaxResume
    /\ resume = "wait" => tries < MaxResume
    /\ page \in {"none", "start", "stop", "stopping"}
    /\ faults \in 0..MaxFault /\ asks \in 0..MaxAsk

(* When the runtime reports that it is stopped, or that a failed start was *)
(* taken back, no service runs that the supervisor has started: neither a  *)
(* starter that failed half way nor a restart by the watchdog, which may   *)
(* have been waiting for the lock during the stop, leaves one behind.      *)
(* Excepted are a stop that was underway when a start began (only the exit *)
(* for an update is) and threads that others have started.                 *)
QuietWhenStopped ==
    (health \in {"stopped", "start_failed"} /\ ~overlooked)
        => \A s \in Service : Alive(s) => by[s] = "outside"

(* What the docstring of clear_license_cloud_sessions asks of the loss of  *)
(* a license: the background work is stopped when the runtime says so.     *)
StoppedIsQuiet == (health = "stopped" /\ ~overlooked) => \A s \in Service : ~Alive(s)

(* A service that dies, other than by the user's stop on the page, is      *)
(* started again by the watchdog, or the runtime is stopped: no dead       *)
(* service is forgotten by a failed restart, by its pause, by a watchdog   *)
(* that has ended or by a handle of a thread that others have replaced     *)
(* (_watchdog_once, _check_collection_progress).                           *)
DeadIsRevived ==
    \A s \in Service :
        (started /\ ~Alive(s) /\ s \notin halted)
            ~> (Alive(s) \/ ~started \/ s \in halted)

(* "The polling loop (until the user stops it)" of SYSTEM_ARCHITECTURE.md: *)
(* the collection that the user has stopped by the page runs again only    *)
(* when the user starts it there or enters the application anew; a resume  *)
(* of the saved monitoring that was underway is excepted                   *)
(* (_check_collection_progress, request_official_api_collection_recovery). *)
CollectionReturns ==
    /\ Collection \in halted
    /\ ~Alive(Collection) /\ Alive(Collection)'
UserStopStands ==
    [][CollectionReturns => page # page' \/ resume # resume' \/ pc["gate"] = "spawn"]_vars

(* Every stop returns: it is held up neither by a restart of the watchdog  *)
(* nor by a thread that it cannot tell to end.                             *)
StopReturns == \A c \in Caller : (pc[c] = "leave") ~> (pc[c] = "idle")
=============================================================================
