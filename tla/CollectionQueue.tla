-------------------------- MODULE CollectionQueue --------------------------
(***************************************************************************)
(* The official API collector for one monitored plan                       *)
(* (services/official_api_collection.py, services/collection_lifecycle.py). *)
(*                                                                         *)
(* A scheduler loop claims the durable job of the plan, hands it to a      *)
(* worker thread, waits until that has finished or its context has become  *)
(* inactive, and books the result on the job.  No thread can be killed, so *)
(* a worker that was given up still runs: it must not commit any more.     *)
(* Four things fence it: the generation (watchdog recovery and stop), the  *)
(* context (deadline, cancellation), the authorization, and the fencing    *)
(* token of the job.  All are looked at twice, at the start of the         *)
(* transaction and under the locks that surround its commit.               *)
(*                                                                         *)
(* Threads: one loop for each generation, one worker for each fencing      *)
(* token, a requester (the user saved a plan), a keeper (watchdog and      *)
(* supervisor, which share a lock), and the callback of an authorization.  *)
(***************************************************************************)
EXTENDS Integers, FiniteSets

CONSTANTS MaxFault,   \* faults of every kind, together
          MaxWorld,   \* versions of the data on the platform
          MaxAsk,     \* requests of the user
          MaxFence    \* fencing tokens

ASSUME BoundsAssumption ==
    /\ MaxFault \in Nat /\ MaxAsk \in Nat
    /\ MaxWorld \in Nat \ {0} /\ MaxFence \in Nat \ {0}

VARIABLES generation,  \* _GENERATION of the lifecycle
          stop,        \* _STOP
          thread,      \* _THREAD: the generation whose loop it runs, or NoLoop
          loop,        \* the scheduler loop of each generation
          job,         \* the row of collection_job
          work,        \* worker and context of each claim
          active,      \* _ACTIVE_TARGET_CONTEXTS: a fencing token, or 0
          pending,     \* _PENDING_TARGET_UIDS
          writer,      \* who holds the database between gate and commit, or 0
          auth,        \* generation of the saved authorization
          world,       \* version of the data on the platform
          data,        \* version in the committed snapshot
          asker,       \* request_official_api_collection
          want,        \* history: version on the platform at the last request
          keeper,      \* recovery or stop
          owner,       \* handle_authorization_change
          asks, faults \* how much of the bounds is used

vars == <<generation, stop, thread, loop, job, work, active, pending, writer,
          auth, world, data, asker, want, keeper, owner, asks, faults>>

Generation == 0 .. MaxFault
Fence == 1 .. MaxFence
NoLoop == -1

(***************************************************************************)
(* Types.                                                                  *)
(***************************************************************************)
Seen == [leased : BOOLEAN, high : BOOLEAN]
Nothing == [leased |-> FALSE, high |-> FALSE]

Loop == [at : {"gone", "top", "look", "put", "claim", "cycle", "wait", "book"},
         seen : Seen, high : BOOLEAN, fence : 0 .. MaxFence,
         result : {"none", "good", "bad"}]
Gone == [at |-> "gone", seen |-> Nothing, high |-> FALSE, fence |-> 0,
         result |-> "none"]
Top == [Gone EXCEPT !.at = "top"]

Job == [st : {"queued", "leased"}, due : BOOLEAN, high : BOOLEAN,
        fence : 0 .. MaxFence, lapsed : BOOLEAN]

Work == [at : {"none", "begin", "active", "read", "gate", "kept", "over"},
         gen : Generation, auth : Generation, dead : BOOLEAN,
         saw : 0 .. MaxWorld, good : BOOLEAN]
NoWork == [at |-> "none", gen |-> 0, auth |-> 0, dead |-> FALSE, saw |-> 0,
           good |-> FALSE]
Done == [NoWork EXCEPT !.at = "over"]

\* Every variable holds a value of its type.
TypeOK ==
    /\ generation \in Generation /\ auth \in Generation
    /\ stop \in BOOLEAN /\ pending \in BOOLEAN
    /\ thread \in Generation \cup {NoLoop}
    /\ loop \in [Generation -> Loop]
    /\ job \in Job
    /\ work \in [Fence -> Work]
    /\ active \in 0 .. MaxFence /\ writer \in 0 .. MaxFence
    /\ world \in 0 .. MaxWorld /\ data \in 0 .. MaxWorld
    /\ asker \in [at : {"idle", "look", "put", "start"}, seen : Seen]
    /\ want \in 0 .. MaxWorld
    /\ keeper \in [at : {"idle", "revoke", "release", "start"},
                   halts : BOOLEAN, cut : SUBSET Fence]
    /\ owner \in [at : {"idle", "cancel", "release", "requeue"},
                  cut : SUBSET Fence]
    /\ asks \in 0 .. MaxAsk /\ faults \in 0 .. MaxFault

Idle == [at |-> "idle", halts |-> FALSE, cut |-> {}]

Init ==
    /\ generation = 0 /\ stop = FALSE /\ thread = 0
    /\ loop = [g \in Generation |-> IF g = 0 THEN Top ELSE Gone]
    /\ job = [st |-> "queued", due |-> TRUE, high |-> FALSE, fence |-> 0,
              lapsed |-> FALSE]
    /\ work = [f \in Fence |-> NoWork]
    /\ active = 0 /\ pending = FALSE /\ writer = 0 /\ auth = 0
    /\ world = 0 /\ data = 0
    /\ asker = [at |-> "idle", seen |-> Nothing]
    /\ want = 0
    /\ keeper = Idle
    /\ owner = [at |-> "idle", cut |-> {}]
    /\ asks = 0 /\ faults = 0

Fault == faults < MaxFault /\ faults' = faults + 1

(***************************************************************************)
(* Contexts and ownership.                                                 *)
(***************************************************************************)
\* CollectionContext.check_active: cancelled or past its deadline, or its
\* generation is not current, or collection is stopped.
Inactive(f) == work[f].dead \/ work[f].gen # generation \/ stop

\* check_commit_ownership, the part that reads the job.
HoldsLease(f) == job.st = "leased" /\ job.fence = f /\ ~job.lapsed

\* A plausible slip: a commit only asks whether collection was stopped.
MayCommitUnowned(f) == ~stop

MayCommit(f) == ~Inactive(f) /\ HoldsLease(f)

\* Contexts registered with the lifecycle: those a coordinator still waits for.
Registered == {f \in Fence : \E l \in Generation : loop[l].at = "wait" /\ loop[l].fence = f}
Contexts(g) == {f \in Registered : work[f].gen = g}

Cancelled(cut) ==
    [f \in Fence |-> IF f \in cut /\ work[f].at # "over"
                     THEN [work[f] EXCEPT !.dead = TRUE] ELSE work[f]]

(***************************************************************************)
(* The row of the job.                                                     *)
(***************************************************************************)
\* A plausible slip: the later of both times is taken instead of the earlier.
EnqueuedNoSooner(seen, high) ==
    [job EXCEPT !.high = seen.high \/ high, !.st = IF seen.leased THEN @ ELSE "queued"]

\* _enqueue_collection_jobs: the row was read before, seen tells what it was.
Enqueued(seen, high) ==
    [job EXCEPT !.due = TRUE, !.high = seen.high \/ high,
                !.st = IF seen.leased THEN @ ELSE "queued",
                !.lapsed = @ /\ seen.leased]

SeenNow == [leased |-> job.st = "leased", high |-> job.high]

\* _release_cancelled_collection_leases
Released(cut) ==
    IF job.st = "leased" /\ job.fence \in cut
    THEN [job EXCEPT !.st = "queued", !.due = TRUE, !.lapsed = FALSE,
                     !.fence = @ + 1]
    ELSE job

\* A plausible slip: lapsed leases are left to their owners.
NeverSwept == job

\* The sweep of lapsed leases that opens the transaction of a claim.
Swept == IF job.st = "leased" /\ job.lapsed
         THEN [job EXCEPT !.st = "queued", !.lapsed = FALSE] ELSE job

Claimable(j) == j.st = "queued" /\ j.due
Leased(j) == [j EXCEPT !.st = "leased", !.fence = @ + 1]

\* _finish_collection_job: a request that came meanwhile keeps the job due.
Finished(l) ==
    LET urgent == job.high /\ ~loop[l].high IN
    IF job.st = "leased" /\ job.fence = loop[l].fence
    THEN [job EXCEPT !.st = "queued", !.lapsed = FALSE,
                     !.high = urgent, !.due = urgent]
    ELSE job

(***************************************************************************)
(* start_official_api_collection_background_thread: a loop that runs stays. *)
(***************************************************************************)
StartLoop ==
    IF thread # NoLoop /\ loop[thread].at # "gone"
    THEN UNCHANGED <<stop, thread, loop>>
    ELSE /\ stop' = FALSE
         /\ thread' = generation
         /\ loop' = [loop EXCEPT ![generation] = Top]

(***************************************************************************)
(* The scheduler loop l: _loop and run_collection_cycle.                   *)
(***************************************************************************)
LoopAt(l, at) == loop[l].at = at
Becomes(l, new) == loop' = [loop EXCEPT ![l] = new]

Cycle(l) ==
    /\ LoopAt(l, "top")
    /\ Becomes(l, IF stop \/ l # generation THEN Gone ELSE [Top EXCEPT !.at = "look"])
    /\ UNCHANGED <<generation, stop, thread, job, work, active, pending, writer, auth,
                   world, data, asker, want, keeper, owner, asks, faults>>

\* Requests that wait in memory are enqueued with high priority.
TakePending(l) ==
    /\ LoopAt(l, "look") /\ pending
    /\ pending' = FALSE
    /\ Becomes(l, [loop[l] EXCEPT !.at = "put", !.seen = SeenNow, !.high = TRUE])
    /\ UNCHANGED <<generation, stop, thread, job, work, active, writer, auth, world,
                   data, asker, want, keeper, owner, asks, faults>>

\* Otherwise a plan that is due by its own schedule may be enqueued.
LookDue(l) ==
    /\ LoopAt(l, "look") /\ ~pending
    /\ \/ Becomes(l, [loop[l] EXCEPT !.at = "claim"])
       \/ /\ data # world
          /\ Becomes(l, [loop[l] EXCEPT !.at = "put", !.seen = SeenNow])
    /\ UNCHANGED <<generation, stop, thread, job, work, active, pending, writer, auth,
                   world, data, asker, want, keeper, owner, asks, faults>>

PutDue(l) ==
    /\ LoopAt(l, "put") /\ writer = 0
    /\ job' = Enqueued(loop[l].seen, loop[l].high)
    /\ Becomes(l, [Top EXCEPT !.at = "claim"])
    /\ UNCHANGED <<generation, stop, thread, work, active, pending, writer, auth,
                   world, data, asker, want, keeper, owner, asks, faults>>

\* _claim_collection_jobs: one transaction; it does not ask for the generation.
Claim(l) ==
    /\ LoopAt(l, "claim") /\ writer = 0
    /\ LET swept == Swept IN
       IF Claimable(swept)
       THEN /\ swept.fence < MaxFence
            /\ job' = Leased(swept)
            /\ Becomes(l, [Top EXCEPT !.at = "cycle", !.high = swept.high,
                                      !.fence = swept.fence + 1])
       ELSE /\ job' = swept
            /\ Becomes(l, Top)
    /\ UNCHANGED <<generation, stop, thread, work, active, pending, writer, auth,
                   world, data, asker, want, keeper, owner, asks, faults>>

\* A context of the loop's generation is registered and its worker started;
\* a context that is inactive from the start makes an interrupted result.
Submit(l) ==
    /\ LoopAt(l, "cycle")
    /\ IF stop \/ l # generation
       THEN /\ Becomes(l, [loop[l] EXCEPT !.at = "book", !.result = "bad"])
            /\ UNCHANGED work
       ELSE /\ Becomes(l, [loop[l] EXCEPT !.at = "wait"])
            /\ work' = [work EXCEPT ![loop[l].fence] =
                          [NoWork EXCEPT !.at = "begin", !.gen = l, !.auth = auth]]
    /\ UNCHANGED <<generation, stop, thread, job, active, pending, writer, auth, world,
                   data, asker, want, keeper, owner, asks, faults>>

\* The worker has finished, or its context has become inactive.  Committed
\* material counts as success if its generation is current; the mark for it is
\* set just after the commit, so that the coordinator may still miss it.
Collected(l) ==
    /\ LoopAt(l, "wait")
    /\ LET f == loop[l].fence
           kept == work[f].good \/ work[f].at = "kept"
       IN /\ Inactive(f) \/ work[f].at = "over"
          /\ \/ /\ kept /\ work[f].gen = generation
                /\ Becomes(l, [loop[l] EXCEPT !.at = "book", !.result = "good"])
             \/ /\ ~work[f].good \/ work[f].gen # generation
                /\ Becomes(l, [loop[l] EXCEPT !.at = "book", !.result = "bad"])
          /\ work' = IF work[f].at = "over"
                     THEN [work EXCEPT ![f] = Done] ELSE Cancelled({f})
    /\ UNCHANGED <<generation, stop, thread, job, active, pending, writer, auth, world,
                   data, asker, want, keeper, owner, asks, faults>>

Book(l) ==
    /\ LoopAt(l, "book") /\ writer = 0
    /\ job' = Finished(l)
    /\ Becomes(l, Top)
    /\ UNCHANGED <<generation, stop, thread, work, active, pending, writer, auth,
                   world, data, asker, want, keeper, owner, asks, faults>>

\* An exception in the round: it is logged, the lease stays where it is.
RoundFails(l) ==
    /\ loop[l].at \in {"cycle", "wait", "book"}
    /\ Fault
    /\ work' = Cancelled(IF LoopAt(l, "wait") THEN {loop[l].fence} ELSE {})
    /\ Becomes(l, Top)
    /\ UNCHANGED <<generation, stop, thread, job, active, pending, writer, auth, world,
                   data, asker, want, keeper, owner, asks>>

(***************************************************************************)
(* The worker of claim f: _collect_target_safely, collect_target and       *)
(* owned_transaction.                                                      *)
(***************************************************************************)
WorkAt(f, at) == work[f].at = at
Ends(f, good) == work' = [work EXCEPT ![f] =
                            [NoWork EXCEPT !.at = "over", !.gen = work[f].gen,
                                           !.good = good]]
LeavesActive(f) == active' = IF active = f THEN 0 ELSE active

\* A worker whose context is inactive takes over the mark of the plan.
Enter(f) ==
    /\ WorkAt(f, "begin")
    /\ IF Inactive(f) \/ (active # 0 /\ ~Inactive(active))
       THEN Ends(f, FALSE) /\ UNCHANGED active
       ELSE work' = [work EXCEPT ![f].at = "active"] /\ active' = f
    /\ UNCHANGED <<generation, stop, thread, loop, job, pending, writer, auth, world,
                   data, asker, want, keeper, owner, asks, faults>>

Read(f) ==
    /\ WorkAt(f, "active")
    /\ work' = [work EXCEPT ![f].at = "read", ![f].saw = world]
    /\ UNCHANGED <<generation, stop, thread, loop, job, active, pending, writer, auth,
                   world, data, asker, want, keeper, owner, asks, faults>>

ReadFails(f) ==
    /\ WorkAt(f, "active")
    /\ Fault
    /\ Ends(f, FALSE) /\ LeavesActive(f)
    /\ UNCHANGED <<generation, stop, thread, loop, job, pending, writer, auth, world,
                   data, asker, want, keeper, owner, asks>>

\* The authorization is locked, the database is locked, ownership is checked.
Gate(f) ==
    /\ WorkAt(f, "read") /\ writer = 0
    /\ IF MayCommit(f) /\ work[f].auth = auth
       THEN /\ work' = [work EXCEPT ![f].at = "gate"] /\ writer' = f
            /\ UNCHANGED active
       ELSE Ends(f, FALSE) /\ LeavesActive(f) /\ UNCHANGED writer
    /\ UNCHANGED <<generation, stop, thread, loop, job, pending, auth, world, data,
                   asker, want, keeper, owner, asks, faults>>

\* Ownership is checked again under the locks of lifecycle and context.
Commit(f) ==
    /\ WorkAt(f, "gate")
    /\ writer' = 0
    /\ IF MayCommit(f)
       THEN /\ data' = work[f].saw
            /\ work' = [work EXCEPT ![f].at = "kept"]
            /\ UNCHANGED active
       ELSE Ends(f, FALSE) /\ LeavesActive(f) /\ UNCHANGED data
    /\ UNCHANGED <<generation, stop, thread, loop, job, pending, auth, world, asker,
                   want, keeper, owner, asks, faults>>

\* What follows the commit may fail without making it undone.
Complete(f) ==
    /\ WorkAt(f, "kept")
    /\ Ends(f, TRUE) /\ LeavesActive(f)
    /\ UNCHANGED <<generation, stop, thread, loop, job, pending, writer, auth, world,
                   data, asker, want, keeper, owner, asks, faults>>

\* The deadline of a context passes while its worker runs.
Deadline(f) ==
    /\ work[f].at \in {"begin", "active", "read", "gate", "kept"} /\ ~work[f].dead
    /\ Fault
    /\ work' = Cancelled({f})
    /\ UNCHANGED <<generation, stop, thread, loop, job, active, pending, writer, auth,
                   world, data, asker, want, keeper, owner, asks>>

(***************************************************************************)
(* Time and the platform.                                                  *)
(***************************************************************************)
NewData ==
    /\ world < MaxWorld /\ world' = world + 1
    /\ UNCHANGED <<generation, stop, thread, loop, job, work, active, pending, writer,
                   auth, data, asker, want, keeper, owner, asks, faults>>

\* The time of a queued job comes.  A round that would find nothing new is
\* left out.
Ripen ==
    /\ job.st = "queued" /\ ~job.due /\ data # world
    /\ job' = [job EXCEPT !.due = TRUE]
    /\ UNCHANGED <<generation, stop, thread, loop, work, active, pending, writer, auth,
                   world, data, asker, want, keeper, owner, asks, faults>>

Attended == \E l \in Generation : /\ loop[l].fence = job.fence
                                  /\ loop[l].at \in {"cycle", "wait", "book"}

Lapse ==
    /\ job.st = "leased" /\ ~job.lapsed
    /\ IF Attended THEN Fault ELSE UNCHANGED faults
    /\ job' = [job EXCEPT !.lapsed = TRUE]
    /\ UNCHANGED <<generation, stop, thread, loop, work, active, pending, writer, auth,
                   world, data, asker, want, keeper, owner, asks>>

(***************************************************************************)
(* request_official_api_collection.                                        *)
(***************************************************************************)
Stopping == keeper.at # "idle" /\ keeper.halts

Ask ==
    /\ asker.at = "idle" /\ asks < MaxAsk /\ ~Stopping
    /\ asks' = asks + 1
    /\ IF active = 0 /\ ~pending
       THEN /\ pending' = TRUE /\ want' = world
            /\ asker' = [asker EXCEPT !.at = "look"]
       ELSE /\ asker' = [asker EXCEPT !.at = "start"]
            /\ UNCHANGED <<pending, want>>
    /\ UNCHANGED <<generation, stop, thread, loop, job, work, active, writer, auth,
                   world, data, keeper, owner, faults>>

AskLook ==
    /\ asker.at = "look"
    /\ asker' = [at |-> "put", seen |-> SeenNow]
    /\ UNCHANGED <<generation, stop, thread, loop, job, work, active, pending, writer,
                   auth, world, data, want, keeper, owner, asks, faults>>

AskPut ==
    /\ asker.at = "put" /\ writer = 0
    /\ job' = Enqueued(asker.seen, TRUE)
    /\ asker' = [at |-> "start", seen |-> Nothing]
    /\ UNCHANGED <<generation, stop, thread, loop, work, active, pending, writer, auth,
                   world, data, want, keeper, owner, asks, faults>>

AskStart ==
    /\ asker.at = "start" /\ ~Stopping
    /\ StartLoop
    /\ asker' = [asker EXCEPT !.at = "idle"]
    /\ UNCHANGED <<generation, job, work, active, pending, writer, auth, world, data,
                   want, keeper, owner, asks, faults>>

(***************************************************************************)
(* The keeper: recovery by the watchdog, stop and start by the supervisor. *)
(* The three exclude each other by the supervisor's lock.                  *)
(***************************************************************************)
Intervene(halts) ==
    /\ keeper.at = "idle" /\ thread # NoLoop
    /\ Fault
    /\ keeper' = [at |-> "revoke", halts |-> halts, cut |-> Contexts(generation)]
    /\ UNCHANGED <<generation, stop, thread, loop, job, work, active, pending, writer,
                   auth, world, data, asker, want, owner, asks>>

\* Contexts that were registered since are cancelled too, their leases remain.
Revoke ==
    /\ keeper.at = "revoke"
    /\ generation' = generation + 1
    /\ stop' = (stop \/ keeper.halts)
    /\ work' = Cancelled(Registered)
    /\ thread' = IF keeper.halts THEN thread ELSE NoLoop
    /\ keeper' = [keeper EXCEPT !.at = "release"]
    /\ UNCHANGED <<loop, job, active, pending, writer, auth, world, data, asker, want,
                   owner, asks, faults>>

KeeperReleases ==
    /\ keeper.at = "release" /\ writer = 0 /\ job.fence < MaxFence
    /\ job' = Released(keeper.cut)
    /\ IF keeper.halts
       THEN keeper' = Idle /\ thread' = NoLoop
       ELSE keeper' = [keeper EXCEPT !.at = "start"] /\ UNCHANGED thread
    /\ UNCHANGED <<generation, stop, loop, work, active, pending, writer, auth, world,
                   data, asker, want, owner, asks, faults>>

KeeperStarts ==
    /\ \/ keeper.at = "start"
       \/ keeper.at = "idle" /\ thread = NoLoop
    /\ StartLoop
    /\ keeper' = Idle
    /\ UNCHANGED <<generation, job, work, active, pending, writer, auth, world, data,
                   asker, want, owner, asks, faults>>

(***************************************************************************)
(* A new authorization is saved, then handle_change is called.             *)
(***************************************************************************)
\* A plausible slip: the authorization is saved without waiting for a commit.
AuthorizeAtOnce ==
    /\ owner.at = "idle"
    /\ Fault
    /\ auth' = auth + 1
    /\ owner' = [at |-> "cancel", cut |-> {}]
    /\ UNCHANGED <<generation, stop, thread, loop, job, work, active, pending, writer,
                   world, data, asker, want, keeper, asks>>

\* The saved bundle is replaced under the lock that a commit holds.
Authorize ==
    /\ owner.at = "idle" /\ writer = 0
    /\ Fault
    /\ auth' = auth + 1
    /\ owner' = [at |-> "cancel", cut |-> {}]
    /\ UNCHANGED <<generation, stop, thread, loop, job, work, active, pending, writer,
                   world, data, asker, want, keeper, asks>>

OwnerCancels ==
    /\ owner.at = "cancel"
    /\ LET old == {f \in Contexts(generation) : work[f].auth = auth - 1} IN
       /\ work' = Cancelled(old)
       /\ owner' = [at |-> "release", cut |-> old]
    /\ UNCHANGED <<generation, stop, thread, loop, job, active, pending, writer, auth,
                   world, data, asker, want, keeper, asks, faults>>

OwnerReleases ==
    /\ owner.at = "release" /\ writer = 0 /\ job.fence < MaxFence
    /\ job' = Released(owner.cut)
    /\ owner' = [at |-> "requeue", cut |-> {}]
    /\ UNCHANGED <<generation, stop, thread, loop, work, active, pending, writer, auth,
                   world, data, asker, want, keeper, asks, faults>>

\* Every lease is taken back, also one that was claimed since.
OwnerRequeues ==
    /\ owner.at = "requeue" /\ writer = 0 /\ job.fence < MaxFence
    /\ job' = [Released({job.fence}) EXCEPT !.due = TRUE]
    /\ owner' = [at |-> "idle", cut |-> {}]
    /\ UNCHANGED <<generation, stop, thread, loop, work, active, pending, writer, auth,
                   world, data, asker, want, keeper, asks, faults>>

(***************************************************************************)
(* The process dies and is started again: only the database remains.       *)
(***************************************************************************)
Crash ==
    /\ Fault
    /\ generation' = generation + 1 /\ stop' = FALSE /\ thread' = generation + 1
    /\ loop' = [g \in Generation |-> IF g = generation + 1 THEN Top ELSE Gone]
    /\ work' = [f \in Fence |-> IF work[f].at = "none" THEN work[f]
                                ELSE [NoWork EXCEPT !.at = "over", !.dead = TRUE]]
    /\ active' = 0 /\ pending' = FALSE /\ writer' = 0
    /\ asker' = [at |-> "idle", seen |-> Nothing]
    /\ keeper' = Idle
    /\ owner' = [at |-> "idle", cut |-> {}]
    /\ UNCHANGED <<job, auth, world, data, want, asks>>

LoopStep(l) == \/ Cycle(l) \/ TakePending(l) \/ LookDue(l) \/ PutDue(l)
               \/ Claim(l) \/ Submit(l) \/ Collected(l) \/ Book(l)
WorkStep(f) == Enter(f) \/ Read(f) \/ Gate(f) \/ Commit(f) \/ Complete(f)
AskStep == AskLook \/ AskPut \/ AskStart
OwnerStep == OwnerCancels \/ OwnerReleases \/ OwnerRequeues

Next ==
    \/ \E l \in Generation : LoopStep(l) \/ RoundFails(l)
    \/ \E f \in Fence : WorkStep(f) \/ ReadFails(f) \/ Deadline(f)
    \/ NewData \/ Ripen \/ Lapse
    \/ Ask \/ AskStep
    \/ Intervene(TRUE) \/ Intervene(FALSE) \/ Revoke \/ KeeperReleases \/ KeeperStarts
    \/ Authorize \/ OwnerStep
    \/ Crash

Spec == Init /\ [][Next]_vars

\* Threads carry on, a recovery is brought to its end, time passes.
LiveSpec ==
    /\ Spec
    /\ \A l \in Generation : WF_vars(LoopStep(l))
    /\ \A f \in Fence : WF_vars(WorkStep(f))
    /\ WF_vars(AskStep) /\ WF_vars(OwnerStep)
    /\ WF_vars(Revoke \/ KeeperReleases)
    /\ WF_vars(keeper.at = "start" /\ KeeperStarts)
    /\ WF_vars(Ripen) /\ WF_vars(~Attended /\ Lapse)

(***************************************************************************)
(* Properties.                                                             *)
(***************************************************************************)
\* A snapshot is only replaced by one that was read later: a worker that was
\* given up, whose lease lapsed or was taken back, never commits over the
\* worker that took its place.
NeverBackwards == [][data' >= data]_vars

\* What is committed was collected under the authorization that is saved at
\* that moment, although it is only compared before the transaction: the user
\* may authorize again while a worker reads, and between gate and commit.
CommitsAsAuthorized ==
    [][\A f \in Fence : WorkAt(f, "gate") /\ work'[f].at = "kept" =>
          work[f].auth = auth']_vars

\* A request that was accepted leads to a round without waiting for the
\* schedule, as long as nothing failed: it waits in memory, is being enqueued,
\* made the job due, or a round that has not read yet will cover it.
RequestIsNotSwallowed ==
    faults = 0 /\ want > data =>
        \/ pending \/ asker.at # "idle" \/ job.due \/ job.st = "leased"
        \/ \E l \in Generation : LoopAt(l, "put")

\* Unless collection is stopped, the snapshot catches up with the platform
\* again and again, after every failure the bounds allow.
CatchesUp == []<>(data = world \/ stop)

\* "must never revoke the live lease" (_enqueue_collection_jobs).
LeaseSurvivesRequest ==
    [][asker.at = "put" /\ asker'.at = "start" /\ job.st = "leased"
          => job'.st = "leased"]_vars

=============================================================================
