---------------------------- MODULE CardDelivery ----------------------------
(***************************************************************************)
(* The delivery of one card to one recipient (local_feishu_bridge.py): the *)
(* frozen first POST under its UUID, its receipt, and the PATCHes that     *)
(* bring the message up to date, all through the table feishu_outbox.      *)
(*                                                                         *)
(* A card's content is the business version it was built from.  A drainer  *)
(* is a thread in _deliver_outbox_once, an updater one of the executor in  *)
(* update_task_cards.  An HTTP request that timed out has reached Feishu   *)
(* before the client carries on, or never does.                            *)
(***************************************************************************)
EXTENDS Naturals, FiniteSets

CONSTANTS Drainer, Updater, NoThread,
          Last,         \* the business version of the ended task
          MaxAttempts,  \* _MAX_DELIVERY_ATTEMPTS
          MaxFault      \* leases that lapse under a living thread, and crashes

Thread == Drainer \cup Updater

ASSUME DeliveryAssumption ==
    /\ Last \in Nat \ {0} /\ MaxAttempts \in Nat \ {0}
    /\ MaxFault \in Nat
    /\ Drainer \cap Updater = {} /\ NoThread \notin Thread

Version == 0 .. Last

\* The rows of feishu_outbox: the first delivery, the receipt of each patched
\* content, and the update that was queued for each version.
Send       == [kind |-> "send", of |-> 0]
Receipt(v) == [kind |-> "receipt", of |-> v]
Retry(v)   == [kind |-> "retry", of |-> v]
RowId      == [kind : {"send"}, of : {0}] \cup [kind : {"receipt", "retry"}, of : Version]
Update     == RowId \ {Send}
NoRow      == [kind |-> "none", of |-> 0]

RowStatus == {"none", "queued", "sending", "sent", "superseded", "unknown", "failed"}

VARIABLES
    outbox,   \* RowId -> [status, attempts, token, lapsed]
    task,     \* [version, listed, hash]: local_retarget_task
    work,     \* Thread -> [at, row, token, tries, content, patches]: the claimed row, its
              \* claim, the content that is being patched and the attempt_count of its receipt
    jobs,     \* update_task_cards submitted to the executor and not begun
    lane,     \* the holder of the message's lock of _CARD_UPDATE_LOCKS
    wire,     \* the holder of the audience lock: its request is under way
    chat,     \* [messages, shown]: what the recipient sees
    revoked,  \* the recipient's authorization was withdrawn
    clock,    \* 0 before expires_at, 1 after it, 2 an hour after the first attempt
    crashed,  \* the process has died once
    faults

vars == <<outbox, task, work, jobs, lane, wire, chat, revoked, clock, crashed, faults>>

Unset == Last + 1   \* no content: last_content_sha256 is absent, nothing is shown
Idle  == [at |-> "idle", row |-> NoRow, token |-> 0, tries |-> 0,
          content |-> Unset, patches |-> 0]

TypeOK ==
    /\ outbox \in [RowId -> [status : RowStatus, attempts : Nat, token : Nat, lapsed : BOOLEAN]]
    /\ task \in [version : Version, listed : BOOLEAN, hash : Version \cup {Unset}]
    /\ work \in [Thread -> [at : {"idle", "claimed", "post", "posting", "receipt", "enter",
                                  "patch", "patching", "sent", "recheck", "fail"},
                            row : RowId \cup {NoRow}, token : Nat, tries : Nat,
                            content : Version \cup {Unset}, patches : Nat]]
    /\ jobs \in Nat
    /\ lane \in Thread \cup {NoThread} /\ wire \in Thread \cup {NoThread}
    /\ chat \in [messages : Nat, shown : Version \cup {Unset}]
    /\ revoked \in BOOLEAN
    /\ clock \in 0 .. 2 /\ crashed \in BOOLEAN /\ faults \in 0 .. MaxFault

Init ==
    /\ outbox = [r \in RowId |-> [status |-> IF r = Send THEN "queued" ELSE "none",
                                  attempts |-> 0, token |-> 0, lapsed |-> FALSE]]
    /\ task = [version |-> 0, listed |-> FALSE, hash |-> Unset]
    /\ work = [t \in Thread |-> Idle]
    /\ jobs = 0 /\ lane = NoThread /\ wire = NoThread
    /\ chat = [messages |-> 0, shown |-> Unset]
    /\ revoked = FALSE /\ clock = 0 /\ crashed = FALSE /\ faults = 0

-----------------------------------------------------------------------------
(* The outbox *)

\* A plausible slip: the UUID is trusted for ever.
RetryableByCount(attempts) == attempts < MaxAttempts

\* A frozen POST may be sent (again) under its UUID.  A card lives 30 minutes,
\* a notice 50, from before its first attempt: the 50 minutes after that attempt
\* outlast expires_at and are not told apart from it.
Retryable(attempts) == clock = 0 /\ attempts < MaxAttempts

Closed(row, status) == [row EXCEPT !.status = status, !.lapsed = FALSE]

\* The rows whose lease has passed are queued again, or unknown when a second
\* POST would not be safe.
Swept == [r \in RowId |->
    IF outbox[r].status = "sending" /\ outbox[r].lapsed
    THEN Closed(outbox[r], IF r = Send /\ ~Retryable(outbox[r].attempts) THEN "unknown" ELSE "queued")
    ELSE outbox[r]]

\* The row is still the one that thread t claimed.
Holds(t) == /\ work[t].row # NoRow
            /\ outbox[work[t].row].status = "sending"
            /\ outbox[work[t].row].token = work[t].token

\* The write of t to its own row, which only a current claim may do.
CloseOwn(t, status) ==
    outbox' = IF Holds(t) THEN [outbox EXCEPT ![work[t].row] = Closed(@, status)] ELSE outbox

At(t, at)    == work[t].at = at
Goto(t, at)  == work' = [work EXCEPT ![t].at = at]
Done(t)      == work' = [work EXCEPT ![t] = Idle]

-----------------------------------------------------------------------------
(* _deliver_outbox_once: the claim *)

\* The transaction sweeps the lapsed leases and has nothing to do, or only finds
\* the first delivery, which has to wait for the callback connection.
SweepOnly(d) ==
    /\ At(d, "idle") /\ outbox # Swept
    /\ \A r \in Update : Swept[r].status # "queued"
    /\ outbox' = Swept
    /\ UNCHANGED <<task, work, jobs, lane, wire, chat, revoked, clock, crashed, faults>>

\* A plausible slip: a delivery that still waits for the connection when its
\* time is over is passed by.
GiveUpRevoked(d) ==
    /\ At(d, "idle") /\ Swept[Send].status = "queued"
    /\ revoked
    /\ outbox' = [Swept EXCEPT ![Send].status = "superseded"]
    /\ UNCHANGED <<task, work, jobs, lane, wire, chat, revoked, clock, crashed, faults>>

\* The first delivery is given up, because the recipient is gone or a POST
\* would not be covered by the UUID any more.
GiveUp(d) ==
    /\ At(d, "idle") /\ Swept[Send].status = "queued"
    /\ revoked \/ ~Retryable(Swept[Send].attempts)
    /\ outbox' = [Swept EXCEPT ![Send].status = IF revoked THEN "superseded" ELSE "unknown"]
    /\ UNCHANGED <<task, work, jobs, lane, wire, chat, revoked, clock, crashed, faults>>

Claim(d, r) ==
    /\ At(d, "idle") /\ Swept[r].status = "queued"
    /\ r = Send => ~revoked /\ Retryable(Swept[r].attempts)
    /\ outbox' = [Swept EXCEPT ![r].status = "sending", ![r].attempts = @ + 1, ![r].token = @ + 1]
    /\ work' = [work EXCEPT ![d] = [at |-> IF r = Send THEN "claimed" ELSE "enter", row |-> r,
                                    token |-> Swept[r].token + 1, tries |-> Swept[r].attempts + 1,
                                    content |-> Unset, patches |-> 0]]
    /\ UNCHANGED <<task, jobs, lane, wire, chat, revoked, clock, crashed, faults>>

(* _deliver_outbox_once: the first delivery *)

CheckTask(d) ==
    /\ At(d, "claimed")
    /\ IF task.version = Last THEN CloseOwn(d, "superseded") /\ Done(d)
                              ELSE Goto(d, "post") /\ UNCHANGED outbox
    /\ UNCHANGED <<task, jobs, lane, wire, chat, revoked, clock, crashed, faults>>

\* The audience is checked under the lock that is held while the request runs.
Post(d) ==
    /\ At(d, "post") /\ ~revoked /\ wire = NoThread
    /\ wire' = d /\ Goto(d, "posting")
    /\ UNCHANGED <<outbox, task, jobs, lane, chat, revoked, clock, crashed, faults>>

PostRefused(d) ==
    /\ At(d, "post") /\ revoked /\ wire = NoThread
    /\ outbox' = IF outbox[Send].token = work[d].token
                 THEN [outbox EXCEPT ![Send] = Closed(@, "superseded")] ELSE outbox
    /\ Done(d)
    /\ UNCHANGED <<task, jobs, lane, wire, chat, revoked, clock, crashed, faults>>

\* The message that Feishu shows after the POST: the UUID makes one of all the
\* POSTs of an hour.
Delivered == IF chat.messages > 0 /\ clock < 2 THEN chat
             ELSE [messages |-> chat.messages + 1, shown |-> 0]

PostAnswer(d) ==
    /\ At(d, "posting") /\ wire' = NoThread
    /\ \/ chat' = Delivered /\ Goto(d, "receipt")
       \/ chat' \in {chat, Delivered} /\ Goto(d, "fail")
    /\ UNCHANGED <<outbox, task, jobs, lane, revoked, clock, crashed, faults>>

\* Receipt and message list commit together; then the message is brought up to
\* date.  Without the claim the receipt is dropped.
BookReceipt(d) ==
    /\ At(d, "receipt")
    /\ CloseOwn(d, "sent")
    /\ IF Holds(d) THEN /\ task' = [task EXCEPT !.listed = TRUE]
                        /\ work' = [work EXCEPT ![d] = [Idle EXCEPT !.at = "enter"]]
                   ELSE Done(d) /\ UNCHANGED task
    /\ UNCHANGED <<jobs, lane, wire, chat, revoked, clock, crashed, faults>>

\* The claimed row after an error of its delivery or of its patch.
BookFailure(t) ==
    /\ At(t, "fail")
    /\ CloseOwn(t, IF work[t].row = Send
                   THEN IF Retryable(work[t].tries) THEN "queued" ELSE "unknown"
                   ELSE IF work[t].tries < MaxAttempts THEN "queued" ELSE "failed")
    /\ Done(t)
    /\ UNCHANGED <<task, jobs, lane, wire, chat, revoked, clock, crashed, faults>>

-----------------------------------------------------------------------------
(* _patch_latest_task_card, by a drainer for a claimed row, by a drainer     *)
(* after a receipt, or by an updater.                                        *)

\* How a PATCH that was not applied ends for its caller: as an error of the
\* claimed row, if there is one.
Abort(t) == IF work[t].row = NoRow THEN Done(t) ELSE Goto(t, "fail")

\* The claim of the row was lost while the thread waited for the lane; the error
\* that follows finds no claim either.
EnterLate(t) ==
    /\ At(t, "enter") /\ lane = NoThread
    /\ work[t].row # NoRow /\ ~Holds(t)
    /\ Done(t)
    /\ UNCHANGED <<outbox, task, jobs, lane, wire, chat, revoked, clock, crashed, faults>>

EnterRevoked(t) ==
    /\ At(t, "enter") /\ lane = NoThread
    /\ work[t].row # NoRow => Holds(t)
    /\ revoked
    /\ outbox' = [r \in RowId |-> IF r \in Update /\ outbox[r].status \notin {"none", "sent"}
                                  THEN Closed(outbox[r], "superseded") ELSE outbox[r]]
    /\ Done(t)
    /\ UNCHANGED <<task, jobs, lane, wire, chat, revoked, clock, crashed, faults>>

\* The message already shows this content.
EnterCurrent(t) ==
    /\ At(t, "enter") /\ lane = NoThread
    /\ work[t].row # NoRow => Holds(t)
    /\ ~revoked /\ task.hash = task.version /\ outbox[Receipt(task.version)].status = "sent"
    /\ CloseOwn(t, "superseded") /\ Done(t)
    /\ UNCHANGED <<task, jobs, lane, wire, chat, revoked, clock, crashed, faults>>

\* A plausible slip: nobody holds the message's lane.
EnterPatchFreely(t) ==
    LET v     == task.version
        mark  == outbox[Receipt(v)]
        tries == IF mark.attempts > work[t].tries THEN mark.attempts ELSE work[t].tries
    IN  /\ At(t, "enter")
        /\ work[t].row # NoRow => Holds(t)
        /\ ~revoked
        /\ task.hash # v \/ mark.status # "sent"
        /\ work' = [work EXCEPT ![t].at = "patch", ![t].content = v, ![t].patches = tries]
        /\ outbox' = [outbox EXCEPT ![Receipt(v)] =
                          [mark EXCEPT !.status = "sending", !.attempts = tries, !.lapsed = FALSE]]
        /\ UNCHANGED <<task, jobs, lane, wire, chat, revoked, clock, crashed, faults>>


\* The content is built from the task as it is under the lane, and its receipt
\* is marked.  Only a claim of the same receipt could come between the two, and
\* the claimant then waits for the lane and finds the mark.
EnterPatch(t) ==
    LET v     == task.version
        mark  == outbox[Receipt(v)]
        tries == IF mark.attempts > work[t].tries THEN mark.attempts ELSE work[t].tries
    IN  /\ At(t, "enter") /\ lane = NoThread
        /\ work[t].row # NoRow => Holds(t)
        /\ ~revoked
        /\ task.hash # v \/ mark.status # "sent"
        /\ lane' = t
        /\ work' = [work EXCEPT ![t].at = "patch", ![t].content = v, ![t].patches = tries]
        /\ outbox' = [outbox EXCEPT ![Receipt(v)] =
                          [mark EXCEPT !.status = "sending", !.attempts = tries, !.lapsed = FALSE]]
        /\ UNCHANGED <<task, jobs, wire, chat, revoked, clock, crashed, faults>>

Patch(t) ==
    /\ At(t, "patch") /\ ~revoked /\ wire = NoThread
    /\ wire' = t /\ Goto(t, "patching")
    /\ UNCHANGED <<outbox, task, jobs, lane, chat, revoked, clock, crashed, faults>>

PatchRefused(t) ==
    /\ At(t, "patch") /\ revoked /\ wire = NoThread
    /\ outbox' = [outbox EXCEPT ![Receipt(work[t].content)] = Closed(@, "superseded")]
    /\ lane' = NoThread /\ Abort(t)
    /\ UNCHANGED <<task, jobs, wire, chat, revoked, clock, crashed, faults>>

PatchSucceeds(t) ==
    /\ At(t, "patching") /\ wire' = NoThread
    /\ chat' = [chat EXCEPT !.shown = work[t].content]
    /\ Goto(t, "sent")
    /\ UNCHANGED <<outbox, task, jobs, lane, revoked, clock, crashed, faults>>

\* A plausible slip: the receipt of a failed PATCH is closed.
PatchFailsQuietly(t) ==
    /\ At(t, "patching") /\ wire' = NoThread
    /\ chat' \in {chat, [chat EXCEPT !.shown = work[t].content]}
    /\ outbox' = [outbox EXCEPT ![Receipt(work[t].content)] = Closed(@, "superseded")]
    /\ lane' = NoThread /\ Abort(t)
    /\ UNCHANGED <<task, jobs, revoked, clock, crashed, faults>>

\* The request fails, whether the PATCH was applied or not; its receipt is
\* queued, or given up.
PatchFails(t) ==
    /\ At(t, "patching") /\ wire' = NoThread
    /\ chat' \in {chat, [chat EXCEPT !.shown = work[t].content]}
    /\ outbox' = [outbox EXCEPT ![Receipt(work[t].content)] =
                      Closed(@, IF work[t].patches >= MaxAttempts THEN "failed" ELSE "queued")]
    /\ lane' = NoThread /\ Abort(t)
    /\ UNCHANGED <<task, jobs, revoked, clock, crashed, faults>>

\* The receipt is booked, its content noted in the message list, and every other
\* update of the message is superseded by this one.
BookPatch(t) ==
    LET own == Receipt(work[t].content) IN
    /\ At(t, "sent")
    /\ task' = [task EXCEPT !.hash = work[t].content]
    /\ outbox' = [r \in RowId |->
                    IF r = own THEN Closed(outbox[r], "sent")
                    ELSE IF r \in Update /\ outbox[r].status \in {"queued", "sending", "failed"}
                    THEN Closed(outbox[r], "superseded")
                    ELSE outbox[r]]
    /\ Goto(t, "recheck")
    /\ UNCHANGED <<jobs, lane, wire, chat, revoked, clock, crashed, faults>>

\* What changed during the PATCH is queued (_queue_outbox).
Recheck(t) ==
    /\ At(t, "recheck")
    /\ outbox' = IF task.version = work[t].content THEN outbox
                 ELSE [outbox EXCEPT ![Retry(task.version)] = [@ EXCEPT !.status = "queued"]]
    /\ lane' = NoThread /\ Done(t)
    /\ UNCHANGED <<task, jobs, wire, chat, revoked, clock, crashed, faults>>

-----------------------------------------------------------------------------
(* The task, the clock and the process *)

\* A change of the task and the update_task_cards that it submits.
Change ==
    /\ task.version < Last
    /\ task' = [task EXCEPT !.version = @ + 1] /\ jobs' = jobs + 1
    /\ UNCHANGED <<outbox, work, lane, wire, chat, revoked, clock, crashed, faults>>

\* update_task_cards reads the message list, which may still be empty.
StartUpdate(u) ==
    /\ At(u, "idle") /\ jobs > 0 /\ jobs' = jobs - 1
    /\ work' = IF task.listed THEN [work EXCEPT ![u].at = "enter"] ELSE work
    /\ UNCHANGED <<outbox, task, lane, wire, chat, revoked, clock, crashed, faults>>

\* A plausible slip: the withdrawal does not wait.
RevokeAtOnce ==
    /\ ~revoked /\ revoked' = TRUE
    /\ UNCHANGED <<outbox, task, work, jobs, lane, wire, chat, clock, crashed, faults>>

\* _update_profile waits for the request that is under way.
Revoke ==
    /\ ~revoked /\ wire = NoThread /\ revoked' = TRUE
    /\ UNCHANGED <<outbox, task, work, jobs, lane, wire, chat, clock, crashed, faults>>

\* A claim reaches its POST and the end of it within the ten minutes and more
\* that Feishu remembers the UUID after the last claim.  Nobody looks at the
\* clock once the first delivery is settled.
Tick ==
    /\ clock < 2 /\ outbox[Send].status \in {"queued", "sending"}
    /\ clock = 1 => \A d \in Drainer : work[d].at \notin {"claimed", "post", "posting"}
    /\ clock' = clock + 1
    /\ UNCHANGED <<outbox, task, work, jobs, lane, wire, chat, revoked, crashed, faults>>

\* Some thread is still at the row, under its claim or patching its content.
Attended(r) == \E t \in Thread :
    \/ work[t].row = r /\ Holds(t)
    \/ work[t].at \in {"patch", "patching", "sent"} /\ r = Receipt(work[t].content)

LeaseLapses(r) ==
    /\ outbox[r].status = "sending" /\ ~outbox[r].lapsed
    /\ Attended(r) => faults < MaxFault
    /\ faults' = IF Attended(r) THEN faults + 1 ELSE faults
    /\ outbox' = [outbox EXCEPT ![r].lapsed = TRUE]
    /\ UNCHANGED <<task, work, jobs, lane, wire, chat, revoked, clock, crashed>>

\* The process dies; what was only in memory is lost.
Crash ==
    /\ faults < MaxFault /\ faults' = faults + 1 /\ crashed' = TRUE
    /\ work' = [t \in Thread |-> Idle]
    /\ jobs' = 0 /\ lane' = NoThread /\ wire' = NoThread
    /\ UNCHANGED <<outbox, task, chat, revoked, clock>>

-----------------------------------------------------------------------------
SendStep(d) ==
    \/ CheckTask(d) \/ Post(d) \/ PostRefused(d) \/ PostAnswer(d) \/ BookReceipt(d)

PatchStep(t) ==
    \/ EnterLate(t) \/ EnterRevoked(t) \/ EnterCurrent(t) \/ EnterPatch(t)
    \/ Patch(t) \/ PatchRefused(t) \/ PatchSucceeds(t) \/ PatchFails(t)
    \/ BookPatch(t) \/ Recheck(t)

CarryOn(t) == SendStep(t) \/ PatchStep(t) \/ BookFailure(t)

Next ==
    \/ \E d \in Drainer : SweepOnly(d) \/ GiveUp(d) \/ \E r \in RowId : Claim(d, r)
    \/ \E t \in Thread : CarryOn(t)
    \/ \E u \in Updater : StartUpdate(u)
    \/ \E r \in RowId : LeaseLapses(r)
    \/ Change \/ Revoke \/ Tick \/ Crash

Spec == Init /\ [][Next]_vars

\* Threads carry on, leases and lifetimes pass, the drainer of a live process
\* takes what is queued.  Nothing is asked of Feishu, of the user, or of the
\* callback connection that the first delivery waits for.
Fairness ==
    /\ \A t \in Thread : WF_vars(CarryOn(t))
    /\ WF_vars(\E d \in Drainer : SweepOnly(d) \/ GiveUp(d))
    /\ WF_vars(\E d \in Drainer, r \in Update : Claim(d, r))
    /\ WF_vars(\E u \in Updater : StartUpdate(u))
    /\ WF_vars(\E r \in RowId : LeaseLapses(r))
    /\ WF_vars(Tick)

LiveSpec == Spec /\ Fairness

-----------------------------------------------------------------------------
(* Properties *)

\* The recipient gets one message, however often its POST was repeated after
\* timeouts, lapsed leases and restarts.
OneMessage == chat.messages <= 1

\* Two threads that patch one message never overlap: what the recipient sees
\* is not replaced by an older state of the task.
NeverOlder ==
    [][chat.shown # Unset /\ chat'.shown # Unset => chat'.shown >= chat.shown]_vars

\* A recipient whose authorization was withdrawn sees nothing new.
RevokedIsSilent == [][revoked => UNCHANGED chat]_vars

Message == INSTANCE CardMessage
    WITH version <- task.version, messages <- chat.messages, shown <- chat.shown,
         withdrawn <- revoked

\* Outbox, drainers, executor and locks together keep one message that only ever
\* turns to a later state which the task has reached, and that rests once the
\* recipient's authorization was withdrawn.
ImplementsMessage == Message!Spec

\* A listed message that does not show the last state of the task has something
\* that will bring it up to date: a job, a queued update or the receipt of one
\* that failed, or a thread that has yet to build its content or to look again.
\* A crash forgets the jobs.
Open == {"queued", "sending", "failed"}
StaleHasCarrier ==
    task.listed /\ chat.shown # task.version /\ ~revoked /\ ~crashed =>
        \/ jobs > 0
        \/ \E r \in Update : outbox[r].status \in Open
        \/ \E t \in Thread : \/ work[t].at = "enter" /\ work[t].row = NoRow
                             \/ work[t].at \in {"patch", "patching", "sent", "recheck"}

\* Every first delivery is sent, dropped or declared unknown in the end.
DeliverySettles == <>(outbox[Send].status \in {"sent", "superseded", "unknown"})

\* A listed message shows the last state of the task in the end, unless the
\* process crashed, the recipient is gone or the attempts were used up.
CatchesUp ==
    task.listed ~> \/ chat.shown = task.version \/ revoked \/ crashed
                   \/ \E r \in Update : outbox[r].status = "failed"
=============================================================================
