---------------------------- MODULE RetargetCard ----------------------------
(***************************************************************************)
(* One confirmed Feishu card that creates a control task, end to end: the  *)
(* card and its claim (local_feishu_bridge), the desktop worker that       *)
(* executes it (retarget_task_worker), the intents of its attempts, the    *)
(* platform, and the reconciliation that carries a verdict back to the     *)
(* card.                                                                   *)
(*                                                                         *)
(* A claim is a random token and a fencing number.  Every pull makes a new *)
(* token and raises the fence by one, so the fence of the pull stands for  *)
(* both: a worker with claim c holds token c and fence c.  The module      *)
(* follows a card with one material group.                                 *)
(***************************************************************************)
EXTENDS IntentLedger

CONSTANTS
    MaxTry,       \* attempts of one execution; _execute_task makes three
    MaxAttempts,  \* _MAX_ATTEMPTS: look-ups before a human has to review
    MaxPull,      \* bound: pulls of the card
    MaxCrash      \* bound: crashes of the process

ASSUME CardAssumption ==
    /\ MaxTry \in Nat \ {0}
    /\ MaxAttempts \in Nat \ {0}
    /\ MaxPull \in Nat
    /\ MaxCrash \in Nat

VARIABLES
    card,     \* the row of local_retarget_task
    click,    \* a click found the card expired and is about to say so
    journal,  \* cloud_retarget_task_local: what the desktop did with it
    job,      \* the worker thread
    row,      \* the ledger: one intent for each attempt
    filed,    \* submission_claim of each intent
    work,     \* the reconciliation workers
    post,     \* the POST of each attempt: where it is
    crashes   \* crashes so far

vars == <<card, click, journal, job, row, filed, work, post, crashes>>
ledger == <<row, filed>>

Try == 1 .. MaxTry

Active == {"pending", "approved_queued", "claimed", "executing"}
Final == {"succeeded", "failed", "unknown_requires_review", "rejected",
          "expired", "cancelled", "invalidated"}
Held == {"claimed", "executing"}

Card == [ st : Active \cup Final \cup {"verifying"},
          live : BOOLEAN,                      \* expires_at lies ahead
          lease : {"none", "live", "lapsed"},  \* claim_expires_at
          fence : Nat,                         \* fencing_token
          token : Nat ]                        \* claim_token, 0 for NULL

Outcome == {"verifying", "succeeded", "failed", "invalidated",
            "unknown_requires_review"}

JobPC == {"idle",
          "pulled",   \* card claimed; journal not read
          "confirm",  \* journal says executing; the claim is not confirmed
          "check",    \* an attempt begins: validation and preflight reads
          "ready",    \* final_preflight passed; the intent is not reserved
          "send", "wait",                \* POST not yet / already on the wire
          "accept", "unsure", "reject",  \* outcome known to the worker only
          "retry",    \* refused for its rate; the claim is to be renewed
          "file",     \* outcome known; run record not written
          "final",    \* run record written; journal not
          "report",   \* journal written; card not told
          "replay"}   \* card is verifying; replay of a verdict due

Job == [ pc : JobPC, claim : Nat, try : Try, out : Outcome,
         beat : BOOLEAN,        \* _heartbeat_lease runs
         cancelled : BOOLEAN ]  \* _LEASE_CANCEL_EVENT

WorkPC == {"idle", "look", "settle", "project", "promote", "finalize", "tail"}
Work == [ pc : WorkPC, try : Try, fence : Nat, tries : Nat, phase : Phase,
          seen : BOOLEAN,
          verdict : Verified \cup {"confirmed_failed"} ]  \* aggregate_status

NoJob == [pc |-> "idle", claim |-> 0, try |-> 1, out |-> "failed",
          beat |-> FALSE, cancelled |-> FALSE]
AtRest == [pc |-> "idle", try |-> 1, fence |-> 0, tries |-> 0,
           phase |-> "not_sent", seen |-> FALSE, verdict |-> "confirmed_failed"]

TypeOK ==
    /\ card \in Card
    /\ click \in BOOLEAN
    /\ journal \in {"none", "executing"} \cup Outcome
    /\ job \in Job
    /\ row \in [Try -> Row]
    /\ filed \in [Try -> Nat]
    /\ work \in [Worker -> Work]
    /\ post \in [Try -> {"none", "flying", "applied", "refused"}]
    /\ crashes \in 0 .. MaxCrash

Init ==
    /\ card = [st |-> "pending", live |-> TRUE, lease |-> "none",
               fence |-> 0, token |-> 0]
    /\ click = FALSE
    /\ journal = "none"
    /\ job = NoJob
    /\ row = [n \in Try |-> Absent]
    /\ filed = [n \in Try |-> 0]
    /\ work = [w \in Worker |-> AtRest]
    /\ post = [n \in Try |-> "none"]
    /\ crashes = 0

(***************************************************************************)
(* The card                                                                *)
(***************************************************************************)
rest == <<journal, job, ledger, work, post, crashes>>

Ended(st) == [card EXCEPT !.st = st, !.lease = "none"]
Dropped(st) == [card EXCEPT !.st = st, !.lease = "none", !.token = 0]

Approve ==
    /\ card.st = "pending"
    /\ card.live
    /\ card' = [card EXCEPT !.st = "approved_queued"]
    /\ UNCHANGED <<click, rest>>

Reject ==
    /\ card.st = "pending"
    /\ card.live
    /\ card' = [card EXCEPT !.st = "rejected"]
    /\ UNCHANGED <<click, rest>>

\* handle_local_card_action, any click, "view" included: the row was read and
\* is past its time ...
ClickLate ==
    /\ card.st \in Active
    /\ ~card.live
    /\ click' = TRUE
    /\ UNCHANGED <<card, rest>>

\* ... and is marked by an UPDATE that names no status.
ClickExpires ==
    /\ click
    /\ card' = [card EXCEPT !.st = "expired"]
    /\ click' = FALSE
    /\ UNCHANGED rest

\* _invalidate_stale_local_tasks: the frozen strategy changed.
Invalidate ==
    /\ card.st \in {"pending", "approved_queued"}
    /\ card' = Dropped("invalidated")
    /\ UNCHANGED <<click, rest>>

\* cancel_active_local_retarget_tasks: the session is gone.  Also a session of
\* another epoch, found when the card is pulled.
Cancel ==
    /\ card.st \in {"pending", "approved_queued", "claimed"}
    /\ card' = Dropped("cancelled")
    /\ UNCHANGED <<click, rest>>

\* _detach_directory_accounts: the authorization of the account is gone.  A card with an
\* intent of any kind is left alone.
Revoke ==
    /\ card.st \in Active
    /\ \A n \in Try : row[n].status = "absent"
    /\ card' = [Dropped("cancelled") EXCEPT !.fence = @ + 1]
    /\ UNCHANGED <<click, rest>>

\* The statuses of an intent that keep its card from expiring or going back to
\* the queue.
Binding == Outstanding \cup Verified

\* A plausible slip: an unknown outcome no longer binds the card, nor an intent
\* whose POST is on its way.
ConfirmedBinds == \E n \in Try : row[n].status \in {"submitted", "verifying",
                                                    "confirmed_succeeded"}

Bound == \E n \in Try : row[n].status \in Binding

\* _expire_local_tasks: three statements in one transaction, in this order.
Expire ==
    /\ card' = IF card.st \in Held /\ (~card.live \/ card.lease = "lapsed") /\ Bound
               THEN [Ended("verifying") EXCEPT !.fence = @ + 1]
               ELSE IF card.st \in Active /\ ~card.live
               THEN Dropped("expired")
               ELSE IF card.st \in Held /\ card.lease = "lapsed"
               THEN Dropped("approved_queued")
               ELSE card
    /\ card' # card
    /\ UNCHANGED <<click, rest>>

(***************************************************************************)
(* The worker, run_worker_loop and _execute_task                           *)
(***************************************************************************)
At(pc) == job.pc = pc
Goto(pc) == job' = [job EXCEPT !.pc = pc]
Leave == job' = NoJob
\* An attempt ends with a result; `_insert_run' comes next.
Result(out) == job' = [job EXCEPT !.pc = "file", !.out = out]

\* _checked_claim_row: status, fence, token and both deadlines.
Owns(c, allowed) ==
    /\ card.st \in allowed
    /\ card.fence = c /\ card.token = c
    /\ card.live /\ card.lease = "live"

\* pull_local_retarget_task.
Pull ==
    /\ At("idle")
    /\ card.st = "approved_queued"
    /\ card.live
    /\ card.fence < MaxPull
    /\ card' = [card EXCEPT !.st = "claimed", !.lease = "live",
                            !.fence = @ + 1, !.token = card.fence + 1]
    /\ job' = [NoJob EXCEPT !.pc = "pulled", !.claim = card.fence + 1]
    /\ UNCHANGED <<click, journal, ledger, work, post, crashes>>

\* The journal of earlier executions: a result is reported again, and an
\* execution that was interrupted is never repeated (recovery_guard).
Recall ==
    /\ At("pulled")
    /\ IF journal \in Outcome \ {"verifying"}
       THEN /\ job' = [job EXCEPT !.pc = "report", !.out = journal]
            /\ UNCHANGED journal
       ELSE IF journal = "executing"
       THEN /\ journal' = "failed"
            /\ job' = [job EXCEPT !.pc = "report", !.out = "failed"]
       ELSE /\ journal' = "executing"
            /\ Goto("confirm")
    /\ UNCHANGED <<card, click, ledger, work, post, crashes>>

\* report_local_retarget_task(executing): the lease is renewed.
Renewed == [card EXCEPT !.st = "executing", !.lease = "live"]

Confirm ==
    /\ At("confirm")
    /\ IF Owns(job.claim, Held)
       THEN /\ card' = Renewed
            /\ job' = [job EXCEPT !.pc = "check", !.beat = TRUE]
            /\ UNCHANGED journal
       ELSE /\ journal' = "failed"
            /\ Leave
            /\ UNCHANGED card
    /\ UNCHANGED <<click, ledger, work, post, crashes>>

\* _heartbeat_lease.  A refusal or an exception sets the cancel event.
Beat ==
    /\ job.beat
    /\ \/ /\ Owns(job.claim, Held)
          /\ card' = Renewed
          /\ UNCHANGED job
       \/ /\ job' = [job EXCEPT !.beat = FALSE, !.cancelled = TRUE]
          /\ UNCHANGED card
    /\ UNCHANGED <<click, journal, ledger, work, post, crashes>>

\* The strategy changed before the first attempt.
StrategyChanged ==
    /\ At("check")
    /\ job.try = 1
    /\ job' = [job EXCEPT !.pc = "final", !.out = "invalidated", !.beat = FALSE]
    /\ UNCHANGED <<card, click, journal, ledger, work, post, crashes>>

\* A validation, a preflight read or final_preflight fails: nothing is sent.
NotSent ==
    /\ job.pc \in {"check", "ready"}
    /\ Result("failed")
    /\ UNCHANGED <<card, click, journal, ledger, work, post, crashes>>

\* The result for an attempt key that has an intent already.
ExistingResult(st) ==
    CASE st = "confirmed_succeeded" -> "succeeded"
      [] st \in {"submitted", "verifying"} -> "verifying"
      [] st = "unknown_requires_review" -> st
      [] OTHER -> "failed"

\* _existing_reconciliation, the reads of OfficialApiRetargetingService.run and
\* the first lines of final_preflight.
Preflight ==
    /\ At("check")
    /\ IF row[job.try].status # "absent"
       THEN Result(ExistingResult(row[job.try].status))
       ELSE ~job.cancelled /\ Goto("ready")
    /\ UNCHANGED <<card, click, journal, ledger, work, post, crashes>>

\* before_send: claim and key are checked in the transaction that inserts the
\* intent.
Reserve ==
    /\ At("ready")
    /\ IF ~Owns(job.claim, {"executing"})
       THEN Result("failed") /\ UNCHANGED ledger
       ELSE IF row[job.try].status # "absent"
       THEN Result(ExistingResult(row[job.try].status)) /\ UNCHANGED ledger
       ELSE /\ row' = [row EXCEPT ![job.try] = Reserved]
            /\ filed' = [filed EXCEPT ![job.try] = job.claim]
            /\ Goto("send")
    /\ UNCHANGED <<card, click, journal, work, post, crashes>>

Send ==
    /\ At("send")
    /\ post' = [post EXCEPT ![job.try] = "flying"]
    /\ Goto("wait")
    /\ UNCHANGED <<card, click, journal, ledger, work, crashes>>

SendFails ==
    /\ At("send")
    /\ Goto("unsure")
    /\ UNCHANGED <<card, click, journal, ledger, work, post, crashes>>

\* A plausible slip: a timeout counts as a refusal.
HastyVerdictOf(p) ==
    CASE p = "applied" -> {"accept", "reject"}
      [] OTHER -> {"reject"}

\* What the worker may learn of a POST in state p, see StopSubmission.
VerdictOf(p) ==
    CASE p = "applied" -> {"accept", "unsure"}
      [] p = "refused" -> {"reject", "unsure"}
      [] OTHER -> {"unsure"}

Answer ==
    /\ At("wait")
    /\ \E v \in VerdictOf(post[job.try]) : Goto(v)
    /\ UNCHANGED <<card, click, journal, ledger, work, post, crashes>>

\* reconcile: the intent is queued, or only its phase is written, or neither.
BookSent ==
    /\ job.pc \in {"accept", "unsure"}
    /\ LET p == IF At("accept") THEN "accepted" ELSE "unknown"
       IN  \E r \in {EnqueueRow(row[job.try], p), RecordRow(row[job.try], p),
                     row[job.try]} :
             row' = [row EXCEPT ![job.try] = r]
    /\ Result("verifying")
    /\ UNCHANGED <<card, click, journal, filed, work, post, crashes>>

\* handle_error on an explicit refusal; the write may fail.  Only a refusal for
\* the request rate is tried again, and only up to the limit.
BookRefusal ==
    /\ At("reject")
    /\ \E r \in {RecordRow(row[job.try], "rejected"), row[job.try]} :
         row' = [row EXCEPT ![job.try] = r]
    /\ \/ job.try < MaxTry /\ Goto("retry")
       \/ Result("failed")
    /\ UNCHANGED <<card, click, journal, filed, work, post, crashes>>

\* Before the next attempt the claim must be confirmed once more.
RetryOrStop ==
    /\ At("retry")
    /\ IF Owns(job.claim, Held)
       THEN /\ card' = Renewed
            /\ job' = [job EXCEPT !.pc = "check", !.try = @ + 1]
       ELSE /\ job' = [job EXCEPT !.pc = "file", !.out = "failed",
                                  !.cancelled = TRUE]
            /\ UNCHANGED card
    /\ UNCHANGED <<click, journal, ledger, work, post, crashes>>

(***************************************************************************)
(* A verdict comes back to the card                                        *)
(***************************************************************************)

\* The latest attempt that has an intent speaks for the card.
Latest == Max({n \in Try : n = 1 \/ row[n].status # "absent"})
Settled == row[Latest].status \in Terminal

\* A plausible slip: what is not known to have failed has succeeded.
HopefulStatusOf(verdict) ==
    IF verdict = "confirmed_failed" THEN "failed" ELSE "succeeded"

\* The status finalize_reconciled_local_task gives the card.
StatusOf(verdict) ==
    CASE verdict = "confirmed_succeeded" -> "succeeded"
      [] verdict = "unknown_requires_review" -> verdict
      [] OTHER -> "failed"

\* promote_reconciled_local_claim: the verdict of attempt n may take over the
\* expired claim that sent it.
Promoted(n) ==
    IF /\ card.st \in Held
       /\ card.token = filed[n] /\ card.fence = filed[n]
       /\ ~card.live \/ card.lease = "lapsed"
    THEN Ended("verifying")
    ELSE card

\* finalize_reconciled_local_task: only a verifying card takes the verdict.
Finalized(c, verdict) ==
    IF c.st = "verifying"
    THEN [c EXCEPT !.st = StatusOf(verdict), !.lease = "none"]
    ELSE c

\* A plausible slip: the card is not asked for.
HeedlessReady(c, others) == others

\* _terminal_projection_ready; `others' stands for the run record and the
\* delivery of the card, which this module does not follow.
Ready(c, others) == others /\ c.st \notin Held \cup {"verifying"}

Unlocked(n) == \A w \in Worker : work[w].pc \in {"project", "promote",
                                    "finalize", "tail"} => work[w].try # n

\* replay_terminal_reconciliations, called by the worker thread for its task.
ReplayOwn ==
    LET n == job.try
    IN  IF row[n].status \in Verified /\ Settled
        THEN /\ Unlocked(n)
             /\ card' = LET c == Promoted(n)
                        IN  Finalized(c, row[Latest].status)
             /\ \E ok \in BOOLEAN :
                  row' = [row EXCEPT ![n] =
                             ProjectedRow(@, @.phase, Ready(card', ok))]
        ELSE UNCHANGED <<card, row>>

\* _insert_run; a submission is followed by a replay, which may fail.
File ==
    /\ At("file")
    /\ job' = [job EXCEPT !.pc = "final", !.beat = FALSE]
    /\ \/ UNCHANGED <<card, row>>
       \/ job.out = "verifying" /\ ReplayOwn
    /\ UNCHANGED <<click, journal, filed, work, post, crashes>>

\* An exception leaves the loop's turn; the journal keeps saying executing.
Abandon ==
    /\ job.pc \in {"confirm", "file", "report"}
    /\ Leave
    /\ UNCHANGED <<card, click, journal, ledger, work, post, crashes>>

\* The result is journalled before the card hears of it.
Journal ==
    /\ At("final")
    /\ journal' = job.out
    /\ Goto("report")
    /\ UNCHANGED <<card, click, ledger, work, post, crashes>>

\* report_local_retarget_task with the final status; it may be refused.
Report ==
    /\ At("report")
    /\ IF Owns(job.claim, Held)
       THEN /\ card' = Ended(job.out)
            /\ IF job.out = "verifying" THEN Goto("replay") ELSE Leave
       ELSE /\ Leave
            /\ UNCHANGED card
    /\ UNCHANGED <<click, journal, ledger, work, post, crashes>>

ReplayReported ==
    /\ At("replay")
    /\ Leave
    /\ \/ UNCHANGED <<card, row>>
       \/ ReplayOwn
    /\ UNCHANGED <<click, journal, filed, work, post, crashes>>

JobStep ==
    \/ Pull \/ Recall \/ Confirm \/ StrategyChanged \/ NotSent \/ Preflight
    \/ Reserve \/ Send \/ SendFails \/ Answer \/ BookSent \/ BookRefusal
    \/ RetryOrStop \/ File \/ Journal \/ Report \/ ReplayReported

(***************************************************************************)
(* The platform                                                            *)
(***************************************************************************)
Decide(n, outcome) ==
    /\ post[n] = "flying"
    /\ post' = [post EXCEPT ![n] = outcome]
    /\ UNCHANGED <<card, click, journal, job, ledger, work, crashes>>

Apply(n) == Decide(n, "applied")
Refuse(n) == Decide(n, "refused")

(***************************************************************************)
(* The reconciliation workers, _loop; see StopSubmission for the ledger    *)
(* part, which is the same.                                                *)
(***************************************************************************)
foreground == <<click, journal, job, filed, post, crashes>>
Idle(w) == work[w].pc = "idle"
Step(w, pc) == work' = [work EXCEPT ![w].pc = pc]
Stop(w) == work' = [work EXCEPT ![w] = AtRest]

Recover(w) ==
    /\ Idle(w)
    /\ \E n \in Try : Interrupted(row[n])
    /\ row' = [n \in Try |-> RecoverRow(row[n])]
    /\ UNCHANGED <<card, work, foreground>>

Claim(w) ==
    /\ Idle(w)
    /\ LET back == [n \in Try |-> LapseRow(row[n])]
       IN  \E n \in Try :
             /\ Due(back[n])
             /\ row' = [back EXCEPT ![n] = ClaimRow(@, w)]
             /\ work' = [work EXCEPT ![w] =
                   [AtRest EXCEPT !.pc = "look", !.try = n,
                                  !.fence = back[n].fence + 1,
                                  !.tries = back[n].tries + 1,
                                  !.phase = back[n].phase]]
    /\ UNCHANGED <<card, foreground>>

\* The control task is looked up by the name of the attempt.
LookUp(w) ==
    /\ work[w].pc = "look"
    /\ \E seen \in {FALSE, post[work[w].try] = "applied"} :
         work' = [work EXCEPT ![w].pc = "settle", ![w].seen = seen]
    /\ UNCHANGED <<card, row, foreground>>

Leased(w) == HoldsLease(row[work[w].try], w, work[w].fence)

\* Look-up done: a verdict, or another look-up later.
Settle(w) ==
    /\ work[w].pc = "settle"
    /\ LET n == work[w].try
           verdict == IF work[w].seen THEN "confirmed_succeeded"
                                      ELSE "unknown_requires_review"
       IN  IF work[w].seen \/ work[w].tries >= MaxAttempts
           THEN IF Leased(w)
                THEN /\ Unlocked(n)
                     /\ row' = [row EXCEPT ![n] =
                                   VerdictRow(@, verdict, work[w].phase)]
                     /\ Step(w, "project")
                ELSE Stop(w) /\ UNCHANGED row
           ELSE /\ row' = IF Leased(w) THEN [row EXCEPT ![n] = RetryRow(@)] ELSE row
                /\ Stop(w)
    /\ UNCHANGED <<card, foreground>>

\* The siblings: while the latest attempt is open, the card waits for it.
Project(w) ==
    /\ work[w].pc = "project"
    /\ IF Settled
       THEN work' = [work EXCEPT ![w].pc = "promote",
                                 ![w].verdict = row[Latest].status]
       ELSE Stop(w)
    /\ UNCHANGED <<card, row, foreground>>

Promote(w) ==
    /\ work[w].pc = "promote"
    /\ card' = Promoted(work[w].try)
    /\ Step(w, "finalize")
    /\ UNCHANGED <<row, foreground>>

Finalize(w) ==
    /\ work[w].pc = "finalize"
    /\ card' = Finalized(card, work[w].verdict)
    /\ Step(w, "tail")
    /\ UNCHANGED <<row, foreground>>

Tail(w) ==
    /\ work[w].pc = "tail"
    /\ \E ok \in BOOLEAN :
         row' = [row EXCEPT ![work[w].try] =
                    ProjectedRow(@, work[w].phase, Ready(card, ok))]
    /\ Stop(w)
    /\ UNCHANGED <<card, foreground>>

Replay(w, n) ==
    /\ Idle(w)
    /\ row[n].status \in Verified
    /\ row[n].pending
    /\ Unlocked(n)
    /\ work' = [work EXCEPT ![w] = [AtRest EXCEPT !.pc = "project", !.try = n,
                                       !.phase = row[n].phase]]
    /\ UNCHANGED <<card, row, foreground>>

WorkStep(w) ==
    \/ Recover(w) \/ Claim(w) \/ LookUp(w) \/ Settle(w) \/ Project(w)
    \/ Promote(w) \/ Finalize(w) \/ Tail(w) \/ \E n \in Try : Replay(w, n)

(***************************************************************************)
(* Time and crashes                                                        *)
(***************************************************************************)

\* expires_at passes.
Age ==
    /\ card.live
    /\ card' = [card EXCEPT !.live = FALSE]
    /\ UNCHANGED <<click, rest>>

\* claim_expires_at passes, even under a heartbeat: a laptop may sleep.
Lapse ==
    /\ card.lease = "live"
    /\ card' = [card EXCEPT !.lease = "lapsed"]
    /\ UNCHANGED <<click, rest>>

Ripen(n) ==
    /\ row[n].status \in Outstanding
    /\ ~row[n].ripe
    /\ row' = [row EXCEPT ![n].ripe = TRUE]
    /\ UNCHANGED <<card, work, foreground>>

Crash ==
    /\ crashes < MaxCrash
    /\ crashes' = crashes + 1
    /\ click' = FALSE
    /\ job' = NoJob
    /\ work' = [w \in Worker |-> AtRest]
    /\ UNCHANGED <<card, journal, ledger, post>>

Next ==
    \/ Approve \/ Reject \/ ClickLate \/ ClickExpires
    \/ Invalidate \/ Cancel \/ Revoke \/ Expire
    \/ JobStep \/ Beat \/ Abandon
    \/ \E n \in Try : Apply(n) \/ Refuse(n) \/ Ripen(n)
    \/ \E w \in Worker : WorkStep(w)
    \/ Age \/ Lapse \/ Crash

Spec == Init /\ [][Next]_vars

(***************************************************************************)
(* Fairness.  Time passes; a lease nobody renews lapses; the stop worker   *)
(* expires cards every second, whatever the retarget worker is doing; the  *)
(* worker and the reconciliation carry on.  Nothing is assumed of the user *)
(* or the platform.                                                        *)
(***************************************************************************)
LapseUnrenewed == ~job.beat /\ Lapse

LiveSpec ==
    /\ Spec
    /\ WF_vars(Age) /\ WF_vars(LapseUnrenewed) /\ WF_vars(Expire)
    /\ WF_vars(JobStep)
    /\ \A n \in Try : WF_vars(Ripen(n))
    /\ \A w \in Worker :
         /\ SF_vars(Recover(w))
         /\ SF_vars(Claim(w))
         /\ \A n \in Try : SF_vars(Replay(w, n))
         /\ WF_vars(LookUp(w) \/ Project(w) \/ Promote(w) \/ Finalize(w) \/ Tail(w))
         /\ WF_vars(Settle(w))

(***************************************************************************)
(* Properties                                                              *)
(***************************************************************************)
MayTakeEffect(n) == post[n] \in {"flying", "applied"}

\* However often the card is pulled, its lease lapses, an attempt is repeated
\* or the process crashes, at most one of its POSTs created a control task or
\* still may (claim and fence in reserve_execution_intent, recovery_guard,
\* retryable only for an explicit refusal).
OneEffectivePost ==
    \A m, n \in Try : MayTakeEffect(m) /\ MayTakeEffect(n) => m = n

\* A card that waits, is offered to a worker, or ended as never executed has no
\* POST that created something or may: what was sent is not queued again when
\* the card or its lease runs out (_expire_local_tasks), nor reported as failed
\* (run_worker_loop).  One case of a failed card is left, which takes three
\* attempts: the verdict was read while the latest attempt was a refused one,
\* and a further attempt was sent before it reached the card (_finish_locked).
UnsentCards == {"pending", "approved_queued", "claimed", "rejected",
                "cancelled", "invalidated"}
Overtaken(n) ==
    \E k, m \in Try : /\ k < m /\ m < n
                      /\ row[k].status \in Verified
                      /\ row[m].status = "confirmed_failed"
UnsentIsUnsent ==
    \A n \in Try : MayTakeEffect(n) =>
        /\ card.st \notin UnsentCards
        /\ card.st = "failed" => Overtaken(n)

\* "An explicit failure that a safe retry replaced does not taint a successful
\* result": no card fails while an attempt may take effect.
FailedIsUnsent == card.st = "failed" => \A n \in Try : ~MayTakeEffect(n)

\* Success is only ever reported for a task the platform has, whichever attempt
\* the verdict came from (_finish_locked, finalize_reconciled_local_task).
SuccessIsReal == card.st = "succeeded" => \E n \in Try : post[n] = "applied"

\* Every card ends, crash or no crash, unless it is verifying and its last POST
\* was refused.
CardSettles ==
    <>(\/ card.st \in Final
       \/ card.st = "verifying" /\ row[Latest].status = "confirmed_failed")

\* "A terminal verdict may take over the expired card": the card of a confirmed
\* submission is reported as succeeded.
VerdictReachesCard ==
    (\E n \in Try : row[n].status = "confirmed_succeeded")
        ~> card.st = "succeeded"

\* A card in recovery ("the intent exists, verification is being resumed") is
\* given a final status.
RecoveryEnds == card.st = "verifying" ~> card.st \in Final
=============================================================================
