--------------------------- MODULE StopSubmission ---------------------------
(***************************************************************************)
(* Stopping a control task through the official API, end to end: the flow  *)
(* that reserves an intent and sends the POST, the platform, and the       *)
(* reconciliation workers that find out by GET what became of it.          *)
(*                                                                         *)
(* A stop cycle is one period in which a control task runs; all strategies *)
(* and all confirmed cards of a cycle share its base idempotency key.  In  *)
(* the application one flow at a time works on a control task, because     *)
(* both the automatic rule and the card worker hold _lock_for_assist_task  *)
(* over the whole of it: `flow[c]' is that flow.  A flow works for the     *)
(* automatic rule or for a confirmed card of the cycle, and the verdict of *)
(* an intent ends all cards that wait for its cycle.  The process may      *)
(* crash between any two steps; then the flows, the workers and the        *)
(* updates of cards that are due are lost; ledger, run records and cards   *)
(* stay.                                                                   *)
(***************************************************************************)
EXTENDS IntentLedger

CONSTANTS
    Cycle,        \* stop cycles (control task and resume period)
    Card,         \* confirmed stop cards
    NoCard,       \* no card: the automatic rule, task_uid of its intents
    CycleOf,      \* control_cycle_key of a card
    MaxTry,       \* bound: attempt keys of a cycle the model follows
    MaxAttempts,  \* _MAX_ATTEMPTS: look-ups before a human has to review
    MaxCrash,     \* bound: crashes of the process
    MaxSlow       \* bound: leases that lapse under a worker still at work,
                  \* and cards queued again

ASSUME ConstantsAssumption ==
    /\ Cycle # {}
    /\ NoCard \notin Card
    /\ CycleOf \in [Card -> Cycle]
    /\ MaxTry \in Nat \ {0}
    /\ MaxAttempts \in Nat \ {0}
    /\ MaxCrash \in Nat
    /\ MaxSlow \in Nat

VARIABLES
    row,       \* the ledger
    run,       \* pmc_regulation_run: records of a key still open, any at all
    flow,      \* the flow that holds the control task's lock
    work,      \* the reconciliation workers
    post,      \* the POST of a key: where it is
    posts,     \* the POST of a key: how often it was sent
    stopped,   \* the platform shows the control task as stopped
    card,      \* local_retarget_task.status of a stop card
    mail,      \* update_task_cards for a card is due in the executor
    task,      \* task_uid of a row: the card it was reserved for
    told,      \* card_update_state of a row is not (or no longer) 'pending'
    crashes,   \* crashes so far
    slow       \* leases lapsed and cards queued again so far

ledger == <<row, run>>
desk == <<card, mail, task, told>>
platform == <<post, stopped>>
budget == <<crashes, slow>>
vars == <<row, run, flow, work, post, posts, stopped, card, mail, task, told,
          crashes, slow>>

Try == 1 .. MaxTry
Key == Cycle \X Try

FlowPC == {"idle",     \* no flow on this control task
           "ready",    \* key resolved, intent not reserved
           "send",     \* intent reserved, POST not on the wire
           "wait",     \* POST on the wire
           "accept", "unsure", "reject",  \* outcome known to the flow only
           "run",      \* outcome in the ledger; run record not written
           "replay",   \* run record written; replay of the verdict due
           "report",   \* card not told the result
           "recheck"}  \* card verifying; replay for the card due

WorkPC == {"idle",
           "look",     \* row leased; GET not answered
           "settle",   \* GET answered
           "project",  \* verdict committed; run records not updated
           "cards",    \* run records updated; cards not
           "tail"}     \* cards updated; finalization_pending not

CardPC == {"queued",     \* approved_queued
           "executing",  \* claimed or executing, the claim is valid
           "lapsed",     \* claimed or executing, past its deadline
           "verifying",
           "settled",    \* ended by a verdict
           "reported"}   \* ended by a report, its expiry or a late click

\* The cards _terminal_projection_ready waits for.
Busy == {"executing", "lapsed", "verifying"}

Run == [open : BOOLEAN, any : BOOLEAN]
Flow == [pc : FlowPC, try : Try, card : Card \cup {NoCard}, open : BOOLEAN]
Work == [pc : WorkPC, key : Key, fence : Nat, tries : Nat,
         phase : Phase, seen : BOOLEAN]
Post == {"none", "flying", "applied", "refused"}

NoFlow == [pc |-> "idle", try |-> 1, card |-> NoCard, open |-> FALSE]
AtRest == [pc |-> "idle", key |-> CHOOSE k \in Key : TRUE, fence |-> 0,
           tries |-> 0, phase |-> "not_sent", seen |-> FALSE]

DeskOK ==
    /\ card \in [Card -> CardPC]
    /\ mail \in [Card -> BOOLEAN]
    /\ task \in [Key -> Card \cup {NoCard}]
    /\ told \in [Key -> BOOLEAN]

TypeOK ==
    /\ row \in [Key -> Row]
    /\ run \in [Key -> Run]
    /\ flow \in [Cycle -> Flow]
    /\ work \in [Worker -> Work]
    /\ post \in [Key -> Post]
    /\ posts \in [Key -> Nat]
    /\ stopped \in [Cycle -> BOOLEAN]
    /\ DeskOK
    /\ crashes \in 0 .. MaxCrash
    /\ slow \in 0 .. MaxSlow

Init ==
    /\ row = [k \in Key |-> Absent]
    /\ run = [k \in Key |-> [open |-> FALSE, any |-> FALSE]]
    /\ flow = [c \in Cycle |-> NoFlow]
    /\ work = [w \in Worker |-> AtRest]
    /\ post = [k \in Key |-> "none"]
    /\ posts = [k \in Key |-> 0]
    /\ stopped = [c \in Cycle |-> FALSE]
    /\ card = [d \in Card |-> "queued"]
    /\ mail = [d \in Card |-> FALSE]
    /\ task = [k \in Key |-> NoCard]
    /\ told = [k \in Key |-> FALSE]
    /\ crashes = 0
    /\ slow = 0

(***************************************************************************)
(* Cards                                                                   *)
(***************************************************************************)

\* A card leaves its claim or its wait; an update of its messages follows.
EndCard(d, st) ==
    /\ card' = [card EXCEPT ![d] = st]
    /\ mail' = [mail EXCEPT ![d] = TRUE]

\* report_local_stop_task with a terminal status: only under a valid claim.
ReportCard(d, st) ==
    IF d \in Card /\ card[d] = "executing"
    THEN EndCard(d, st)
    ELSE UNCHANGED <<card, mail>>

\* promote_reconciled_local_claim and finalize_reconciled_local_stop_cycle for
\* a verdict on k: the card of k whose claim lapsed ends, and so does every
\* card of the cycle that is verifying.
SettledCards(k) ==
    {d \in Card : \/ card[d] = "verifying" /\ CycleOf[d] = k[1]
                  \/ card[d] = "lapsed" /\ d = task[k]}
Settled(k) ==
    [d \in Card |-> IF d \in SettledCards(k) THEN "settled" ELSE card[d]]

\* The cards to update: those that end, or, if there are none, once more the
\* card of k if it bears this verdict (finalize_reconciled_local_task).
Mailed(k) ==
    [d \in Card |-> \/ mail[d]
                    \/ d \in SettledCards(k)
                    \/ SettledCards(k) = {} /\ d = task[k] /\ card[d] = "settled"]

\* The run records of k are also looked up without ":attempt:n".
Base(k) == <<k[1], 1>>

\* A plausible slip: a card that watches another one's intent is not asked for.
HastyReady(k, rn, cd) ==
    /\ \E j \in {k, Base(k)} : rn[j].any
    /\ \A j \in {k, Base(k)} : ~rn[j].open
    /\ task[k] # NoCard => told[k]
    /\ \A d \in Card : cd[d] \in Busy => d # task[k]

\* _terminal_projection_ready, for run records rn and cards cd.
Ready(k, rn, cd) ==
    /\ \E j \in {k, Base(k)} : rn[j].any
    /\ \A j \in {k, Base(k)} : ~rn[j].open
    /\ task[k] # NoCard => told[k]
    /\ \A d \in Card : cd[d] \in Busy => d # task[k] /\ CycleOf[d] # k[1]

\* _FINALIZATION_LOCKS: nobody is between a verdict and its projections.
Unlocked(k) ==
    \A w \in Worker : ~(work[w].pc \in {"project", "cards", "tail"} /\ work[w].key = k)

\* replay_terminal_reconciliations, for one row and in the foreground.
ReplayHere(k) ==
    /\ Unlocked(k)
    /\ run' = [run EXCEPT ![k].open = FALSE]
    /\ card' = Settled(k)
    /\ row' = [row EXCEPT ![k] =
                  ProjectedRow(@, @.phase, Ready(k, run', card'))]

(***************************************************************************)
(* The flow: _process_approved_stop_tasks or the automatic rule, with      *)
(* OfficialApiRegulationStopService.run between the resolution of the key  *)
(* and the run record.                                                     *)
(***************************************************************************)
KeyOf(c) == <<c, flow[c].try>>
At(c, pc) == flow[c].pc = pc
Goto(c, pc) == flow' = [flow EXCEPT ![c].pc = pc]
\* The result the service returns: `open' says that the run record will be
\* written with execution_state submitted_verifying.
Return(c, open) == flow' = [flow EXCEPT ![c].pc = "run", ![c].open = open]
Leave(c) == flow' = [flow EXCEPT ![c] = NoFlow]

\* A flow for a card goes on to report, any other one is over.
Recorded(c) == IF flow[c].card = NoCard THEN Leave(c) ELSE Goto(c, "report")

\* A confirmed card is claimed; it may retry an attempt that failed for certain.
\* The automatic rule always takes the base key.  The key is resolved after the
\* claim, under the lock; what happens in between makes no difference to it,
\* for only this cycle's flows open attempts or fail them.
Begin(c) ==
    /\ At(c, "idle")
    /\ \E d \in Card \cup {NoCard} :
         LET n == ResolveAttempt([m \in Try |-> row[<<c, m>>]], d # NoCard)
         IN  /\ d # NoCard => card[d] = "queued" /\ CycleOf[d] = c
             /\ n \in Try
             /\ flow' = [flow EXCEPT ![c] = [NoFlow EXCEPT !.pc = "ready",
                                                !.try = n, !.card = d]]
             /\ card' = [e \in Card |-> IF e = d THEN "executing" ELSE card[e]]
    /\ UNCHANGED <<ledger, work, platform, posts, mail, task, told, budget>>

\* Nothing is sent: the task is already stopped or expired on the platform, the
\* authorization, the selection, the strategy or the claim no longer hold, or a
\* read before the POST failed.  The run record is written closed, or none is
\* written and a card is told at once.
NoSubmission(c) ==
    /\ At(c, "ready")
    /\ \/ Return(c, FALSE) /\ UNCHANGED <<card, mail>>
       \/ Leave(c) /\ ReportCard(flow[c].card, "reported")
    /\ UNCHANGED <<ledger, work, platform, posts, task, told, budget>>

\* assert_valid_local_claim, in the transaction of the reservation.
Entitled(c) == flow[c].card # NoCard => card[flow[c].card] = "executing"

\* A plausible slip: the existing row is no longer looked up.
HeedlessReserve(c) ==
    /\ At(c, "ready")
    /\ Entitled(c)
    /\ row' = [row EXCEPT ![KeyOf(c)] = Reserved]
    /\ task' = [task EXCEPT ![KeyOf(c)] = flow[c].card]
    /\ Goto(c, "send")
    /\ UNCHANGED <<run, work, platform, posts, card, mail, told, budget>>

\* before_send: the intent is committed before the socket is opened.
Reserve(c) ==
    /\ At(c, "ready")
    /\ Entitled(c)
    /\ row[KeyOf(c)].status = "absent"
    /\ row' = [row EXCEPT ![KeyOf(c)] = Reserved]
    /\ task' = [task EXCEPT ![KeyOf(c)] = flow[c].card]
    /\ Goto(c, "send")
    /\ UNCHANGED <<run, work, platform, posts, card, mail, told, budget>>

\* before_send finds a row: _ExistingExecutionIntent.  The automatic rule stays
\* silent about an outstanding intent, the card worker records it.
Existing(c) ==
    /\ At(c, "ready")
    /\ Entitled(c)
    /\ LET st == row[KeyOf(c)].status
       IN  /\ st # "absent"
           /\ IF st \in Outstanding /\ flow[c].card = NoCard
              THEN Leave(c)
              ELSE Return(c, st \in Outstanding)
    /\ UNCHANGED <<ledger, work, platform, posts, desk, budget>>

\* urlopen writes the request; from here on it may take effect.
Send(c) ==
    /\ At(c, "send")
    /\ post' = [post EXCEPT ![KeyOf(c)] = "flying"]
    /\ posts' = [posts EXCEPT ![KeyOf(c)] = @ + 1]
    /\ Goto(c, "wait")
    /\ UNCHANGED <<ledger, work, stopped, desk, budget>>

\* urlopen fails before the request leaves the machine.  The client cannot
\* tell and reports ApiWriteOutcomeUnknown like any other OSError.
SendFails(c) ==
    /\ At(c, "send")
    /\ Goto(c, "unsure")
    /\ UNCHANGED <<ledger, work, platform, posts, desk, budget>>

\* A plausible slip: a timeout counts as a refusal.
HastyVerdictOf(p) ==
    CASE p = "applied" -> {"accept", "reject"}
      [] p = "refused" -> {"reject"}
      [] OTHER -> {"reject"}

\* What the flow may learn of a POST in state p.  A 5xx, an unreadable or
\* transient answer and a timeout all say nothing (ApiWriteOutcomeUnknown);
\* only an explicit refusal is an ApiRequestError of another kind.
VerdictOf(p) ==
    CASE p = "applied" -> {"accept", "unsure"}
      [] p = "refused" -> {"reject", "unsure"}
      [] OTHER -> {"unsure"}

Answer(c) ==
    /\ At(c, "wait")
    /\ \E v \in VerdictOf(post[KeyOf(c)]) : Goto(c, v)
    /\ UNCHANGED <<ledger, work, platform, posts, desk, budget>>

\* The phase accept and handle_error carry into the ledger.
PhaseOf(pc) == IF pc = "accept" THEN "accepted" ELSE "unknown"

\* reconcile: the intent goes to the workers.
BookOutcome(c) ==
    /\ flow[c].pc \in {"accept", "unsure"}
    /\ row' = [row EXCEPT ![KeyOf(c)] = EnqueueRow(@, PhaseOf(flow[c].pc))]
    /\ Return(c, TRUE)
    /\ UNCHANGED <<run, work, platform, posts, desk, budget>>

\* reconcile: enqueueing failed, the smaller write succeeded.
BookPhaseOnly(c) ==
    /\ flow[c].pc \in {"accept", "unsure"}
    /\ row' = [row EXCEPT ![KeyOf(c)] = RecordRow(@, PhaseOf(flow[c].pc))]
    /\ Return(c, TRUE)
    /\ UNCHANGED <<run, work, platform, posts, desk, budget>>

\* handle_error: an explicit refusal of a reserved intent.
BookRefusal(c) ==
    /\ At(c, "reject")
    /\ row' = [row EXCEPT ![KeyOf(c)] = RecordRow(@, "rejected")]
    /\ Return(c, FALSE)
    /\ UNCHANGED <<run, work, platform, posts, desk, budget>>

\* No ledger write succeeded; the committed intent is all that remains.
BookNothing(c) ==
    /\ flow[c].pc \in {"accept", "unsure", "reject"}
    /\ Return(c, flow[c].pc # "reject")
    /\ UNCHANGED <<ledger, work, platform, posts, desk, budget>>

\* _insert_regulation_run.  An open record is followed by a replay.
RecordRun(c) ==
    /\ At(c, "run")
    /\ run' = [run EXCEPT ![KeyOf(c)].any = TRUE,
                          ![KeyOf(c)].open = @ \/ flow[c].open]
    /\ IF flow[c].open THEN Goto(c, "replay") ELSE Recorded(c)
    /\ UNCHANGED <<row, work, platform, posts, desk, budget>>

\* The insertion raised: the handler tells the card that it failed.
RecordRunFails(c) ==
    /\ At(c, "run")
    /\ Leave(c)
    /\ ReportCard(flow[c].card, "reported")
    /\ UNCHANGED <<ledger, work, platform, posts, task, told, budget>>

\* replay_terminal_reconciliations for this key: a verdict that came first is
\* applied to the run record just written, while the card is still executing.
ReplayOwn(c) ==
    /\ At(c, "replay")
    /\ IF row[KeyOf(c)].status \in Verified
       THEN ReplayHere(KeyOf(c)) /\ mail' = Mailed(KeyOf(c))
       ELSE UNCHANGED <<ledger, card, mail>>
    /\ Recorded(c)
    /\ UNCHANGED <<work, platform, posts, task, told, budget>>

\* The replay raised; _insert_regulation_run logs it and goes on.
ReplayOwnFails(c) ==
    /\ At(c, "replay")
    /\ Recorded(c)
    /\ UNCHANGED <<ledger, work, platform, posts, desk, budget>>

\* report_local_stop_task: "verifying" for an open result, else the result.
Report(c) ==
    /\ At(c, "report")
    /\ LET d == flow[c].card
       IN  IF flow[c].open /\ card[d] = "executing"
           THEN /\ card' = [card EXCEPT ![d] = "verifying"]
                /\ Goto(c, "recheck")
                /\ UNCHANGED mail
           ELSE ReportCard(d, "reported") /\ Leave(c)
    /\ UNCHANGED <<ledger, work, platform, posts, task, told, budget>>

\* The rows this card reserved that have a verdict to replay.
Replayed(d) == {k \in Key : task[k] = d /\ row[k].status \in Verified}

\* The report's own replay, and the update of the card after it.
Recheck(c) ==
    /\ At(c, "recheck")
    /\ LET d == flow[c].card
       IN  \/ \E k \in Replayed(d) :
                ReplayHere(k) /\ mail' = [Mailed(k) EXCEPT ![d] = TRUE]
           \/ /\ Replayed(d) = {}
              /\ mail' = [mail EXCEPT ![d] = TRUE]
              /\ UNCHANGED <<ledger, card>>
    /\ Leave(c)
    /\ UNCHANGED <<work, platform, posts, task, told, budget>>

\* It raised; a second report is turned away by a card that is verifying.
RecheckFails(c) ==
    /\ At(c, "recheck")
    /\ Leave(c)
    /\ UNCHANGED <<ledger, work, platform, posts, desk, budget>>

FlowStep(c) ==
    \/ Begin(c) \/ NoSubmission(c) \/ Reserve(c) \/ Existing(c)
    \/ Send(c) \/ SendFails(c) \/ Answer(c)
    \/ BookOutcome(c) \/ BookPhaseOnly(c) \/ BookRefusal(c) \/ BookNothing(c)
    \/ RecordRun(c) \/ RecordRunFails(c) \/ ReplayOwn(c) \/ ReplayOwnFails(c)
    \/ Report(c) \/ Recheck(c) \/ RecheckFails(c)

(***************************************************************************)
(* The platform                                                            *)
(***************************************************************************)
Apply(k) ==
    /\ post[k] = "flying"
    /\ post' = [post EXCEPT ![k] = "applied"]
    /\ stopped' = [stopped EXCEPT ![k[1]] = TRUE]
    /\ UNCHANGED <<ledger, flow, work, posts, desk, budget>>

Refuse(k) ==
    /\ post[k] = "flying"
    /\ post' = [post EXCEPT ![k] = "refused"]
    /\ UNCHANGED <<ledger, flow, work, posts, stopped, desk, budget>>

\* The task is paused by hand or reaches its natural end.
EndsByItself(c) ==
    /\ ~stopped[c]
    /\ stopped' = [stopped EXCEPT ![c] = TRUE]
    /\ UNCHANGED <<ledger, flow, work, post, posts, desk, budget>>

(***************************************************************************)
(* The reconciliation workers, _loop                                       *)
(***************************************************************************)
Idle(w) == work[w].pc = "idle"

\* recover_interrupted_submissions: one transaction over all rows.
Recover(w) ==
    /\ Idle(w)
    /\ \E k \in Key : Interrupted(row[k])
    /\ row' = [k \in Key |-> RecoverRow(row[k])]
    /\ UNCHANGED <<run, flow, work, platform, posts, desk, budget>>

\* _claim_one: lapsed leases are returned and one due row is leased, in one
\* transaction.
Claim(w) ==
    /\ Idle(w)
    /\ LET back == [k \in Key |-> LapseRow(row[k])]
       IN  \E k \in Key :
             /\ Due(back[k])
             /\ row' = [back EXCEPT ![k] = ClaimRow(@, w)]
             /\ work' = [work EXCEPT ![w] =
                   [pc |-> "look", key |-> k, fence |-> back[k].fence + 1,
                    tries |-> back[k].tries + 1, phase |-> back[k].phase,
                    seen |-> FALSE]]
    /\ UNCHANGED <<run, flow, platform, posts, desk, budget>>

\* _verify_one, the GET.  It may fail, or not show the stop yet.
LookUp(w) ==
    /\ work[w].pc = "look"
    /\ \E seen \in {FALSE, stopped[work[w].key[1]]} :
         work' = [work EXCEPT ![w].pc = "settle", ![w].seen = seen]
    /\ UNCHANGED <<ledger, flow, platform, posts, desk, budget>>

Leased(w) == HoldsLease(row[work[w].key], w, work[w].fence)

\* _finish with verdict st.  A worker that lost its lease changes nothing.
Decide(w, st) ==
    /\ IF Leased(w)
       THEN /\ Unlocked(work[w].key)
            /\ row' = [row EXCEPT ![work[w].key] =
                          VerdictRow(@, st, work[w].phase)]
            /\ told' = [told EXCEPT ![work[w].key] = FALSE]
            /\ work' = [work EXCEPT ![w].pc = "project"]
       ELSE /\ work' = [work EXCEPT ![w] = AtRest]
            /\ UNCHANGED <<row, told>>
    /\ UNCHANGED <<run, flow, platform, posts, card, mail, task, budget>>

Confirm(w) ==
    /\ work[w].pc = "settle"
    /\ work[w].seen
    /\ Decide(w, "confirmed_succeeded")

\* _retry with the attempts used up.
GiveUp(w) ==
    /\ work[w].pc = "settle"
    /\ ~work[w].seen
    /\ work[w].tries >= MaxAttempts
    /\ Decide(w, "unknown_requires_review")

Retry(w) ==
    /\ work[w].pc = "settle"
    /\ ~work[w].seen
    /\ work[w].tries < MaxAttempts
    /\ row' = IF Leased(w)
              THEN [row EXCEPT ![work[w].key] = RetryRow(@)]
              ELSE row
    /\ work' = [work EXCEPT ![w] = AtRest]
    /\ UNCHANGED <<run, flow, platform, posts, desk, budget>>

\* _finish_locked after the commit: the open run records of the key close.
Project(w) ==
    /\ work[w].pc = "project"
    /\ run' = [run EXCEPT ![work[w].key].open = FALSE]
    /\ work' = [work EXCEPT ![w].pc = "cards"]
    /\ UNCHANGED <<row, flow, platform, posts, desk, budget>>

\* _finish_locked: the cards that wait for the verdict end.
SettleCards(w) ==
    /\ work[w].pc = "cards"
    /\ card' = Settled(work[w].key)
    /\ mail' = Mailed(work[w].key)
    /\ work' = [work EXCEPT ![w].pc = "tail"]
    /\ UNCHANGED <<ledger, flow, platform, posts, task, told, budget>>

\* _finish_locked, the end: have run records and cards taken the verdict?
Tail(w) ==
    /\ work[w].pc = "tail"
    /\ LET k == work[w].key
       IN  row' = [row EXCEPT ![k] =
             ProjectedRow(@, work[w].phase, Ready(k, run, card))]
    /\ work' = [work EXCEPT ![w] = AtRest]
    /\ UNCHANGED <<run, flow, platform, posts, desk, budget>>

\* A plausible slip: only a key that nobody records can be replayed.
ReplayUnrecorded(w, k) ==
    /\ Idle(w)
    /\ row[k].status \in Verified
    /\ row[k].pending /\ ~run[k].any
    /\ Unlocked(k)
    /\ work' = [work EXCEPT ![w] = [AtRest EXCEPT !.pc = "project", !.key = k,
                                       !.phase = row[k].phase]]
    /\ UNCHANGED <<ledger, flow, platform, posts, desk, budget>>

\* replay_terminal_reconciliations from the loop: pending verdicts only.
Replay(w, k) ==
    /\ Idle(w)
    /\ row[k].status \in Verified
    /\ row[k].pending
    /\ Unlocked(k)
    /\ work' = [work EXCEPT ![w] = [AtRest EXCEPT !.pc = "project", !.key = k,
                                       !.phase = row[k].phase]]
    /\ UNCHANGED <<ledger, flow, platform, posts, desk, budget>>

WorkStep(w) ==
    \/ Recover(w) \/ Claim(w) \/ LookUp(w) \/ Confirm(w) \/ GiveUp(w)
    \/ Retry(w) \/ Project(w) \/ SettleCards(w) \/ Tail(w)
    \/ \E k \in Key : Replay(w, k)

(***************************************************************************)
(* The cards' own life                                                     *)
(***************************************************************************)

\* claim_expires_at or expires_at passes.
LapseClaim(d) ==
    /\ card[d] = "executing"
    /\ card' = [card EXCEPT ![d] = "lapsed"]
    /\ UNCHANGED <<ledger, flow, work, platform, posts, mail, task, told, budget>>

\* The card reserved an intent that may have been sent.
HasIntent(d) ==
    \E k \in Key : task[k] = d /\ row[k].status \in Outstanding \cup Verified

\* _expire_local_tasks, one card: recovered, expired, or queued again.
Expire(d) ==
    /\ card[d] = "lapsed"
    /\ \/ HasIntent(d) /\ EndCard(d, "verifying") /\ UNCHANGED slow
       \/ ~HasIntent(d) /\ EndCard(d, "reported") /\ UNCHANGED slow
       \/ /\ ~HasIntent(d)
          /\ slow < MaxSlow /\ slow' = slow + 1
          /\ EndCard(d, "queued")
    /\ UNCHANGED <<ledger, flow, work, platform, posts, task, told, crashes>>

\* The card expires in the queue, is cancelled, or handle_local_card_action
\* meets it after its expiry.  The click's UPDATE does not ask what became of
\* the row it read, so that it may come at any time after.
Withdraw(d) ==
    /\ card[d] # "reported"
    /\ EndCard(d, "reported")
    /\ UNCHANGED <<ledger, flow, work, platform, posts, task, told, budget>>

\* update_task_cards ends with _refresh_reconciliation_card_update_state.
Deliver(d) ==
    /\ mail[d]
    /\ mail' = [mail EXCEPT ![d] = FALSE]
    /\ told' = [k \in Key |-> told[k] \/ k \in Replayed(d)]
    /\ UNCHANGED <<ledger, flow, work, platform, posts, card, task, budget>>

CardStep(d) == LapseClaim(d) \/ Expire(d) \/ Withdraw(d) \/ Deliver(d)

(***************************************************************************)
(* Time and crashes                                                        *)
(***************************************************************************)

\* Somebody still works under the lease of row k.
InHand(k) == \E w \in Worker : /\ work[w].pc \in {"look", "settle"}
                               /\ work[w].key = k
                               /\ HoldsLease(row[k], w, work[w].fence)

\* The row's deadline passes.  A deadline bounds nothing: a sleeping laptop
\* outlasts 90 seconds in the middle of any step.
Ripen(k) ==
    /\ row[k].status \in Outstanding
    /\ ~row[k].ripe
    /\ IF InHand(k) THEN slow < MaxSlow /\ slow' = slow + 1
                    ELSE UNCHANGED slow
    /\ row' = [row EXCEPT ![k].ripe = TRUE]
    /\ UNCHANGED <<run, flow, work, platform, posts, desk, crashes>>

Crash ==
    /\ crashes < MaxCrash
    /\ crashes' = crashes + 1
    /\ flow' = [c \in Cycle |-> NoFlow]
    /\ work' = [w \in Worker |-> AtRest]
    /\ mail' = [d \in Card |-> FALSE]
    /\ UNCHANGED <<ledger, platform, posts, card, task, told, slow>>

Next ==
    \/ \E c \in Cycle : FlowStep(c) \/ EndsByItself(c)
    \/ \E k \in Key : Apply(k) \/ Refuse(k) \/ Ripen(k)
    \/ \E w \in Worker : WorkStep(w)
    \/ \E d \in Card : CardStep(d)
    \/ Crash

Spec == Init /\ [][Next]_vars

(***************************************************************************)
(* Fairness.  Time passes; a worker that has begun a row carries on; every *)
(* turn of _loop runs recover, replay and _claim_one one after the other,  *)
(* so none of the three is starved by the others.  Every turn of the rule  *)
(* loop begins with _expire_local_tasks, and the executor runs the updates *)
(* it was given.  Nothing is assumed of the flow or of the platform.       *)
(***************************************************************************)
WorkerFairness ==
    /\ \A k \in Key : WF_vars(Ripen(k))
    /\ \A w \in Worker :
         /\ SF_vars(Recover(w))
         /\ SF_vars(Claim(w))
         /\ \A k \in Key : SF_vars(Replay(w, k))
         /\ WF_vars(LookUp(w) \/ Confirm(w) \/ GiveUp(w) \/ Retry(w)
                       \/ Project(w) \/ SettleCards(w) \/ Tail(w))

CardFairness ==
    \A d \in Card : /\ WF_vars(LapseClaim(d) \/ Expire(d))
                    /\ WF_vars(Deliver(d))

\* The flow too carries on once it has an outcome to write down.
FlowFairness ==
    \A c \in Cycle :
        /\ WF_vars(BookOutcome(c) \/ BookPhaseOnly(c) \/ BookRefusal(c)
                                  \/ BookNothing(c))
        /\ WF_vars(RecordRun(c) \/ RecordRunFails(c))
        /\ WF_vars(ReplayOwn(c) \/ ReplayOwnFails(c))
        /\ WF_vars(Report(c))
        /\ WF_vars(Recheck(c) \/ RecheckFails(c))

LiveSpec == Spec /\ WorkerFairness /\ CardFairness
FairSpec == LiveSpec /\ FlowFairness

(***************************************************************************)
(* Safety                                                                  *)
(***************************************************************************)

\* No idempotency key is ever POSTed twice, whatever crashes, lapsed leases,
\* lost answers and later flows over the same key there are
\* (reserve_execution_intent, before_send).
PostOnce == \A k \in Key : posts[k] <= 1

\* confirmed_failed is the one status that opens the way to another POST of the
\* cycle, so it is only ever given to a POST the platform refused: a lost
\* answer or a crash never counts as a failure (handle_error,
\* record_execution_submission_phase).
FailedMeansRefused ==
    \A k \in Key : row[k].status = "confirmed_failed" => post[k] = "refused"

\* At most one POST of a cycle has stopped or may still stop the control task,
\* counted over all of its attempt keys (resolve_stop_idempotency_key together
\* with the submission phases).
MayTakeEffect(k) == post[k] \in {"flying", "applied"}
OneStopPerCycle ==
    \A c \in Cycle : \A m, n \in Try :
        MayTakeEffect(<<c, m>>) /\ MayTakeEffect(<<c, n>>) => m = n

\* A row handed to GET-only verification says that a POST may exist: its phase
\* is accepted or unknown, never sending and never rejected, although flow,
\* recovery and worker all write the phase (enqueue_execution_reconciliation,
\* recover_interrupted_submissions, _finish).
VerificationHasEvidence ==
    \A k \in Key : row[k].status \in {"submitted", "verifying"} \cup Verified
                      => row[k].phase \in {"accepted", "unknown"}

\* What holds of every step's end and makes the four facts above inductive.
Evidence == {"accepted", "unknown"}
Sound(r) ==
    /\ r.status \in {"submitted", "verifying"} \cup Verified => r.phase \in Evidence
    /\ r.status = "absent" => r.phase = "not_sent"

\* The ledger: an intent precedes its POST, and attempts are made in order.
LedgerInv ==
    /\ \A k \in Key : /\ Sound(row[k])
                      /\ posts[k] = IF post[k] = "none" THEN 0 ELSE 1
                      /\ post[k] # "none" => row[k].status # "absent"
    /\ \A c \in Cycle : \A m, n \in Try :
          m < n /\ row[<<c, n>>].status # "absent"
              => row[<<c, m>>].status = "confirmed_failed"

\* The flow: what it knows is true, and it starts no attempt out of turn.
FlowFact(c) ==
    /\ At(c, "ready") =>
          \A m \in Try : m < flow[c].try => row[<<c, m>>].status = "confirmed_failed"
    /\ flow[c].pc \in {"send", "wait", "accept", "unsure", "reject"}
          => row[KeyOf(c)].status # "absent"
    /\ At(c, "send") => post[KeyOf(c)] = "none"
    /\ At(c, "accept") => post[KeyOf(c)] = "applied"
    /\ At(c, "reject") => post[KeyOf(c)] = "refused"

\* The workers: a snapshot of a row carries evidence of a POST.
WorkFact(w) ==
    work[w].pc # "idle" => /\ work[w].phase \in Evidence
                           /\ row[work[w].key].status # "absent"

\* The reservation, the flow's knowledge and the workers' snapshots agree with
\* what is on the wire: no interleaving of flow, recovery and verification
\* leaves a POST without its intent or an attempt opened out of turn.
SubmissionInv ==
    /\ FailedMeansRefused
    /\ LedgerInv
    /\ \A c \in Cycle : FlowFact(c)
    /\ \A w \in Worker : WorkFact(w)

(***************************************************************************)
(* What a step may never do                                                *)
(***************************************************************************)

\* A verdict is final: a flow that answers late, a recovery and a worker whose
\* lease lapsed and was taken over leave it alone (the fencing token).
VerdictIsFinal ==
    [][\A k \in Key : row[k].status \in Terminal
                         => row'[k].status = row[k].status]_vars

\* Monotonic evidence: what was accepted or unknown never becomes rejected, nor
\* looks unsent again (record_execution_submission_phase).
EvidenceIsMonotonic ==
    [][\A k \in Key : row[k].phase \in {"accepted", "unknown"}
                         => row'[k].phase \in {"accepted", "unknown"}]_vars

\* The result of a submission is never downgraded: once the ledger knows that
\* the platform accepted the POST it keeps knowing it.
AcceptedIsKept ==
    [][\A k \in Key : row[k].phase = "accepted"
                         => row'[k].phase = "accepted"]_vars

(***************************************************************************)
(* Liveness                                                                *)
(***************************************************************************)

\* Every reserved intent gets a verdict, however often the process crashed and
\* wherever the flow was at that moment.
IntentSettles ==
    \A k \in Key : row[k].status \in Outstanding ~> row[k].status \in Terminal

\* A verdict whose run record exists is not replayed for ever: run record, the
\* card of the intent, the cards that watch the cycle and the update of the
\* card's messages all take it, in whatever order flow, worker, expiry and
\* crash come, and its finalization_pending mark goes away.  The one exception
\* is a card that ended in another way before it was told.
ToldOtherwise(k) ==
    task[k] # NoCard /\ card[task[k]] = "reported" /\ ~told[k]
ProjectionDrains ==
    \A k \in Key : row[k].pending /\ run[k].any
                      ~> ~row[k].pending \/ ToldOtherwise(k)

\* No confirmed card is left executing or verifying: whether it reserved the
\* intent of its cycle or only watches it, whether the verdict comes before,
\* between or after its reports, and whoever crashes, it ends or is queued
\* again (_terminal_projection_ready keeps the verdict pending for it).  The one
\* exception is a card that expired while its POST was on the wire, which was
\* then refused: nothing carries confirmed_failed to it.
RefusedLate(d) == \E k \in Key : task[k] = d /\ row[k].status = "confirmed_failed"
CardsEnd ==
    \A d \in Card : card[d] \in Busy ~> card[d] \notin Busy \/ RefusedLate(d)

\* "The durable pending projection is retried by reconciliation": an open run
\* record is closed in the end even if the flow's own replay failed.
OpenRunCloses == \A k \in Key : run[k].open ~> ~run[k].open

(***************************************************************************)
(* Refinement                                                              *)
(***************************************************************************)
VerdictFor(st) ==
    CASE st = "absent" -> "none"
      [] st \in Outstanding -> "open"
      [] st = "confirmed_succeeded" -> "succeeded"
      [] st = "confirmed_failed" -> "failed"
      [] st = "unknown_requires_review" -> "review"

Abstract == INSTANCE StopAttempts
    WITH verdict <- [k \in Key |-> VerdictFor(row[k].status)],
         request <- post

\* The ledger, the flow and the workers together make attempts one after
\* another, each with one request and one verdict.
ImplementsAttempts == Abstract!Spec
=============================================================================
