# Verification of the Qianchuan desktop tool

The repository is a desktop tool that watches advertising campaigns on the Qianchuan
platform, decides by rules when to create ("retarget") or stop control tasks, asks a
person for confirmation through Feishu cards, submits the change through the platform's
open API and finds out afterwards what became of it. Almost everything that is hard in it
has one cause: a POST that cannot be taken back runs between a SQLite database, several
threads, a process that may be killed, and two remote services whose answers get lost.

This directory holds TLA+ modules of the parts where that matters, TLC runs over small
instances, and TLAPS proofs that hold for every value of the constants. `PROJECT.json`
is the index: components, runs, the source lines of every definition, a plausible bug for
every property, hazards, findings and theorems.

To repeat: `tlc -config X.cfg M` for a run listed below, `tlapm M_proofs.tla` for a proof.

Contents: 1 inventory, 2 modules, 3 how the models correspond to the code, 4 runs and
bounds, 5 fairness, 6 proofs, 7 disagreements found, 8 assumptions, 9 not modelled, 10 plan.

## 1. Inventory

Paths are relative to `src/qcsckp-desktop/`.

### Submission intents — `services/official_api_execution.py`, `services/official_api_reconciliation.py`, `services/qianchuan_open_api/client.py`
*State.* `execution_reconciliation`: one row per idempotency key with status, phase,
lease, fencing token, attempts, payload (`finalization_pending`, `terminal_result`,
`submission_claim`). *Operations.* `resolve_stop_idempotency_key`,
`reserve_execution_intent`, `record_execution_submission_phase`,
`enqueue_execution_reconciliation`, the POST itself, `handle_error`. *Interacts* with the
rule runners and the card worker (callers), the reconciliation worker (shared rows) and
the platform. *Hard:* a lost answer, a crash between "sending" and the booking, a slow
answer that arrives after another thread has decided the row. *Correct when* no key is
POSTed twice, an attempt is only repeated after a certain refusal, evidence of a POST is
never lost and each intent gets a verdict.

### Reconciliation worker — `services/official_api_reconciliation.py`
*State.* The same rows, plus the run records it closes. *Operations.*
`recover_interrupted_submissions`, `_claim_one`, `_verify_one`, `_retry`, `_finish`,
`replay_terminal_reconciliations`. *Hard:* verdicts written from a payload read earlier,
projection in several transactions, cards that report after the verdict was projected, leases
of 90 s that a sleeping laptop outlasts (the process has one thread for them, so that only a
second process would take over). *Correct when* verdicts are final, based on evidence, and
reach the run record, the card of the intent and the cards that watch its cycle.

### Cards, claims and the desktop task worker — `services/local_feishu_bridge.py`, `services/retarget_task_worker.py`
*State.* `local_retarget_task` (status, expiry, claim token, claim lease, fence), the
journal `cloud_retarget_task_local`. *Operations.* click (approve, reject), invalidate,
cancel, revoke, expire, pull, heartbeat, confirm, execute, journal, report, finalize.
*Hard:* the expiry thread runs every second beside the worker about to POST; a click
decides on a row read earlier; a crash between journal and report. *Correct when* at most
one POST of a card takes effect, a sent card is never queued again or ended as never
executed, success is real and every card ends.

### Feishu outbox — `services/local_feishu_bridge.py`
*State.* `feishu_outbox` (status, attempts, lease, fencing token, frozen content, UUID),
the message list of the task, lane locks, audience lock. *Operations.*
`_deliver_outbox_once`, `_patch_latest_task_card`, `update_task_cards`, `_update_profile`.
*Hard:* receipts that get lost, leases of 60 s, patches from two threads, recipients removed
meanwhile. *Correct when* one recipient gets one message, it never goes back in time, it
catches up, and a removed recipient sees nothing new.

### Rule wake-up — `services/rule_wakeup.py` and both rule runners
*State.* a coalesced batch for each loop, a queue of one token. *Hard:* batch and token are
two structures filled and emptied one after the other by different threads. *Correct when*
nothing that was committed is lost or taken for evaluated.

### Browser operation lock — `services/promotion_browser_lock.py`
*State.* `_WAITERS`, `_ACTIVE`, a condition variable, a thread per waiting coroutine.
*Hard:* cancellation while the thread wins; priorities with a starvation limit that each
woken thread computes with its own clock. *Correct when* there is one holder, no orphaned
lock, no dead ticket, and everybody gets an answer.

### Stop cycles and stop rule runner — `services/regulation_rule_runner.py`, `control_task_cycle.py`, `regulation_service.py`
*State.* the cycle identity of a control task, run records. *Hard:* identity over a resume
of the task; a run record inserted around the verdict of its key.

### Retarget rule runner, rate limits, budget increase — `services/retargeting_rule_runner.py`, `retargeting_service.py`, `retarget_budget_increase.py`, `product_rule_engine.py`
*State.* rate-limit records, targets blocked because a record could not be written.
*Hard:* the POST succeeded and its bookkeeping failed; arithmetic at the platform's limits.

### Open API client and token provider — `services/qianchuan_open_api/`
*State.* One authorization file: bundle with revision, generation of the authorization,
access token with its expiry, refresh token, a pending authorization. *Operations.*
`get_token` (coalesced refresh), saving credentials, begin and finish of an authorization,
disconnect, unbind, and the announcement of a change to collector, catalog and accounts.
*Hard:* a refresh or an exchange is on the wire while the user decides otherwise; a refresh
token may be used once; announcements are made after the lock was given back. *Correct when*
the user's last decision stands, a grant is only used up when that cannot be helped, and no
evidence of an earlier grant authorizes anything under a later one.

### Official API collection — `services/official_api_collection.py`, `collection_lifecycle.py`, `material_backfill.py`, `control_metric_collection.py`
*State.* `collection_job` (status, due time, priority, lease, fencing token), the generation
and the contexts of the lifecycle, pending requests in memory. *Operations.* the scheduler
loop (take pending, enqueue, claim, submit, wait, book), the worker up to its fenced commit,
requests of the user, recovery by the watchdog, stop, a changed authorization. *Hard:* no
thread can be killed, so one that was given up still runs and wants to commit; a request reads
the job before it writes it. *Correct when* a snapshot is only replaced by a later one, is
committed under the authorization it was read with, catches up after failures, and no request
is swallowed.

### Operation logs — `services/official_api_operation_logs.py`, `operation_log_monitor.py`, `operation_daily_report.py`
*State.* `operation_log_sync_window` rows (increments, days, pieces), the coverage that is
shown. *Operations.* the scheduler's pass (increments, history, repairs, verification phases,
pruning), claim, read, ingest, finish, split, requests, settings. *Hard:* a window is split
while others of the same day complete, is cancelled or lost, and phases fall due meanwhile.
*Correct when* coverage was read, is never taken back, and a missed phase is read or stays
visibly failed.

### Production V1A — `production_v1a/`
A second generation of the back end that only tests start so far: job queue, leases,
candidates, its own Feishu outbox. *Hard:* leases that lapse at the end of a handler.

### Runtime supervisor — `services/runtime_supervisor.py`, `startup_bootstrap.py`, `gui_app.py`
*State.* The registry of services with their threads, `_active`, `_started`, the stop event,
the lifecycle lock, the pauses of recovery, the health. *Operations.* start with rollback,
stop, watchdog, recovery of the collection, resume of the saved monitoring. *Hard:* a restart
that was decided before a stop; a starter that fails half way; a stop that waits for a thread
that waits for the lock. *Correct when* nothing survives a stop that is reported complete, a
dead service comes back and every stop returns.

### Accounts and authorization, license client, legacy browser back end, cloud retarget tasks (PHP), storage, dashboards, user interface
Selected accounts and their revocation; signed licenses; page automation that the official
API replaced; the server-side predecessor of the cards; queries and formatting.

### How they interact
Collectors commit snapshots and wake the rule loops. A rule loop submits at once or creates
a card; a click releases the card to the desktop worker, which submits. Both go through the
intents. The reconciliation worker decides what was sent and carries verdicts to run records
and cards; each change of a card goes through the outbox. Everything is threads of one
process over one SQLite file: a transaction is an atomic step, and whatever lies between two
transactions can be interleaved or cut off by a crash.

## 2. Modules

| Module | Lines of code it stands for | Role |
|---|---|---|
| `IntentLedger` | row operations of `execution_reconciliation` | data module: states and row operators, shared by the next and `RetargetCard` |
| `StopSubmission` | flow, POST, ledger, run records, cards, workers for stops | detailed specification |
| `StopAttempts` | – | abstract specification: attempts one after another, one request and one verdict each |
| `RetargetCard` | card, claim, desktop worker, journal, intents, reconciliation | composes `IntentLedger` with the life of a card |
| `CardDelivery` | outbox, first delivery, patches, withdrawal | detailed specification |
| `CardMessage` | – | abstract specification: one message, which only turns to later states and rests after a withdrawal |
| `RuleWakeup` | batches, token queue, both loops | detailed specification (`WakeSpec`) |
| `BrowserLock` | lock, waiting threads, coroutines | detailed specification |
| `CollectionQueue` | collector of one plan: loop, job, worker, requests, keeper, authorization | detailed specification |
| `TokenStore` | authorization file, requests, pages, announcements, catalog | detailed specification |
| `RuntimeSupervisor` | supervisor, its threads, its callers | detailed specification |
| `LogWindows` | windows, scheduler and worker of the operation log, coverage | detailed specification |
| `StopSubmission_proofs`, `RetargetCard_proofs`, `CardDelivery_proofs`, `RuleLoop_proofs` (lock and wake-up), `CollectionQueue_proofs`, `TokenStore_proofs`, `RuntimeSupervisor_proofs`, `LogWindows_proofs` | – | TLAPS proofs |
| `MCRuleLoop` | – | instance for TLC that composes `RuleWakeup` and `BrowserLock`, what a rule loop waits for |
| `MC…` | – | the other instances for TLC |

Definitions introduced by "A plausible slip" are altered forms of the definition that
follows. The specifications do not use them; they show for each property a mistake in the
code that it would reveal.

## 3. How the models correspond to the code

**IntentLedger.** `Row` is a row of the ledger. Each operator is one UPDATE with its WHERE:
`RecordRow` keeps the phase monotonic, `RecoverRow` makes an interrupted submission
verifiable or failed according to its phase, `ClaimRow` raises the fencing token,
`HoldsLease` is the condition under which a worker's write counts, `VerdictRow` writes the
verdict with the payload the worker had read. `ripe` abstracts the times a row becomes due.

**StopSubmission.** `flow[c]` is the thread that holds the assist-task lock of a cycle, for the
automatic rule or for a confirmed card (`flow[c].card`): `Begin` resolves the key, `Reserve`
commits the intent under a valid claim (`Entitled`), `Send` puts the POST on the wire, `Answer`
distinguishes accepted, refused and unknown, `Book…` write the outcome or fail to, `RecordRun`
inserts the run record or raises, `ReplayOwn` projects a verdict that was already there, while
the card is still executing; `Report` tells the card, and `Recheck` is the replay inside the
report of `verifying`. `Begin` merges the pull of the card, its report of `executing` and the
resolution of the key: only flows of the same cycle open attempts or fail them.
`work[w]` is a reconciliation worker: `Recover`, `Claim`, `LookUp`, `Decide`, `Confirm`,
`GiveUp`, `Retry`, then the parts of `_finish_locked`: `Project` closes run records,
`SettleCards` ends the cards, `Tail` decides about `finalization_pending`; `Replay` enters them
again. `Decide` is skipped by a row whose lease was lost, as in the code.
`card[d]` is the status of a stop card. "executing" has a valid claim, "lapsed" is past one of
its deadlines (`LapseClaim`); the two ends are told apart, by a verdict ("settled") and by its own
report, expiry or a click ("reported"), because replays treat them alike and messages do not.
`Ready` is `_terminal_projection_ready` with all its conditions: a run record that is not open, no
busy card that reserved the intent or watches its cycle, and messages that were updated after
the verdict. `task` is the card an intent was reserved for, `told` that `card_update_state`
left `pending` (the verdict sets it back), `mail` that `update_task_cards` is due in the
executor. `Expire` is `_expire_local_tasks` with its three outcomes. `Withdraw` stands for the
expiry in the queue, `cancel` and the click on an expired card; the click writes without a look
at the present status, so that `Withdraw` is enabled at any time. The replays of the foreground
(`ReplayHere`) are one step, those of the worker are three: expiry, clicks and updates of cards
are interleaved with the latter. `Crash` forgets flows, workers and due updates and keeps
ledger, run records and cards.

**RetargetCard.** `card` is the row of the task, `job` the desktop worker, `journal` its local
record. Claim token and fence change together, so the fence of a pull stands for both.
`Expire` is `_expire_local_tasks` with its three outcomes (queue again, recover, expire),
`ClickLate` and `ClickExpires` are the two halves of a click that read the row before its
expiry. `Finalize` reads the sibling intents first and writes the card later.

**CardDelivery.** `outbox` holds the first delivery, one receipt row for each content and one
queued update for each version. A drainer claims in one transaction that first sweeps lapsed
leases; `Post`/`PostAnswer` bracket the request, during which the audience lock (`wire`) is
held; `EnterPatch` … `Recheck` is `_patch_latest_task_card` under the lane lock. Two drainers
exist because a stopped and restarted bridge may still have its old thread, whose stop event
was cleared. `jobs` counts `update_task_cards` in the executor, which only memory holds.

**RuleWakeup.** `Requested` and `Take` are the two operations of `TargetWakeBatch` under its
lock. The retargeting caller adds to the batch and then puts a token, in two steps; the stop
loop polls the mark of its batch. `unseen` is a history variable: targets with data that no
scan has begun after.

**BrowserLock.** `thread[p]` is the thread in `_acquire`, `coro[p]` the coroutine of
`exclusive_browser_operation`. A woken thread evaluates `_next_waiter` at a moment of its own
(`Look`); `Starve` lets a ticket cross 120 s at any time. A cancelled coroutine waits for its
thread and gives back what that has won (`Settle`), also when it is cancelled again. The code
draws a ticket's sequence number before it takes the condition's lock, `Enter` does both at once:
two arrivals of one priority may be numbered in the other order than they queue up, which is
the order of two `Enter` steps the other way round.

**CollectionQueue.** `loop[g]` is the scheduler thread that was started in generation g;
`Cycle` … `Book` are the parts of `_loop` and `run_collection_cycle`. `work[f]` is the worker
of the claim with fencing token f together with its context: `Gate` takes the locks of the
authorization and the database and compares, `Commit` compares again and commits, so what
happens between the two is a step of somebody else. `asker` reads the row and writes it in
two steps (`AskLook`, `AskPut`), as `_enqueue_collection_jobs` does. `keeper` is the watchdog's
recovery or a stop, `owner` the callback of a new authorization. Versions of the platform's
data stand for what is read; the hot collection of one plan is modelled.

**TokenStore.** `pc[c]` is a request inside `get_token`, `page[p]` a request of the settings
page. Every write takes a new number, which names the revision and, when it creates one, the
generation, oauth state or refresh token. `spent` is what the platform has exchanged. `Enter`
looks at the file again under the operation lock and either finds a fresh token or sends;
`Save` compares revisions. `Status` and `Announce` are `handle_change` after the lock of the
file was given back; `reader` is a pass of the catalog. `choice`, `lost` and `muted` are
history variables.

**RuntimeSupervisor.** `pc` is where the two callers are in start or stop; `Begin`,
`SpawnNext`, `Confirm` and the rollback are `start`, `Leave` (the event is set before the lock
is asked for), `Lock`, `StopChild`, `Release` and `Stopped` are `stop`. `WatchLook` finds a
dead service, `WatchRestart` looks at the event again under the lock. `by` remembers whether
the supervisor or somebody else (the resume thread, the page) started a service, and `halted`
remembers what the user stopped by the page (a history variable). The last two services are the
catalog and the collection, which `start` and `stop` of the controller drive past the supervisor
(`SpawnedOutside`, `PageServed`): the starters of both do not wait and are one step, the stop of
the catalog may be outlived by its thread before the collection is reached. `SeenAlive` is what
the supervisor sees of a thread: it keeps the handle of the catalog it started itself, so that a
catalog others have started looks dead to it, is restarted and may be left to itself by a stop.
`overlooked` says that a start replaced the event which the exit for an update had set.

**LogWindows.** `rows` are the windows of each object for one day. `Schedule` is one pass of
the scheduler in the order of the code (`Incremented`, `WithHistory`, `Resolved`, `Repaired`,
`Verified`, `Pruned`); `Claim`, `BeginRead`, `Ingest`, then `Succeed`, `BackOff`, `Fail` or
`FailIncomplete` are the worker. `success` is `last_success_at`: the moment a read began.
`proof` replaces the comparison of times in `_resolve_covered_failures` by the windows that
succeeded since the gap appeared. `shown` is what `_refresh_batch_state` wrote last, which may
be missed after a finish.

## 4. Runs and bounds

| Run | Instance | Distinct states | Shows |
|---|---|---|---|
| `submission_safety` | 1 cycle, 1 card and the automatic rule, 2 attempt keys, 2 workers, 2 look-ups, 1 crash, 1 lapse under a live worker or card queued again, symmetric workers and cards | 2,379,591 | one POST per key, one effective POST per cycle, failure only after refusal, evidence kept, implements `StopAttempts` |
| `submission_live` | 1 worker, 1 attempt key, no lapse, else the same, with fairness | 182,487 | intents settle; a verdict is taken by run record, cards and messages; cards end |
| `rule_loop` | wake-up: 1 target, 2 callers; then the lock: 3 clients with distinct priorities, two of them coroutines that may be cancelled twice; with fairness | 390,784 | nothing lost, a batch has a token, commits are evaluated without the periodic scan; one holder, no dead ticket, no passing of starved tickets, answers for all, notification suffices without starvation |
| `card` | 2 attempts, 1 look-up, 2 pulls, 1 crash, with fairness | 891,049 | one effective POST, unsent is unsent (no exception with two attempts), success is real, cards settle |
| `card_expired` | 1 attempt, 1 pull, no crash, with fairness | violated | disagreement 1 |
| `delivery` | 2 drainers, 1 executor thread, 1 change, 2 attempts, 1 fault (crash or lapse under a live thread), with fairness | 1,090,382 | one message, never older, implements `CardMessage` (which is silent after a withdrawal), deliveries settle, messages catch up |
| `collection` | 1 plan, 1 request, 1 new version, 1 fault of any kind, with fairness | 750,346 | never backwards, committed as authorized, requests not swallowed, snapshots catch up |
| `lease_revoked` | the same | violated | disagreement 2 |
| `tokens` | 2 requests, 2 pages, 2 applications, 4 writes, 1 fault, symmetric requests and pages | 4,347,990 | the last choice stands, grants kept, evidence follows the grant, cleared means detached, a working token is kept |
| `supervisor` | 2 services (catalog and collection), 3 calls, 2 faults, 3 attempts to resume, with fairness | 487,642 | quiet when stopped, the dead are revived, stops return |
| `page_stop_undone` | 2 calls, no fault, 1 attempt to resume | violated | disagreement 3 |
| `logs` | 1 account, 1 plan, 2 half hours, 2 troubles | 3,277,888 | coverage was read and only grows, phases are kept |

*Why the bounds are enough.* Two of each actor is where the interleavings appear: two workers
on one row (the second takes over a lapsed lease), two attempt keys (the second is opened or
must not be), two pulls (the second after recovery), two drainers, two callers, two requests
refused for one token. One cycle, card, message, target, plan or day is enough because no
operator relates two of them: the ledger is keyed, locks are per control task, jobs are per
plan, and the proofs of section 6 are for any number of cycles, attempts, pulls, targets,
clients, requests, services, plans and half hours. One crash reaches every point of every
handler; a second one finds the same durable states, since nothing but the database survives.
A third look-up or delivery attempt repeats the second. Two services suffice for an order of start and of
rollback, one with a handle and one with rules of its own; `N` of them are in the proofs.
`MaxFence` of `collection` is large enough never to be the bound that stops the system. Each bound is a named constant and stands
in the guard of the action that would exceed it.

Lock and wake-up share no variable, so `rule_loop` lets one part come to rest before the other
begins: every behaviour of each is there, without their product.

What the bounds do not show: `submission_live` has one card, which either reserves the intent or
watches the one of the automatic rule, and one key, so that a card whose attempt was refused and
that tries again is only in `submission_safety`; with two half hours the newest segment of a coverage
(`LastSegment`) never leaves a gap between two others, which `ShownWasRead` covers for any
number, as `PhasesCatchUp` covers longer days in repair; the code makes three attempts of a card, and what only a third one brings about
(disagreement 10) is left to the proofs, which are for any number, because liveness of three
attempts takes too long to check; with one fault, the fencing token and the pair of generation
and context each suffice to keep `NeverBackwards`, so that only a mutant which drops both breaks it.

The type invariants of all these modules are theorems and no run repeats them.

`CHECK_DEADLOCK FALSE` stands in the card, delivery and log runs: a decided card, a delivered
and up-to-date message, or a day whose windows are all read is the end.

## 5. Fairness

Fairness says that threads the operating system runs carry on, that time passes and that a
lease nobody renews lapses.
- *StopSubmission:* each worker repeats `_loop` (recover, claim, verify, replay), so what it
  is offered again and again it takes in the end (strong fairness of `Recover`, `Claim` and
  `Replay`, for the worker is busy in between); a step that was begun is finished (weak).
  A claim lapses and the next turn of the rule loop meets it (weak on `LapseClaim` and `Expire`),
  and the executor runs the updates it was given (weak on `Deliver`). The flow is assumed to
  carry on only in `FairSpec`: in `submission_live` it may stop at any point for ever.
- *RetargetCard:* in addition the stop worker expires cards every second (weak on `Expire`)
  and both clocks pass.
- *RuleWakeup:* callers and loops carry on; the clock `Due` of the full scan is not fair, so
  that `DataIsEvaluated` cannot lean on it.
- *BrowserLock:* threads and the event loop carry on, every wait has its deadline. The
  fairness of a coroutine (`CoroStep`) includes `End`: clients are assumed to end their operation.
  The answers do not lean on it, for the deadline answers those who wait for one that does not.
- *CardDelivery:* threads carry on, leases and `expires_at` pass, queued updates are taken.
  Strong fairness is not needed because attempts are bounded.
- *CollectionQueue:* loops, workers, requests and the callback of an authorization carry on, a
  recovery is brought to its end and starts the loop again, the time of a queued job comes, a
  lease without its coordinator lapses. Nobody is assumed to intervene: the watchdog's
  `Intervene` has no fairness.
- *RuntimeSupervisor:* callers inside start or stop, the watchdog and the resume thread carry
  on, a page call is served, a pause of recovery ends, a thread that was told to end does.
  Nothing is assumed about the callers' wish to call.
- *TokenStore* and *LogWindows* have no liveness. `PhasesAreKept` is stated of settled states
  instead: when worker and scheduler have nothing left to do, the phase was read or its failure
  is visible.

Nothing is assumed of the user, of the platform, of Feishu or of the callback connection: a
POST may stay unanswered for ever in the model of the platform, and a request may always
fail.

## 6. Proofs

TLAPS proves these for every value of the constants that satisfies the named assumptions
(`NoWorkerAssumption`, `ConstantsAssumption`, `CardAssumption`, `DeliveryAssumption`,
`TargetAssumption`, `BoundsAssumption`, `BoundAssumption`, `NAssumption`, `WindowAssumption`):
bounds are natural numbers, and a name that stands for nobody names nobody. Every invariant and
every action property that a passing run checks is among them.

- **`StopSubmission_proofs`.** `TypeCorrect`, `SubmissionIsConsistent`, `NeverPostedTwice`,
  `FailureIsCertain`, `OneStop`, `EvidenceBehindVerification`, `VerdictStands`,
  `EvidenceStays`. None of the facts the runs check is inductive by itself: that a
  second attempt is opened only after a refusal depends on what the flow read before it
  acted. The invariant `SubmissionInv` therefore adds three groups. `LedgerInv`: an intent
  precedes its POST, attempts are made in order, each earlier one is confirmed_failed.
  `FlowFact`: what a flow remembers at each of its steps is still true. `WorkFact`: the
  snapshot of a worker carries evidence of a POST. The argument: every operator of the
  ledger is *harmless* (it does not un-reserve a row, reopen a verdict or lose evidence),
  proved once for each operator, and then one step for each action shows that it applies
  such an operator and keeps its own fact.
  `Refinement`: the mapping of `Abstract` sends initial states to initial states and every
  step to a step of `StopAttempts` or a stutter, from the same invariant. Only `Reserve`,
  `Send`, the platform's two steps and the steps that decide a row are visible.
- **`RetargetCard_proofs`.** `Typed`, `PostedOnce` (`OneEffectivePost`), `UnsentUnposted`
  (`UnsentIsUnsent`), `SuccessfulForReal` (`SuccessIsReal`), for any number of attempts, pulls,
  workers and crashes. Whether a POST may be sent is decided by what the job found in the
  journal, long before: `JournalInv` says that an empty journal means an empty ledger and that
  a journalled result agrees with the platform, `JobInv` that before a job sends nothing of the
  card is on its way and the attempts ahead of it are not filed, `LedgerInv` that an attempt is
  filed only when none before it can take effect. `CardInv` says more than the property: a card
  with an intent that binds it, sent or not, is not queued. `WorkInv` says that the verdict a
  worker carries to the card is true, or that a refused attempt followed the one it works on.
  Most steps are *calm* (POSTs untouched, no row decided or reserved), which is proved once.
  Claim and fence are not needed for safety: they decide whose report the card takes, the
  journal and the intents who may send.
- **`CardDelivery_proofs`.** `Typed`, `PostedAsOne` (`OneMessage`), `NeverGoesBack`
  (`NeverOlder`), `SilentWhenRevoked`, `SkippedIsShown`, `NoUpdateForgotten`, and
  `KeepsOneMessage`: every step is a step of `CardMessage` or a stutter. Two locks decide who may
  change what is shown: a request runs under the audience lock, a PATCH also under the lane, with
  a content that was built under it and is no older than what is shown (`ThreadInv`). Nothing can
  be updated before the first message exists, since every update comes from the list of messages
  or from the receipt of an earlier update, and what was noted as shown is no newer than what is
  (`MessageInv`). A POST ends while Feishu remembers its UUID, so that the first one makes the
  message. Claims are not needed for these: a drainer whose lease lapsed does no harm.
  `NoUpdateForgotten` (`StaleHasCarrier`) is an invariant beside them: each step of a patch hands
  what it has in hand over to a row or to its own next step.
- **`RuleLoop_proofs`.** Of the lock: `MutualExclusion`, `NoOrphanedLock`, `Typed`, `NoDeadTicket`
  (`TicketsAreLive`), `NobodySleepsBesideAFreeLock` (`NotifyingSuffices`), `EldersFirst`
  (`StarvedAreNotPassed`). The strengthening `Paired` relates each thread to its coroutine: a
  thread that won belongs to a coroutine that waits for it or is being cancelled and will give
  the lock back. `QueueInv` relates the queue to the threads and names the one that is awake
  beside a free lock: the next one (`HeadIsAwake`). A client that queues up later either is
  next, and takes the lock, or leaves the next one first (`NextIsKept`).
  Of the wake-up: `TypeCorrect`, `NothingIsLost`, `TokenFollowsBatch`. The strengthening
  (`WakeInv`) says that a batch without its mark is empty, which is what makes skipping an
  unmarked batch safe.
- **`CollectionQueue_proofs`.** `Typed`, `SnapshotsGoForward` (`NeverBackwards`),
  `AuthorizedCommits` (`CommitsAsAuthorized`), `RequestsAreKept` (`RequestIsNotSwallowed`).
  `NeverBackwards` is not inductive: that the
  committing worker read last is known only of the one whose token the job bears. The
  invariant says so (`HolderIsFresh`), that no token is used before the job has reached it
  (`FencesUsed`), and that between gate and commit a worker has the database and the saved
  authorization (`GateIsGuarded`). The generation is not needed: the fencing token alone
  carries the proof. `RequestsAreKept` speaks of runs without a failure, which the invariant
  `Calm` describes: there is one loop, a lease is held by the loop that waits for its worker, and
  a request that is not yet answered is pending, being put, due, or covered by a claim that has
  yet to read (`RequestIsCovered`). A request that takes the lease of a live worker (disagreement
  2) keeps it: the job it leaves is due.
- **`TokenStore_proofs`.** `Typed`, `UserDecides` (`LatestChoiceStands`), `GrantSurvives`
  (`GrantKept`), `RefreshesCoalesce` (`WorkingTokenKept`), `EvidenceIsDropped`
  (`EvidenceFollowsGrant`), `AccountsAreDetached` (`ClearedMeansDetached`). A write is safe
  because of what its writer still knows: `Snapshots` says that an equal revision means an equal
  bundle, `OneRefresh` that the operation lock admits one refresh, `OnWire` that the token on
  the wire is the saved one unless the user began anew, `Rejected` that a forced refresh was
  refused for the revision it observed. The last two rest on `EInv`, about the pages after their
  write: a page that saved a grant knows the identity it replaced (`GrantReplaces`), so that
  while evidence of an earlier grant is left, some page is on the way to the announcement that
  drops it (`EvidenceIsCarried`); a page takes the lock again before it announces, so that a
  cleared file stays cleared until its accounts are detached (`ClearedIsEmpty`).
- **`RuntimeSupervisor_proofs`.** `Typed`, `NothingLeftBehind` (`QuietWhenStopped`). What the
  supervisor started is in `_active` (`Covered`), because the event is set before the first
  service is torn down (`EventKept`) and the watchdog restarts only what is in `_active` while it
  is not (`Rounds`); a stop or rollback that did not fail empties `_active` (`Remains`), and
  nobody fills it before the health changes (`Apart`, `Reported`).
- **`LogWindows_proofs`.** `Typed`, `ShownWasRead` (`CoverageIsRead`), `NothingIsForgotten`
  (`CoverageOnlyGrows`), `PhasesCatchUp` (`PhasesAreKept`). The invariant `WindowInv` says of
  each row that what is done was read and that its cells are stored as late as it claims. A
  relation `Better` between rows before and after an operation keeps both and gives up no
  coverage; it is proved of each part of the scheduler and each end of a claim, and composed.
  `PhasesCatchUp` needs to know why a day in repair is not forgotten. `Mended` says that each
  piece of it is waited for, was read after the day failed and is named by the day's proof, is
  superseded by such reads, failed, or was cancelled. It survives pruning because increments do
  not overlap (`Apart`) and the day and its pieces are no increments (`Shaped`), so that the whole
  which makes an increment superfluous is a piece that the proof names too; and resolving, because
  what was read since a piece failed was read since its day failed. Of a settled object a pass
  changes nothing: then the day was read since the phase, by itself or by a union of windows
  (`LastParts`), or it is in repair and a piece says why.

*Only model-checked*, because the prover handles neither fairness nor ENABLED: `IntentSettles`,
`ProjectionDrains` and `CardsEnd` of the submission, `DataIsEvaluated` of the wake-up,
`EverybodyIsAnswered` of the lock, `CardSettles`, `DeliverySettles` and `CatchesUp` of the
delivery, `CatchesUp` of the collection, `DeadIsRevived` and `StopReturns` of the supervisor. The
three properties that a run must find violated are of course not proved.

## 7. Disagreements between the code and its own text

Three are runs that must find the violation; `PROJECT.json` quotes the text.

1. `card_expired`: a click that read the row earlier writes `expired` over a card that is
   executing or decided; the verdict never reaches it.
2. `lease_revoked`: a request that read a queued job writes `queued` and no owner over the
   lease of the worker that claimed it in between ("must never revoke the live lease"). The
   fence keeps the data right; the round of the worker is lost.
3. `page_stop_undone`: `stopService` of the page ends the collection's thread; the watchdog takes
   it for dead and starts it again, although `docs/SYSTEM_ARCHITECTURE.md` (lines 111 and
   142-144) lets the polling run until the user stops it. `UserStopStands` states that; the
   liveness property `DeadIsRevived` excepts what the user has stopped.

The others are stated as properties that do not hold; adding the property to a
configuration of the module shows each of them.

4. `AcceptedIsKept` (`StopSubmission`, 1 key, 1 worker, `MaxSlow = 1`): `_finish_locked`
   writes back the payload read at the claim, so phase `accepted` recorded meanwhile becomes
   `unknown` again ("the result of a submission cannot be downgraded"). Safety is unaffected:
   `EvidenceIsMonotonic` holds.
5. `OpenRunCloses` (`StopSubmission` under `FairSpec`, no faults): the pending mark is consumed
   by the first run record of a key; a later record of the same key whose own replay fails stays
   open ("retried by reconciliation").
6. `FreeLockIsSeen` (`MCRuleLoop.cfg`): two woken threads disagree about who is first when a
   ticket crosses 120 s between their looks; both sleep beside a free lock until a timeout or an
   arrival. `NotifyingSuffices` shows that it takes such a crossing.
7. `RecoveryEnds` (`MCRetargetCardExpired.cfg`): a card moved to recovery while its POST was on
   the wire, which is then refused, stays `verifying`. `CardSettles` shows that this is the only
   such case.
8. `StoppedIsQuiet` (`MCRuntimeSupervisor.cfg`): the resume thread is inside
   `start_from_saved_session` when the stop gives up waiting, or the page starts the collection
   during a stop; the collection runs although the runtime reports that it is stopped.
   `QuietWhenStopped` shows that this takes a start by somebody other than the supervisor.
   It also excepts `overlooked`: a start may replace the event of a stop that is underway.
9. `PhasesAreKept` without its disjunct `Stuck` (`MCLogWindows.cfg`): changed settings cancel the
   waiting pieces of a day in repair, while the day stays `repairing`, which
   `_schedule_verifications` takes for under way. The day is skipped until the user asks for it
   ("Catch up missed phases after downtime").
10. `FailedIsUnsent` (`RetargetCard`, 3 attempts, 1 look-up, 1 pull, no crash): the outcome of the
   first attempt is unknown, the second is refused; `_finish_locked` projects the first, reads
   from the siblings that the latest attempt failed, and before it promotes and finalizes the
   card the job reserves and sends the third, and the card's time is over. The card ends as
   `failed`, while the third POST may create the control task and its verdict finds no verifying
   card any more (`docs/2026-09-05-review-fixes.md:15`: an explicit failure that a safe retry
   replaced does not taint a successful result). `UnsentIsUnsent` shows that this is the only
   way to a failed card with such a POST.
11. `ProjectionDrains` without its disjunct `ToldOtherwise`: a stop card that ended by its own
   report, its expiry or a late click before its messages were updated after the verdict is not
   finalized any more, so that nothing submits another update; `card_update_state` stays `pending`,
   and the verdict is replayed in every turn of the worker.
12. `CardsEnd` without its disjunct `RefusedLate`: like item 7, for a stop card.

Seen while modelling, without a property: after an incomplete stop the gate forgets that a
runtime was started, so that no stop is repeated and entering the application fails until a
restart of the program; when something raises behind the POST of a card, for instance the insert
of its run record, the card is told `failed` though the outcome is open; a request that comes during an active collection is answered
`already_collecting` and not recorded (`RequestIsNotSwallowed` speaks of accepted ones).

## 8. Assumptions about what is outside

- The platform: a decodable 4xx or an explicit non-transient error code means that the POST
  had no effect; anything else may have had one. A GET that finds the change is right; one
  that does not find it proves nothing.
- SQLite: a transaction is atomic and durable when it returns.
- Feishu: POSTs with one UUID make one message for an hour; a request that timed out has
  arrived before the client carries on, or never does; a claim reaches its POST within the
  ten minutes between the retry window and that hour.
- The application starts one reconciliation thread; two workers are checked because the ledger's
  leases are made for a second one (another process over the same file), and it includes the
  behaviours of one.
- A card has one material group; whether its run record exists is a free choice in the part
  of `_terminal_projection_ready` that asks for it. Removing an account acts on a card like
  `Cancel`.
- The authorization service rotates refresh tokens and exchanges each one once. An access token
  may be withdrawn at any time. A begun authorization or a lost reply during a refresh strands
  the grant; `GrantKept` names these cases.
- The operation log has one worker (`OPERATION_LOG_WORKERS` is 1). A read returns what was there
  when it began.
- A stopper of the collection ends its thread, for a loop that was fenced ends by itself; other
  services may outlive the wait of their stopper.

## 9. Not modelled

Rule evaluation, pagination, normalization and message texts are data without a protocol.
The user interface, reports and dashboards read what the modules write. The license client is
cryptography and remote answers; the legacy browser back end is page automation of which the
lock is the concurrent part. The services of `production_v1a` are started by tests only.

Left out of a module that models the rest:
- *StopSubmission:* more than one card in the runs, pauses inside a replay of the foreground, a stop card that waits for a click (it enters
  as queued), the heartbeat of a claim, the notice of an automatic stop, failures inside the calls
  that finalize cards (they are logged and the replay comes back), which messages a card has (an
  update of them takes the card's present state), replays without a stored verdict.
- *BrowserLock:* nothing but the order of numbers of two simultaneous arrivals (section 3).
- *CardDelivery:* the three commits that end a patch (`_patch_latest_task_card`, lines 2820-2846)
  are one step, `BookPatch`; `card_update_state` (in `StopSubmission`), standalone notices and the expand button of a card; an
  update that only memory holds is lost in a crash, and `CatchesUp` says so by excepting it.
- *RetargetCard:* several material groups of a card, budget-increase cards.
- *CollectionQueue:* backfill and control metrics, quotas, status reports, requests during a
  stop that is under way, several plans at once.
- *TokenStore:* tokens from environment variables and injected providers, the browser callback
  and the relay, the cancelling of running contexts by an announcement (in `CollectionQueue`),
  the repair of accounts after a superseded announcement.
- *RuntimeSupervisor:* a pause between the two starters of the controller,
  services that are started but not watched, recovery for lack of resources
  or heartbeat (a service that is alive is not restarted in the model), the bootstrap before the
  window and the license's own recheck.
- *LogWindows:* the days before the one that is modelled, with their pruning after 45 days, an
  early return of the scheduler without effect on a day, batches and their progress, the overlap of ten minutes between increments,
  windows of the daily report, the quota's pause, counts of attempts, which of several rows that
  backed off is due first, the older sequential synchronisation, the removal of an account.

## 10. Plan

What is left, in this order; each part with its properties, mutants and proofs where they are
in reach.

1. *Proofs about what is there:* abstract specifications, and proofs that they are implemented, of
   `RetargetCard` (what a person is told of a confirmed card and what became of its POSTs) and of
   `CollectionQueue` (a snapshot that only goes forward, under the authorization of its moment).
   The invariants and action properties of the runs are proved.
2. `RateLimits`: a POST that succeeded whose bookkeeping fails must block its target.
3. `GroupedCard`: the status of a card rebuilt from groups that succeeded, failed or are
   unknown.
4. `StopCycle`: the identity of a cycle over resume and replacement of a control task, and
   what it means for the keys of `StopSubmission`.
5. `BudgetIncrease`: the arithmetic of an increase at the limits of the platform, checked
   against a reference definition.
6. `V1aJobs`: queue and leases of the second generation; a worker that loses its lease at
   the end of a handler, fencing numbers that restart when a lease row is deleted.
7. `CloudTask`: the server-side life of a retarget task.

Runs stay few: a component gets one run for safety and liveness together where the state
space allows.
