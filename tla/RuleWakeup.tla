----------------------------- MODULE RuleWakeup -----------------------------
(***************************************************************************)
(* How new data wakes the two rule loops.  A caller (a collector thread    *)
(* that committed a snapshot, or the window that saved the rules) asks     *)
(* each loop to look at the targets it touched; requests merge in a        *)
(* TargetWakeBatch until the loop takes them.  The retargeting loop sleeps *)
(* on a queue of one token that is filled after the batch, the stop loop   *)
(* polls the batch's own event.                                            *)
(*                                                                         *)
(* Time is abstract: `due' says that the fallback full scan is due, the    *)
(* merging second is a step of its own.                                    *)
(*                                                                         *)
(* Init, Next and Spec are named WakeInit, WakeNext and WakeSpec here: the *)
(* proofs extend this module together with BrowserLock.                    *)
(***************************************************************************)
EXTENDS Naturals, FiniteSets

CONSTANTS Target,   \* promotion targets
          Caller    \* threads that ask for an evaluation

ASSUME TargetAssumption == Target # {}

VARIABLES
    batch,    \* the TargetWakeBatch of each loop
    token,    \* _RUNNER_WAKE_QUEUE of the retargeting loop holds an item
    runner,   \* each loop: where it is and the scope it scans next
    due,      \* the periodic full scan of a loop is due
    caller,   \* where each caller is and what it asks for
    unseen    \* targets with data or rules no scan of that loop began after

wakeVars == <<batch, token, runner, due, caller, unseen>>

Loop == {"retarget", "stop"}
Batch == [targets : SUBSET Target, full : BOOLEAN, marked : BOOLEAN]
RunnerPC == {"top", "go", "scan", "sleep", "merge"}
CallerPC == {"idle", "retarget", "token", "stop"}

Empty == [targets |-> {}, full |-> FALSE, marked |-> FALSE]

WakeTypeOK ==
    /\ batch \in [Loop -> Batch]
    /\ token \in BOOLEAN
    /\ runner \in [Loop -> [pc : RunnerPC, scope : SUBSET Target]]
    /\ due \in [Loop -> BOOLEAN]
    /\ caller \in [Caller -> [pc : CallerPC, targets : SUBSET Target, full : BOOLEAN]]
    /\ unseen \in [Loop -> SUBSET Target]

NoCall == [pc |-> "idle", targets |-> {}, full |-> FALSE]

\* Both loops begin with a full scan; nothing has been evaluated yet.
WakeInit ==
    /\ batch = [l \in Loop |-> Empty]
    /\ token = FALSE
    /\ runner = [l \in Loop |-> [pc |-> "top", scope |-> Target]]
    /\ due = [l \in Loop |-> TRUE]
    /\ caller = [c \in Caller |-> NoCall]
    /\ unseen = [l \in Loop |-> Target]

(***************************************************************************)
(* TargetWakeBatch: two operations under one lock                          *)
(***************************************************************************)

\* A plausible slip: only named targets start the merging second.
RequestedUnmarked(b, S, all) ==
    [targets |-> IF all THEN b.targets ELSE b.targets \cup S,
     full |-> b.full \/ all, marked |-> b.marked \/ ~all]

\* request: None asks for everything, full; otherwise targets are added.
Requested(b, S, all) ==
    [targets |-> IF all THEN b.targets ELSE b.targets \cup S,
     full |-> b.full \/ all,
     marked |-> TRUE]

\* A plausible slip: the full flag is reset without being looked at.
NarrowScopeOf(b) == b.targets

\* take: the scope handed out; the batch is Empty afterwards.
ScopeOf(b) == IF b.full THEN Target ELSE b.targets

(***************************************************************************)
(* Callers                                                                 *)
(***************************************************************************)
Call(c, pc) == caller' = [caller EXCEPT ![c].pc = pc]

\* A collection commits the snapshot of target t and then asks both loops.
CommitSnapshot(c, t) ==
    /\ caller[c].pc = "idle"
    /\ unseen' = [l \in Loop |-> unseen[l] \cup {t}]
    /\ caller' = [caller EXCEPT ![c] =
                    [pc |-> "retarget", targets |-> {t}, full |-> FALSE]]
    /\ UNCHANGED <<batch, token, runner, due>>

\* Control metrics committed on their own concern the stop loop only.
CommitControlMetrics(c, t) ==
    /\ caller[c].pc = "idle"
    /\ unseen' = [unseen EXCEPT !["stop"] = @ \cup {t}]
    /\ caller' = [caller EXCEPT ![c] =
                    [pc |-> "stop", targets |-> {t}, full |-> FALSE]]
    /\ UNCHANGED <<batch, token, runner, due>>

\* Saved rules concern every target of their loop.
SaveRules(c, l) ==
    /\ caller[c].pc = "idle"
    /\ unseen' = [unseen EXCEPT ![l] = Target]
    /\ caller' = [caller EXCEPT ![c] =
                    [pc |-> l, targets |-> {}, full |-> TRUE]]
    /\ UNCHANGED <<batch, token, runner, due>>

\* request_retargeting_rule_evaluation, first half.
RequestRetarget(c) ==
    /\ caller[c].pc = "retarget"
    /\ batch' = [batch EXCEPT !["retarget"] =
                    Requested(@, caller[c].targets, caller[c].full)]
    /\ Call(c, "token")
    /\ UNCHANGED <<token, runner, due, unseen>>

\* After the token, a collector goes on to the stop loop.
AfterToken(c) ==
    IF caller[c].full THEN caller' = [caller EXCEPT ![c] = NoCall]
                      ELSE Call(c, "stop")

\* A plausible slip: a loop that is busy is not woken.
PutTokenIfAsleep(c) ==
    /\ caller[c].pc = "token"
    /\ token' = (token \/ runner["retarget"].pc = "sleep")
    /\ AfterToken(c)
    /\ UNCHANGED <<batch, runner, due, unseen>>

\* Second half: put_nowait on a queue of size one; queue.Full is swallowed.
PutToken(c) ==
    /\ caller[c].pc = "token"
    /\ token' = TRUE
    /\ AfterToken(c)
    /\ UNCHANGED <<batch, runner, due, unseen>>

\* request_regulation_rule_evaluation: the batch and its event, one lock.
RequestStop(c) ==
    /\ caller[c].pc = "stop"
    /\ batch' = [batch EXCEPT !["stop"] =
                    Requested(@, caller[c].targets, caller[c].full)]
    /\ caller' = [caller EXCEPT ![c] = NoCall]
    /\ UNCHANGED <<token, runner, due, unseen>>

CallerStep(c) ==
    \/ \E t \in Target : CommitSnapshot(c, t) \/ CommitControlMetrics(c, t)
    \/ \E l \in Loop : SaveRules(c, l)
    \/ RequestRetarget(c) \/ PutToken(c) \/ RequestStop(c)

(***************************************************************************)
(* The loops                                                               *)
(***************************************************************************)
In(l, pc) == runner[l].pc = pc
Move(l, pc) == runner' = [runner EXCEPT ![l].pc = pc]

\* The full scan is due: it swallows whatever has been asked for.
FullScan(l) ==
    /\ In(l, "top")
    /\ due[l]
    /\ batch' = [batch EXCEPT ![l] = Empty]
    /\ due' = [due EXCEPT ![l] = FALSE]
    /\ runner' = [runner EXCEPT ![l] = [pc |-> "go", scope |-> Target]]
    /\ UNCHANGED <<token, caller, unseen>>

\* The retargeting loop comes back from its wait with a scope.
ScopedScan ==
    /\ In("retarget", "top")
    /\ ~due["retarget"]
    /\ Move("retarget", "go")
    /\ UNCHANGED <<batch, token, due, caller, unseen>>

\* The stop loop sees the event set and the merging second over.
TakeStop ==
    /\ In("stop", "top")
    /\ ~due["stop"]
    /\ batch["stop"].marked
    /\ runner' = [runner EXCEPT !["stop"] =
                    [pc |-> "go", scope |-> ScopeOf(batch["stop"])]]
    /\ batch' = [batch EXCEPT !["stop"] = Empty]
    /\ UNCHANGED <<token, due, caller, unseen>>

\* run_one_cycle reads the data of its scope.
BeginScan(l) ==
    /\ In(l, "go")
    /\ unseen' = [unseen EXCEPT ![l] = @ \ runner[l].scope]
    /\ Move(l, "scan")
    /\ UNCHANGED <<batch, token, due, caller>>

\* It returns or raises; both loops go on alike.
EndScan(l) ==
    /\ In(l, "scan")
    /\ Move(l, IF l = "retarget" THEN "sleep" ELSE "top")
    /\ UNCHANGED <<batch, token, due, caller, unseen>>

\* _wait_for_next_rule_cycle times out because the full scan is due.
SleepIsOver ==
    /\ In("retarget", "sleep")
    /\ due["retarget"]
    /\ Move("retarget", "top")
    /\ UNCHANGED <<batch, token, due, caller, unseen>>

\* _wait_for_next_rule_cycle gets the token; then the merging second.
Woken ==
    /\ In("retarget", "sleep")
    /\ token
    /\ token' = FALSE
    /\ Move("retarget", "merge")
    /\ UNCHANGED <<batch, due, caller, unseen>>

\* take: a batch that a full scan emptied meanwhile is not ready, and the loop
\* waits on.
TakeRetarget ==
    /\ In("retarget", "merge")
    /\ LET b == batch["retarget"]
       IN  runner' = [runner EXCEPT !["retarget"] =
                        IF b.marked THEN [pc |-> "top", scope |-> ScopeOf(b)]
                                    ELSE [pc |-> "sleep", scope |-> {}]]
    /\ batch' = [batch EXCEPT !["retarget"] = Empty]
    /\ UNCHANGED <<token, due, caller, unseen>>

Due(l) ==
    /\ ~due[l]
    /\ due' = [due EXCEPT ![l] = TRUE]
    /\ UNCHANGED <<batch, token, runner, caller, unseen>>

LoopStep(l) ==
    \/ FullScan(l) \/ BeginScan(l) \/ EndScan(l)
    \/ l = "retarget" /\ (ScopedScan \/ SleepIsOver \/ Woken \/ TakeRetarget)
    \/ l = "stop" /\ TakeStop

WakeNext ==
    \/ \E c \in Caller : CallerStep(c)
    \/ \E l \in Loop : LoopStep(l) \/ Due(l)

WakeSpec == WakeInit /\ [][WakeNext]_wakeVars

(***************************************************************************)
(* A caller that has begun to ask carries on, and so do the loops,         *)
(* whatever they are at.  The full scan is not assumed to come due: a wake *)
(* must do without it.                                                     *)
(***************************************************************************)
WakeFairness ==
    /\ \A c \in Caller :
          WF_wakeVars(RequestRetarget(c) \/ PutToken(c) \/ RequestStop(c))
    /\ \A l \in Loop : WF_wakeVars(LoopStep(l))

WakeLiveSpec == WakeSpec /\ WakeFairness

(***************************************************************************)
(* Properties                                                              *)
(***************************************************************************)

\* Caller c has yet to ask loop l for target t.
WillAsk(c, l, t) ==
    /\ \/ l = "retarget" /\ caller[c].pc = "retarget"
       \/ l = "stop" /\ \/ caller[c].pc = "stop"
                        \/ caller[c].pc \in {"retarget", "token"} /\ ~caller[c].full
    /\ caller[c].full \/ t \in caller[c].targets

\* The scope the loop has taken and not begun to scan.
Taken(l) == IF \/ In(l, "go")
               \/ l = "retarget" /\ In(l, "top")
            THEN runner[l].scope ELSE {}

\* Nothing asked for is dropped: data that arrives while a loop scans, merges
\* or empties its batch for a full scan is in the batch, in the scope about to
\* be scanned, or with a caller that will still ask (TargetWakeBatch, "Lossless
\* target-scoped wake-up batching").
Lossless ==
    \A l \in Loop : \A t \in unseen[l] :
        \/ t \in ScopeOf(batch[l])
        \/ t \in Taken(l)
        \/ \E c \in Caller : WillAsk(c, l, t)
        \/ l = "stop" /\ In(l, "top") /\ due[l]

\* The batch and the queue of the retargeting loop are filled and emptied one
\* after the other by different threads; still no batch is left without a token
\* on its way to the loop (request_retargeting_rule_evaluation, main_loop).
BatchHasToken ==
    batch["retarget"].marked =>
        \/ token
        \/ \E c \in Caller : caller[c].pc = "token"
        \/ In("retarget", "merge")

\* Every snapshot committed and every rule saved is evaluated by a scan that
\* began afterwards, even if no periodic full scan ever came due.
DataIsEvaluated ==
    \A l \in Loop : \A t \in Target : t \in unseen[l] ~> t \notin unseen[l]
=============================================================================
