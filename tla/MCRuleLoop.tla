----------------------------- MODULE MCRuleLoop -----------------------------
(***************************************************************************)
(* The two things a rule loop waits for, for TLC: the requests that wake   *)
(* it (RuleWakeup) and the browser operation lock (BrowserLock).  They     *)
(* share no variable and no step of one depends on the other, so that one  *)
(* order is enough: first the loops and their callers move; once they are  *)
(* at rest the clients of the lock may begin, and from then on only they   *)
(* move.  At rest no step of the loops or of a caller that has begun is    *)
(* enabled, and before the first request none of the lock's threads, so    *)
(* that the fairness of each part asks nothing of the other's time.        *)
(*                                                                         *)
(* The lock has a confirmed retarget, a stop and the operation log sync,   *)
(* which runs in a thread of its own and is never cancelled.  Batches are  *)
(* sets of targets and the loops treat all targets alike; two callers are  *)
(* what interleaves.                                                       *)
(***************************************************************************)
EXTENDS BrowserLock, RuleWakeup

CONSTANTS retarget, stop, log
Operations == {retarget, stop, log}
Rank == [p \in Operations |-> CASE p = retarget -> 10 [] p = stop -> 20 [] p = log -> 40]
Coroutines == {retarget, stop}

VARIABLE part    \* what moves

AtRest ==
    /\ \A l \in Loop : unseen[l] = {} /\ batch[l] = Empty /\ ~due[l] /\ ~token
    /\ In("retarget", "sleep") /\ In("stop", "top")
    /\ \A c \in Caller : caller[c] = NoCall

LoopsMove == part = "loops" /\ WakeNext /\ UNCHANGED <<part, vars>>
LoopsRest == part = "loops" /\ AtRest /\ part' = "lock" /\ UNCHANGED <<wakeVars, vars>>
LockMoves == part = "lock" /\ Next /\ UNCHANGED <<part, wakeVars>>

RuleLoopInit == part = "loops" /\ WakeInit /\ Init
RuleLoopNext == LoopsMove \/ LoopsRest \/ LockMoves

RuleLoopSpec ==
    /\ RuleLoopInit
    /\ [][RuleLoopNext]_<<part, wakeVars, vars>>
    /\ WakeFairness /\ Fairness
=============================================================================
