---------------------------- MODULE BrowserLock -----------------------------
(***************************************************************************)
(* The priority gate before every operation on the platform: one condition *)
(* variable, a heap of tickets and a flag.  A coroutine acquires it in an  *)
(* executor thread, so each client is two processes that can drift apart   *)
(* when the coroutine is cancelled; a synchronous client is one that is    *)
(* never cancelled.                                                        *)
(*                                                                         *)
(* A thread computes who is next from its own reading of the clock: after  *)
(* MAX_STARVATION_SECONDS a ticket precedes all tickets that are not       *)
(* starved.  `starved' is the set of tickets a reading taken now shows as  *)
(* starved.                                                                *)
(***************************************************************************)
EXTENDS Naturals, FiniteSets, SequencesExt

CONSTANTS
    Client,       \* operations that want the platform
    Priority,     \* [Client -> Nat], a smaller number goes first
    Cancellable   \* clients whose coroutine may be cancelled

ASSUME ConstantsAssumption ==
    /\ Client # {}
    /\ Priority \in [Client -> Nat]
    /\ Cancellable \subseteq Client

VARIABLES
    active,     \* _ACTIVE
    waiters,    \* _WAITERS, in the order of their sequence numbers
    starved,    \* tickets that have waited MAX_STARVATION_SECONDS
    thread,     \* the executor thread of a client, inside _acquire
    late,       \* its deadline has passed
    coro,       \* the coroutine of a client
    cancelled   \* its cancel_event

vars == <<active, waiters, starved, thread, late, coro, cancelled>>

ThreadPC == {"none",      \* not running _acquire
             "queued",    \* submitted to the executor
             "asleep",    \* in _CONDITION.wait
             "awake",     \* woken, about to look again
             "got",       \* returned True, result not delivered
             "no"}        \* returned False, result not delivered
CoroPC == {"idle",
           "wait",        \* awaits the thread
           "cancel",      \* cancelled; cancel_event set, waiters not notified
           "settle",      \* cancelled; awaits the thread again
           "orphan",      \* cancelled twice; _cleanup_orphan awaits the thread
           "hold"}        \* inside the with block

TypeOK ==
    /\ active \in BOOLEAN
    /\ waiters \in Seq(Client)
    /\ starved \subseteq Client
    /\ thread \in [Client -> ThreadPC]
    /\ late \in [Client -> BOOLEAN]
    /\ coro \in [Client -> CoroPC]
    /\ cancelled \in [Client -> BOOLEAN]

Init ==
    /\ active = FALSE
    /\ waiters = <<>>
    /\ starved = {}
    /\ thread = [p \in Client |-> "none"]
    /\ late = [p \in Client |-> FALSE]
    /\ coro = [p \in Client |-> "idle"]
    /\ cancelled = [p \in Client |-> FALSE]

(***************************************************************************)
(* The condition variable                                                  *)
(***************************************************************************)
Queued(q) == Range(q)

\* The first ticket of q, in sequence order, that belongs to S.
Oldest(q, S) == q[SelectInSeq(q, LAMBDA p : p \in S)]

\* A plausible slip: the starved are chosen by priority as well.
BestRanked(q) ==
    LET S == IF Queued(q) \cap starved # {} THEN Queued(q) \cap starved
                                            ELSE Queued(q)
    IN  Oldest(q, {p \in S : \A r \in S : Priority[p] <= Priority[r]})

\* _next_waiter: the oldest starved ticket, or else the best priority, among
\* equals the oldest.
NextWaiter(q) ==
    LET hungry == Queued(q) \cap starved
        best == {p \in Queued(q) : \A r \in Queued(q) : Priority[p] <= Priority[r]}
    IN  Oldest(q, IF hungry # {} THEN hungry ELSE best)

\* notify_all, with thread p itself moving to pc.
Notified(p, pc) ==
    [r \in Client |-> IF r = p THEN pc
                      ELSE IF thread[r] = "asleep" THEN "awake" ELSE thread[r]]

\* A plausible slip: the ticket stays in the queue.
WithdrawLeavingTicket(p, q) ==
    /\ waiters' = q
    /\ thread' = Notified(p, "no")
    /\ UNCHANGED <<active, starved>>

\* Thread p leaves _acquire empty-handed and wakes the others.
Withdraw(p, q) ==
    /\ waiters' = RemoveFirst(q, p)
    /\ starved' = starved \ {p}
    /\ thread' = Notified(p, "no")
    /\ UNCHANGED active

\* A plausible slip: being next is enough.
LookHeedless(p, q) ==
    IF cancelled[p] THEN Withdraw(p, q)
    ELSE IF NextWaiter(q) = p
    THEN /\ waiters' = RemoveFirst(q, p)
         /\ starved' = starved \ {p}
         /\ active' = TRUE
         /\ thread' = [thread EXCEPT ![p] = "got"]
    ELSE IF late[p] THEN Withdraw(p, q)
    ELSE /\ waiters' = q
         /\ thread' = [thread EXCEPT ![p] = "asleep"]
         /\ UNCHANGED <<active, starved>>

\* One turn of the loop in _acquire, with queue q.
Look(p, q) ==
    IF cancelled[p] THEN Withdraw(p, q)
    ELSE IF ~active /\ NextWaiter(q) = p
    THEN /\ waiters' = RemoveFirst(q, p)
         /\ starved' = starved \ {p}
         /\ active' = TRUE
         /\ thread' = [thread EXCEPT ![p] = "got"]
    ELSE IF late[p] THEN Withdraw(p, q)
    ELSE /\ waiters' = q
         /\ thread' = [thread EXCEPT ![p] = "asleep"]
         /\ UNCHANGED <<active, starved>>

\* A plausible slip: notify instead of notify_all.
FreeNotifyingOne(p, pc) ==
    /\ active' = FALSE
    /\ LET asleep == {r \in Client : thread[r] = "asleep"}
       IN  IF asleep = {}
           THEN thread' = [thread EXCEPT ![p] = pc]
           ELSE \E r \in asleep :
                  thread' = [thread EXCEPT ![p] = pc, ![r] = "awake"]

\* _release.
Free(p, pc) ==
    /\ active' = FALSE
    /\ thread' = Notified(p, pc)

(***************************************************************************)
(* The thread                                                              *)
(***************************************************************************)
Enter(p) ==
    /\ thread[p] = "queued"
    /\ Look(p, Append(waiters, p))
    /\ UNCHANGED <<late, coro, cancelled>>

LookAgain(p) ==
    /\ thread[p] = "awake"
    /\ Look(p, waiters)
    /\ UNCHANGED <<late, coro, cancelled>>

\* A plausible slip: each wait gets the whole timeout again, so a thread that is
\* woken often enough never finds itself late.
WaitTimesOut(p) ==
    /\ thread[p] = "asleep"
    /\ ~late[p]
    /\ late' = [late EXCEPT ![p] = TRUE]
    /\ thread' = [thread EXCEPT ![p] = "awake"]
    /\ UNCHANGED <<active, waiters, starved, coro, cancelled>>

\* The deadline passes; a wait ends with it.
DeadlinePasses(p) ==
    /\ thread[p] \in {"asleep", "awake"}
    /\ ~late[p]
    /\ late' = [late EXCEPT ![p] = TRUE]
    /\ thread' = [thread EXCEPT ![p] = "awake"]
    /\ UNCHANGED <<active, waiters, starved, coro, cancelled>>

(***************************************************************************)
(* The coroutine: exclusive_browser_operation                              *)
(***************************************************************************)
Ask(p) ==
    /\ coro[p] = "idle"
    /\ coro' = [coro EXCEPT ![p] = "wait"]
    /\ thread' = [thread EXCEPT ![p] = "queued"]
    /\ late' = [late EXCEPT ![p] = FALSE]
    /\ cancelled' = [cancelled EXCEPT ![p] = FALSE]
    /\ UNCHANGED <<active, waiters, starved>>

Begin(p) ==
    /\ coro[p] = "wait"
    /\ thread[p] = "got"
    /\ coro' = [coro EXCEPT ![p] = "hold"]
    /\ thread' = [thread EXCEPT ![p] = "none"]
    /\ UNCHANGED <<active, waiters, starved, late, cancelled>>

\* TimeoutError.
FailToBegin(p) ==
    /\ coro[p] = "wait"
    /\ thread[p] = "no"
    /\ coro' = [coro EXCEPT ![p] = "idle"]
    /\ thread' = [thread EXCEPT ![p] = "none"]
    /\ UNCHANGED <<active, waiters, starved, late, cancelled>>

\* The with block ends, by itself or by an exception.
End(p) ==
    /\ coro[p] = "hold"
    /\ Free(p, "none")
    /\ coro' = [coro EXCEPT ![p] = "idle"]
    /\ UNCHANGED <<waiters, starved, late, cancelled>>

\* CancelledError while waiting, also when the thread has just got the lock.
Cancel(p) ==
    /\ p \in Cancellable
    /\ coro[p] = "wait"
    /\ coro' = [coro EXCEPT ![p] = "cancel"]
    /\ cancelled' = [cancelled EXCEPT ![p] = TRUE]
    /\ UNCHANGED <<active, waiters, starved, thread, late>>

NotifyCancel(p) ==
    /\ coro[p] = "cancel"
    /\ coro' = [coro EXCEPT ![p] = "settle"]
    /\ thread' = Notified(p, IF thread[p] = "asleep" THEN "awake" ELSE thread[p])
    /\ UNCHANGED <<active, waiters, starved, late, cancelled>>

\* A second CancelledError hands the thread to _cleanup_orphan.
CancelAgain(p) ==
    /\ coro[p] = "settle"
    /\ coro' = [coro EXCEPT ![p] = "orphan"]
    /\ UNCHANGED <<active, waiters, starved, thread, late, cancelled>>

\* The thread's answer after the cancellation: a lock it got is given back.
Settle(p) ==
    /\ coro[p] \in {"settle", "orphan"}
    /\ \/ thread[p] = "got" /\ Free(p, "none")
       \/ /\ thread[p] = "no"
          /\ thread' = [thread EXCEPT ![p] = "none"]
          /\ UNCHANGED active
    /\ coro' = [coro EXCEPT ![p] = "idle"]
    /\ UNCHANGED <<waiters, starved, late, cancelled>>

\* Time: tickets starve in the order in which they were drawn.
Starve(p) ==
    /\ p \in Queued(waiters) \ starved
    /\ \A i \in DOMAIN waiters :
          waiters[i] = p => \A j \in 1 .. i - 1 : waiters[j] \in starved
    /\ starved' = starved \cup {p}
    /\ UNCHANGED <<active, waiters, thread, late, coro, cancelled>>

ThreadStep(p) == Enter(p) \/ LookAgain(p)
CoroStep(p) ==
    Begin(p) \/ FailToBegin(p) \/ End(p) \/ NotifyCancel(p) \/ Settle(p)

Next ==
    \E p \in Client :
        \/ ThreadStep(p) \/ CoroStep(p)
        \/ Ask(p) \/ Cancel(p) \/ CancelAgain(p)
        \/ DeadlinePasses(p) \/ Starve(p)

Spec == Init /\ [][Next]_vars

(***************************************************************************)
(* Threads and coroutines run; an operation ends; every wait is bounded by *)
(* its timeout (900 s by default).  Nobody has to ask or to cancel.        *)
(***************************************************************************)
Fairness ==
    \A p \in Client : /\ WF_vars(ThreadStep(p))
                      /\ WF_vars(CoroStep(p))
                      /\ WF_vars(DeadlinePasses(p))

LiveSpec == Spec /\ Fairness

(***************************************************************************)
(* Properties                                                              *)
(***************************************************************************)

\* Client p has the lock: its coroutine is inside, or its thread won it and
\* nobody has been told.
Holds(p) == coro[p] = "hold" \/ thread[p] = "got"

\* One operation at a time.
OneHolder == \A p, r \in Client : Holds(p) /\ Holds(r) => p = r

\* No ghost holder: whenever the lock is taken, somebody has it who is going to
\* give it back, although the coroutine that asked may have been cancelled,
\* once or twice, while its thread was winning the lock.
NoGhostHolder == active <=> \E p \in Client : Holds(p)

\* A ticket is in the queue exactly while its thread waits, so that a cancelled
\* or late client never stays ahead of others.
TicketsAreLive ==
    /\ \A p \in Client : p \in Queued(waiters) <=> thread[p] \in {"asleep", "awake"}
    /\ Cardinality(Queued(waiters)) = Len(waiters)

\* A free lock with clients queueing is about to be looked at by one of them:
\* they do not all sleep beside it.
FreeLockIsSeen ==
    ~active /\ waiters # <<>> =>
        \E p \in Client : \/ thread[p] = "awake"
                          \/ coro[p] = "cancel"

\* The notifications of _release and of a cancellation suffice as long as the
\* order of the queue does not change by itself: no ticket in it is starved.
NotifyingSuffices == starved = {} => FreeLockIsSeen

\* A starved client is passed only by clients that queued up before it.
StarvedAreNotPassed ==
    [][\A p, r \in Client :
          (/\ thread[p] \in {"asleep", "awake"} /\ p \in starved
           /\ thread[r] # "got" /\ thread'[r] = "got" /\ r # p)
          => \E i, j \in DOMAIN waiters : i < j /\ waiters[i] = r /\ waiters[j] = p]_vars

\* Everybody who asks is let in or told so in the end.
EverybodyIsAnswered ==
    \A p \in Client : coro[p] = "wait" ~> coro[p] \in {"hold", "idle"}
=============================================================================
