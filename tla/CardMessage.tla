---------------------------- MODULE CardMessage -----------------------------
(***************************************************************************)
(* What the delivery of a card promises its recipient, without outbox,     *)
(* claims, threads, lanes and crashes: one message, which begins with the  *)
(* first state of the task, only ever turns to a later state that the task *)
(* has reached, and rests once the recipient was withdrawn.                *)
(***************************************************************************)
EXTENDS Naturals

CONSTANT Last   \* the business version of the ended task

VARIABLES version,   \* the state of the task
          messages,  \* the messages that the recipient has
          shown,     \* the state that they show
          withdrawn

vars == <<version, messages, shown, withdrawn>>

Nothing == Last + 1

Init == version = 0 /\ messages = 0 /\ shown = Nothing /\ withdrawn = FALSE

Change ==
    /\ version < Last /\ version' = version + 1
    /\ UNCHANGED <<messages, shown, withdrawn>>

Post ==
    /\ ~withdrawn /\ messages = 0
    /\ messages' = 1 /\ shown' = 0
    /\ UNCHANGED <<version, withdrawn>>

Renew ==
    /\ ~withdrawn /\ messages = 1
    /\ shown' \in shown + 1 .. version
    /\ UNCHANGED <<version, messages, withdrawn>>

Withdraw ==
    /\ ~withdrawn /\ withdrawn' = TRUE
    /\ UNCHANGED <<version, messages, shown>>

Next == Change \/ Post \/ Renew \/ Withdraw

Spec == Init /\ [][Next]_vars
=============================================================================
