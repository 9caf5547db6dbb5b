--------------------------- MODULE MCCardDelivery ---------------------------
(* Two drainers (a bridge that was stopped and started again still has its   *)
(* old thread), one executor thread, a task that changes once.               *)
EXTENDS CardDelivery
=============================================================================
