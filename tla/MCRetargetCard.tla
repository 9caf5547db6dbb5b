--------------------------- MODULE MCRetargetCard ---------------------------
(***************************************************************************)
(* RetargetCard for TLC.  One reconciliation worker: the application has   *)
(* one such thread, and two of them are checked in MCStopSubmission.       *)
(***************************************************************************)
EXTENDS RetargetCard
=============================================================================
