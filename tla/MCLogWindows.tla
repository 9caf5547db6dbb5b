--------------------------- MODULE MCLogWindows ---------------------------
(* LogWindows for TLC: one plan beside the account, a day of two cells.     *)
EXTENDS LogWindows
=============================================================================
