---------------------------- MODULE IntentLedger ----------------------------
(***************************************************************************)
(* The durable ledger of platform writes, table execution_reconciliation.  *)
(* One row stands for one idempotency key.  Each operator below is one     *)
(* ledger transaction (BEGIN IMMEDIATE ... COMMIT) seen as a function from *)
(* the old row to the new one, so that the modules which interleave them   *)
(* share one definition of what a transaction does.                        *)
(*                                                                         *)
(* Wall-clock deadlines are abstracted to one flag: `ripe' means that the  *)
(* deadline that belongs to the row's status has passed (updated_at + 90 s *)
(* of a submitting row, next_attempt_at of a submitted row, the lease of a *)
(* verifying row).  When a row ripens is left to the module using it.      *)
(***************************************************************************)
EXTENDS Naturals, FiniteSetsExt

CONSTANTS
    Worker,      \* reconciliation workers; each one is a _LEASE_OWNER
    NoWorker     \* lease_owner IS NULL

ASSUME NoWorkerAssumption == NoWorker \notin Worker

\* The statuses _finish writes, and the one record/finish_intent writes.
Verified == {"confirmed_succeeded", "unknown_requires_review"}
Terminal == Verified \cup {"confirmed_failed"}
Outstanding == {"submitting", "submitted", "verifying"}
Status == {"absent"} \cup Outstanding \cup Terminal

\* payload_json.submission_phase
Phase == {"not_sent", "sending", "accepted", "unknown", "rejected"}

Row == [ status : Status,
         phase : Phase,
         tries : Nat,                     \* attempt_count
         fence : Nat,                     \* fencing_token
         owner : Worker \cup {NoWorker},  \* lease_owner
         ripe : BOOLEAN,                  \* the status's deadline has passed
         pending : BOOLEAN ]              \* payload_json.finalization_pending

\* No row with this idempotency key yet.
Absent == [ status |-> "absent", phase |-> "not_sent", tries |-> 0, fence |-> 0,
            owner |-> NoWorker, ripe |-> FALSE, pending |-> FALSE ]

\* reserve_execution_intent, submission_phase = "sending": the INSERT.
Reserved == [Absent EXCEPT !.status = "submitting", !.phase = "sending"]

(***************************************************************************)
(* Foreground transactions                                                 *)
(***************************************************************************)

\* enqueue_execution_reconciliation, p \in {"accepted", "unknown"}.  A row the
\* worker holds keeps its status and lease; a terminal row is returned as is.
EnqueueRow(r, p) ==
    LET q == IF r.phase = "accepted" THEN "accepted" ELSE p
    IN  CASE r.status \in {"submitting", "submitted"} ->
                 [r EXCEPT !.status = "submitted", !.phase = q, !.ripe = FALSE]
          [] r.status = "verifying" -> [r EXCEPT !.phase = q]
          [] r.status = "absent" ->
                 [Absent EXCEPT !.status = "submitted", !.phase = q]
          [] OTHER -> r

\* A plausible slip: the guard that keeps "unknown" from becoming "rejected"
\* is gone.
DowngradingRecordRow(r, p) ==
    IF r.status = "absent" \/ (r.phase = "accepted" /\ p # "accepted")
    THEN r
    ELSE [r EXCEPT !.phase = p,
                   !.status = IF p = "rejected" /\ @ = "submitting"
                              THEN "confirmed_failed" ELSE @,
                   !.ripe = @ /\ r.status # "submitting"]

\* record_execution_submission_phase.  Writing updated_at restarts the 90 s
\* clock of a row that is still submitting.
RecordRow(r, p) ==
    IF \/ r.status = "absent"
       \/ r.phase = "accepted" /\ p # "accepted"
       \/ r.phase = "unknown" /\ p = "rejected"
    THEN r
    ELSE [r EXCEPT !.phase = p,
                   !.status = IF p = "rejected" /\ @ = "submitting"
                              THEN "confirmed_failed" ELSE @,
                   !.ripe = @ /\ r.status # "submitting"]

(***************************************************************************)
(* Worker transactions                                                     *)
(***************************************************************************)

\* A plausible slip: an intent whose phase still says "sending" is spared.
ShyInterrupted(r) == r.status = "submitting" /\ r.ripe /\ r.phase = "unknown"

\* The rows recover_interrupted_submissions selects.
Interrupted(r) == r.status = "submitting" /\ r.ripe /\ r.phase # "rejected"

\* recover_interrupted_submissions, one row: due at once, for GET only.
RecoverRow(r) ==
    IF Interrupted(r)
    THEN [r EXCEPT !.status = "submitted",
                   !.phase = IF @ = "accepted" THEN @ ELSE "unknown",
                   !.ripe = TRUE]
    ELSE r

\* A plausible slip: nobody takes back a lapsed lease.
KeptLapseRow(r) == r

\* _claim_one, first statement: a lapsed lease gives the row back.  Its
\* next_attempt_at lies before the claim that took it, so it is due.
LapseRow(r) ==
    IF r.status = "verifying" /\ r.ripe
    THEN [r EXCEPT !.status = "submitted", !.owner = NoWorker]
    ELSE r

Due(r) == r.status = "submitted" /\ r.ripe

\* _claim_one, second statement: lease the due row to worker w.
ClaimRow(r, w) ==
    [r EXCEPT !.status = "verifying", !.tries = @ + 1, !.fence = @ + 1,
              !.owner = w, !.ripe = FALSE]

\* A plausible slip: the write-back selects the row by its uid alone.
AnyRow(r, w, f) == TRUE

\* The WHERE clause of every write-back of a leased row.
HoldsLease(r, w, f) == r.status = "verifying" /\ r.owner = w /\ r.fence = f

\* _finish_locked, the compare-and-set.  The payload it writes is the one read
\* when the row was claimed: phase p of that snapshot comes back with it.
VerdictRow(r, st, p) ==
    [r EXCEPT !.status = st, !.owner = NoWorker, !.phase = p,
              !.ripe = FALSE, !.pending = TRUE]

\* _retry below the attempt limit.
RetryRow(r) ==
    [r EXCEPT !.status = "submitted", !.owner = NoWorker, !.ripe = FALSE]

\* _finish_locked, the last statement: the same snapshot once more, now with
\* the outcome of _terminal_projection_ready.
ProjectedRow(r, p, ready) == [r EXCEPT !.phase = p, !.pending = ~ready]

(***************************************************************************)
(* resolve_stop_idempotency_key.  `rows' maps attempt numbers to the rows  *)
(* of one stop cycle: number 1 is the base key, number n its               *)
(* ":attempt:n".  The base key is handed out again unless the user has     *)
(* authorised a retry and every attempt so far failed for certain.         *)
(***************************************************************************)

\* A plausible slip: an unknown outcome no longer blocks the next attempt.
EagerResolveAttempt(rows, authorised) ==
    LET used == {n \in DOMAIN rows : rows[n].status # "absent"}
    IN  IF /\ used # {} /\ authorised
           /\ \A n \in used : rows[n].status \in
                                 {"confirmed_failed", "unknown_requires_review"}
        THEN Max(used) + 1
        ELSE 1

ResolveAttempt(rows, authorised) ==
    LET used == {n \in DOMAIN rows : rows[n].status # "absent"}
    IN  IF /\ used # {} /\ authorised
           /\ \A n \in used : rows[n].status = "confirmed_failed"
        THEN Max(used) + 1
        ELSE 1
=============================================================================
