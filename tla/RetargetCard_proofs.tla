------------------------- MODULE RetargetCard_proofs -------------------------
(***************************************************************************)
(* Proofs about RetargetCard, for every number of attempts, pulls, workers *)
(* and crashes: type correctness and the three safety properties of a card *)
(* that is executed.                                                       *)
(*                                                                         *)
(* The argument.  A POST is sent by the one job that found the journal     *)
(* empty, for an attempt without a row, after every earlier attempt was    *)
(* refused; so none before it takes effect (LedgerInv, JobInv).  The row   *)
(* of a POST that may take effect binds the card, and a bound card is not  *)
(* queued, claimed or ended as never executed (CardInv).  The verdicts the *)
(* worker and the reconciliation carry agree with the platform (WorkInv,   *)
(* JournalInv).                                                            *)
(***************************************************************************)
EXTENDS RetargetCard, TLAPS, WellFoundedInduction

Sent == \E n \in Try : MayTakeEffect(n)
AllAbsent == \A n \in Try : row[n].status = "absent"

\* An attempt that is known to be refused followed one whose outcome is open or
\* settled by the platform.
Refuted == \E k, m \in Try : /\ k < m
                             /\ row[k].status \in Verified
                             /\ row[m].status = "confirmed_failed"
Applied == \E n \in Try : post[n] = "applied"

(***************************************************************************)
(* The inductive invariant                                                 *)
(***************************************************************************)

\* Ledger and platform: what was sent is filed, verdicts are true, and an
\* attempt is filed only when none before it can take effect.
LedgerInv == \A n \in Try :
    /\ post[n] # "none" => row[n].status # "absent"
    /\ row[n].status = "confirmed_failed" => post[n] = "refused"
    /\ row[n].status = "confirmed_succeeded" => post[n] = "applied"
    /\ row[n].status # "absent" => \A m \in Try : m < n => ~MayTakeEffect(m)

\* Journal and ledger: an empty journal means that nothing was filed, and it is
\* no longer empty while a job executes.
JournalInv ==
    /\ journal \in {"none", "executing", "verifying", "failed", "invalidated"}
    /\ journal = "none" => AllAbsent
    /\ journal = "verifying" => Bound
    /\ journal \in {"failed", "invalidated"} => ~Sent
    /\ journal = "invalidated" => ~Bound

\* The job and the attempts: those ahead of it are not filed, and before it
\* sends nothing is on its way.
JobInv ==
    /\ job.pc \notin {"idle", "pulled", "report", "replay"} => journal = "executing"
    /\ job.pc = "pulled" => ~Sent /\ journal # "verifying"
    /\ job.pc \in {"pulled", "confirm"} => job.try = 1
    /\ job.pc \in {"confirm", "check", "ready"} =>
           \A n \in Try : n >= job.try => row[n].status = "absent"
    /\ job.pc \in {"send", "wait", "accept", "unsure", "reject", "retry"} =>
           \A n \in Try : n > job.try => row[n].status = "absent"
    /\ job.pc \in {"send", "wait", "accept", "unsure", "reject"} =>
           row[job.try].status \in Binding
    /\ job.pc \in {"confirm", "check", "ready", "send", "reject", "retry"} => ~Sent
    /\ job.pc \in {"wait", "accept", "unsure"} =>
           \A n \in Try : MayTakeEffect(n) => n = job.try
    /\ job.pc = "send" => post[job.try] = "none"
    /\ job.pc = "reject" => post[job.try] = "refused"
    /\ job.pc = "retry" => job.try < MaxTry
    /\ job.out \in {"verifying", "failed", "invalidated"}
    /\ job.pc \in {"file", "final"} /\ job.out = "verifying" => Bound
    /\ job.pc \in {"file", "final", "report"} /\ job.out # "verifying" => ~Sent
    /\ job.pc \in {"file", "final", "report"} /\ job.out = "invalidated" => ~Bound

\* The card and the ledger.  A card that failed while a later attempt is still
\* to be sent was failed by a verdict that had been overtaken.
CardInv ==
    /\ Bound => card.st \notin UnsentCards
    /\ card.st = "failed" => Refuted \/ (~Sent /\ job.pc # "send")
    /\ card.st = "succeeded" => Applied

\* The reconciliation workers: what they carry is true.
WorkInv == \A w \in Worker :
    /\ work[w].pc = "settle" /\ work[w].seen => post[work[w].try] = "applied"
    /\ work[w].pc \in {"project", "promote", "finalize", "tail"} =>
           row[work[w].try].status \in Verified
    /\ work[w].pc \in {"promote", "finalize"} =>
           /\ work[w].verdict = "confirmed_failed" => Refuted
           /\ work[w].verdict = "confirmed_succeeded" => Applied

RetargetInv == TypeOK /\ LedgerInv /\ JournalInv /\ JobInv /\ CardInv /\ WorkInv

LEMMA OneTry == 1 \in Try /\ Try \subseteq Nat \ {0}
BY CardAssumption DEF Try

LEMMA TryOrder == \A m, n \in Try : m \in Nat /\ n >= n /\ (m > n => m # n /\ m >= n)
BY DEF Try

\* A job and a worker at rest are well-typed.
LEMMA RestTyped == NoJob \in Job /\ AtRest \in Work
BY OneTry DEF NoJob, Job, JobPC, Outcome, AtRest, Work, WorkPC, Phase, Verified

LEMMA InitInv == Init => RetargetInv
<1> SUFFICES ASSUME Init
             PROVE  RetargetInv
  OBVIOUS
<1>1. TypeOK
  <2>1. Absent \in Row
    BY DEF Absent, Row, Status, Phase
  <2>2. card \in Card
    BY DEF Init, Card, Active
  <2>3. 0 \in 0 .. MaxCrash
    BY CardAssumption
  <2>4. row \in [Try -> Row] /\ work \in [Worker -> Work]
    BY <2>1, RestTyped DEF Init
  <2>. QED
    BY <2>2, <2>3, <2>4, RestTyped DEF Init, TypeOK
<1>2. ~Sent /\ AllAbsent /\ ~Bound
  BY DEF Init, Sent, MayTakeEffect, AllAbsent, Absent, Bound, Binding,
         Outstanding, Verified
<1>3. LedgerInv
  BY <1>2 DEF Init, LedgerInv, AllAbsent, Absent
<1>4. JournalInv /\ JobInv /\ CardInv /\ WorkInv
  BY <1>2 DEF Init, JournalInv, JobInv, CardInv, WorkInv, NoJob, AtRest
<1>. QED
  BY <1>1, <1>3, <1>4 DEF RetargetInv

(***************************************************************************)
(* Calm steps: the POSTs stay as they are, and rows keep their status up   *)
(* to changes among the outstanding ones.                                  *)
(***************************************************************************)
Kept(r, s) ==
    /\ s \in Row
    /\ s.status = r.status \/ {r.status, s.status} \subseteq Outstanding

Calm ==
    /\ post' = post
    /\ row' \in [Try -> Row]
    /\ \A n \in Try : Kept(row[n], row'[n])

\* The transactions of the ledger that decide and reserve nothing.
LEMMA KeptByTransactions ==
    ASSUME NEW r \in Row
    PROVE  /\ Kept(r, r)
           /\ \A p \in {"accepted", "unknown"} :
                /\ r.status # "absent" => Kept(r, EnqueueRow(r, p))
                /\ Kept(r, RecordRow(r, p))
           /\ Kept(r, RecoverRow(r))
           /\ Kept(r, LapseRow(r))
           /\ \A w \in Worker : Due(r) => Kept(r, ClaimRow(r, w))
           /\ r.status = "verifying" => Kept(r, RetryRow(r))
           /\ \A p \in Phase, b \in BOOLEAN : Kept(r, ProjectedRow(r, p, b))
           /\ r.status \in Outstanding => Kept(r, [r EXCEPT !.ripe = TRUE])
<1>1. Kept(r, r)
  BY DEF Kept
<1>2. ASSUME NEW p \in {"accepted", "unknown"}
      PROVE  /\ r.status # "absent" => Kept(r, EnqueueRow(r, p))
             /\ Kept(r, RecordRow(r, p))
  <2>1. r.status # "absent" => Kept(r, EnqueueRow(r, p))
    BY DEF Kept, EnqueueRow, Row, Phase, Status, Outstanding, Terminal, Verified
  <2>2. Kept(r, RecordRow(r, p))
    BY DEF Kept, RecordRow, Row, Phase
  <2>. QED
    BY <2>1, <2>2
<1>3. Kept(r, RecoverRow(r))
  BY DEF Kept, RecoverRow, Interrupted, Row, Phase, Status, Outstanding
<1>4. Kept(r, LapseRow(r))
  BY DEF Kept, LapseRow, Row, Status, Outstanding
<1>5. ASSUME NEW w \in Worker, Due(r)
      PROVE  Kept(r, ClaimRow(r, w))
  <2>1. r.tries + 1 \in Nat /\ r.fence + 1 \in Nat /\ "verifying" \in Status
    BY DEF Row, Status, Outstanding
  <2>2. ClaimRow(r, w) \in Row /\ ClaimRow(r, w).status = "verifying"
    BY <2>1 DEF ClaimRow, Row
  <2>. QED
    BY <1>5, <2>2 DEF Kept, Due, Outstanding
<1>6. r.status = "verifying" => Kept(r, RetryRow(r))
  BY DEF Kept, RetryRow, Row, Status, Outstanding
<1>7. \A p \in Phase, b \in BOOLEAN : Kept(r, ProjectedRow(r, p, b))
  BY DEF Kept, ProjectedRow, Row
<1>8. Kept(r, [r EXCEPT !.ripe = TRUE])
  BY DEF Kept, Row
<1>. QED
  BY <1>1, <1>2, <1>3, <1>4, <1>5, <1>6, <1>7, <1>8

LEMMA CalmUnchanged ==
    ASSUME RetargetInv, UNCHANGED <<row, post>>
    PROVE  Calm
BY KeptByTransactions DEF RetargetInv, TypeOK, Calm

\* A calm step leaves the ledger's part of the invariant alone.
LEMMA CalmLedger ==
    ASSUME RetargetInv, Calm
    PROVE  /\ LedgerInv'
           /\ Sent' <=> Sent
           /\ AllAbsent' <=> AllAbsent
           /\ Bound' <=> Bound
           /\ Refuted' <=> Refuted
           /\ Applied' <=> Applied
           /\ \A n \in Try :
                /\ MayTakeEffect(n)' <=> MayTakeEffect(n)
                /\ row'[n].status = "absent" <=> row[n].status = "absent"
                /\ row'[n].status \in Binding <=> row[n].status \in Binding
                /\ row'[n].status \in Verified <=> row[n].status \in Verified
<1>1. \A n \in Try :
        /\ row'[n].status = "absent" <=> row[n].status = "absent"
        /\ row'[n].status \in Binding <=> row[n].status \in Binding
        /\ row'[n].status \in Verified <=> row[n].status \in Verified
        /\ row'[n].status = "confirmed_failed" <=> row[n].status = "confirmed_failed"
        /\ row'[n].status = "confirmed_succeeded" <=> row[n].status = "confirmed_succeeded"
  BY DEF Calm, Kept, Binding, Outstanding, Verified
<1>2. \A n \in Try : MayTakeEffect(n)' <=> MayTakeEffect(n)
  BY DEF Calm, MayTakeEffect
<1>3. post' = post
  BY DEF Calm
<1>4. LedgerInv'
  BY <1>1, <1>2, <1>3 DEF RetargetInv, LedgerInv
<1>5. /\ Sent' <=> Sent
      /\ AllAbsent' <=> AllAbsent
      /\ Bound' <=> Bound
      /\ Refuted' <=> Refuted
      /\ Applied' <=> Applied
  BY <1>1, <1>2, <1>3 DEF Sent, AllAbsent, Bound, Refuted, Applied
<1>. QED
  BY <1>1, <1>2, <1>4, <1>5

LEMMA CalmJournal ==
    ASSUME RetargetInv, Calm, journal' = journal
    PROVE  JournalInv'
BY CalmLedger DEF RetargetInv, JournalInv

LEMMA CalmJob ==
    ASSUME RetargetInv, Calm, journal' = journal, job' = job
    PROVE  JobInv'
<1>1. job.try \in Try
  BY DEF RetargetInv, TypeOK, Job
<1>2. \A n \in Try : MayTakeEffect(n)' <=> MayTakeEffect(n)
  BY DEF Calm, MayTakeEffect
<1>. QED
  BY <1>1, <1>2, CalmLedger DEF RetargetInv, JobInv, Calm

LEMMA CalmCard ==
    ASSUME RetargetInv, Calm, card' = card, job'.pc = "send" => job.pc = "send"
    PROVE  CardInv'
BY CalmLedger DEF RetargetInv, CardInv, UnsentCards

LEMMA CalmWork ==
    ASSUME RetargetInv, Calm, work' = work
    PROVE  WorkInv'
<1>1. \A w \in Worker : work[w].try \in Try
  BY DEF RetargetInv, TypeOK, Work
<1>. QED
  BY <1>1, CalmLedger DEF RetargetInv, WorkInv, Calm

(***************************************************************************)
(* Steps of the card, its user and its clocks                              *)
(***************************************************************************)
CardStatus == Active \cup Final \cup {"verifying"}

LEMMA CardForms ==
    ASSUME card \in Card
    PROVE  \A st \in CardStatus :
             /\ Ended(st) \in Card /\ Ended(st).st = st
             /\ Dropped(st) \in Card /\ Dropped(st).st = st
<1> SUFFICES ASSUME NEW st \in CardStatus
             PROVE  /\ Ended(st) \in Card /\ Ended(st).st = st
                    /\ Dropped(st) \in Card /\ Dropped(st).st = st
  OBVIOUS
<1>1. Ended(st) \in Card /\ Ended(st).st = st
  BY DEF Ended, Card, CardStatus
<1>2. Dropped(st) \in Card /\ Dropped(st).st = st
  BY DEF Dropped, Card, CardStatus
<1>. QED
  BY <1>1, <1>2

LEMMA CardSteps ==
    ASSUME RetargetInv,
           \/ Approve \/ Reject \/ ClickLate \/ ClickExpires \/ Invalidate
           \/ Cancel \/ Revoke \/ Expire \/ Age \/ Lapse
    PROVE  RetargetInv'
<1>1. UNCHANGED <<journal, job, row, filed, work, post, crashes>>
  BY DEF Approve, Reject, ClickLate, ClickExpires, Invalidate, Cancel, Revoke,
         Expire, Age, Lapse, rest, ledger
<1>2. Calm
  BY <1>1, CalmUnchanged
<1>3. /\ card' \in Card /\ click' \in BOOLEAN
      /\ Bound => card'.st \notin UnsentCards
      /\ card'.st = "failed" => card.st = "failed"
      /\ card'.st = "succeeded" => card.st = "succeeded"
  <2>0. card \in Card /\ click \in BOOLEAN /\ (Bound => card.st \notin UnsentCards)
    BY DEF RetargetInv, TypeOK, CardInv
  <2>1. CASE Approve \/ Reject \/ ClickLate \/ ClickExpires
    BY <2>0, <2>1 DEF Approve, Reject, ClickLate, ClickExpires, Card, Active,
                      Final, UnsentCards
  <2>2. CASE Invalidate \/ Cancel
    <3>1. /\ card.st \in {"pending", "approved_queued", "claimed"}
          /\ card' = Dropped("invalidated") \/ card' = Dropped("cancelled")
      BY <2>2 DEF Invalidate, Cancel
    <3>2. {"invalidated", "cancelled"} \subseteq CardStatus
      BY DEF CardStatus, Final
    <3>3. card' \in Card /\ card'.st \in {"invalidated", "cancelled"}
      BY <2>0, <3>1, <3>2, CardForms
    <3>. QED
      BY <2>0, <2>2, <3>1, <3>3 DEF Invalidate, Cancel, UnsentCards
  <2>3. CASE Revoke
    <3>1. ~Bound
      BY <2>3 DEF Revoke, Bound, Binding, Outstanding, Verified
    <3>2. Dropped("cancelled") \in Card /\ Dropped("cancelled").st = "cancelled"
      BY <2>0, CardForms DEF CardStatus, Final
    <3>3. card' \in Card /\ card'.st = "cancelled"
      BY <2>3, <3>2 DEF Revoke, Card
    <3>. QED
      BY <2>0, <2>3, <3>1, <3>3 DEF Revoke
  <2>4. CASE Expire
    <3>0. {"verifying", "expired", "approved_queued"} \subseteq CardStatus
      BY DEF CardStatus, Final, Active
    <3>1. \/ card' = [Ended("verifying") EXCEPT !.fence = @ + 1]
          \/ card' = Dropped("expired")
          \/ card' = Dropped("approved_queued") /\ ~Bound
      BY <2>4 DEF Expire, Held
    <3>2. /\ Ended("verifying") \in Card /\ Ended("verifying").st = "verifying"
          /\ Dropped("expired") \in Card /\ Dropped("expired").st = "expired"
          /\ Dropped("approved_queued") \in Card
          /\ Dropped("approved_queued").st = "approved_queued"
      BY <2>0, <3>0, CardForms
    <3>3. card' \in Card /\ \/ card'.st \in {"verifying", "expired"}
                            \/ card'.st = "approved_queued" /\ ~Bound
      BY <3>1, <3>2 DEF Card
    <3>. QED
      BY <2>0, <2>4, <3>3 DEF Expire, UnsentCards
  <2>5. CASE Age \/ Lapse
    BY <2>0, <2>5 DEF Age, Lapse, Card
  <2>. QED
    BY <2>1, <2>2, <2>3, <2>4, <2>5
<1>4. TypeOK'
  BY <1>1, <1>3 DEF RetargetInv, TypeOK
<1>5. CardInv'
  BY <1>1, <1>2, <1>3, CalmLedger DEF RetargetInv, CardInv, UnsentCards
<1>. QED
  BY <1>1, <1>2, <1>4, <1>5, CalmLedger, CalmJournal, CalmJob, CalmWork
     DEF RetargetInv

(***************************************************************************)
(* Steps of the worker that touch neither the ledger nor the platform      *)
(***************************************************************************)

\* Renewing a claim makes the card one that is executed.
Holding == card' = card \/ card' = Renewed

LEMMA HoldingCard ==
    ASSUME RetargetInv, Calm, Holding, job'.pc = "send" => job.pc = "send"
    PROVE  card' \in Card /\ CardInv'
<1>1. card \in Card
  BY DEF RetargetInv, TypeOK
<1>2. Renewed \in Card /\ Renewed.st = "executing"
  BY <1>1 DEF Renewed, Card, Active
<1>3. CASE card' = card
  BY <1>1, <1>3, CalmCard
<1>4. CASE card' = Renewed
  BY <1>2, <1>4 DEF CardInv, UnsentCards
<1>. QED
  BY <1>3, <1>4 DEF Holding

\* The frame of these steps.
LEMMA WorkerFrame ==
    ASSUME RetargetInv, UNCHANGED <<click, row, filed, work, post, crashes>>,
           card' \in Card, job' \in Job, journal' \in {"none", "executing"} \cup Outcome,
           JournalInv', JobInv', CardInv'
    PROVE  RetargetInv'
BY CalmUnchanged, CalmLedger, CalmWork DEF RetargetInv, TypeOK

LEMMA JobTyped ==
    ASSUME RetargetInv
    PROVE  /\ job \in Job /\ job.try \in Try
           /\ journal \in {"none", "executing"} \cup Outcome
BY DEF RetargetInv, TypeOK, Job

LEMMA PullInv ==
    ASSUME RetargetInv, Pull
    PROVE  RetargetInv'
<1>1. /\ job.pc = "idle" /\ card.st = "approved_queued"
      /\ card' = [card EXCEPT !.st = "claimed", !.lease = "live",
                              !.fence = @ + 1, !.token = card.fence + 1]
      /\ job' = [NoJob EXCEPT !.pc = "pulled", !.claim = card.fence + 1]
      /\ UNCHANGED <<click, journal, row, filed, work, post, crashes>>
  BY DEF Pull, At, ledger
<1>2. card \in Card /\ card.fence + 1 \in Nat
  BY DEF RetargetInv, TypeOK, Card
<1>3. card' \in Card /\ card'.st = "claimed"
  BY <1>1, <1>2 DEF Card, Active
<1>4. job' \in Job /\ job'.pc = "pulled" /\ job'.out = "failed" /\ job'.try = 1
  BY <1>1, <1>2, OneTry DEF NoJob, Job, JobPC, Outcome
<1>5. ~Bound
  BY <1>1 DEF RetargetInv, CardInv, UnsentCards
<1>6. ~Sent
  BY <1>5 DEF RetargetInv, LedgerInv, TypeOK, Row, Sent, MayTakeEffect, Bound,
              Status, Terminal, Binding, Verified
<1>7. Calm
  BY <1>1, CalmUnchanged
<1>8. JournalInv'
  BY <1>1, <1>7, CalmJournal
<1>9. JobInv'
  BY <1>1, <1>4, <1>5, <1>6, <1>7, CalmLedger DEF RetargetInv, JobInv, JournalInv
<1>10. CardInv'
  BY <1>3, <1>5, <1>7, CalmLedger DEF CardInv
<1>. QED
  BY <1>1, <1>3, <1>4, <1>8, <1>9, <1>10, JobTyped, WorkerFrame

LEMMA RecallInv ==
    ASSUME RetargetInv, Recall
    PROVE  RetargetInv'
<1>1. /\ job.pc = "pulled"
      /\ UNCHANGED <<card, click, row, filed, work, post, crashes>>
  BY DEF Recall, At, ledger
<1>2. Calm /\ Holding
  BY <1>1, CalmUnchanged DEF Holding
<1>3. ~Sent /\ journal \in {"none", "executing", "failed", "invalidated"}
  BY <1>1 DEF RetargetInv, JobInv, JournalInv
<1>4. \/ /\ journal \in {"failed", "invalidated"}
         /\ journal' = journal
         /\ job' = [job EXCEPT !.pc = "report", !.out = journal]
      \/ /\ journal = "executing" /\ journal' = "failed"
         /\ job' = [job EXCEPT !.pc = "report", !.out = "failed"]
      \/ /\ journal = "none" /\ journal' = "executing"
         /\ job' = [job EXCEPT !.pc = "confirm"]
  BY <1>3 DEF Recall, Goto, Outcome
<1>5. /\ job' \in Job /\ job'.try = job.try
      /\ journal' \in {"none", "executing"} \cup Outcome
      /\ job'.pc \in {"report", "confirm"}
  BY <1>4, JobTyped DEF Job, JobPC, Outcome
<1>6. JournalInv'
  BY <1>2, <1>3, <1>4, CalmLedger DEF RetargetInv, JournalInv
<1>7. JobInv'
  <2>1. CASE job'.pc = "report"
    BY <1>2, <1>3, <1>4, <2>1, JobTyped, CalmLedger
       DEF RetargetInv, JournalInv, JobInv, Job
  <2>2. CASE job'.pc = "confirm"
    <3>1. job' = [job EXCEPT !.pc = "confirm"] /\ AllAbsent /\ journal' = "executing"
      BY <1>4, <2>2, JobTyped DEF RetargetInv, JournalInv, Job
    <3>2. job.try = 1
      BY <1>1 DEF RetargetInv, JobInv
    <3>. QED
      BY <1>2, <1>3, <3>1, <3>2, JobTyped, CalmLedger
         DEF RetargetInv, JobInv, Job, AllAbsent
  <2>. QED
    BY <1>5, <2>1, <2>2
<1>. QED
  BY <1>1, <1>2, <1>5, <1>6, <1>7, HoldingCard, WorkerFrame

\* A job at rest asks for nothing.
LEMMA RestingJob ==
    ASSUME RetargetInv, job' = NoJob
    PROVE  job' \in Job /\ job'.pc = "idle" /\ JobInv'
<1>1. job' \in Job /\ job'.pc = "idle" /\ job'.out = "failed"
  BY RestTyped DEF NoJob
<1>. QED
  BY <1>1 DEF JobInv

LEMMA ConfirmInv ==
    ASSUME RetargetInv, Confirm
    PROVE  RetargetInv'
<1>1. /\ job.pc = "confirm"
      /\ UNCHANGED <<click, row, filed, work, post, crashes>>
  BY DEF Confirm, At, ledger
<1>2. Calm
  BY <1>1, CalmUnchanged
<1>3. ~Sent /\ ~Bound /\ journal = "executing"
  <2>1. AllAbsent
    BY <1>1, OneTry DEF RetargetInv, JobInv, AllAbsent, Try
  <2>. QED
    BY <1>1, <2>1 DEF RetargetInv, JobInv, Bound, AllAbsent, Binding, Outstanding, Verified
<1>4. CASE Owns(job.claim, Held)
  <2>1. /\ card' = Renewed /\ journal' = journal
        /\ job' = [job EXCEPT !.pc = "check", !.beat = TRUE]
    BY <1>4 DEF Confirm
  <2>2. /\ job' \in Job /\ job'.pc = "check" /\ job'.try = job.try /\ job'.out = job.out
    BY <2>1, JobTyped DEF Job, JobPC
  <2>3. JobInv'
    BY <1>1, <1>2, <2>1, <2>2, JobTyped, CalmLedger DEF RetargetInv, JobInv
  <2>. QED
    BY <1>1, <1>2, <2>1, <2>2, <2>3, HoldingCard, CalmJournal, JobTyped, WorkerFrame
       DEF Holding
<1>5. CASE ~Owns(job.claim, Held)
  <2>1. card' = card /\ journal' = "failed" /\ job' = NoJob
    BY <1>5 DEF Confirm, Leave
  <2>2. JournalInv'
    BY <1>2, <1>3, <2>1, CalmLedger DEF JournalInv
  <2>. QED
    BY <1>1, <1>2, <2>1, <2>2, RestingJob, HoldingCard, WorkerFrame
       DEF Holding, Outcome
<1>. QED
  BY <1>4, <1>5

LEMMA StrategyChangedInv ==
    ASSUME RetargetInv, StrategyChanged
    PROVE  RetargetInv'
<1>1. /\ job.pc = "check" /\ job.try = 1
      /\ job' = [job EXCEPT !.pc = "final", !.out = "invalidated", !.beat = FALSE]
      /\ UNCHANGED <<card, click, journal, row, filed, work, post, crashes>>
  BY DEF StrategyChanged, At, ledger
<1>2. Calm /\ Holding
  BY <1>1, CalmUnchanged DEF Holding
<1>3. ~Sent /\ ~Bound
  <2>1. AllAbsent
    BY <1>1, OneTry DEF RetargetInv, JobInv, AllAbsent, Try
  <2>. QED
    BY <1>1, <2>1 DEF RetargetInv, JobInv, Bound, AllAbsent, Binding, Outstanding, Verified
<1>4. job' \in Job /\ job'.pc = "final" /\ job'.out = "invalidated"
  BY <1>1, JobTyped DEF Job, JobPC, Outcome
<1>5. JobInv'
  BY <1>1, <1>2, <1>3, <1>4, CalmLedger DEF RetargetInv, JobInv
<1>. QED
  BY <1>1, <1>2, <1>4, <1>5, HoldingCard, CalmJournal, JobTyped, WorkerFrame

\* An attempt that ends before anything was sent has failed.
LEMMA FailedResult ==
    ASSUME RetargetInv, job.pc \in {"check", "ready"},
           job' = [job EXCEPT !.pc = "file", !.out = "failed"],
           UNCHANGED <<card, click, journal, row, filed, work, post, crashes>>
    PROVE  RetargetInv'
<1>1. Calm /\ Holding
  BY CalmUnchanged DEF Holding
<1>2. job' \in Job /\ job'.pc = "file" /\ job'.out = "failed"
  BY JobTyped DEF Job, JobPC, Outcome
<1>3. JobInv'
  BY <1>1, <1>2, CalmLedger DEF RetargetInv, JobInv
<1>. QED
  BY <1>1, <1>2, <1>3, HoldingCard, CalmJournal, JobTyped, WorkerFrame

LEMMA NotSentInv ==
    ASSUME RetargetInv, NotSent
    PROVE  RetargetInv'
BY FailedResult DEF NotSent, Result, ledger

LEMMA PreflightInv ==
    ASSUME RetargetInv, Preflight
    PROVE  RetargetInv'
<1>1. /\ job.pc = "check"
      /\ UNCHANGED <<card, click, journal, row, filed, work, post, crashes>>
  BY DEF Preflight, At, ledger
<1>2. row[job.try].status = "absent"
  <2>1. job.try \in Try /\ job.try >= job.try
    BY JobTyped, TryOrder
  <2>. QED
    BY <1>1, <2>1 DEF RetargetInv, JobInv
<1>3. job' = [job EXCEPT !.pc = "ready"]
  BY <1>2 DEF Preflight, Goto
<1>4. Calm /\ Holding
  BY <1>1, CalmUnchanged DEF Holding
<1>5. job' \in Job /\ job'.pc = "ready" /\ job'.try = job.try /\ job'.out = job.out
  BY <1>3, JobTyped DEF Job, JobPC
<1>6. JobInv'
  BY <1>1, <1>4, <1>5, CalmLedger, JobTyped DEF RetargetInv, JobInv
<1>. QED
  BY <1>1, <1>4, <1>5, <1>6, HoldingCard, CalmJournal, JobTyped, WorkerFrame

\* Going on with an intent that was reserved, without a word to ledger or platform.
LEMMA SendFailsInv ==
    ASSUME RetargetInv, SendFails
    PROVE  RetargetInv'
<1>1. /\ job.pc = "send" /\ job' = [job EXCEPT !.pc = "unsure"]
      /\ UNCHANGED <<card, click, journal, row, filed, work, post, crashes>>
  BY DEF SendFails, At, Goto, ledger
<1>2. Calm /\ Holding
  BY <1>1, CalmUnchanged DEF Holding
<1>3. job' \in Job /\ job'.pc = "unsure" /\ job'.try = job.try /\ job'.out = job.out
  BY <1>1, JobTyped DEF Job, JobPC
<1>4. JobInv'
  BY <1>1, <1>2, <1>3, CalmLedger, JobTyped DEF RetargetInv, JobInv, Sent
<1>. QED
  BY <1>1, <1>2, <1>3, <1>4, HoldingCard, CalmJournal, JobTyped, WorkerFrame

LEMMA AnswerInv ==
    ASSUME RetargetInv, Answer
    PROVE  RetargetInv'
<1>1. /\ job.pc = "wait"
      /\ UNCHANGED <<card, click, journal, row, filed, work, post, crashes>>
  BY DEF Answer, At, ledger
<1>2. PICK v \in VerdictOf(post[job.try]) : job' = [job EXCEPT !.pc = v]
  BY DEF Answer, Goto
<1>3. \/ v \in {"accept", "unsure"}
      \/ v = "reject" /\ post[job.try] = "refused"
  BY <1>2 DEF VerdictOf
<1>4. Calm /\ Holding
  BY <1>1, CalmUnchanged DEF Holding
<1>5. job' \in Job /\ job'.pc = v /\ job'.try = job.try /\ job'.out = job.out
  BY <1>2, <1>3, JobTyped DEF Job, JobPC
<1>6. v = "reject" => ~Sent
  BY <1>1, <1>3 DEF RetargetInv, JobInv, Sent, MayTakeEffect
<1>7. JobInv'
  <2>1. CASE v = "reject"
    BY <1>1, <1>3, <1>4, <1>5, <1>6, <2>1, CalmLedger, JobTyped DEF RetargetInv, JobInv
  <2>2. CASE v \in {"accept", "unsure"}
    BY <1>1, <1>4, <1>5, <2>2, CalmLedger, JobTyped DEF RetargetInv, JobInv
  <2>. QED
    BY <1>3, <2>1, <2>2
<1>8. job'.pc # "send"
  BY <1>3, <1>5
<1>. QED
  BY <1>1, <1>4, <1>5, <1>7, <1>8, HoldingCard, CalmJournal, JobTyped, WorkerFrame

LEMMA RetryOrStopInv ==
    ASSUME RetargetInv, RetryOrStop
    PROVE  RetargetInv'
<1>1. /\ job.pc = "retry"
      /\ UNCHANGED <<click, journal, row, filed, work, post, crashes>>
      /\ \/ /\ card' = Renewed
            /\ job' = [job EXCEPT !.pc = "check", !.try = @ + 1]
         \/ /\ card' = card
            /\ job' = [job EXCEPT !.pc = "file", !.out = "failed", !.cancelled = TRUE]
  BY DEF RetryOrStop, At, ledger
<1>2. Calm /\ Holding
  BY <1>1, CalmUnchanged DEF Holding
<1>3. job.try + 1 \in Try /\ job.try \in Nat
  BY <1>1, JobTyped, CardAssumption DEF RetargetInv, JobInv, Try
<1>4. /\ job' \in Job
      /\ \/ job'.pc = "check" /\ job'.try = job.try + 1 /\ job'.out = job.out
         \/ job'.pc = "file" /\ job'.out = "failed"
  BY <1>1, <1>3, JobTyped DEF Job, JobPC, Outcome
<1>5. JobInv'
  <2>1. CASE job'.pc = "check"
    <3>1. \A n \in Try : n >= job.try + 1 => n > job.try
      BY <1>3, OneTry
    <3>. QED
      BY <1>1, <1>2, <1>4, <2>1, <3>1, CalmLedger DEF RetargetInv, JobInv
  <2>2. CASE job'.pc = "file"
    BY <1>1, <1>2, <1>4, <2>2, CalmLedger DEF RetargetInv, JobInv
  <2>. QED
    BY <1>4, <2>1, <2>2
<1>. QED
  BY <1>1, <1>2, <1>4, <1>5, HoldingCard, CalmJournal, JobTyped, WorkerFrame

LEMMA AbandonInv ==
    ASSUME RetargetInv, Abandon
    PROVE  RetargetInv'
<1>1. /\ job' = NoJob
      /\ UNCHANGED <<card, click, journal, row, filed, work, post, crashes>>
  BY DEF Abandon, Leave, ledger
<1>2. Calm /\ Holding
  BY <1>1, CalmUnchanged DEF Holding
<1>. QED
  BY <1>1, <1>2, RestingJob, HoldingCard, CalmJournal, JobTyped, WorkerFrame

LEMMA JournalStepInv ==
    ASSUME RetargetInv, Journal
    PROVE  RetargetInv'
<1>1. /\ job.pc = "final" /\ journal' = job.out
      /\ job' = [job EXCEPT !.pc = "report"]
      /\ UNCHANGED <<card, click, row, filed, work, post, crashes>>
  BY DEF Journal, At, Goto, ledger
<1>2. Calm /\ Holding
  BY <1>1, CalmUnchanged DEF Holding
<1>3. job' \in Job /\ job'.pc = "report" /\ job'.out = job.out
  BY <1>1, JobTyped DEF Job, JobPC
<1>4. /\ journal' \in {"none", "executing"} \cup Outcome
      /\ JournalInv'
  BY <1>1, <1>2, CalmLedger DEF RetargetInv, JobInv, JournalInv, Outcome
<1>5. JobInv'
  BY <1>1, <1>2, <1>3, CalmLedger DEF RetargetInv, JobInv
<1>. QED
  BY <1>1, <1>2, <1>3, <1>4, <1>5, HoldingCard, WorkerFrame

LEMMA ReportInv ==
    ASSUME RetargetInv, Report
    PROVE  RetargetInv'
<1>1. /\ job.pc = "report"
      /\ UNCHANGED <<click, journal, row, filed, work, post, crashes>>
      /\ job' = NoJob \/ job' = [job EXCEPT !.pc = "replay"]
      /\ card' = card \/ card' = Ended(job.out)
  BY DEF Report, At, Goto, Leave, ledger
<1>2. Calm
  BY <1>1, CalmUnchanged
<1>3. job' \in Job /\ JobInv' /\ job'.pc \in {"idle", "replay"}
  <2>1. CASE job' = NoJob
    BY <2>1, RestingJob
  <2>2. CASE job' = [job EXCEPT !.pc = "replay"]
    <3>1. job' \in Job /\ job'.pc = "replay" /\ job'.out = job.out
      BY <2>2, JobTyped DEF Job, JobPC
    <3>. QED
      BY <3>1 DEF RetargetInv, JobInv
  <2>. QED
    BY <1>1, <2>1, <2>2
<1>4. card' \in Card /\ CardInv'
  <2>1. CASE card' = card
    BY <1>2, <1>3, <2>1, CalmCard DEF RetargetInv, TypeOK
  <2>2. CASE card' = Ended(job.out)
    <3>1. job.out \in CardStatus
      BY DEF RetargetInv, JobInv, CardStatus, Final
    <3>2. card' \in Card /\ card'.st = job.out
      BY <2>2, <3>1, CardForms DEF RetargetInv, TypeOK
    <3>3. /\ job.out \in {"verifying", "failed", "invalidated"}
          /\ job.out = "failed" => ~Sent
          /\ job.out = "invalidated" => ~Bound
      BY <1>1 DEF RetargetInv, JobInv
    <3>. QED
      BY <1>2, <1>3, <3>2, <3>3, CalmLedger DEF CardInv, UnsentCards
  <2>. QED
    BY <1>1, <2>1, <2>2
<1>. QED
  BY <1>1, <1>2, <1>3, <1>4, CalmJournal, JobTyped, WorkerFrame

LEMMA BeatInv ==
    ASSUME RetargetInv, Beat
    PROVE  RetargetInv'
<1>1. /\ UNCHANGED <<click, journal, row, filed, work, post, crashes>>
      /\ \/ card' = Renewed /\ job' = job
         \/ card' = card /\ job' = [job EXCEPT !.beat = FALSE, !.cancelled = TRUE]
  BY DEF Beat, ledger
<1>2. Calm /\ Holding
  BY <1>1, CalmUnchanged DEF Holding
<1>3. job' \in Job /\ job'.pc = job.pc /\ job'.try = job.try /\ job'.out = job.out
  BY <1>1, JobTyped DEF Job
<1>4. JobInv'
  BY <1>1, <1>2, <1>3, JobTyped, CalmLedger DEF RetargetInv, JobInv
<1>. QED
  BY <1>1, <1>2, <1>3, <1>4, HoldingCard, CalmJournal, JobTyped, WorkerFrame

(***************************************************************************)
(* Steps of the worker on the ledger, and the POST                         *)
(***************************************************************************)
LEMMA ReserveInv ==
    ASSUME RetargetInv, Reserve
    PROVE  RetargetInv'
<1>1. /\ job.pc = "ready"
      /\ UNCHANGED <<card, click, journal, work, post, crashes>>
  BY DEF Reserve, At
<1>2. row[job.try].status = "absent" /\ post[job.try] = "none"
  <2>1. job.try \in Try /\ job.try >= job.try
    BY JobTyped, TryOrder
  <2>. QED
    BY <1>1, <2>1 DEF RetargetInv, JobInv, LedgerInv
<1>3. CASE ~Owns(job.claim, {"executing"})
  BY <1>1, <1>3, FailedResult DEF Reserve, Result, ledger
<1>4. CASE Owns(job.claim, {"executing"})
  <2> DEFINE n == job.try
  <2>1. /\ row' = [row EXCEPT ![n] = Reserved]
        /\ filed' = [filed EXCEPT ![n] = job.claim]
        /\ job' = [job EXCEPT !.pc = "send"]
        /\ card.st = "executing"
    BY <1>2, <1>4 DEF Reserve, Goto, Owns
  <2>2. /\ row \in [Try -> Row] /\ filed \in [Try -> Nat] /\ n \in Try
        /\ job.claim \in Nat /\ job \in Job
    BY DEF RetargetInv, TypeOK, Job
  <2>3. Reserved \in Row /\ Reserved.status = "submitting"
    BY DEF Reserved, Absent, Row, Status, Phase, Outstanding
  <2>4. /\ row' \in [Try -> Row] /\ filed' \in [Try -> Nat]
        /\ row'[n].status = "submitting"
        /\ \A m \in Try : m # n => row'[m] = row[m]
    BY <2>1, <2>2, <2>3
  <2>5. job' \in Job /\ job'.pc = "send" /\ job'.try = n /\ job'.out = job.out
    BY <2>1, <2>2 DEF Job, JobPC
  <2>6. \A m \in Try : MayTakeEffect(m)' <=> MayTakeEffect(m)
    BY <1>1 DEF MayTakeEffect
  <2>7. ~Sent /\ ~Sent' /\ journal = "executing"
    BY <1>1, <2>6 DEF RetargetInv, JobInv, Sent
  <2>8. LedgerInv'
    BY <1>1, <1>2, <2>2, <2>4, <2>6, <2>7 DEF RetargetInv, LedgerInv, Sent
  <2>9. JournalInv'
    BY <1>1, <2>7 DEF JournalInv
  <2>10. JobInv'
    <3>1. \A m \in Try : m > n => m # n /\ m >= n
      BY <2>2, TryOrder
    <3>. QED
      BY <1>1, <1>2, <2>2, <2>4, <2>5, <2>7, <3>1
         DEF RetargetInv, JobInv, Binding, Outstanding
  <2>11. CardInv'
    BY <1>1, <2>1 DEF CardInv, UnsentCards
  <2>12. WorkInv'
    <3>1. \A w \in Worker : work[w].try \in Try
      BY DEF RetargetInv, TypeOK, Work
    <3>2. \A m \in Try : /\ row[m].status \in Verified => row'[m] = row[m]
                         /\ row[m].status = "confirmed_failed" => row'[m] = row[m]
      BY <1>2, <2>4 DEF Verified
    <3>3. Refuted => Refuted'
      BY <3>2 DEF Refuted
    <3>4. Applied => Applied'
      BY <1>1 DEF Applied
    <3>. QED
      BY <1>1, <3>1, <3>2, <3>3, <3>4 DEF RetargetInv, WorkInv
  <2>13. TypeOK'
    BY <1>1, <2>4, <2>5 DEF RetargetInv, TypeOK
  <2>. QED
    BY <2>8, <2>9, <2>10, <2>11, <2>12, <2>13 DEF RetargetInv
<1>. QED
  BY <1>3, <1>4

LEMMA SendInv ==
    ASSUME RetargetInv, Send
    PROVE  RetargetInv'
<1> DEFINE n == job.try
<1>1. /\ job.pc = "send"
      /\ post' = [post EXCEPT ![n] = "flying"]
      /\ job' = [job EXCEPT !.pc = "wait"]
      /\ UNCHANGED <<card, click, journal, row, filed, work, crashes>>
  BY DEF Send, At, Goto, ledger
<1>2. /\ n \in Try /\ job \in Job
      /\ post \in [Try -> {"none", "flying", "applied", "refused"}]
  BY DEF RetargetInv, TypeOK, Job
<1>3. /\ row[n].status \in Binding /\ post[n] = "none" /\ ~Sent
      /\ \A m \in Try : m > n => row[m].status = "absent"
      /\ journal = "executing"
  BY <1>1 DEF RetargetInv, JobInv
<1>4. /\ row[n].status \notin {"absent", "confirmed_failed", "confirmed_succeeded"}
  BY <1>2, <1>3 DEF RetargetInv, LedgerInv, Binding, Outstanding, Verified
<1>5. /\ post' \in [Try -> {"none", "flying", "applied", "refused"}]
      /\ post'[n] = "flying"
      /\ \A m \in Try : m # n => post'[m] = post[m]
  BY <1>1, <1>2
<1>6. \A m \in Try : MayTakeEffect(m)' => m = n
  BY <1>3, <1>5 DEF Sent, MayTakeEffect
<1>7. job' \in Job /\ job'.pc = "wait" /\ job'.try = n /\ job'.out = job.out
  BY <1>1, <1>2 DEF Job, JobPC
<1>8. LedgerInv'
  <2>1. \A m \in Try : /\ post'[m] # "none" => row'[m].status # "absent"
                       /\ row'[m].status = "confirmed_failed" => post'[m] = "refused"
                       /\ row'[m].status = "confirmed_succeeded" => post'[m] = "applied"
    BY <1>1, <1>4, <1>5 DEF RetargetInv, LedgerInv
  <2>2. ASSUME NEW k \in Try, row'[k].status # "absent", NEW m \in Try, m < k,
               MayTakeEffect(m)'
        PROVE  FALSE
    BY <1>1, <1>3, <1>6, <2>2, OneTry
  <2>. QED
    BY <2>1, <2>2 DEF LedgerInv
<1>9. Bound /\ Bound'
  BY <1>1, <1>2, <1>3 DEF Bound
<1>10. JournalInv'
  BY <1>1, <1>3 DEF JournalInv
<1>11. JobInv'
  BY <1>1, <1>3, <1>6, <1>7 DEF RetargetInv, JobInv
<1>12. CardInv'
  <2>1. card.st = "failed" => Refuted'
    BY <1>1 DEF RetargetInv, CardInv, Refuted
  <2>2. Applied => Applied'
    BY <1>3, <1>5 DEF Applied, Sent, MayTakeEffect
  <2>. QED
    BY <1>1, <1>9, <2>1, <2>2 DEF RetargetInv, CardInv
<1>13. WorkInv'
  <2>1. \A w \in Worker : work[w].try \in Try
    BY DEF RetargetInv, TypeOK, Work
  <2>2. \A m \in Try : post[m] # "applied"
    BY <1>3 DEF Sent, MayTakeEffect
  <2>3. Refuted => Refuted'
    BY <1>1 DEF Refuted
  <2>. QED
    BY <1>1, <2>1, <2>2, <2>3 DEF RetargetInv, WorkInv, Applied
<1>14. TypeOK'
  BY <1>1, <1>5, <1>7 DEF RetargetInv, TypeOK
<1>. QED
  BY <1>8, <1>10, <1>11, <1>12, <1>13, <1>14 DEF RetargetInv

\* The platform decides: what was on its way takes effect, or will not.
LEMMA DecideInv ==
    ASSUME RetargetInv, NEW n \in Try, NEW outcome \in {"applied", "refused"},
           Decide(n, outcome)
    PROVE  RetargetInv'
<1>1. /\ post[n] = "flying" /\ post' = [post EXCEPT ![n] = outcome]
      /\ UNCHANGED <<card, click, journal, job, row, filed, work, crashes>>
  BY DEF Decide, ledger
<1>2. /\ post' \in [Try -> {"none", "flying", "applied", "refused"}]
      /\ post'[n] = outcome
      /\ \A m \in Try : m # n => post'[m] = post[m]
  BY <1>1 DEF RetargetInv, TypeOK
<1>3. /\ \A m \in Try : MayTakeEffect(m)' => MayTakeEffect(m)
      /\ \A m \in Try : post[m] = "applied" => post'[m] = "applied"
      /\ \A m \in Try : post[m] \in {"none", "refused"} => post'[m] = post[m]
      /\ \A m \in Try : post'[m] = "none" <=> post[m] = "none"
  BY <1>1, <1>2 DEF MayTakeEffect
<1>4. /\ Sent' => Sent
      /\ Applied => Applied'
      /\ Bound' <=> Bound
      /\ AllAbsent' <=> AllAbsent
      /\ Refuted' <=> Refuted
  BY <1>1, <1>3 DEF Sent, Applied, Bound, AllAbsent, Refuted
<1>5. LedgerInv'
  BY <1>1, <1>3 DEF RetargetInv, LedgerInv
<1>6. JournalInv'
  BY <1>1, <1>4 DEF RetargetInv, JournalInv
<1>7. JobInv'
  BY <1>1, <1>3, <1>4, JobTyped DEF RetargetInv, JobInv
<1>8. CardInv'
  BY <1>1, <1>4 DEF RetargetInv, CardInv
<1>9. WorkInv'
  <2>1. \A w \in Worker : work[w].try \in Try
    BY DEF RetargetInv, TypeOK, Work
  <2>. QED
    BY <1>1, <1>3, <1>4, <2>1 DEF RetargetInv, WorkInv
<1>10. TypeOK'
  BY <1>1, <1>2 DEF RetargetInv, TypeOK
<1>. QED
  BY <1>5, <1>6, <1>7, <1>8, <1>9, <1>10 DEF RetargetInv

LEMMA BookSentInv ==
    ASSUME RetargetInv, BookSent
    PROVE  RetargetInv'
<1> DEFINE n == job.try
           p == IF job.pc = "accept" THEN "accepted" ELSE "unknown"
<1>1. /\ job.pc \in {"accept", "unsure"}
      /\ job' = [job EXCEPT !.pc = "file", !.out = "verifying"]
      /\ UNCHANGED <<card, click, journal, filed, work, post, crashes>>
  BY DEF BookSent, Result
<1>2. PICK r \in {EnqueueRow(row[n], p), RecordRow(row[n], p), row[n]} :
          row' = [row EXCEPT ![n] = r]
  BY DEF BookSent, At
<1>3. /\ row \in [Try -> Row] /\ n \in Try /\ job \in Job /\ p \in {"accepted", "unknown"}
      /\ row[n].status \in Binding
  BY <1>1 DEF RetargetInv, TypeOK, Job, JobInv
<1> HIDE DEF n, p
<1>4. Kept(row[n], r)
  <2>1. row[n] \in Row /\ row[n].status # "absent"
    BY <1>3 DEF Binding, Outstanding, Verified
  <2>. QED
    BY <1>2, <1>3, <2>1, KeptByTransactions
<1>5. Calm
  BY <1>1, <1>2, <1>3, <1>4, KeptByTransactions DEF Calm, Kept
<1>6. job' \in Job /\ job'.pc = "file" /\ job'.out = "verifying"
  BY <1>1, <1>3 DEF Job, JobPC, Outcome
<1>7. Bound
  BY <1>3 DEF Bound
<1>8. JobInv'
  BY <1>1, <1>5, <1>6, <1>7, CalmLedger DEF RetargetInv, JobInv
<1>9. TypeOK'
  BY <1>1, <1>5, <1>6 DEF RetargetInv, TypeOK, Calm
<1>. QED
  BY <1>1, <1>5, <1>6, <1>8, <1>9, CalmLedger, CalmJournal, CalmCard, CalmWork
     DEF RetargetInv

LEMMA BookRefusalInv ==
    ASSUME RetargetInv, BookRefusal
    PROVE  RetargetInv'
<1> DEFINE n == job.try
<1>1. /\ job.pc = "reject"
      /\ UNCHANGED <<card, click, journal, filed, work, post, crashes>>
      /\ \/ n < MaxTry /\ job' = [job EXCEPT !.pc = "retry"]
         \/ job' = [job EXCEPT !.pc = "file", !.out = "failed"]
  BY DEF BookRefusal, At, Goto, Result
<1>2. PICK r \in {RecordRow(row[n], "rejected"), row[n]} : row' = [row EXCEPT ![n] = r]
  BY DEF BookRefusal
<1>3. /\ row \in [Try -> Row] /\ n \in Try /\ job \in Job /\ row[n] \in Row
      /\ row[n].status \in Binding /\ post[n] = "refused" /\ ~Sent
      /\ journal = "executing"
      /\ \A m \in Try : m > n => row[m].status = "absent"
  BY <1>1 DEF RetargetInv, TypeOK, Job, JobInv
<1>4. /\ r \in Row
      /\ \/ r.status = row[n].status
         \/ row[n].status = "submitting" /\ r.status = "confirmed_failed"
  BY <1>2, <1>3 DEF RecordRow, Row, Phase, Status, Terminal
<1> HIDE DEF n
<1>5. /\ row' \in [Try -> Row] /\ row'[n] = r
      /\ \A m \in Try : m # n => row'[m] = row[m]
  BY <1>2, <1>3, <1>4
<1>6. \A m \in Try :
        /\ row'[m].status = "absent" <=> row[m].status = "absent"
        /\ row[m].status \in Terminal => row'[m].status = row[m].status
        /\ row'[m].status \in Binding => row[m].status \in Binding
        /\ row'[m].status = "confirmed_failed" =>
             row[m].status = "confirmed_failed" \/ m = n
        /\ row'[m].status = "confirmed_succeeded" => row[m].status = "confirmed_succeeded"
  BY <1>3, <1>4, <1>5 DEF Terminal, Binding, Outstanding, Verified
<1>7. \A m \in Try : MayTakeEffect(m)' <=> MayTakeEffect(m)
  BY <1>1 DEF MayTakeEffect
<1>8. ~Sent' /\ (Bound' => Bound)
  BY <1>3, <1>6, <1>7 DEF Sent, Bound
<1>9. Refuted => Refuted'
  BY <1>6 DEF Refuted, Terminal
<1>10. LedgerInv'
  BY <1>1, <1>3, <1>6, <1>7 DEF RetargetInv, LedgerInv
<1>11. JournalInv'
  BY <1>1, <1>3 DEF JournalInv
<1>12. /\ job' \in Job
       /\ \/ n < MaxTry /\ job'.pc = "retry" /\ job'.try = n /\ job'.out = job.out
          \/ job'.pc = "file" /\ job'.out = "failed"
  BY <1>1, <1>3 DEF Job, JobPC, Outcome, n
<1>13. JobInv'
  <2>1. CASE job'.pc = "retry"
    BY <1>1, <1>3, <1>6, <1>8, <1>12, <2>1 DEF RetargetInv, JobInv
  <2>2. CASE job'.pc = "file"
    BY <1>1, <1>3, <1>8, <1>12, <2>2 DEF JobInv
  <2>. QED
    BY <1>12, <2>1, <2>2
<1>14. CardInv'
  BY <1>1, <1>8, <1>9, <1>12 DEF RetargetInv, CardInv, Applied
<1>15. WorkInv'
  <2>1. \A w \in Worker : work[w].try \in Try
    BY DEF RetargetInv, TypeOK, Work
  <2>. QED
    BY <1>1, <1>6, <1>9, <2>1 DEF RetargetInv, WorkInv, Applied, Terminal, Verified
<1>16. TypeOK'
  BY <1>1, <1>5, <1>12 DEF RetargetInv, TypeOK
<1>. QED
  BY <1>10, <1>11, <1>13, <1>14, <1>15, <1>16 DEF RetargetInv

(***************************************************************************)
(* Verdicts on their way to the card                                       *)
(***************************************************************************)

\* A set of attempt numbers has a largest one.
LEMMA MaxOfTries ==
    ASSUME NEW S \in SUBSET Try, S # {}
    PROVE  Max(S) \in S /\ \A m \in S : m <= Max(S)
<1> DEFINE T == {MaxTry - n : n \in S}
<1>1. MaxTry \in Nat /\ S \subseteq 1 .. MaxTry
  BY CardAssumption DEF Try
<1>2. T \subseteq Nat /\ T # {}
  <2>1. \A n \in S : MaxTry - n \in Nat
    BY <1>1
  <2>. QED
    BY <2>1
<1>3. PICK x \in T : \A y \in T : ~ (<<y, x>> \in OpToRel(<, Nat))
  BY <1>2, NatLessThanWellFounded, WFMin
<1>4. PICK n \in S : x = MaxTry - n
  BY <1>3
<1>5. \A m \in S : ~ (MaxTry - m < x)
  BY <1>1, <1>2, <1>3 DEF OpToRel
<1>6. \A m \in S : n >= m
  BY <1>1, <1>4, <1>5
<1>7. Max(S) \in S /\ \A m \in S : Max(S) >= m
  BY <1>6 DEF Max
<1>. QED
  BY <1>1, <1>7

LEMMA LatestIsLast ==
    Latest \in Try /\ \A n \in Try : row[n].status # "absent" => n <= Latest
<1> DEFINE S == {n \in Try : n = 1 \/ row[n].status # "absent"}
<1>1. S \in SUBSET Try /\ S # {}
  BY OneTry
<1>2. Latest \in S /\ \A m \in S : m <= Latest
  BY <1>1, MaxOfTries DEF Latest
<1>. QED
  BY <1>2

\* What the latest attempt says while another one is being projected.
LEMMA LatestSpeaks ==
    ASSUME RetargetInv, NEW n \in Try, row[n].status \in Verified, Settled
    PROVE  /\ row[Latest].status \in Terminal
           /\ row[Latest].status = "confirmed_failed" => Refuted
           /\ row[Latest].status = "confirmed_succeeded" => Applied
<1>1. Latest \in Try /\ n <= Latest
  BY LatestIsLast DEF Verified
<1>2. ASSUME row[Latest].status = "confirmed_failed"
      PROVE  n < Latest
  BY <1>1, <1>2, OneTry DEF Verified
<1>3. row[Latest].status = "confirmed_failed" => Refuted
  BY <1>1, <1>2 DEF Refuted
<1>4. row[Latest].status = "confirmed_succeeded" => Applied
  BY <1>1 DEF RetargetInv, LedgerInv, Applied
<1>. QED
  BY <1>3, <1>4 DEF Settled

\* Taking over an expired claim changes nothing but makes a held card verify.
LEMMA PromotedCard ==
    ASSUME card \in Card, NEW n \in Try
    PROVE  /\ Promoted(n) \in Card
           /\ Promoted(n).st = card.st \/ Promoted(n).st = "verifying"
BY CardForms DEF Promoted, CardStatus

LEMMA FinalizedCard ==
    ASSUME NEW c \in Card, NEW verdict \in Terminal
    PROVE  /\ Finalized(c, verdict) \in Card
           /\ \/ Finalized(c, verdict).st = c.st
              \/ Finalized(c, verdict).st = StatusOf(verdict)
           /\ StatusOf(verdict) \in {"succeeded", "failed", "unknown_requires_review"}
           /\ StatusOf(verdict) = "failed" => verdict = "confirmed_failed"
           /\ StatusOf(verdict) = "succeeded" => verdict = "confirmed_succeeded"
<1>1. /\ StatusOf(verdict) \in {"succeeded", "failed", "unknown_requires_review"}
      /\ StatusOf(verdict) = "failed" => verdict = "confirmed_failed"
      /\ StatusOf(verdict) = "succeeded" => verdict = "confirmed_succeeded"
  BY DEF StatusOf, Terminal, Verified
<1>2. StatusOf(verdict) \in Final
  BY <1>1 DEF Final
<1>3. /\ Finalized(c, verdict) \in Card
      /\ \/ Finalized(c, verdict).st = c.st
         \/ Finalized(c, verdict).st = StatusOf(verdict)
  BY <1>2 DEF Finalized, Card
<1>. QED
  BY <1>1, <1>3

\* A card that takes a true verdict, or begins to wait for one.
LEMMA VerdictCard ==
    ASSUME RetargetInv, Calm,
           \/ card'.st = card.st
           \/ card'.st \in {"verifying", "succeeded", "failed", "unknown_requires_review"},
           card'.st = "failed" => card.st = "failed" \/ Refuted,
           card'.st = "succeeded" => card.st = "succeeded" \/ Applied,
           job'.pc = "send" => job.pc = "send"
    PROVE  CardInv'
BY CalmLedger DEF RetargetInv, CardInv, UnsentCards

LEMMA ReplayOwnCard ==
    ASSUME RetargetInv, ReplayOwn, post' = post, job'.pc = "send" => job.pc = "send"
    PROVE  Calm /\ card' \in Card /\ CardInv'
<1> DEFINE n == job.try
<1>1. /\ n \in Try /\ card \in Card /\ row \in [Try -> Row] /\ row[n] \in Row
      /\ row[n].phase \in Phase
  BY DEF RetargetInv, TypeOK, Job, Row
<1>2. CASE ~(row[n].status \in Verified /\ Settled)
  <2>1. UNCHANGED <<card, row>>
    BY <1>2 DEF ReplayOwn
  <2>. QED
    BY <1>1, <2>1, CalmUnchanged, CalmCard
<1>3. CASE row[n].status \in Verified /\ Settled
  <2>1. card' = Finalized(Promoted(n), row[Latest].status)
    BY <1>3 DEF ReplayOwn
  <2>2. PICK ready \in BOOLEAN :
            row' = [row EXCEPT ![n] = ProjectedRow(row[n], row[n].phase, ready)]
    <3>1. PICK ok \in BOOLEAN :
              row' = [row EXCEPT ![n] = ProjectedRow(row[n], row[n].phase, Ready(card', ok))]
      BY <1>1, <1>3 DEF ReplayOwn
    <3>2. Ready(card', ok) \in BOOLEAN
      BY DEF Ready
    <3>. QED
      BY <3>1, <3>2
  <2> HIDE DEF n
  <2>3. Kept(row[n], ProjectedRow(row[n], row[n].phase, ready))
    BY <1>1, KeptByTransactions
  <2>4. Calm
    BY <1>1, <2>2, <2>3, KeptByTransactions DEF Calm, Kept
  <2>5. /\ row[Latest].status \in Terminal
        /\ row[Latest].status = "confirmed_failed" => Refuted
        /\ row[Latest].status = "confirmed_succeeded" => Applied
    BY <1>1, <1>3, LatestSpeaks
  <2>6. Promoted(n) \in Card /\ (Promoted(n).st = card.st \/ Promoted(n).st = "verifying")
    BY <1>1, PromotedCard
  <2>7. /\ card' \in Card
        /\ \/ card'.st \in {card.st, "verifying"}
           \/ /\ card'.st \in {"succeeded", "failed", "unknown_requires_review"}
              /\ card'.st = "failed" => Refuted
              /\ card'.st = "succeeded" => Applied
    BY <2>1, <2>5, <2>6, FinalizedCard
  <2>8. CardInv'
    BY <2>4, <2>7, VerdictCard
  <2>. QED
    BY <2>4, <2>7, <2>8
<1>. QED
  BY <1>2, <1>3

\* The worker files or has filed; its own replay may take the verdict along.
LEMMA ReplayingInv ==
    ASSUME RetargetInv, UNCHANGED <<click, journal, filed, work, post, crashes>>,
           UNCHANGED <<card, row>> \/ ReplayOwn,
           \/ job.pc = "file" /\ job' = [job EXCEPT !.pc = "final", !.beat = FALSE]
           \/ job' = NoJob
    PROVE  RetargetInv'
<1>1. job' \in Job /\ job'.pc \in {"final", "idle"}
  <2>1. CASE job' = [job EXCEPT !.pc = "final", !.beat = FALSE]
    BY <2>1, JobTyped DEF Job, JobPC
  <2>. QED
    BY <2>1, RestingJob
<1>2. Calm /\ card' \in Card /\ CardInv'
  <2>1. CASE UNCHANGED <<card, row>>
    BY <1>1, <2>1, CalmUnchanged, CalmCard DEF RetargetInv, TypeOK
  <2>2. CASE ReplayOwn
    BY <1>1, <2>2, ReplayOwnCard
  <2>. QED
    BY <2>1, <2>2
<1>3. JobInv'
  <2>1. CASE job.pc = "file" /\ job' = [job EXCEPT !.pc = "final", !.beat = FALSE]
    <3>1. job'.pc = "final" /\ job'.out = job.out
      BY <2>1, JobTyped DEF Job
    <3>. QED
      BY <1>2, <2>1, <3>1, CalmLedger DEF RetargetInv, JobInv
  <2>. QED
    BY <2>1, RestingJob
<1>4. TypeOK'
  BY <1>1, <1>2 DEF RetargetInv, TypeOK, Calm
<1>. QED
  BY <1>2, <1>3, <1>4, CalmLedger, CalmJournal, CalmWork DEF RetargetInv

LEMMA FileInv ==
    ASSUME RetargetInv, File \/ ReplayReported
    PROVE  RetargetInv'
<1>1. /\ UNCHANGED <<click, journal, filed, work, post, crashes>>
      /\ UNCHANGED <<card, row>> \/ ReplayOwn
      /\ \/ job.pc = "file" /\ job' = [job EXCEPT !.pc = "final", !.beat = FALSE]
         \/ job' = NoJob
  BY DEF File, ReplayReported, At, Leave
<1>. QED
  BY <1>1, ReplayingInv

(***************************************************************************)
(* The reconciliation workers                                              *)
(***************************************************************************)

\* The frame of their steps that decide nothing.
LEMMA BackgroundFrame ==
    ASSUME RetargetInv, Calm, UNCHANGED foreground,
           card' \in Card, work' \in [Worker -> Work], CardInv', WorkInv'
    PROVE  RetargetInv'
<1>1. UNCHANGED <<click, journal, job, filed, post, crashes>>
  BY DEF foreground
<1>2. TypeOK'
  BY <1>1 DEF RetargetInv, TypeOK, Calm
<1>. QED
  BY <1>1, <1>2, CalmLedger, CalmJournal, CalmJob DEF RetargetInv

\* One worker moves to g; what g asks for holds.
Honest(g) ==
    /\ g.pc = "settle" /\ g.seen => post[g.try] = "applied"
    /\ g.pc \in {"project", "promote", "finalize", "tail"} =>
           row[g.try].status \in Verified
    /\ g.pc \in {"promote", "finalize"} =>
           /\ g.verdict = "confirmed_failed" => Refuted
           /\ g.verdict = "confirmed_succeeded" => Applied

LEMMA WorkerMoves ==
    ASSUME RetargetInv, Calm, NEW w \in Worker, NEW g \in Work, Honest(g),
           work' = [work EXCEPT ![w] = g]
    PROVE  work' \in [Worker -> Work] /\ WorkInv'
<1>1. work \in [Worker -> Work] /\ post' = post
  BY DEF RetargetInv, TypeOK, Calm
<1>2. /\ work' \in [Worker -> Work] /\ work'[w] = g
      /\ \A x \in Worker : x # w => work'[x] = work[x]
  BY <1>1
<1>3. \A x \in Worker : Honest(work'[x])
  BY <1>2 DEF RetargetInv, WorkInv, Honest
<1>4. \A x \in Worker : work'[x].try \in Try
  BY <1>2 DEF Work
<1>. QED
  BY <1>1, <1>2, <1>3, <1>4, CalmLedger DEF WorkInv, Honest

LEMMA ResterIsHonest == Honest(AtRest) /\ AtRest \in Work
BY RestTyped DEF Honest, AtRest

LEMMA WorkTyped ==
    ASSUME RetargetInv, NEW w \in Worker
    PROVE  /\ work[w] \in Work /\ work[w].try \in Try /\ work[w].phase \in Phase
           /\ Honest(work[w])
           /\ card \in Card /\ row \in [Try -> Row] /\ work \in [Worker -> Work]
BY DEF RetargetInv, TypeOK, Work, WorkInv, Honest

\* A worker that leaves the card alone.
LEMMA CardlessMove ==
    ASSUME RetargetInv, Calm, UNCHANGED foreground, card' = card,
           NEW w \in Worker, NEW g \in Work, Honest(g),
           work' = [work EXCEPT ![w] = g]
    PROVE  RetargetInv'
<1>1. job' = job /\ card \in Card
  BY DEF foreground, RetargetInv, TypeOK
<1>. QED
  BY <1>1, WorkerMoves, CalmCard, BackgroundFrame

LEMMA RecoverInv ==
    ASSUME RetargetInv, NEW w \in Worker, Recover(w)
    PROVE  RetargetInv'
<1>1. /\ row' = [n \in Try |-> RecoverRow(row[n])]
      /\ UNCHANGED <<card, work, foreground>>
  BY DEF Recover
<1>2. /\ row \in [Try -> Row] /\ card \in Card /\ work \in [Worker -> Work]
  BY DEF RetargetInv, TypeOK
<1>3. Calm
  BY <1>1, <1>2, KeptByTransactions DEF Calm, Kept, foreground
<1>4. job' = job
  BY <1>1 DEF foreground
<1>. QED
  BY <1>1, <1>2, <1>3, <1>4, CalmCard, CalmWork, BackgroundFrame

LEMMA ClaimInv ==
    ASSUME RetargetInv, NEW w \in Worker, Claim(w)
    PROVE  RetargetInv'
<1> DEFINE back == [n \in Try |-> LapseRow(row[n])]
<1>1. /\ row \in [Try -> Row] /\ \A m \in Try : Kept(row[m], back[m])
      /\ back \in [Try -> Row]
  BY KeptByTransactions DEF RetargetInv, TypeOK, Kept
<1>2. PICK n \in Try :
        /\ Due(back[n])
        /\ row' = [back EXCEPT ![n] = ClaimRow(@, w)]
        /\ work' = [work EXCEPT ![w] =
              [AtRest EXCEPT !.pc = "look", !.try = n, !.fence = back[n].fence + 1,
                             !.tries = back[n].tries + 1, !.phase = back[n].phase]]
        /\ UNCHANGED <<card, foreground>>
  BY DEF Claim
<1> DEFINE g == [AtRest EXCEPT !.pc = "look", !.try = n, !.fence = back[n].fence + 1,
                               !.tries = back[n].tries + 1, !.phase = back[n].phase]
<1>3. back[n].fence + 1 \in Nat /\ back[n].tries + 1 \in Nat /\ back[n].phase \in Phase
  BY <1>1 DEF Row
<1> HIDE DEF back
<1>4. g \in Work /\ g.pc = "look"
  BY <1>3, RestTyped DEF AtRest, Work, WorkPC
<1>5. Honest(g)
  BY <1>4 DEF Honest
<1>6. Kept(back[n], ClaimRow(back[n], w))
  BY <1>1, <1>2, KeptByTransactions
<1>7. Kept(row[n], ClaimRow(back[n], w))
  BY <1>1, <1>6 DEF Kept
<1>8. Calm
  BY <1>1, <1>2, <1>7 DEF Calm, Kept, foreground
<1> HIDE DEF g
<1>. QED
  BY <1>2, <1>4, <1>5, <1>8, CardlessMove DEF g

LEMMA LookUpInv ==
    ASSUME RetargetInv, NEW w \in Worker, LookUp(w)
    PROVE  RetargetInv'
<1>1. PICK seen \in {FALSE, post[work[w].try] = "applied"} :
          work' = [work EXCEPT ![w].pc = "settle", ![w].seen = seen]
  BY DEF LookUp
<1>2. UNCHANGED <<card, row, foreground>> /\ Calm
  BY CalmUnchanged DEF LookUp, foreground
<1> DEFINE g == [work[w] EXCEPT !.pc = "settle", !.seen = seen]
<1>3. work' = [work EXCEPT ![w] = g]
  BY <1>1, WorkTyped
<1>4. g \in Work /\ g.pc = "settle" /\ g.seen = seen /\ g.try = work[w].try
  BY WorkTyped DEF Work, WorkPC
<1>5. Honest(g)
  BY <1>1, <1>4 DEF Honest
<1>. QED
  BY <1>2, <1>3, <1>4, <1>5, CardlessMove

LEMMA ProjectInv ==
    ASSUME RetargetInv, NEW w \in Worker, Project(w)
    PROVE  RetargetInv'
<1>1. UNCHANGED <<card, row, foreground>> /\ Calm /\ work[w].pc = "project"
  BY CalmUnchanged DEF Project, foreground
<1>2. CASE ~Settled
  BY <1>1, <1>2, ResterIsHonest, CardlessMove DEF Project, Stop
<1>3. CASE Settled
  <2> DEFINE g == [work[w] EXCEPT !.pc = "promote", !.verdict = row[Latest].status]
  <2>1. row[work[w].try].status \in Verified
    BY <1>1, WorkTyped DEF Honest
  <2>2. /\ row[Latest].status \in Terminal
        /\ row[Latest].status = "confirmed_failed" => Refuted
        /\ row[Latest].status = "confirmed_succeeded" => Applied
    BY <1>3, <2>1, WorkTyped, LatestSpeaks
  <2>3. work' = [work EXCEPT ![w] = g]
    BY <1>3, WorkTyped DEF Project
  <2>4. /\ g \in Work /\ g.pc = "promote" /\ g.verdict = row[Latest].status
        /\ g.try = work[w].try
    BY <2>2, WorkTyped DEF Work, WorkPC, Terminal
  <2>5. Honest(g)
    BY <2>1, <2>2, <2>4 DEF Honest
  <2>. QED
    BY <1>1, <2>3, <2>4, <2>5, CardlessMove
<1>. QED
  BY <1>2, <1>3

LEMMA PromoteInv ==
    ASSUME RetargetInv, NEW w \in Worker, Promote(w)
    PROVE  RetargetInv'
<1>1. /\ work[w].pc = "promote" /\ card' = Promoted(work[w].try)
      /\ work' = [work EXCEPT ![w].pc = "finalize"]
      /\ UNCHANGED <<row, foreground>>
  BY DEF Promote, Step
<1>2. Calm /\ job' = job
  BY <1>1, CalmUnchanged DEF foreground
<1>3. card' \in Card /\ (card'.st = card.st \/ card'.st = "verifying")
  BY <1>1, WorkTyped, PromotedCard
<1>4. CardInv'
  BY <1>2, <1>3, VerdictCard
<1> DEFINE g == [work[w] EXCEPT !.pc = "finalize"]
<1>5. work' = [work EXCEPT ![w] = g]
  BY <1>1, WorkTyped
<1>6. g \in Work /\ g.pc = "finalize" /\ g.verdict = work[w].verdict /\ g.try = work[w].try
  BY WorkTyped DEF Work, WorkPC
<1>7. Honest(g)
  BY <1>1, <1>6, WorkTyped DEF Honest
<1>. QED
  BY <1>1, <1>2, <1>3, <1>4, <1>5, <1>6, <1>7, WorkerMoves, BackgroundFrame

LEMMA FinalizeInv ==
    ASSUME RetargetInv, NEW w \in Worker, Finalize(w)
    PROVE  RetargetInv'
<1>1. /\ work[w].pc = "finalize" /\ card' = Finalized(card, work[w].verdict)
      /\ work' = [work EXCEPT ![w].pc = "tail"]
      /\ UNCHANGED <<row, foreground>>
  BY DEF Finalize, Step
<1>2. Calm /\ job' = job
  BY <1>1, CalmUnchanged DEF foreground
<1>3. /\ work[w].verdict \in Terminal
      /\ work[w].verdict = "confirmed_failed" => Refuted
      /\ work[w].verdict = "confirmed_succeeded" => Applied
  BY <1>1, WorkTyped DEF Honest, Work, Terminal
<1>4. /\ card' \in Card
      /\ \/ card'.st = card.st
         \/ /\ card'.st \in {"succeeded", "failed", "unknown_requires_review"}
            /\ card'.st = "failed" => Refuted
            /\ card'.st = "succeeded" => Applied
  BY <1>1, <1>3, WorkTyped, FinalizedCard
<1>5. CardInv'
  BY <1>2, <1>4, VerdictCard
<1> DEFINE g == [work[w] EXCEPT !.pc = "tail"]
<1>6. work' = [work EXCEPT ![w] = g]
  BY <1>1, WorkTyped
<1>7. g \in Work /\ g.pc = "tail" /\ g.try = work[w].try
  BY WorkTyped DEF Work, WorkPC
<1>8. Honest(g)
  BY <1>1, <1>7, WorkTyped DEF Honest
<1>. QED
  BY <1>1, <1>2, <1>4, <1>5, <1>6, <1>7, <1>8, WorkerMoves, BackgroundFrame

LEMMA TailInv ==
    ASSUME RetargetInv, NEW w \in Worker, Tail(w)
    PROVE  RetargetInv'
<1> DEFINE n == work[w].try
<1>1. work' = [work EXCEPT ![w] = AtRest] /\ UNCHANGED <<card, foreground>>
  BY DEF Tail, Stop
<1>2. PICK ready \in BOOLEAN :
          row' = [row EXCEPT ![n] = ProjectedRow(row[n], work[w].phase, ready)]
  <2>1. PICK ok \in BOOLEAN :
            row' = [row EXCEPT ![n] = ProjectedRow(row[n], work[w].phase, Ready(card, ok))]
    BY WorkTyped DEF Tail
  <2>2. Ready(card, ok) \in BOOLEAN
    BY DEF Ready
  <2>. QED
    BY <2>1, <2>2
<1>3. Kept(row[n], ProjectedRow(row[n], work[w].phase, ready))
  BY WorkTyped, KeptByTransactions
<1> HIDE DEF n
<1>4. n \in Try /\ row \in [Try -> Row]
  BY WorkTyped DEF n
<1>5. Calm
  BY <1>1, <1>2, <1>3, <1>4, KeptByTransactions DEF Calm, Kept, foreground
<1>. QED
  BY <1>1, <1>5, ResterIsHonest, CardlessMove

LEMMA ReplayInv ==
    ASSUME RetargetInv, NEW w \in Worker, NEW n \in Try, Replay(w, n)
    PROVE  RetargetInv'
<1> DEFINE g == [AtRest EXCEPT !.pc = "project", !.try = n, !.phase = row[n].phase]
<1>1. /\ row[n].status \in Verified
      /\ work' = [work EXCEPT ![w] = g]
      /\ UNCHANGED <<card, row, foreground>>
  BY DEF Replay
<1>2. Calm
  BY <1>1, CalmUnchanged DEF foreground
<1>3. row[n].phase \in Phase
  BY DEF RetargetInv, TypeOK, Row
<1>4. g \in Work /\ g.pc = "project" /\ g.try = n
  BY <1>3, RestTyped DEF AtRest, Work, WorkPC
<1>5. Honest(g)
  BY <1>1, <1>4 DEF Honest
<1> HIDE DEF g
<1>. QED
  BY <1>1, <1>2, <1>4, <1>5, CardlessMove

LEMMA RipenInv ==
    ASSUME RetargetInv, NEW n \in Try, Ripen(n)
    PROVE  RetargetInv'
<1>1. /\ row[n].status \in Outstanding
      /\ row' = [row EXCEPT ![n].ripe = TRUE]
      /\ UNCHANGED <<card, work, foreground>>
  BY DEF Ripen
<1>2. /\ row \in [Try -> Row] /\ card \in Card /\ work \in [Worker -> Work]
      /\ row[n] \in Row
  BY DEF RetargetInv, TypeOK
<1>3. row' = [row EXCEPT ![n] = [row[n] EXCEPT !.ripe = TRUE]]
  BY <1>1, <1>2
<1>4. Kept(row[n], [row[n] EXCEPT !.ripe = TRUE])
  BY <1>1, <1>2, KeptByTransactions
<1>5. Calm
  BY <1>1, <1>2, <1>3, <1>4, KeptByTransactions DEF Calm, Kept, foreground
<1>6. job' = job
  BY <1>1 DEF foreground
<1>. QED
  BY <1>1, <1>2, <1>5, <1>6, CalmCard, CalmWork, BackgroundFrame

\* The verdict itself: the leased row is outstanding, and success was seen.
LEMMA SettleInv ==
    ASSUME RetargetInv, NEW w \in Worker, Settle(w)
    PROVE  RetargetInv'
<1> DEFINE n == work[w].try
           verdict == IF work[w].seen THEN "confirmed_succeeded"
                                      ELSE "unknown_requires_review"
<1>1. work[w].pc = "settle" /\ UNCHANGED <<card, foreground>>
  BY DEF Settle
<1>2. CASE row' = row /\ work' = [work EXCEPT ![w] = AtRest]
  <2>1. Calm
    BY <1>1, <1>2, CalmUnchanged DEF foreground
  <2>. QED
    BY <1>1, <1>2, <2>1, ResterIsHonest, CardlessMove
<1>3. CASE /\ Leased(w) /\ row' = [row EXCEPT ![n] = RetryRow(@)]
           /\ work' = [work EXCEPT ![w] = AtRest]
  <2>1. n \in Try /\ row \in [Try -> Row] /\ row[n].status = "verifying"
    BY <1>3, WorkTyped DEF Leased, HoldsLease
  <2>2. Kept(row[n], RetryRow(row[n]))
    BY <2>1, KeptByTransactions
  <2>3. Calm
    <3> HIDE DEF n
    <3>. QED
      BY <1>1, <1>3, <2>1, <2>2, KeptByTransactions DEF Calm, Kept, foreground
  <2>. QED
    BY <1>1, <1>3, <2>3, ResterIsHonest, CardlessMove
<1>4. CASE /\ Leased(w) /\ row' = [row EXCEPT ![n] = VerdictRow(@, verdict, work[w].phase)]
           /\ work' = [work EXCEPT ![w].pc = "project"]
  <2>1. /\ n \in Try /\ row \in [Try -> Row] /\ row[n] \in Row
        /\ row[n].status = "verifying" /\ work[w].phase \in Phase
        /\ work[w].seen => post[n] = "applied"
    BY <1>1, <1>4, WorkTyped DEF Leased, HoldsLease, Honest
  <2> DEFINE r == VerdictRow(row[n], verdict, work[w].phase)
  <2>2. /\ r \in Row /\ r.status = verdict
        /\ verdict \in Verified
        /\ verdict = "confirmed_succeeded" => post[n] = "applied"
    BY <2>1 DEF VerdictRow, Row, Status, Terminal, Verified
  <2> HIDE DEF n, verdict
  <2>3. /\ row' \in [Try -> Row] /\ row'[n] = r
        /\ \A m \in Try : m # n => row'[m] = row[m]
    BY <1>4, <2>1, <2>2
  <2> HIDE DEF r
  <2>4. /\ UNCHANGED <<click, journal, job, filed, post, crashes>>
        /\ \A m \in Try : MayTakeEffect(m)' <=> MayTakeEffect(m)
    BY <1>1 DEF foreground, MayTakeEffect
  <2>5. \A m \in Try :
          /\ row'[m].status = "absent" <=> row[m].status = "absent"
          /\ row'[m].status \in Binding <=> row[m].status \in Binding
          /\ row[m].status \in Verified => row'[m].status \in Verified
          /\ row'[m].status = "confirmed_failed" <=> row[m].status = "confirmed_failed"
          /\ row'[m].status = "confirmed_succeeded" =>
               row[m].status = "confirmed_succeeded" \/ post[m] = "applied"
    BY <2>1, <2>2, <2>3 DEF Binding, Outstanding, Verified
  <2>6. /\ Sent' <=> Sent
        /\ AllAbsent' <=> AllAbsent
        /\ Bound' <=> Bound
        /\ Applied' <=> Applied
        /\ Refuted => Refuted'
    BY <2>4, <2>5 DEF Sent, AllAbsent, Bound, Applied, Refuted
  <2>7. LedgerInv'
    BY <2>4, <2>5 DEF RetargetInv, LedgerInv
  <2>8. JournalInv'
    BY <2>4, <2>6 DEF RetargetInv, JournalInv
  <2>9. JobInv'
    BY <2>4, <2>5, <2>6, JobTyped DEF RetargetInv, JobInv
  <2>10. CardInv'
    BY <1>1, <2>4, <2>6 DEF RetargetInv, CardInv
  <2>11. /\ work' \in [Worker -> Work] /\ work'[w].pc = "project" /\ work'[w].try = n
         /\ \A x \in Worker : x # w => work'[x] = work[x]
    BY <1>4, WorkTyped DEF Work, WorkPC, n
  <2>12. WorkInv'
    <3>1. \A x \in Worker : work[x].try \in Try
      BY WorkTyped
    <3>2. row'[n].status \in Verified
      BY <2>2, <2>3
    <3>3. ASSUME NEW x \in Worker, x # w
          PROVE  Honest(work[x])'
      BY <2>4, <2>5, <2>6, <2>11, <3>1, <3>3 DEF RetargetInv, WorkInv, Honest
    <3>4. Honest(work[w])'
      BY <2>11, <3>2 DEF Honest
    <3>. QED
      BY <3>3, <3>4 DEF WorkInv, Honest
  <2>13. TypeOK'
    BY <1>1, <2>3, <2>4, <2>11 DEF RetargetInv, TypeOK
  <2>. QED
    BY <2>7, <2>8, <2>9, <2>10, <2>12, <2>13 DEF RetargetInv
<1>. QED
  BY <1>2, <1>3, <1>4 DEF Settle, Stop, Step

LEMMA CrashInv ==
    ASSUME RetargetInv, Crash
    PROVE  RetargetInv'
<1>1. /\ crashes < MaxCrash /\ crashes' = crashes + 1 /\ click' = FALSE /\ job' = NoJob
      /\ work' = [x \in Worker |-> AtRest]
      /\ UNCHANGED <<card, journal, row, filed, post>>
  BY DEF Crash, ledger
<1>2. Calm
  BY <1>1, CalmUnchanged
<1>3. crashes' \in 0 .. MaxCrash
  BY <1>1, CardAssumption DEF RetargetInv, TypeOK
<1>4. work' \in [Worker -> Work] /\ WorkInv'
  BY <1>1, RestTyped DEF WorkInv, AtRest
<1>5. TypeOK'
  BY <1>1, <1>3, <1>4, RestTyped DEF RetargetInv, TypeOK
<1>. QED
  BY <1>1, <1>2, <1>4, <1>5, RestingJob, CalmLedger, CalmJournal, CalmCard
     DEF RetargetInv

(***************************************************************************)
(* The theorems                                                            *)
(***************************************************************************)
LEMMA StutterInv ==
    ASSUME RetargetInv, UNCHANGED vars
    PROVE  RetargetInv'
<1>1. UNCHANGED <<card, click, journal, job, row, filed, work, post, crashes>>
  BY DEF vars
<1>2. Calm /\ TypeOK'
  BY <1>1, CalmUnchanged DEF RetargetInv, TypeOK
<1>. QED
  BY <1>1, <1>2, CalmLedger, CalmJournal, CalmJob, CalmCard, CalmWork DEF RetargetInv

LEMMA NextInv ==
    ASSUME RetargetInv, [Next]_vars
    PROVE  RetargetInv'
<1>1. CASE \/ Approve \/ Reject \/ ClickLate \/ ClickExpires \/ Invalidate
           \/ Cancel \/ Revoke \/ Expire \/ Age \/ Lapse
  BY <1>1, CardSteps
<1>2. CASE JobStep
  BY <1>2, PullInv, RecallInv, ConfirmInv, StrategyChangedInv, NotSentInv,
     PreflightInv, ReserveInv, SendInv, SendFailsInv, AnswerInv, BookSentInv,
     BookRefusalInv, RetryOrStopInv, FileInv, JournalStepInv, ReportInv
     DEF JobStep
<1>3. CASE Beat \/ Abandon
  BY <1>3, BeatInv, AbandonInv
<1>4. ASSUME NEW n \in Try, Apply(n) \/ Refuse(n) \/ Ripen(n)
      PROVE  RetargetInv'
  BY <1>4, DecideInv, RipenInv DEF Apply, Refuse
<1>5. ASSUME NEW w \in Worker, WorkStep(w)
      PROVE  RetargetInv'
  BY <1>5, RecoverInv, ClaimInv, LookUpInv, SettleInv, ProjectInv, PromoteInv,
     FinalizeInv, TailInv, ReplayInv DEF WorkStep
<1>6. CASE Crash
  BY <1>6, CrashInv
<1>7. CASE UNCHANGED vars
  BY <1>7, StutterInv
<1>. QED
  BY <1>1, <1>2, <1>3, <1>4, <1>5, <1>6, <1>7 DEF Next

\* The card, the job, the ledger and the platform agree in every state.
THEOREM Invariant == Spec => []RetargetInv
<1>1. Init => RetargetInv
  BY InitInv
<1>2. RetargetInv /\ [Next]_vars => RetargetInv'
  BY NextInv
<1>. QED
  BY <1>1, <1>2, PTL DEF Spec

\* Type correctness of the card, the journal, the job, the ledger and the workers.
THEOREM Typed == Spec => []TypeOK
<1>1. RetargetInv => TypeOK
  BY DEF RetargetInv
<1>. QED
  BY <1>1, Invariant, PTL

\* At most one POST of a card created a control task or may (before_send, the
\* journal's recovery_guard, retries after an explicit refusal only).
THEOREM PostedOnce == Spec => []OneEffectivePost
<1>1. RetargetInv => OneEffectivePost
  <2> SUFFICES ASSUME RetargetInv, NEW m \in Try, NEW n \in Try,
                      MayTakeEffect(m), MayTakeEffect(n)
               PROVE  m = n
    BY DEF OneEffectivePost
  <2>1. row[m].status # "absent" /\ row[n].status # "absent"
    BY DEF RetargetInv, LedgerInv, MayTakeEffect
  <2>2. ~(m < n) /\ ~(n < m)
    BY <2>1 DEF RetargetInv, LedgerInv
  <2>. QED
    BY <2>2, OneTry
<1>. QED
  BY <1>1, Invariant, PTL

\* A card that waits, is offered to a worker or ended as never executed has no
\* POST that took effect or may, and a failed one only if its verdict had been
\* overtaken by another attempt (_expire_local_tasks, run_worker_loop,
\* _finish_locked).
THEOREM UnsentUnposted == Spec => []UnsentIsUnsent
<1>1. RetargetInv => UnsentIsUnsent
  <2> SUFFICES ASSUME RetargetInv, NEW n \in Try, MayTakeEffect(n)
               PROVE  /\ card.st \notin UnsentCards
                      /\ card.st = "failed" => Overtaken(n)
    BY DEF UnsentIsUnsent
  <2>1. row[n].status \in Binding
    BY DEF RetargetInv, TypeOK, LedgerInv, Row, Status, Terminal, Binding,
           Verified, MayTakeEffect
  <2>2. card.st \notin UnsentCards
    BY <2>1 DEF Bound, RetargetInv, CardInv
  <2>3. ASSUME card.st = "failed"
        PROVE  Overtaken(n)
    <3>1. PICK k, m \in Try : /\ k < m
                              /\ row[k].status \in Verified
                              /\ row[m].status = "confirmed_failed"
      BY <2>3 DEF RetargetInv, CardInv, Refuted, Sent
    <3>2. ~(n < m) /\ m # n
      BY <3>1 DEF RetargetInv, LedgerInv, MayTakeEffect
    <3>3. m < n
      BY <3>2, OneTry
    <3>. QED
      BY <3>1, <3>3 DEF Overtaken
  <2>. QED
    BY <2>2, <2>3
<1>. QED
  BY <1>1, Invariant, PTL

\* A card that is reported as a success has a control task on the platform
\* (finalize_reconciled_local_task, the aggregate of _finish_locked).
THEOREM SuccessfulForReal == Spec => []SuccessIsReal
<1>1. RetargetInv => SuccessIsReal
  BY DEF RetargetInv, CardInv, SuccessIsReal, Applied
<1>. QED
  BY <1>1, Invariant, PTL
=============================================================================
