------------------------ MODULE StopSubmission_proofs ------------------------
(***************************************************************************)
(* Proofs about StopSubmission: type correctness, the inductive invariant  *)
(* SubmissionInv, the safety and action properties that follow from it,    *)
(* and the step-by-step refinement of StopAttempts.                        *)
(***************************************************************************)
EXTENDS StopSubmission, TLAPS, WellFoundedInduction

(***************************************************************************)
(* The row operators.  Every ledger transaction except the reservation of  *)
(* an absent row is Steady: it keeps the row present and well-typed, keeps *)
(* verdicts and keeps evidence.                                            *)
(***************************************************************************)
Steady(r, s) ==
    /\ s \in Row
    /\ Sound(s)
    /\ s.status = "absent" <=> r.status = "absent"
    /\ r.status \in Terminal => s.status = r.status
    /\ r.phase \in Evidence => s.phase \in Evidence

\* ... and all but a recorded refusal make no failure out of anything else.
Harmless(r, s) ==
    /\ Steady(r, s)
    /\ s.status = "confirmed_failed" => r.status = "confirmed_failed"

\* A row is related to itself.
LEMMA HarmlessSelf ==
    ASSUME NEW r \in Row, Sound(r)
    PROVE  Harmless(r, r)
BY DEF Harmless, Steady

\* enqueue_execution_reconciliation on a present row.
LEMMA EnqueueHarmless ==
    ASSUME NEW r \in Row, Sound(r), r.status # "absent", NEW p \in Evidence
    PROVE  Harmless(r, EnqueueRow(r, p))
BY DEF Harmless, Steady, EnqueueRow, Row, Sound, Evidence, Status, Phase,
       Outstanding, Terminal, Verified

\* record_execution_submission_phase, for an accepted or unknown outcome.
LEMMA RecordHarmless ==
    ASSUME NEW r \in Row, Sound(r), NEW p \in Evidence
    PROVE  Harmless(r, RecordRow(r, p))
BY DEF Harmless, Steady, RecordRow, Row, Sound, Evidence, Status, Phase,
       Outstanding, Terminal, Verified

\* record_execution_submission_phase, for a refusal.
LEMMA RefusalSteady ==
    ASSUME NEW r \in Row, Sound(r)
    PROVE  Steady(r, RecordRow(r, "rejected"))
BY DEF Steady, RecordRow, Row, Sound, Evidence, Status, Phase,
       Outstanding, Terminal, Verified

\* recover_interrupted_submissions.
LEMMA RecoverHarmless ==
    ASSUME NEW r \in Row, Sound(r)
    PROVE  Harmless(r, RecoverRow(r))
BY DEF Harmless, Steady, RecoverRow, Interrupted, Row, Sound, Evidence,
       Status, Phase, Outstanding, Terminal, Verified

\* The two statements of _claim_one.
LEMMA LapseHarmless ==
    ASSUME NEW r \in Row, Sound(r)
    PROVE  Harmless(r, LapseRow(r))
BY DEF Harmless, Steady, LapseRow, Row, Sound, Evidence,
       Status, Phase, Outstanding, Terminal, Verified

LEMMA ClaimHarmless ==
    ASSUME NEW r \in Row, Sound(r), Due(LapseRow(r)), NEW w \in Worker
    PROVE  Harmless(r, ClaimRow(LapseRow(r), w))
<1> DEFINE q == LapseRow(r)
<1>1. Harmless(r, q)
  BY LapseHarmless
<1>2. q \in Row /\ Sound(q) /\ q.status = "submitted"
  BY <1>1 DEF Harmless, Steady, Due
<1> HIDE DEF q
<1>3. Harmless(q, ClaimRow(q, w))
  <2>1. ClaimRow(q, w) \in Row
    <3>1. q.tries + 1 \in Nat /\ q.fence + 1 \in Nat
      BY <1>2 DEF Row
    <3>2. "verifying" \in Status
      BY DEF Status, Outstanding
    <3>. QED
      BY <1>2, <3>1, <3>2 DEF ClaimRow, Row
  <2>2. /\ ClaimRow(q, w).status = "verifying"
        /\ ClaimRow(q, w).phase = q.phase
    BY <1>2 DEF ClaimRow, Row
  <2>. QED
    BY <1>2, <2>1, <2>2 DEF Harmless, Steady, Sound, Terminal, Verified
<1>4. Harmless(r, ClaimRow(q, w))
  BY <1>1, <1>3 DEF Harmless, Steady
<1>. QED
  BY <1>4 DEF q

\* _finish_locked and _retry on a leased row.
LEMMA VerdictHarmless ==
    ASSUME NEW r \in Row, Sound(r), r.status = "verifying",
           NEW st \in Verified, NEW p \in Evidence
    PROVE  Harmless(r, VerdictRow(r, st, p))
BY DEF Harmless, Steady, VerdictRow, Row, Sound, Evidence,
       Status, Phase, Outstanding, Terminal, Verified

LEMMA RetryHarmless ==
    ASSUME NEW r \in Row, Sound(r), r.status = "verifying"
    PROVE  Harmless(r, RetryRow(r))
BY DEF Harmless, Steady, RetryRow, Row, Sound, Evidence,
       Status, Phase, Outstanding, Terminal, Verified

\* The tail of _finish_locked, and a replay of a verdict.
LEMMA ProjectedHarmless ==
    ASSUME NEW r \in Row, Sound(r), r.status # "absent",
           NEW p \in Evidence, NEW b \in BOOLEAN
    PROVE  Harmless(r, ProjectedRow(r, p, b))
BY DEF Harmless, Steady, ProjectedRow, Row, Sound, Evidence,
       Status, Phase, Outstanding, Terminal, Verified

\* The passing of a deadline.
LEMMA RipeHarmless ==
    ASSUME NEW r \in Row, Sound(r)
    PROVE  Harmless(r, [r EXCEPT !.ripe = TRUE])
BY DEF Harmless, Steady, Row, Sound, Evidence,
       Status, Phase, Outstanding, Terminal, Verified

(***************************************************************************)
(* The attempt handed out by resolve_stop_idempotency_key.                 *)
(***************************************************************************)

\* A set of attempt numbers has a largest one.
LEMMA MaxOfTries ==
    ASSUME NEW S \in SUBSET Try, S # {}
    PROVE  Max(S) \in S
<1> DEFINE T == {MaxTry - n : n \in S}
<1>1. MaxTry \in Nat /\ S \subseteq 1 .. MaxTry
  BY ConstantsAssumption DEF Try
<1>2. T \subseteq Nat /\ T # {}
  <2>1. \A n \in S : MaxTry - n \in Nat
    BY <1>1
  <2>. QED
    BY <2>1
<1>3. PICK x \in T : \A y \in T : ~ (<<y, x>> \in OpToRel(<, Nat))
  BY <1>2, NatLessThanWellFounded, WFMin
<1>4. PICK n \in S : x = MaxTry - n
  BY <1>3
<1>5. \A m \in S : ~ (MaxTry - m < x)
  BY <1>1, <1>2, <1>3 DEF OpToRel
<1>6. \A m \in S : n >= m
  BY <1>1, <1>4, <1>5
<1>. QED
  BY <1>6 DEF Max

(***************************************************************************)
(* The inductive invariant, and what it takes for a step to keep it.       *)
(***************************************************************************)
IInv == TypeOK /\ SubmissionInv

\* What every step does to the ledger: a row changes steadily, or it is reserved.
Lawful ==
    \A k \in Key : \/ Steady(row[k], row'[k])
                   \/ row[k].status = "absent" /\ row'[k] = Reserved

\* The record of a flow, respectively of a worker, at rest.
LEMMA RestTyped == NoFlow \in Flow /\ AtRest \in Work
<1>1. Key # {} /\ 1 \in Try
  <2>1. 1 \in Try
    BY ConstantsAssumption DEF Try
  <2>2. PICK c \in Cycle : TRUE
    BY ConstantsAssumption
  <2>3. <<c, 1>> \in Key
    BY <2>1, <2>2 DEF Key
  <2>. QED
    BY <2>1, <2>3
<1>2. (CHOOSE k \in Key : TRUE) \in Key
  BY <1>1
<1>. QED
  BY <1>1, <1>2 DEF NoFlow, AtRest, Flow, Work, FlowPC, WorkPC, Phase

\* Rows that only change steadily keep the order of the attempts.
LEMMA LedgerKept ==
    ASSUME IInv,
           \A k \in Key : Steady(row[k], row'[k]),
           \A k \in Key : /\ posts'[k] = IF post'[k] = "none" THEN 0 ELSE 1
                          /\ post'[k] # "none" => row'[k].status # "absent"
    PROVE  LedgerInv'
<1>1. \A c \in Cycle : \A m \in Try : <<c, m>> \in Key
  BY DEF Key
<1>2. \A k \in Key : Sound(row'[k])
  BY DEF Steady
<1>3. ASSUME NEW c \in Cycle, NEW m \in Try, NEW n \in Try,
             m < n, row'[<<c, n>>].status # "absent"
      PROVE  row'[<<c, m>>].status = "confirmed_failed"
  <2>1. row[<<c, n>>].status # "absent"
    BY <1>1, <1>3 DEF Steady
  <2>2. row[<<c, m>>].status = "confirmed_failed"
    BY <1>3, <2>1 DEF IInv, SubmissionInv, LedgerInv
  <2>. QED
    BY <1>1, <2>2 DEF Steady, Terminal
<1>. QED
  BY <1>2, <1>3 DEF LedgerInv, Sound

\* The cards and what belongs to them keep their types: nothing changes, or
\* some cards and their updates do.
LEMMA DeskKept ==
    ASSUME IInv, UNCHANGED desk
    PROVE  DeskOK'
BY DEF IInv, TypeOK, DeskOK, desk

LEMMA DeskMoves ==
    ASSUME IInv, card' \in [Card -> CardPC], mail' \in [Card -> BOOLEAN],
           UNCHANGED <<task, told>>
    PROVE  DeskOK'
BY DEF IInv, TypeOK, DeskOK

LEMMA EndTyped ==
    ASSUME IInv, NEW d \in Card, NEW st \in CardPC, EndCard(d, st)
    PROVE  card' \in [Card -> CardPC] /\ mail' \in [Card -> BOOLEAN]
BY DEF IInv, TypeOK, DeskOK, EndCard

LEMMA ReportTyped ==
    ASSUME IInv, NEW d, NEW st \in CardPC, ReportCard(d, st)
    PROVE  card' \in [Card -> CardPC] /\ mail' \in [Card -> BOOLEAN]
<1>1. CASE d \in Card /\ card[d] = "executing"
  BY <1>1, EndTyped DEF ReportCard
<1>2. CASE ~(d \in Card /\ card[d] = "executing")
  BY <1>2 DEF ReportCard, IInv, TypeOK, DeskOK
<1>. QED
  BY <1>1, <1>2

\* What a verdict on k does to the cards.
LEMMA SettledTyped ==
    ASSUME IInv, NEW k \in Key
    PROVE  Settled(k) \in [Card -> CardPC] /\ Mailed(k) \in [Card -> BOOLEAN]
<1>1. Settled(k) \in [Card -> CardPC]
  BY DEF IInv, TypeOK, DeskOK, Settled, CardPC
<1>2. Mailed(k) \in [Card -> BOOLEAN]
  BY DEF Mailed
<1>. QED
  BY <1>1, <1>2

\* A flow that does not move keeps its knowledge.
LEMMA FlowKept ==
    ASSUME IInv, NEW c \in Cycle, flow'[c] = flow[c],
           \A k \in Key : Steady(row[k], row'[k]),
           \A k \in Key : \/ post'[k] = post[k]
                          \/ post[k] = "flying"
                          \/ k[1] # c
    PROVE  FlowFact(c)'
<1>1. /\ FlowFact(c) /\ KeyOf(c) \in Key /\ KeyOf(c)[1] = c
      /\ \A m \in Try : <<c, m>> \in Key
  BY DEF IInv, SubmissionInv, TypeOK, Flow, KeyOf, Key
<1>2. KeyOf(c)' = KeyOf(c)
  BY DEF KeyOf
<1>. QED
  BY <1>1, <1>2 DEF FlowFact, At, Steady, Terminal

\* A worker that does not move keeps its evidence.
LEMMA WorkKept ==
    ASSUME IInv, NEW w \in Worker, work'[w] = work[w],
           \A k \in Key : Steady(row[k], row'[k])
    PROVE  WorkFact(w)'
BY DEF IInv, SubmissionInv, TypeOK, Work, WorkFact, Steady

\* Rows that stay as they are.
LEMMA SameRows ==
    ASSUME IInv
    PROVE  \A k \in Key : Harmless(row[k], row[k])
BY HarmlessSelf DEF IInv, SubmissionInv, TypeOK, LedgerInv

\* One row changes harmlessly, the others stay.
LEMMA OneRow ==
    ASSUME IInv, NEW k \in Key, NEW r, Harmless(row[k], r),
           row' = [row EXCEPT ![k] = r]
    PROVE  /\ row' \in [Key -> Row]
           /\ \A j \in Key : Harmless(row[j], row'[j])
<1>1. \A j \in Key : Harmless(row[j], row'[j])
  BY SameRows DEF IInv, TypeOK
<1>. QED
  BY <1>1 DEF IInv, TypeOK, Harmless, Steady

\* The flow of c moves to f and its rows change harmlessly, or a row of a POST
\* that was refused is recorded as failed.
LEMMA FlowMoves ==
    ASSUME IInv, NEW c \in Cycle, NEW f \in Flow,
           flow' = [flow EXCEPT ![c] = f],
           row' \in [Key -> Row],
           \A k \in Key : Steady(row[k], row'[k]),
           \A k \in Key : row'[k].status = "confirmed_failed"
                             => \/ row[k].status = "confirmed_failed"
                                \/ post[k] = "refused",
           run' \in [Key -> Run],
           FlowFact(c)', DeskOK',
           UNCHANGED <<work, platform, posts, budget>>
    PROVE  IInv' /\ Lawful
<1>1. TypeOK'
  BY DEF IInv, TypeOK, platform, budget
<1>2. FailedMeansRefused'
  BY DEF IInv, SubmissionInv, FailedMeansRefused, platform
<1>3. LedgerInv'
  BY LedgerKept DEF IInv, SubmissionInv, LedgerInv, platform, Steady
<1>4. ASSUME NEW d \in Cycle PROVE FlowFact(d)'
  <2>1. CASE d = c
    BY <2>1
  <2>2. CASE d # c
    <3>1. flow'[d] = flow[d]
      BY <2>2 DEF IInv, TypeOK
    <3>. QED
      BY <3>1, FlowKept DEF platform
  <2>. QED
    BY <2>1, <2>2
<1>5. ASSUME NEW w \in Worker PROVE WorkFact(w)'
  BY WorkKept
<1>6. Lawful
  BY DEF Lawful
<1>. QED
  BY <1>1, <1>2, <1>3, <1>4, <1>5, <1>6 DEF IInv, SubmissionInv

(***************************************************************************)
(* The steps of the flow                                                   *)
(***************************************************************************)

\* A flow that only moves: nothing is written to the ledger.
LEMMA FlowWalks ==
    ASSUME IInv, NEW c \in Cycle, NEW f \in Flow,
           flow' = [flow EXCEPT ![c] = f],
           run' \in [Key -> Run],
           UNCHANGED <<row, work, platform, posts, budget>>,
           FlowFact(c)', DeskOK'
    PROVE  IInv' /\ Lawful
<1>1. row' \in [Key -> Row] /\ \A k \in Key : Harmless(row[k], row'[k])
  BY SameRows DEF IInv, TypeOK
<1>. QED
  BY <1>1, FlowMoves DEF Harmless

\* Where the flow works it knows no more than that something was sent.
LEMMA Unassuming ==
    ASSUME NEW c \in Cycle,
           flow'[c].pc \in {"idle", "run", "replay", "report", "recheck"}
    PROVE  FlowFact(c)'
BY DEF FlowFact, At

LEMMA BeginInv ==
    ASSUME IInv, NEW c \in Cycle, Begin(c)
    PROVE  IInv' /\ Lawful
<1> DEFINE rows == [m \in Try |-> row[<<c, m>>]]
           used == {n \in DOMAIN rows : rows[n].status # "absent"}
<1>1. PICK d \in Card \cup {NoCard} :
        /\ ResolveAttempt(rows, d # NoCard) \in Try
        /\ flow' = [flow EXCEPT ![c] = [NoFlow EXCEPT !.pc = "ready",
                       !.try = ResolveAttempt(rows, d # NoCard), !.card = d]]
        /\ card' = [e \in Card |-> IF e = d THEN "executing" ELSE card[e]]
  BY DEF Begin
<1> DEFINE n == ResolveAttempt(rows, d # NoCard)
           f == [NoFlow EXCEPT !.pc = "ready", !.try = n, !.card = d]
<1>2. f \in Flow /\ f.pc = "ready" /\ f.try = n
  BY <1>1, RestTyped DEF Flow, FlowPC, NoFlow
<1>3. ASSUME NEW m \in Try, m < n
      PROVE  row[<<c, m>>].status = "confirmed_failed"
  <2>1. CASE n = 1
    BY <1>3, <2>1 DEF Try
  <2>2. CASE n # 1
    <3>1. /\ used # {}
          /\ \A i \in used : rows[i].status = "confirmed_failed"
          /\ n = Max(used) + 1
      BY <2>2 DEF ResolveAttempt
    <3>2. used \in SUBSET Try
      OBVIOUS
    <3>3. Max(used) \in used
      BY <3>1, <3>2, MaxOfTries
    <3> DEFINE last == Max(used)
    <3>4. last \in Try /\ rows[last].status = "confirmed_failed"
          /\ row[<<c, last>>].status # "absent"
      BY <3>1, <3>3
    <3> HIDE DEF last
    <3>5. m < last \/ m = last
      BY <1>3, <3>1, <3>4 DEF Try, last
    <3>6. CASE m < last
      BY <3>4, <3>6 DEF IInv, SubmissionInv, LedgerInv
    <3>7. CASE m = last
      BY <3>4, <3>7
    <3>. QED
      BY <3>5, <3>6, <3>7
  <2>. QED
    BY <2>1, <2>2
<1> HIDE DEF n, f
<1>4. flow' = [flow EXCEPT ![c] = f] /\ flow'[c] = f
  BY <1>1 DEF IInv, TypeOK, f, n
<1>5. FlowFact(c)'
  BY <1>2, <1>3, <1>4 DEF FlowFact, At, Begin, ledger
<1>6. DeskOK'
  BY <1>1 DEF Begin, CardPC, IInv, TypeOK, DeskOK
<1>. QED
  BY <1>2, <1>4, <1>5, <1>6, FlowWalks DEF Begin, ledger, IInv, TypeOK

\* The three ways in which a flow moves on.
LEMMA ReturnMoves ==
    ASSUME IInv, NEW c \in Cycle, NEW open \in BOOLEAN, Return(c, open)
    PROVE  \E f \in Flow : /\ flow' = [flow EXCEPT ![c] = f]
                           /\ f.pc = "run"
<1> DEFINE f == [flow[c] EXCEPT !.pc = "run", !.open = open]
<1>1. f \in Flow /\ f.pc = "run" /\ flow' = [flow EXCEPT ![c] = f]
  BY DEF Return, IInv, TypeOK, Flow, FlowPC
<1>. QED
  BY <1>1

LEMMA LeaveMoves ==
    ASSUME NEW c \in Cycle, Leave(c)
    PROVE  \E f \in Flow : /\ flow' = [flow EXCEPT ![c] = f]
                           /\ f.pc = "idle"
BY RestTyped DEF Leave, NoFlow

LEMMA GotoMoves ==
    ASSUME IInv, NEW c \in Cycle, NEW pc \in FlowPC, Goto(c, pc)
    PROVE  \E f \in Flow : /\ flow' = [flow EXCEPT ![c] = f]
                           /\ f.pc = pc
                           /\ f.try = flow[c].try
<1> DEFINE f == [flow[c] EXCEPT !.pc = pc]
<1>1. /\ f \in Flow /\ f.pc = pc /\ f.try = flow[c].try
      /\ flow' = [flow EXCEPT ![c] = f]
  BY DEF Goto, IInv, TypeOK, Flow
<1>. QED
  BY <1>1

LEMMA NoSubmissionInv ==
    ASSUME IInv, NEW c \in Cycle, NoSubmission(c)
    PROVE  IInv' /\ Lawful
<1>1. PICK f \in Flow : flow' = [flow EXCEPT ![c] = f] /\ f.pc \in {"idle", "run"}
  BY ReturnMoves, LeaveMoves DEF NoSubmission
<1>2. FlowFact(c)'
  BY <1>1, Unassuming DEF IInv, TypeOK
<1>3. "reported" \in CardPC
  BY DEF CardPC
<1>4. card' \in [Card -> CardPC] /\ mail' \in [Card -> BOOLEAN]
  BY <1>3, ReportTyped DEF NoSubmission, IInv, TypeOK, DeskOK
<1>5. DeskOK'
  BY <1>4, DeskMoves DEF NoSubmission
<1>. QED
  BY <1>1, <1>2, <1>5, FlowWalks DEF NoSubmission, ledger, IInv, TypeOK

\* The reservation: the one step that makes a row present.
LEMMA ReserveInv ==
    ASSUME IInv, NEW c \in Cycle, Reserve(c)
    PROVE  IInv' /\ Lawful
<1> DEFINE k == KeyOf(c)
           f == [flow[c] EXCEPT !.pc = "send"]
<1>1. k \in Key /\ k = <<c, flow[c].try>> /\ flow[c].try \in Try
  BY DEF KeyOf, Key, IInv, TypeOK, Flow
<1>2. /\ f \in Flow /\ f.pc = "send" /\ f.try = flow[c].try
      /\ flow' = [flow EXCEPT ![c] = f] /\ flow'[c] = f
      /\ \A d \in Cycle : d # c => flow'[d] = flow[d]
  BY DEF Reserve, Goto, IInv, TypeOK, Flow, FlowPC
<1>3. /\ row[k].status = "absent" /\ row' = [row EXCEPT ![k] = Reserved]
      /\ UNCHANGED <<run, work, post, stopped, posts, crashes, slow>>
      /\ DeskOK'
  BY <1>1 DEF Reserve, platform, budget, IInv, TypeOK, DeskOK, Flow
<1>4. /\ Reserved \in Row /\ Reserved.status = "submitting" /\ Sound(Reserved)
  BY DEF Reserved, Absent, Row, Status, Phase, Outstanding, Sound, Verified
<1>5. \A m \in Try : m < flow[c].try => row[<<c, m>>].status = "confirmed_failed"
  BY DEF Reserve, IInv, SubmissionInv, FlowFact
<1> HIDE DEF k, f
<1>6. /\ row' \in [Key -> Row] /\ row'[k] = Reserved
      /\ \A j \in Key : j # k => row'[j] = row[j]
  BY <1>1, <1>3, <1>4 DEF IInv, TypeOK
<1>7. TypeOK'
  BY <1>2, <1>3, <1>6 DEF IInv, TypeOK
<1>8. FailedMeansRefused'
  BY <1>3, <1>4, <1>6 DEF IInv, SubmissionInv, FailedMeansRefused
<1>9. LedgerInv'
  <2>1. \A j \in Key : Sound(row'[j])
    BY <1>4, <1>6 DEF IInv, SubmissionInv, LedgerInv
  <2>2. \A j \in Key : /\ posts'[j] = IF post'[j] = "none" THEN 0 ELSE 1
                       /\ post'[j] # "none" => row'[j].status # "absent"
    BY <1>3, <1>4, <1>6 DEF IInv, SubmissionInv, LedgerInv
  <2>3. ASSUME NEW d \in Cycle, NEW m \in Try, NEW n \in Try,
               m < n, row'[<<d, n>>].status # "absent"
        PROVE  row'[<<d, m>>].status = "confirmed_failed"
    <3>1. <<d, m>> \in Key /\ <<d, n>> \in Key
      BY DEF Key
    <3>2. row[<<d, m>>].status = "confirmed_failed"
      <4>1. CASE <<d, n>> = k
        BY <1>1, <1>5, <2>3, <4>1
      <4>2. CASE <<d, n>> # k
        BY <1>6, <2>3, <3>1, <4>2 DEF IInv, SubmissionInv, LedgerInv
      <4>. QED
        BY <4>1, <4>2
    <3>. QED
      BY <1>3, <1>6, <3>1, <3>2
  <2>. QED
    BY <2>1, <2>2, <2>3 DEF LedgerInv, Sound
<1>10. ASSUME NEW d \in Cycle PROVE FlowFact(d)'
  <2>1. CASE d = c
    <3>1. KeyOf(d)' = k
      BY <1>1, <1>2, <2>1 DEF KeyOf
    <3>2. post[k] = "none"
      BY <1>1, <1>3 DEF IInv, SubmissionInv, LedgerInv
    <3>. QED
      BY <1>2, <1>3, <1>4, <1>6, <2>1, <3>1, <3>2 DEF FlowFact, At
  <2>2. CASE d # c
    <3>1. flow'[d] = flow[d] /\ KeyOf(d)' = KeyOf(d)
      BY <1>2, <2>2 DEF KeyOf
    <3>2. KeyOf(d) \in Key /\ KeyOf(d) # k /\ \A m \in Try : <<d, m>> \in Key /\ <<d, m>> # k
      BY <1>1, <2>2 DEF KeyOf, Key, IInv, TypeOK, Flow
    <3>. QED
      BY <1>3, <1>6, <3>1, <3>2 DEF IInv, SubmissionInv, FlowFact, At
  <2>. QED
    BY <2>1, <2>2
<1>11. ASSUME NEW w \in Worker PROVE WorkFact(w)'
  <2>1. work[w].key \in Key /\ WorkFact(w) /\ work'[w] = work[w]
    BY <1>3 DEF IInv, TypeOK, SubmissionInv, Work
  <2>. QED
    BY <1>3, <1>4, <1>6, <2>1 DEF WorkFact
<1>12. Lawful
  BY <1>3, <1>6, SameRows DEF Lawful, Harmless
<1>. QED
  BY <1>7, <1>8, <1>9, <1>10, <1>11, <1>12 DEF IInv, SubmissionInv

LEMMA ExistingInv ==
    ASSUME IInv, NEW c \in Cycle, Existing(c)
    PROVE  IInv' /\ Lawful
<1>1. PICK f \in Flow : flow' = [flow EXCEPT ![c] = f] /\ f.pc \in {"idle", "run"}
  <2>1. Leave(c) \/ \E b \in BOOLEAN : Return(c, b)
    <3>1. Leave(c) \/ Return(c, row[KeyOf(c)].status \in Outstanding)
      BY DEF Existing
    <3>2. (row[KeyOf(c)].status \in Outstanding) \in BOOLEAN
      OBVIOUS
    <3>. QED
      BY <3>1, <3>2
  <2>2. CASE Leave(c)
    BY <2>2, LeaveMoves
  <2>3. CASE \E b \in BOOLEAN : Return(c, b)
    BY <2>3, ReturnMoves
  <2>. QED
    BY <2>1, <2>2, <2>3
<1>2. FlowFact(c)'
  BY <1>1, Unassuming DEF IInv, TypeOK
<1>. QED
  BY <1>1, <1>2, FlowWalks, DeskKept DEF Existing, ledger, IInv, TypeOK

LEMMA SendInv ==
    ASSUME IInv, NEW c \in Cycle, Send(c)
    PROVE  IInv' /\ Lawful
<1> DEFINE k == KeyOf(c)
           f == [flow[c] EXCEPT !.pc = "wait"]
<1>1. k \in Key /\ k[1] = c
  BY DEF KeyOf, Key, IInv, TypeOK, Flow
<1>2. /\ f \in Flow /\ f.pc = "wait" /\ f.try = flow[c].try
      /\ flow' = [flow EXCEPT ![c] = f] /\ flow'[c] = f
      /\ \A d \in Cycle : d # c => flow'[d] = flow[d]
  BY DEF Send, Goto, IInv, TypeOK, Flow, FlowPC
<1>3. /\ post' = [post EXCEPT ![k] = "flying"]
      /\ posts' = [posts EXCEPT ![k] = @ + 1]
      /\ UNCHANGED <<row, run, work, stopped, crashes, slow>>
      /\ DeskOK'
  BY DeskKept DEF Send, ledger, budget
<1>4. row[k].status # "absent" /\ post[k] = "none" /\ posts[k] = 0
  BY <1>1 DEF Send, IInv, SubmissionInv, FlowFact, LedgerInv, At
<1>5. KeyOf(c)' = k
  BY <1>2 DEF KeyOf
<1> HIDE DEF k, f
<1>6. /\ post' \in [Key -> Post] /\ posts' \in [Key -> Nat]
      /\ post'[k] = "flying" /\ posts'[k] = 1
      /\ \A j \in Key : j # k => post'[j] = post[j] /\ posts'[j] = posts[j]
  BY <1>1, <1>3, <1>4 DEF IInv, TypeOK, Post
<1>7. TypeOK'
  BY <1>2, <1>3, <1>6 DEF IInv, TypeOK
<1>8. FailedMeansRefused'
  BY <1>3, <1>4, <1>6 DEF IInv, SubmissionInv, FailedMeansRefused
<1>9. \A j \in Key : Steady(row[j], row'[j])
  BY <1>3, SameRows DEF Harmless
<1>10. LedgerInv'
  <2>1. \A j \in Key : /\ posts'[j] = IF post'[j] = "none" THEN 0 ELSE 1
                       /\ post'[j] # "none" => row'[j].status # "absent"
    BY <1>3, <1>4, <1>6 DEF IInv, SubmissionInv, LedgerInv
  <2>. QED
    BY <1>9, <2>1, LedgerKept
<1>11. ASSUME NEW d \in Cycle PROVE FlowFact(d)'
  <2>1. CASE d = c
    BY <1>2, <1>3, <1>4, <1>5, <2>1 DEF FlowFact, At
  <2>2. CASE d # c
    BY <1>1, <1>2, <1>6, <1>9, <2>2, FlowKept
  <2>. QED
    BY <2>1, <2>2
<1>12. ASSUME NEW w \in Worker PROVE WorkFact(w)'
  BY <1>3, <1>9, WorkKept
<1>13. Lawful
  BY <1>9 DEF Lawful
<1>. QED
  BY <1>7, <1>8, <1>10, <1>11, <1>12, <1>13 DEF IInv, SubmissionInv

LEMMA SendFailsInv ==
    ASSUME IInv, NEW c \in Cycle, SendFails(c)
    PROVE  IInv' /\ Lawful
<1>1. PICK f \in Flow : /\ flow' = [flow EXCEPT ![c] = f]
                       /\ f.pc = "unsure" /\ f.try = flow[c].try
  BY GotoMoves DEF SendFails, FlowPC
<1>2. flow'[c] = f
  BY <1>1 DEF IInv, TypeOK
<1>3. FlowFact(c)'
  BY <1>1, <1>2 DEF SendFails, ledger, IInv, SubmissionInv, FlowFact, At, KeyOf
<1>. QED
  BY <1>1, <1>3, FlowWalks, DeskKept DEF SendFails, ledger, IInv, TypeOK

LEMMA AnswerInv ==
    ASSUME IInv, NEW c \in Cycle, Answer(c)
    PROVE  IInv' /\ Lawful
<1>1. PICK v \in VerdictOf(post[KeyOf(c)]) : Goto(c, v)
  BY DEF Answer
<1>2. /\ v \in {"accept", "unsure", "reject"}
      /\ v = "accept" => post[KeyOf(c)] = "applied"
      /\ v = "reject" => post[KeyOf(c)] = "refused"
  BY DEF VerdictOf
<1>3. PICK f \in Flow : /\ flow' = [flow EXCEPT ![c] = f]
                       /\ f.pc = v /\ f.try = flow[c].try
  BY <1>1, <1>2, GotoMoves DEF FlowPC
<1>4. flow'[c] = f
  BY <1>3 DEF IInv, TypeOK
<1>5. FlowFact(c)'
  BY <1>2, <1>3, <1>4
     DEF Answer, ledger, platform, IInv, SubmissionInv, FlowFact, At, KeyOf
<1>. QED
  BY <1>3, <1>5, FlowWalks, DeskKept DEF Answer, ledger, IInv, TypeOK

\* BookOutcome and BookPhaseOnly: the outcome reaches the ledger.
LEMMA BookingInv ==
    ASSUME IInv, NEW c \in Cycle, BookOutcome(c) \/ BookPhaseOnly(c)
    PROVE  IInv' /\ Lawful
<1> DEFINE k == KeyOf(c)
           p == PhaseOf(flow[c].pc)
<1>1. /\ k \in Key /\ row[k] \in Row /\ Sound(row[k]) /\ row[k].status # "absent"
      /\ p \in Evidence
  BY DEF BookOutcome, BookPhaseOnly, KeyOf, Key, IInv, TypeOK, Flow,
         SubmissionInv, LedgerInv, FlowFact, PhaseOf, Evidence
<1>2. PICK r : Harmless(row[k], r) /\ row' = [row EXCEPT ![k] = r]
  BY <1>1, EnqueueHarmless, RecordHarmless DEF BookOutcome, BookPhaseOnly, IInv, TypeOK
<1>3. PICK f \in Flow : flow' = [flow EXCEPT ![c] = f] /\ f.pc = "run"
  BY ReturnMoves DEF BookOutcome, BookPhaseOnly
<1>4. FlowFact(c)'
  BY <1>3, Unassuming DEF IInv, TypeOK
<1>5. row' \in [Key -> Row] /\ \A j \in Key : Harmless(row[j], row'[j])
  BY <1>1, <1>2, OneRow
<1>6. DeskOK'
  BY DeskKept DEF BookOutcome, BookPhaseOnly
<1>. QED
  BY <1>3, <1>4, <1>5, <1>6, FlowMoves
     DEF BookOutcome, BookPhaseOnly, Harmless, IInv, TypeOK

LEMMA BookRefusalInv ==
    ASSUME IInv, NEW c \in Cycle, BookRefusal(c)
    PROVE  IInv' /\ Lawful
<1> DEFINE k == KeyOf(c)
           r == RecordRow(row[k], "rejected")
<1>1. k \in Key /\ row[k] \in Row /\ Sound(row[k]) /\ post[k] = "refused"
  BY DEF BookRefusal, KeyOf, Key, IInv, TypeOK, Flow, SubmissionInv, LedgerInv, FlowFact
<1>2. Steady(row[k], r)
  BY <1>1, RefusalSteady
<1>3. row' = [row EXCEPT ![k] = r]
  BY DEF BookRefusal
<1> HIDE DEF k, r
<1>4. /\ \A j \in Key : Steady(row[j], row'[j])
      /\ \A j \in Key : j # k => row'[j] = row[j]
  BY <1>1, <1>2, <1>3, SameRows DEF IInv, TypeOK, Harmless
<1>5. row' \in [Key -> Row]
  BY <1>3, <1>4 DEF IInv, TypeOK, Steady
<1>6. PICK f \in Flow : flow' = [flow EXCEPT ![c] = f] /\ f.pc = "run"
  BY ReturnMoves DEF BookRefusal
<1>7. FlowFact(c)'
  BY <1>6, Unassuming DEF IInv, TypeOK
<1>. QED
  BY <1>1, <1>4, <1>5, <1>6, <1>7, FlowMoves, DeskKept DEF BookRefusal, IInv, TypeOK

LEMMA BookNothingInv ==
    ASSUME IInv, NEW c \in Cycle, BookNothing(c)
    PROVE  IInv' /\ Lawful
<1>1. PICK f \in Flow : flow' = [flow EXCEPT ![c] = f] /\ f.pc = "run"
  <2>1. (flow[c].pc # "reject") \in BOOLEAN
    OBVIOUS
  <2>. QED
    BY <2>1, ReturnMoves DEF BookNothing
<1>2. FlowFact(c)'
  BY <1>1, Unassuming DEF IInv, TypeOK
<1>. QED
  BY <1>1, <1>2, FlowWalks, DeskKept DEF BookNothing, ledger, IInv, TypeOK

LEMMA RecordedMoves ==
    ASSUME IInv, NEW c \in Cycle, Recorded(c)
    PROVE  \E f \in Flow : /\ flow' = [flow EXCEPT ![c] = f]
                           /\ f.pc \in {"idle", "report"}
BY GotoMoves, LeaveMoves DEF Recorded, FlowPC

LEMMA RecordRunInv ==
    ASSUME IInv, NEW c \in Cycle, RecordRun(c)
    PROVE  IInv' /\ Lawful
<1>1. PICK f \in Flow : /\ flow' = [flow EXCEPT ![c] = f]
                       /\ f.pc \in {"idle", "replay", "report"}
  BY GotoMoves, RecordedMoves DEF RecordRun, FlowPC
<1>2. FlowFact(c)'
  BY <1>1, Unassuming DEF IInv, TypeOK
<1>3. KeyOf(c) \in Key /\ flow[c].open \in BOOLEAN
  BY DEF KeyOf, Key, IInv, TypeOK, Flow
<1>4. run' \in [Key -> Run]
  BY <1>3 DEF RecordRun, IInv, TypeOK, Run
<1>. QED
  BY <1>1, <1>2, <1>4, FlowWalks, DeskKept DEF RecordRun

\* Flow c is over or goes on to report, with nothing written to the ledger.
LEMMA LooseEnds ==
    ASSUME IInv, NEW c \in Cycle, NEW f \in Flow,
           flow' = [flow EXCEPT ![c] = f],
           f.pc \in {"idle", "report", "recheck"},
           UNCHANGED <<ledger, work, platform, posts, budget>>,
           DeskOK'
    PROVE  IInv' /\ Lawful
<1>1. FlowFact(c)'
  BY Unassuming DEF IInv, TypeOK
<1>. QED
  BY <1>1, FlowWalks DEF ledger, IInv, TypeOK

LEMMA RecordRunFailsInv ==
    ASSUME IInv, NEW c \in Cycle, RecordRunFails(c)
    PROVE  IInv' /\ Lawful
<1>1. PICK f \in Flow : flow' = [flow EXCEPT ![c] = f] /\ f.pc = "idle"
  BY LeaveMoves DEF RecordRunFails
<1>2. DeskOK'
  BY ReportTyped, DeskMoves DEF RecordRunFails, CardPC
<1>. QED
  BY <1>1, <1>2, LooseEnds DEF RecordRunFails

\* A replay in the foreground: whatever the cards say, the row changes
\* harmlessly.
LEMMA ReplayHereInv ==
    ASSUME IInv, NEW c \in Cycle, NEW k \in Key, row[k].status \in Verified,
           ReplayHere(k), mail' \in [Card -> BOOLEAN],
           NEW f \in Flow, flow' = [flow EXCEPT ![c] = f],
           f.pc \in {"idle", "report"},
           UNCHANGED <<work, platform, posts, task, told, budget>>
    PROVE  IInv' /\ Lawful
<1> DEFINE b == Ready(k, run', card')
<1>1. /\ row[k] \in Row /\ Sound(row[k])
      /\ row[k].status # "absent" /\ row[k].phase \in Evidence
  BY DEF IInv, TypeOK, SubmissionInv, LedgerInv, Sound, Verified
<1>2. b \in BOOLEAN
  BY DEF Ready
<1>3. row' = [row EXCEPT ![k] = ProjectedRow(row[k], row[k].phase, b)]
  BY DEF ReplayHere
<1> HIDE DEF b
<1>4. Harmless(row[k], ProjectedRow(row[k], row[k].phase, b))
  BY <1>1, <1>2, ProjectedHarmless
<1>5. row' \in [Key -> Row] /\ \A j \in Key : Harmless(row[j], row'[j])
  BY <1>3, <1>4, OneRow
<1>6. run' \in [Key -> Run]
  BY DEF ReplayHere, IInv, TypeOK, Run
<1>7. DeskOK'
  BY SettledTyped, DeskMoves DEF ReplayHere
<1>8. FlowFact(c)'
  BY Unassuming DEF IInv, TypeOK
<1>. QED
  BY <1>5, <1>6, <1>7, <1>8, FlowMoves DEF Harmless

LEMMA ReplayOwnInv ==
    ASSUME IInv, NEW c \in Cycle, ReplayOwn(c) \/ ReplayOwnFails(c)
    PROVE  IInv' /\ Lawful
<1> DEFINE k == KeyOf(c)
<1>1. k \in Key
  BY DEF KeyOf, Key, IInv, TypeOK, Flow
<1>2. PICK f \in Flow : flow' = [flow EXCEPT ![c] = f] /\ f.pc \in {"idle", "report"}
  BY RecordedMoves DEF ReplayOwn, ReplayOwnFails
<1>3. CASE UNCHANGED <<ledger, work, platform, posts, desk, budget>>
  BY <1>2, <1>3, LooseEnds, DeskKept
<1>4. CASE ReplayOwn(c) /\ row[k].status \in Verified
  BY <1>1, <1>2, <1>4, ReplayHereInv, SettledTyped DEF ReplayOwn
<1>. QED
  BY <1>3, <1>4 DEF ReplayOwn, ReplayOwnFails, desk

LEMMA ReportInv ==
    ASSUME IInv, NEW c \in Cycle, Report(c)
    PROVE  IInv' /\ Lawful
<1>1. PICK f \in Flow : flow' = [flow EXCEPT ![c] = f] /\ f.pc \in {"idle", "recheck"}
  BY GotoMoves, LeaveMoves DEF Report, FlowPC
<1>2. card' \in [Card -> CardPC] /\ mail' \in [Card -> BOOLEAN]
  <2> DEFINE d == flow[c].card
  <2>1. CASE ReportCard(d, "reported")
    BY <2>1, ReportTyped DEF CardPC
  <2>2. CASE card' = [card EXCEPT ![d] = "verifying"] /\ UNCHANGED mail
    BY <2>2 DEF CardPC, IInv, TypeOK, DeskOK
  <2>. QED
    BY <2>1, <2>2 DEF Report
<1>3. DeskOK'
  BY <1>2, DeskMoves DEF Report
<1>. QED
  BY <1>1, <1>3, LooseEnds DEF Report

LEMMA RecheckInv ==
    ASSUME IInv, NEW c \in Cycle, Recheck(c) \/ RecheckFails(c)
    PROVE  IInv' /\ Lawful
<1> DEFINE d == flow[c].card
<1>1. PICK f \in Flow : flow' = [flow EXCEPT ![c] = f] /\ f.pc = "idle"
  BY LeaveMoves DEF Recheck, RecheckFails
<1>2. CASE Recheck(c) /\ UNCHANGED <<ledger, card>> /\ mail' = [mail EXCEPT ![d] = TRUE]
  <2>1. mail' \in [Card -> BOOLEAN]
    BY <1>2 DEF IInv, TypeOK, DeskOK
  <2>2. DeskOK'
    BY <1>2, <2>1, DeskMoves DEF Recheck, IInv, TypeOK, DeskOK
  <2>. QED
    BY <1>1, <1>2, <2>2, LooseEnds DEF Recheck
<1>3. ASSUME Recheck(c), NEW k \in Replayed(d), ReplayHere(k),
             mail' = [Mailed(k) EXCEPT ![d] = TRUE]
      PROVE  IInv' /\ Lawful
  <2>1. k \in Key /\ row[k].status \in Verified
    BY DEF Replayed
  <2>2. mail' \in [Card -> BOOLEAN]
    BY <1>3, <2>1, SettledTyped
  <2>. QED
    BY <1>1, <1>3, <2>1, <2>2, ReplayHereInv DEF Recheck
<1>4. CASE RecheckFails(c)
  BY <1>1, <1>4, LooseEnds, DeskKept DEF RecheckFails
<1>. QED
  BY <1>2, <1>3, <1>4 DEF Recheck

LEMMA FlowStepInv ==
    ASSUME IInv, NEW c \in Cycle, FlowStep(c)
    PROVE  IInv' /\ Lawful
BY BeginInv, NoSubmissionInv, ReserveInv, ExistingInv, SendInv, SendFailsInv,
   AnswerInv, BookingInv, BookRefusalInv, BookNothingInv, RecordRunInv,
   RecordRunFailsInv, ReplayOwnInv, ReportInv, RecheckInv DEF FlowStep

(***************************************************************************)
(* The steps of the platform, of time and of the crash                     *)
(***************************************************************************)

\* Nobody in the application moves; rows change harmlessly; a POST that is on
\* the wire may come to its end.
LEMMA OutsideMoves ==
    ASSUME IInv, UNCHANGED <<run, flow, work, posts>>,
           row' \in [Key -> Row],
           \A k \in Key : Harmless(row[k], row'[k]),
           post' \in [Key -> Post],
           \A k \in Key : \/ post'[k] = post[k]
                          \/ post[k] = "flying" /\ post'[k] # "none",
           stopped' \in [Cycle -> BOOLEAN],
           crashes' \in 0 .. MaxCrash, slow' \in 0 .. MaxSlow, DeskOK'
    PROVE  IInv' /\ Lawful
<1>1. TypeOK'
  BY DEF IInv, TypeOK
<1>2. \A k \in Key : Steady(row[k], row'[k])
  BY DEF Harmless
<1>3. FailedMeansRefused'
  BY DEF IInv, SubmissionInv, FailedMeansRefused, Harmless
<1>4. LedgerInv'
  <2>1. \A k \in Key : /\ posts'[k] = IF post'[k] = "none" THEN 0 ELSE 1
                       /\ post'[k] # "none" => row'[k].status # "absent"
    BY <1>2 DEF IInv, SubmissionInv, LedgerInv, Steady
  <2>. QED
    BY <1>2, <2>1, LedgerKept
<1>5. ASSUME NEW c \in Cycle PROVE FlowFact(c)'
  BY <1>2, FlowKept
<1>6. ASSUME NEW w \in Worker PROVE WorkFact(w)'
  BY <1>2, WorkKept
<1>7. Lawful
  BY <1>2 DEF Lawful
<1>. QED
  BY <1>1, <1>3, <1>4, <1>5, <1>6, <1>7 DEF IInv, SubmissionInv

LEMMA PlatformInv ==
    ASSUME IInv, NEW k \in Key, Apply(k) \/ Refuse(k)
    PROVE  IInv' /\ Lawful
<1>1. PICK q \in {"applied", "refused"} : post' = [post EXCEPT ![k] = q]
  BY DEF Apply, Refuse
<1>2. /\ post' \in [Key -> Post]
      /\ \A j \in Key : \/ post'[j] = post[j]
                        \/ post[j] = "flying" /\ post'[j] # "none"
  BY <1>1 DEF Apply, Refuse, IInv, TypeOK, Post
<1>3. stopped' \in [Cycle -> BOOLEAN]
  BY DEF Apply, Refuse, IInv, TypeOK
<1>4. row' \in [Key -> Row] /\ \A j \in Key : Harmless(row[j], row'[j])
  BY SameRows DEF Apply, Refuse, ledger, IInv, TypeOK
<1>. QED
  BY <1>2, <1>3, <1>4, OutsideMoves, DeskKept DEF Apply, Refuse, ledger, budget, IInv, TypeOK

LEMMA EndsByItselfInv ==
    ASSUME IInv, NEW c \in Cycle, EndsByItself(c)
    PROVE  IInv' /\ Lawful
<1>1. row' \in [Key -> Row] /\ \A k \in Key : Harmless(row[k], row'[k])
  BY SameRows DEF EndsByItself, ledger, IInv, TypeOK
<1>2. stopped' \in [Cycle -> BOOLEAN]
  BY DEF EndsByItself, IInv, TypeOK
<1>. QED
  BY <1>1, <1>2, OutsideMoves, DeskKept DEF EndsByItself, ledger, budget, IInv, TypeOK

LEMMA RipenInv ==
    ASSUME IInv, NEW k \in Key, Ripen(k)
    PROVE  IInv' /\ Lawful
<1>1. row[k] \in Row /\ Sound(row[k])
  BY DEF IInv, TypeOK, SubmissionInv, LedgerInv
<1>2. Harmless(row[k], [row[k] EXCEPT !.ripe = TRUE])
  BY <1>1, RipeHarmless
<1>3. row' = [row EXCEPT ![k] = [row[k] EXCEPT !.ripe = TRUE]]
  BY DEF Ripen, IInv, TypeOK
<1>4. row' \in [Key -> Row] /\ \A j \in Key : Harmless(row[j], row'[j])
  BY <1>2, <1>3, OneRow
<1>5. slow' \in 0 .. MaxSlow
  BY ConstantsAssumption DEF Ripen, IInv, TypeOK
<1>. QED
  BY <1>4, <1>5, OutsideMoves, DeskKept DEF Ripen, platform, IInv, TypeOK

LEMMA CardStepInv ==
    ASSUME IInv, NEW d \in Card, CardStep(d)
    PROVE  IInv' /\ Lawful
<1>1. row' \in [Key -> Row] /\ \A k \in Key : Harmless(row[k], row'[k])
  BY SameRows DEF CardStep, LapseClaim, Expire, Withdraw, Deliver, ledger, IInv, TypeOK
<1>2. slow' \in 0 .. MaxSlow
  BY ConstantsAssumption
     DEF CardStep, LapseClaim, Expire, Withdraw, Deliver, budget, IInv, TypeOK
<1>3. DeskOK'
  <2>1. CASE LapseClaim(d)
    BY <2>1, DeskMoves DEF LapseClaim, CardPC, IInv, TypeOK, DeskOK
  <2>2. CASE Expire(d)
    <3>1. PICK st \in CardPC : EndCard(d, st)
      BY <2>2 DEF Expire, CardPC
    <3>. QED
      BY <2>2, <3>1, EndTyped, DeskMoves DEF Expire
  <2>3. CASE Withdraw(d)
    <3>1. "reported" \in CardPC
      BY DEF CardPC
    <3>. QED
      BY <2>3, <3>1, EndTyped, DeskMoves DEF Withdraw
  <2>4. CASE Deliver(d)
    BY <2>4 DEF Deliver, IInv, TypeOK, DeskOK
  <2>. QED
    BY <2>1, <2>2, <2>3, <2>4 DEF CardStep
<1>. QED
  BY <1>1, <1>2, <1>3, OutsideMoves
     DEF CardStep, LapseClaim, Expire, Withdraw, Deliver, ledger, platform, budget,
         IInv, TypeOK

LEMMA CrashInv ==
    ASSUME IInv, Crash
    PROVE  IInv' /\ Lawful
<1>1. /\ NoFlow \in Flow /\ AtRest \in Work
      /\ NoFlow.pc = "idle" /\ AtRest.pc = "idle"
  BY RestTyped DEF NoFlow, AtRest
<1>2. crashes' \in 0 .. MaxCrash
  BY ConstantsAssumption DEF Crash, IInv, TypeOK
<1>3. TypeOK'
  BY <1>1, <1>2 DEF Crash, ledger, platform, IInv, TypeOK, DeskOK
<1>4. FailedMeansRefused' /\ LedgerInv'
  BY DEF Crash, ledger, platform, IInv, SubmissionInv, FailedMeansRefused, LedgerInv
<1>5. ASSUME NEW c \in Cycle PROVE FlowFact(c)'
  BY <1>1, Unassuming DEF Crash
<1>6. ASSUME NEW w \in Worker PROVE WorkFact(w)'
  BY <1>1 DEF Crash, WorkFact
<1>7. Lawful
  BY SameRows DEF Crash, ledger, Lawful, Harmless
<1>. QED
  BY <1>3, <1>4, <1>5, <1>6, <1>7 DEF IInv, SubmissionInv

(***************************************************************************)
(* The steps of the workers                                                *)
(***************************************************************************)

\* Worker w moves to g, and rows change harmlessly.
LEMMA WorkMoves ==
    ASSUME IInv, NEW w \in Worker, NEW g \in Work,
           work' = [work EXCEPT ![w] = g],
           g.pc # "idle" => /\ g.phase \in Evidence
                            /\ row[g.key].status # "absent",
           row' \in [Key -> Row],
           \A k \in Key : Harmless(row[k], row'[k]),
           run' \in [Key -> Run], DeskOK',
           UNCHANGED <<flow, platform, posts, budget>>
    PROVE  IInv' /\ Lawful
<1>1. TypeOK'
  BY DEF IInv, TypeOK, platform, budget
<1>2. \A k \in Key : Steady(row[k], row'[k])
  BY DEF Harmless
<1>3. FailedMeansRefused'
  BY DEF IInv, SubmissionInv, FailedMeansRefused, Harmless, platform
<1>4. LedgerInv'
  <2>1. \A k \in Key : /\ posts'[k] = IF post'[k] = "none" THEN 0 ELSE 1
                       /\ post'[k] # "none" => row'[k].status # "absent"
    BY <1>2 DEF IInv, SubmissionInv, LedgerInv, Steady, platform
  <2>. QED
    BY <1>2, <2>1, LedgerKept
<1>5. ASSUME NEW c \in Cycle PROVE FlowFact(c)'
  BY <1>2, FlowKept DEF platform
<1>6. ASSUME NEW v \in Worker PROVE WorkFact(v)'
  <2>1. CASE v = w
    <3>1. work'[v] = g /\ g.key \in Key
      BY <2>1 DEF IInv, TypeOK, Work
    <3>. QED
      BY <1>2, <3>1 DEF WorkFact, Steady
  <2>2. CASE v # w
    <3>1. work'[v] = work[v]
      BY <2>2 DEF IInv, TypeOK
    <3>. QED
      BY <1>2, <3>1, WorkKept
  <2>. QED
    BY <2>1, <2>2
<1>7. Lawful
  BY <1>2 DEF Lawful
<1>. QED
  BY <1>1, <1>3, <1>4, <1>5, <1>6, <1>7 DEF IInv, SubmissionInv

LEMMA RecoverInv ==
    ASSUME IInv, NEW w \in Worker, Recover(w)
    PROVE  IInv' /\ Lawful
<1>1. \A k \in Key : Harmless(row[k], RecoverRow(row[k]))
  BY RecoverHarmless DEF IInv, TypeOK, SubmissionInv, LedgerInv
<1>2. row' \in [Key -> Row] /\ \A k \in Key : Harmless(row[k], row'[k])
  BY <1>1 DEF Recover, Harmless, Steady
<1>. QED
  BY <1>2, OutsideMoves, DeskKept DEF Recover, platform, budget, IInv, TypeOK

LEMMA ClaimInv ==
    ASSUME IInv, NEW w \in Worker, Claim(w)
    PROVE  IInv' /\ Lawful
<1> DEFINE back == [k \in Key |-> LapseRow(row[k])]
<1>1. PICK k \in Key :
        /\ Due(back[k])
        /\ row' = [back EXCEPT ![k] = ClaimRow(@, w)]
        /\ work' = [work EXCEPT ![w] =
              [pc |-> "look", key |-> k, fence |-> back[k].fence + 1,
               tries |-> back[k].tries + 1, phase |-> back[k].phase, seen |-> FALSE]]
  BY DEF Claim
<1>2. \A j \in Key : row[j] \in Row /\ Sound(row[j])
  BY DEF IInv, TypeOK, SubmissionInv, LedgerInv
<1>3. \A j \in Key : Harmless(row[j], back[j]) /\ back[j] \in Row
  BY <1>2, LapseHarmless DEF Harmless, Steady
<1>4. back \in [Key -> Row]
  BY <1>3
<1>5. Harmless(row[k], ClaimRow(back[k], w))
  BY <1>1, <1>2, ClaimHarmless
<1> DEFINE g == [pc |-> "look", key |-> k, fence |-> back[k].fence + 1,
                 tries |-> back[k].tries + 1, phase |-> back[k].phase, seen |-> FALSE]
<1>6. g \in Work
  <2>1. back[k].fence + 1 \in Nat /\ back[k].tries + 1 \in Nat /\ back[k].phase \in Phase
    BY <1>3 DEF Row
  <2>. QED
    BY <2>1 DEF Work, WorkPC
<1>7. g.phase \in Evidence /\ row[g.key].status # "absent"
  BY <1>1, <1>3 DEF Due, Harmless, Steady, Sound
<1> HIDE DEF back
<1>8. \A j \in Key : Harmless(row[j], row'[j])
  BY <1>1, <1>3, <1>4, <1>5
<1>9. row' \in [Key -> Row]
  BY <1>1, <1>4, <1>8 DEF Harmless, Steady
<1>10. work' = [work EXCEPT ![w] = g]
  BY <1>1
<1> HIDE DEF g
<1>. QED
  BY <1>6, <1>7, <1>8, <1>9, <1>10, WorkMoves, DeskKept DEF Claim, IInv, TypeOK

LEMMA LookUpInv ==
    ASSUME IInv, NEW w \in Worker, LookUp(w)
    PROVE  IInv' /\ Lawful
<1>1. work[w] \in Work /\ WorkFact(w) /\ work[w].key[1] \in Cycle
  BY DEF IInv, TypeOK, SubmissionInv, Work, Key
<1>2. PICK seen \in BOOLEAN :
        work' = [work EXCEPT ![w] = [work[w] EXCEPT !.pc = "settle", !.seen = seen]]
  BY <1>1 DEF LookUp, IInv, TypeOK
<1> DEFINE g == [work[w] EXCEPT !.pc = "settle", !.seen = seen]
<1>3. /\ g \in Work
      /\ g.phase \in Evidence /\ row[g.key].status # "absent"
  BY <1>1 DEF LookUp, Work, WorkPC, WorkFact
<1>4. row' \in [Key -> Row] /\ \A k \in Key : Harmless(row[k], row'[k])
  BY SameRows DEF LookUp, ledger, IInv, TypeOK
<1> HIDE DEF g
<1>. QED
  BY <1>2, <1>3, <1>4, WorkMoves, DeskKept DEF g, LookUp, ledger, IInv, TypeOK

\* A verdict: given to a leased row, or thrown away with the lost lease.
LEMMA DecideInv ==
    ASSUME IInv, NEW w \in Worker, NEW st \in Verified,
           work[w].pc = "settle", Decide(w, st)
    PROVE  IInv' /\ Lawful
<1> DEFINE k == work[w].key
<1>1. /\ work[w] \in Work /\ k \in Key /\ row[k] \in Row /\ Sound(row[k])
      /\ work[w].phase \in Evidence /\ row[k].status # "absent"
  BY DEF IInv, TypeOK, SubmissionInv, LedgerInv, WorkFact, Work
<1>2. CASE Leased(w)
  <2> DEFINE g == [work[w] EXCEPT !.pc = "project"]
  <2>1. /\ work' = [work EXCEPT ![w] = g]
        /\ row' = [row EXCEPT ![k] = VerdictRow(row[k], st, work[w].phase)]
    BY <1>2 DEF Decide, IInv, TypeOK
  <2>2. g \in Work /\ g.phase = work[w].phase /\ g.key = k
    BY <1>1 DEF Work, WorkPC
  <2>3. Harmless(row[k], VerdictRow(row[k], st, work[w].phase))
    BY <1>1, <1>2, VerdictHarmless DEF Leased, HoldsLease
  <2>4. row' \in [Key -> Row] /\ \A j \in Key : Harmless(row[j], row'[j])
    BY <1>1, <2>1, <2>3, OneRow
  <2>5. DeskOK'
    BY <1>1, <1>2 DEF Decide, IInv, TypeOK, DeskOK
  <2> HIDE DEF g, k
  <2>. QED
    BY <1>1, <2>1, <2>2, <2>4, <2>5, WorkMoves DEF Decide, IInv, TypeOK
<1>3. CASE ~Leased(w)
  <2>1. row' \in [Key -> Row] /\ \A j \in Key : Harmless(row[j], row'[j])
    BY <1>3, SameRows DEF Decide, IInv, TypeOK
  <2>2. AtRest \in Work /\ AtRest.pc = "idle"
    BY RestTyped DEF AtRest
  <2>3. DeskOK'
    BY <1>3 DEF Decide, IInv, TypeOK, DeskOK
  <2>. QED
    BY <1>3, <2>1, <2>2, <2>3, WorkMoves DEF Decide, IInv, TypeOK
<1>. QED
  BY <1>2, <1>3

LEMMA RetryInv ==
    ASSUME IInv, NEW w \in Worker, Retry(w)
    PROVE  IInv' /\ Lawful
<1> DEFINE k == work[w].key
<1>1. k \in Key /\ row[k] \in Row /\ Sound(row[k])
  BY DEF IInv, TypeOK, SubmissionInv, LedgerInv, Work
<1>2. row' \in [Key -> Row] /\ \A j \in Key : Harmless(row[j], row'[j])
  <2>1. CASE Leased(w)
    <3>1. Harmless(row[k], RetryRow(row[k]))
      BY <1>1, <2>1, RetryHarmless DEF Leased, HoldsLease
    <3>2. row' = [row EXCEPT ![k] = RetryRow(row[k])]
      BY <2>1 DEF Retry
    <3>. QED
      BY <1>1, <3>1, <3>2, OneRow
  <2>2. CASE ~Leased(w)
    BY <2>2, SameRows DEF Retry, IInv, TypeOK
  <2>. QED
    BY <2>1, <2>2
<1>3. AtRest \in Work /\ AtRest.pc = "idle"
  BY RestTyped DEF AtRest
<1>. QED
  BY <1>2, <1>3, WorkMoves, DeskKept DEF Retry, IInv, TypeOK

LEMMA ProjectInv ==
    ASSUME IInv, NEW w \in Worker, Project(w)
    PROVE  IInv' /\ Lawful
<1> DEFINE g == [work[w] EXCEPT !.pc = "cards"]
<1>1. /\ work' = [work EXCEPT ![w] = g] /\ g \in Work
      /\ g.phase \in Evidence /\ row[g.key].status # "absent"
  BY DEF Project, IInv, TypeOK, SubmissionInv, WorkFact, Work, WorkPC
<1>2. run' \in [Key -> Run]
  BY DEF Project, IInv, TypeOK, Run, Work
<1>3. row' \in [Key -> Row] /\ \A k \in Key : Harmless(row[k], row'[k])
  BY SameRows DEF Project, IInv, TypeOK
<1> HIDE DEF g
<1>. QED
  BY <1>1, <1>2, <1>3, WorkMoves, DeskKept DEF Project

LEMMA SettleCardsInv ==
    ASSUME IInv, NEW w \in Worker, SettleCards(w)
    PROVE  IInv' /\ Lawful
<1> DEFINE g == [work[w] EXCEPT !.pc = "tail"]
<1>1. /\ work' = [work EXCEPT ![w] = g] /\ g \in Work
      /\ g.phase \in Evidence /\ row[g.key].status # "absent"
  BY DEF SettleCards, IInv, TypeOK, SubmissionInv, WorkFact, Work, WorkPC
<1>2. DeskOK'
  <2>1. work[w].key \in Key
    BY DEF IInv, TypeOK, Work
  <2>. QED
    BY <2>1, SettledTyped, DeskMoves DEF SettleCards
<1>3. row' \in [Key -> Row] /\ \A k \in Key : Harmless(row[k], row'[k])
  BY SameRows DEF SettleCards, ledger, IInv, TypeOK
<1> HIDE DEF g
<1>. QED
  BY <1>1, <1>2, <1>3, WorkMoves DEF SettleCards, ledger, IInv, TypeOK

LEMMA TailInv ==
    ASSUME IInv, NEW w \in Worker, Tail(w)
    PROVE  IInv' /\ Lawful
<1> DEFINE k == work[w].key
           ready == Ready(k, run, card)
<1>1. /\ k \in Key /\ row[k] \in Row /\ Sound(row[k]) /\ ready \in BOOLEAN
      /\ work[w].phase \in Evidence /\ row[k].status # "absent"
  BY DEF Tail, IInv, TypeOK, SubmissionInv, LedgerInv, WorkFact, Work, Ready
<1>2. Harmless(row[k], ProjectedRow(row[k], work[w].phase, ready))
  BY <1>1, ProjectedHarmless
<1>3. row' = [row EXCEPT ![k] = ProjectedRow(row[k], work[w].phase, ready)]
  BY DEF Tail
<1>4. row' \in [Key -> Row] /\ \A j \in Key : Harmless(row[j], row'[j])
  BY <1>1, <1>2, <1>3, OneRow
<1>5. AtRest \in Work /\ AtRest.pc = "idle"
  BY RestTyped DEF AtRest
<1>. QED
  BY <1>4, <1>5, WorkMoves, DeskKept DEF Tail, IInv, TypeOK

LEMMA ReplayInv ==
    ASSUME IInv, NEW w \in Worker, NEW k \in Key, Replay(w, k)
    PROVE  IInv' /\ Lawful
<1> DEFINE g == [AtRest EXCEPT !.pc = "project", !.key = k, !.phase = row[k].phase]
<1>1. row[k] \in Row /\ Sound(row[k]) /\ row[k].status \in Verified
  BY DEF Replay, IInv, TypeOK, SubmissionInv, LedgerInv
<1>2. row[k].phase \in Phase /\ row[k].phase \in Evidence /\ row[k].status # "absent"
  BY <1>1 DEF Row, Sound, Verified
<1>3. g \in Work /\ g.phase = row[k].phase /\ g.key = k
  BY <1>2, RestTyped DEF Work, WorkPC
<1>4. work' = [work EXCEPT ![w] = g]
  BY DEF Replay
<1>5. row' \in [Key -> Row] /\ \A j \in Key : Harmless(row[j], row'[j])
  BY SameRows DEF Replay, ledger, IInv, TypeOK
<1> HIDE DEF g
<1>. QED
  BY <1>2, <1>3, <1>4, <1>5, WorkMoves, DeskKept DEF Replay, ledger, IInv, TypeOK

LEMMA WorkStepInv ==
    ASSUME IInv, NEW w \in Worker, WorkStep(w)
    PROVE  IInv' /\ Lawful
<1>1. CASE Confirm(w) \/ GiveUp(w)
  BY <1>1, DecideInv DEF Confirm, GiveUp, Verified
<1>2. CASE \/ Recover(w) \/ Claim(w) \/ LookUp(w) \/ Retry(w) \/ Project(w)
           \/ SettleCards(w) \/ Tail(w) \/ \E k \in Key : Replay(w, k)
  BY <1>2, RecoverInv, ClaimInv, LookUpInv, RetryInv, ProjectInv, SettleCardsInv, TailInv,
     ReplayInv
<1>. QED
  BY <1>1, <1>2 DEF WorkStep

(***************************************************************************)
(* The theorems                                                            *)
(***************************************************************************)
LEMMA InitInv == Init => IInv
<1> SUFFICES ASSUME Init PROVE IInv
  OBVIOUS
<1>1. Absent \in Row /\ Absent.status = "absent" /\ Sound(Absent)
  BY DEF Absent, Row, Status, Phase, Sound, Verified
<1>2. /\ NoFlow \in Flow /\ NoFlow.pc = "idle"
      /\ AtRest \in Work /\ AtRest.pc = "idle"
  BY RestTyped DEF NoFlow, AtRest
<1>3. 0 \in 0 .. MaxCrash /\ 0 \in 0 .. MaxSlow
  BY ConstantsAssumption
<1>4. TypeOK
  BY <1>1, <1>2, <1>3 DEF Init, TypeOK, DeskOK, CardPC, Run, Post
<1>5. FailedMeansRefused
  BY <1>1 DEF Init, FailedMeansRefused
<1>6. LedgerInv
  <2>1. \A k \in Key : row[k] = Absent
    BY DEF Init
  <2>2. \A c \in Cycle : \A m \in Try : <<c, m>> \in Key
    BY DEF Key
  <2>. QED
    BY <1>1, <2>1, <2>2 DEF Init, LedgerInv
<1>7. ASSUME NEW c \in Cycle PROVE FlowFact(c)
  BY <1>2 DEF Init, FlowFact, At
<1>8. ASSUME NEW w \in Worker PROVE WorkFact(w)
  BY <1>2 DEF Init, WorkFact
<1>. QED
  BY <1>4, <1>5, <1>6, <1>7, <1>8 DEF IInv, SubmissionInv

LEMMA NextInv == IInv /\ [Next]_vars => IInv' /\ Lawful
<1> SUFFICES ASSUME IInv, [Next]_vars PROVE IInv' /\ Lawful
  OBVIOUS
<1>1. CASE UNCHANGED vars
  <2>1. IInv'
    BY <1>1 DEF vars, IInv, TypeOK, DeskOK, SubmissionInv, FailedMeansRefused, LedgerInv,
                FlowFact, WorkFact, At, KeyOf
  <2>2. Lawful
    BY <1>1, SameRows DEF vars, Lawful, Harmless
  <2>. QED
    BY <2>1, <2>2
<1>2. CASE Next
  BY <1>2, FlowStepInv, EndsByItselfInv, PlatformInv, RipenInv, WorkStepInv, CardStepInv,
         CrashInv
     DEF Next
<1>. QED
  BY <1>1, <1>2

\* The flow, the ledger, the workers and the wire agree in every reachable
\* state of StopSubmission, whatever the numbers of cycles, attempts, workers,
\* look-ups and crashes: the inductive invariant.
THEOREM InductiveInvariant == Spec => []IInv
BY InitInv, NextInv, PTL DEF Spec

\* Every variable of the submission keeps its type.
THEOREM TypeCorrect == Spec => []TypeOK
<1>1. IInv => TypeOK
  BY DEF IInv
<1>. QED
  BY <1>1, InductiveInvariant, PTL

\* Reservation, flow knowledge and worker snapshots agree with the wire.
THEOREM SubmissionIsConsistent == Spec => []SubmissionInv
<1>1. IInv => SubmissionInv
  BY DEF IInv
<1>. QED
  BY <1>1, InductiveInvariant, PTL

\* No idempotency key is ever POSTed twice (reserve_execution_intent).
THEOREM NeverPostedTwice == Spec => []PostOnce
<1>1. IInv => PostOnce
  BY DEF IInv, SubmissionInv, LedgerInv, PostOnce
<1>. QED
  BY <1>1, InductiveInvariant, PTL

\* confirmed_failed is only ever given to a POST the platform refused.
THEOREM FailureIsCertain == Spec => []FailedMeansRefused
<1>1. IInv => FailedMeansRefused
  BY DEF IInv, SubmissionInv
<1>. QED
  BY <1>1, InductiveInvariant, PTL

\* At most one POST of a cycle has stopped or may still stop the control task
\* (resolve_stop_idempotency_key).
THEOREM OneStop == Spec => []OneStopPerCycle
<1>1. IInv => OneStopPerCycle
  <2> SUFFICES ASSUME IInv, NEW c \in Cycle, NEW m \in Try, NEW n \in Try,
                      MayTakeEffect(<<c, m>>), MayTakeEffect(<<c, n>>)
               PROVE  m = n
    BY DEF OneStopPerCycle
  <2>1. <<c, m>> \in Key /\ <<c, n>> \in Key
    BY DEF Key
  <2>2. row[<<c, m>>].status # "absent" /\ row[<<c, n>>].status # "absent"
    BY <2>1 DEF MayTakeEffect, IInv, SubmissionInv, LedgerInv
  <2>3. \A i, j \in Try : i < j /\ row[<<c, j>>].status # "absent"
                             => ~ MayTakeEffect(<<c, i>>)
    <3>1. \A i \in Try : <<c, i>> \in Key
      BY DEF Key
    <3>. QED
      BY <3>1 DEF MayTakeEffect, IInv, SubmissionInv, LedgerInv, FailedMeansRefused
  <2>4. ~ (m < n) /\ ~ (n < m)
    BY <2>2, <2>3
  <2>. QED
    BY <2>4 DEF Try
<1>. QED
  BY <1>1, InductiveInvariant, PTL

\* GET-only verification and its verdicts rest on evidence of a POST.
THEOREM EvidenceBehindVerification == Spec => []VerificationHasEvidence
<1>1. IInv => VerificationHasEvidence
  BY DEF IInv, SubmissionInv, LedgerInv, Sound, Evidence, VerificationHasEvidence
<1>. QED
  BY <1>1, InductiveInvariant, PTL

\* A verdict is final, in whatever order a late answer, a recovery and workers
\* with lapsed leases reach the row (the fencing token of _claim_one).
THEOREM VerdictStands == Spec => VerdictIsFinal
<1>1. IInv /\ [Next]_vars
        => [\A k \in Key : row[k].status \in Terminal
                             => row'[k].status = row[k].status]_vars
  <2> SUFFICES ASSUME IInv, [Next]_vars, NEW k \in Key, row[k].status \in Terminal
               PROVE  row'[k].status = row[k].status
    OBVIOUS
  <2>. QED
    BY NextInv DEF Lawful, Steady, Terminal, Verified
<1>. QED
  BY <1>1, InductiveInvariant, PTL DEF Spec, VerdictIsFinal

\* What was accepted or unknown never becomes rejected nor looks unsent
\* (record_execution_submission_phase, _finish).
THEOREM EvidenceStays == Spec => EvidenceIsMonotonic
<1>1. IInv /\ [Next]_vars
        => [\A k \in Key : row[k].phase \in {"accepted", "unknown"}
                             => row'[k].phase \in {"accepted", "unknown"}]_vars
  <2> SUFFICES ASSUME IInv, [Next]_vars, NEW k \in Key,
                      row[k].phase \in {"accepted", "unknown"}
               PROVE  row'[k].phase \in {"accepted", "unknown"}
    OBVIOUS
  <2>1. row[k].status # "absent"
    BY DEF IInv, SubmissionInv, LedgerInv, Sound
  <2>. QED
    BY <2>1, NextInv DEF Lawful, Steady, Evidence
<1>. QED
  BY <1>1, InductiveInvariant, PTL DEF Spec, EvidenceIsMonotonic

(***************************************************************************)
(* StopSubmission implements StopAttempts: the initial states map to       *)
(* initial states, and every step maps to a step of one attempt or leaves  *)
(* verdicts and requests alone.                                            *)
(***************************************************************************)

\* The verdict that row r stands for, as the refinement mapping sees it.
V(r) == VerdictFor(r.status)

\* The refinement mapping maps the transactions that neither reserve nor decide
\* to nothing at all.
LEMMA QuietRows ==
    ASSUME NEW r \in Row
    PROVE  /\ r.status # "absent" => \A p \in Evidence : V(EnqueueRow(r, p)) = V(r)
           /\ \A p \in Evidence : V(RecordRow(r, p)) = V(r)
           /\ V(RecoverRow(r)) = V(r)
           /\ V(LapseRow(r)) = V(r)
           /\ V([r EXCEPT !.ripe = TRUE]) = V(r)
<1>1. ASSUME r.status # "absent", NEW p \in Evidence
      PROVE  V(EnqueueRow(r, p)) = V(r)
  BY <1>1 DEF V, VerdictFor, EnqueueRow, Row, Status, Outstanding, Terminal, Verified
<1>2. ASSUME NEW p \in Evidence
      PROVE  V(RecordRow(r, p)) = V(r)
  BY DEF V, RecordRow, Row, Evidence
<1>3. V(RecoverRow(r)) = V(r)
  BY DEF V, VerdictFor, RecoverRow, Interrupted, Row, Outstanding
<1>4. V(LapseRow(r)) = V(r)
  BY DEF V, VerdictFor, LapseRow, Row, Outstanding
<1>5. V([r EXCEPT !.ripe = TRUE]) = V(r)
  BY DEF V, Row
<1>. QED
  BY <1>1, <1>2, <1>3, <1>4, <1>5

LEMMA QuietLease ==
    ASSUME NEW r \in Row
    PROVE  /\ \A w \in Worker : Due(r) => V(ClaimRow(r, w)) = V(r)
           /\ r.status = "verifying" => V(RetryRow(r)) = V(r)
           /\ \A p \in Evidence, b \in BOOLEAN : V(ProjectedRow(r, p, b)) = V(r)
BY DEF V, VerdictFor, Due, ClaimRow, RetryRow, ProjectedRow, Row, Outstanding

\* A step that changes neither a verdict nor a request is a stutter.
Quiet == post' = post /\ \A k \in Key : V(row'[k]) = V(row[k])

LEMMA QuietIsStutter ==
    ASSUME Quiet
    PROVE  UNCHANGED Abstract!vars
BY DEF Quiet, V, Abstract!vars

\* Only row k changes, and keeps its verdict.
LEMMA QuietAt ==
    ASSUME IInv, NEW k \in Key, NEW r, V(r) = V(row[k]),
           row' = [row EXCEPT ![k] = r], post' = post
    PROVE  Quiet
BY DEF Quiet, IInv, TypeOK

LEMMA AbstractAttempts == Abstract!Attempt = Key /\ Abstract!Try = Try
BY DEF Abstract!Attempt, Abstract!Try, Key, Try

(***************************************************************************)
(* The steps                                                               *)
(***************************************************************************)
AbstractStep == Abstract!Next \/ UNCHANGED Abstract!vars

\* The reservation opens the attempt, in turn.
LEMMA ReserveOpens ==
    ASSUME IInv, NEW c \in Cycle, Reserve(c)
    PROVE  AbstractStep
<1> DEFINE k == KeyOf(c)
<1>1. k \in Key /\ k = <<c, flow[c].try>> /\ \A m \in Try : <<c, m>> \in Key
  BY DEF KeyOf, Key, IInv, TypeOK, Flow
<1>2. /\ V(row[k]) = "none"
      /\ \A m \in Try : m < k[2] => V(row[<<k[1], m>>]) = "failed"
  BY <1>1 DEF Reserve, V, VerdictFor, Outstanding, IInv, SubmissionInv, FlowFact
<1>3. V(Reserved) = "open"
  BY DEF V, VerdictFor, Reserved, Absent, Outstanding
<1>4. [j \in Key |-> V(row'[j])] = [[j \in Key |-> V(row[j])] EXCEPT ![k] = "open"]
  BY <1>1, <1>3 DEF Reserve, IInv, TypeOK
<1>5. Abstract!Open(k)
  <2>1. \A n \in Abstract!Try : n < k[2] => <<k[1], n>> \in Key
    BY <1>1, AbstractAttempts
  <2>. QED
    BY <1>1, <1>2, <1>4, <2>1, AbstractAttempts DEF Abstract!Open, V, Reserve, platform
<1>. QED
  BY <1>1, <1>5, AbstractAttempts DEF AbstractStep, Abstract!Next

LEMMA SendSends ==
    ASSUME IInv, NEW c \in Cycle, Send(c)
    PROVE  AbstractStep
<1> DEFINE k == KeyOf(c)
<1>1. /\ k \in Key /\ post[k] = "none" /\ row[k].status # "absent"
      /\ row[k].status # "confirmed_failed" /\ row[k].status \in Status
  BY DEF Send, At, KeyOf, Key, IInv, TypeOK, Flow, Row, SubmissionInv, FlowFact,
         FailedMeansRefused
<1>2. V(row[k]) \in {"open", "succeeded", "review"}
  BY <1>1 DEF V, VerdictFor, Status, Outstanding, Terminal, Verified
<1>3. Abstract!Send(k)
  BY <1>1, <1>2 DEF Abstract!Send, V, Send, ledger
<1>. QED
  BY <1>1, <1>3, AbstractAttempts DEF AbstractStep, Abstract!Next

\* The refusal that reaches the ledger in time settles the attempt as failed.
LEMMA RefusalSettles ==
    ASSUME IInv, NEW c \in Cycle, BookRefusal(c)
    PROVE  AbstractStep
<1> DEFINE k == KeyOf(c)
           r == RecordRow(row[k], "rejected")
<1>1. k \in Key /\ row[k] \in Row /\ post[k] = "refused"
  BY DEF BookRefusal, KeyOf, Key, IInv, TypeOK, Flow, SubmissionInv, FlowFact
<1>2. row' = [row EXCEPT ![k] = r] /\ post' = post
  BY DEF BookRefusal, platform
<1>3. \/ V(r) = V(row[k])
      \/ V(row[k]) = "open" /\ V(r) = "failed"
  BY <1>1 DEF V, VerdictFor, RecordRow, Row, Outstanding
<1>4. CASE V(r) = V(row[k])
  BY <1>1, <1>2, <1>4, QuietAt, QuietIsStutter DEF AbstractStep
<1>5. CASE V(row[k]) = "open" /\ V(r) = "failed"
  <2>1. [j \in Key |-> V(row'[j])] = [[j \in Key |-> V(row[j])] EXCEPT ![k] = "failed"]
    BY <1>1, <1>2, <1>5 DEF IInv, TypeOK
  <2>2. Abstract!Settle(k)
    BY <1>1, <1>2, <1>5, <2>1 DEF Abstract!Settle, V
  <2>. QED
    BY <1>1, <2>2, AbstractAttempts DEF AbstractStep, Abstract!Next
<1>. QED
  BY <1>3, <1>4, <1>5

LEMMA PlatformResolves ==
    ASSUME IInv, NEW k \in Key, Apply(k) \/ Refuse(k)
    PROVE  AbstractStep
<1>1. Abstract!Resolve(k)
  BY DEF Apply, Refuse, ledger, Abstract!Resolve
<1>. QED
  BY <1>1, AbstractAttempts DEF AbstractStep, Abstract!Next

\* The verdict of a worker that holds its lease settles the attempt.
LEMMA VerdictSettles ==
    ASSUME IInv, NEW w \in Worker, NEW st \in Verified, Decide(w, st)
    PROVE  AbstractStep
<1> DEFINE k == work[w].key
           r == VerdictRow(row[k], st, work[w].phase)
<1>1. k \in Key /\ row[k] \in Row
  BY DEF IInv, TypeOK, Work
<1>2. CASE Leased(w)
  <2>1. row' = [row EXCEPT ![k] = r] /\ post' = post
    BY <1>2 DEF Decide, platform
  <2>2. V(row[k]) = "open"
    BY <1>2 DEF Leased, HoldsLease, V, VerdictFor, Outstanding
  <2>3. V(r) \in {"succeeded", "review"}
    BY <1>1 DEF V, VerdictFor, VerdictRow, Row, Verified, Outstanding
  <2>4. [j \in Key |-> V(row'[j])] = [[j \in Key |-> V(row[j])] EXCEPT ![k] = V(r)]
    BY <1>1, <2>1 DEF IInv, TypeOK
  <2> HIDE DEF k, r
  <2>5. Abstract!Settle(k)
    BY <1>1, <2>1, <2>2, <2>3, <2>4 DEF Abstract!Settle, V
  <2>. QED
    BY <1>1, <2>5, AbstractAttempts DEF AbstractStep, Abstract!Next
<1>3. CASE ~Leased(w)
  BY <1>3, QuietIsStutter DEF Decide, platform, Quiet, AbstractStep
<1>. QED
  BY <1>2, <1>3

\* A replay in the foreground decides nothing.
LEMMA ReplayStutters ==
    ASSUME IInv, NEW k \in Key, row[k].status \in Verified, ReplayHere(k), post' = post
    PROVE  AbstractStep
<1>1. row[k] \in Row /\ row[k].phase \in Evidence
  BY DEF IInv, TypeOK, SubmissionInv, LedgerInv, Sound, Verified
<1>2. PICK b \in BOOLEAN : row' = [row EXCEPT ![k] = ProjectedRow(row[k], row[k].phase, b)]
  BY DEF ReplayHere, Ready
<1>3. V(ProjectedRow(row[k], row[k].phase, b)) = V(row[k])
  BY <1>1, QuietLease
<1>. QED
  BY <1>2, <1>3, QuietAt, QuietIsStutter DEF AbstractStep

\* The other steps of the flow.
LEMMA FlowStutters ==
    ASSUME IInv, NEW c \in Cycle,
           \/ Begin(c) \/ NoSubmission(c) \/ Existing(c) \/ SendFails(c) \/ Answer(c)
           \/ BookOutcome(c) \/ BookPhaseOnly(c) \/ BookNothing(c) \/ RecordRun(c)
           \/ RecordRunFails(c) \/ ReplayOwn(c) \/ ReplayOwnFails(c) \/ Report(c)
           \/ Recheck(c) \/ RecheckFails(c)
    PROVE  AbstractStep
<1> DEFINE k == KeyOf(c)
<1>1. k \in Key /\ row[k] \in Row
  BY DEF KeyOf, Key, IInv, TypeOK, Flow
<1>2. CASE row' = row /\ post' = post
  BY <1>2, QuietIsStutter DEF Quiet, AbstractStep
<1>3. CASE BookOutcome(c) \/ BookPhaseOnly(c)
  <2>1. PhaseOf(flow[c].pc) \in Evidence /\ row[k].status # "absent"
    BY <1>3 DEF BookOutcome, BookPhaseOnly, PhaseOf, Evidence, IInv, SubmissionInv,
                FlowFact
  <2>2. PICK r : V(r) = V(row[k]) /\ row' = [row EXCEPT ![k] = r]
    BY <1>1, <1>3, <2>1, QuietRows DEF BookOutcome, BookPhaseOnly
  <2>. QED
    BY <1>1, <1>3, <2>2, QuietAt, QuietIsStutter
       DEF BookOutcome, BookPhaseOnly, platform, AbstractStep
<1>4. CASE ReplayOwn(c)
  BY <1>1, <1>2, <1>4, ReplayStutters DEF ReplayOwn, ledger, platform
<1>5. CASE Recheck(c)
  BY <1>2, <1>5, ReplayStutters DEF Recheck, Replayed, ledger, platform
<1>. QED
  BY <1>2, <1>3, <1>4, <1>5
     DEF Begin, NoSubmission, Existing, SendFails, Answer, BookNothing, RecordRun,
         RecordRunFails, ReplayOwnFails, Report, RecheckFails, ledger, platform

\* The other steps of the workers, of time and of the crash.
LEMMA WorkStutters ==
    ASSUME IInv, NEW w \in Worker,
           \/ Recover(w) \/ Claim(w) \/ LookUp(w) \/ Retry(w) \/ Project(w)
           \/ SettleCards(w) \/ Tail(w) \/ \E k \in Key : Replay(w, k)
    PROVE  AbstractStep
<1> DEFINE k == work[w].key
<1>1. /\ k \in Key /\ \A j \in Key : row[j] \in Row
      /\ work[w] \in Work
  BY DEF IInv, TypeOK, Work
<1>2. CASE row' = row /\ post' = post
  BY <1>2, QuietIsStutter DEF Quiet, AbstractStep
<1>3. CASE Recover(w)
  BY <1>1, <1>3, QuietRows, QuietIsStutter DEF Recover, platform, Quiet, AbstractStep
<1>4. CASE Claim(w)
  <2> DEFINE back == [j \in Key |-> LapseRow(row[j])]
  <2>1. PICK i \in Key : Due(back[i]) /\ row' = [back EXCEPT ![i] = ClaimRow(@, w)]
    BY <1>4 DEF Claim
  <2>2. \A j \in Key : back[j] \in Row /\ V(back[j]) = V(row[j])
    BY <1>1, LapseHarmless, QuietRows
       DEF Harmless, Steady, IInv, SubmissionInv, LedgerInv
  <2>3. V(ClaimRow(back[i], w)) = V(back[i])
    BY <2>1, <2>2, QuietLease
  <2> HIDE DEF back
  <2>4. back = [j \in Key |-> LapseRow(row[j])]
    BY DEF back
  <2>5. \A j \in Key : V(row'[j]) = V(row[j])
    BY <2>1, <2>2, <2>3, <2>4
  <2>. QED
    BY <1>4, <2>5, QuietIsStutter DEF Claim, platform, Quiet, AbstractStep
<1>5. CASE Retry(w) /\ Leased(w)
  <2>1. row' = [row EXCEPT ![k] = RetryRow(row[k])] /\ row[k].status = "verifying"
    BY <1>5 DEF Retry, Leased, HoldsLease
  <2>2. V(RetryRow(row[k])) = V(row[k])
    BY <1>1, <2>1, QuietLease
  <2>. QED
    BY <1>1, <1>5, <2>1, <2>2, QuietAt, QuietIsStutter
       DEF Retry, platform, AbstractStep
<1>6. CASE Tail(w)
  <2>1. work[w].phase \in Evidence
    BY <1>6 DEF Tail, IInv, SubmissionInv, WorkFact
  <2>2. PICK b \in BOOLEAN : row' = [row EXCEPT ![k] = ProjectedRow(row[k], work[w].phase, b)]
    BY <1>6 DEF Tail, Ready
  <2>3. V(ProjectedRow(row[k], work[w].phase, b)) = V(row[k])
    BY <1>1, <2>1, QuietLease
  <2>. QED
    BY <1>1, <1>6, <2>2, <2>3, QuietAt, QuietIsStutter DEF Tail, platform, AbstractStep
<1>. QED
  BY <1>2, <1>3, <1>4, <1>5, <1>6
     DEF LookUp, Retry, Project, SettleCards, Replay, ledger, platform

LEMMA TimeStutters ==
    ASSUME IInv,
           \/ \E c \in Cycle : EndsByItself(c)
           \/ \E k \in Key : Ripen(k)
           \/ \E d \in Card : CardStep(d)
           \/ Crash
    PROVE  AbstractStep
<1>1. CASE row' = row /\ post' = post
  BY <1>1, QuietIsStutter DEF Quiet, AbstractStep
<1>2. CASE \E k \in Key : Ripen(k)
  <2>1. PICK k \in Key : Ripen(k)
    BY <1>2
  <2>2. row[k] \in Row /\ row' = [row EXCEPT ![k] = [row[k] EXCEPT !.ripe = TRUE]]
    BY <2>1 DEF Ripen, IInv, TypeOK
  <2>3. V([row[k] EXCEPT !.ripe = TRUE]) = V(row[k])
    BY <2>2, QuietRows
  <2>. QED
    BY <2>1, <2>2, <2>3, QuietAt, QuietIsStutter DEF Ripen, platform, AbstractStep
<1>. QED
  BY <1>1, <1>2 DEF EndsByItself, Crash, CardStep, LapseClaim, Expire, Withdraw, Deliver,
                    ledger, platform

LEMMA EveryStep == IInv /\ [Next]_vars => [Abstract!Next]_(Abstract!vars)
<1> SUFFICES ASSUME IInv, [Next]_vars PROVE AbstractStep
  BY DEF AbstractStep
<1>1. CASE UNCHANGED vars
  BY <1>1, QuietIsStutter DEF vars, Quiet, AbstractStep
<1>2. ASSUME NEW c \in Cycle, FlowStep(c) PROVE AbstractStep
  BY <1>2, ReserveOpens, SendSends, RefusalSettles, FlowStutters DEF FlowStep
<1>3. ASSUME NEW w \in Worker, WorkStep(w) PROVE AbstractStep
  <2>1. CASE Confirm(w) \/ GiveUp(w)
    BY <2>1, VerdictSettles DEF Confirm, GiveUp, Verified
  <2>. QED
    BY <1>3, <2>1, WorkStutters DEF WorkStep
<1>. QED
  BY <1>1, <1>2, <1>3, PlatformResolves, TimeStutters DEF Next

\* Ledger, flow and workers together do nothing but what StopAttempts allows:
\* attempts in turn, one request and one verdict each.
THEOREM Refinement == Spec => ImplementsAttempts
<1>1. Init => Abstract!Init
  <2> SUFFICES ASSUME Init PROVE Abstract!Init
    OBVIOUS
  <2>1. Absent.status = "absent"
    BY DEF Absent
  <2>2. \A k \in Key : VerdictFor(row[k].status) = "none"
    BY <2>1 DEF Init, VerdictFor, Outstanding
  <2>. QED
    BY <2>2, AbstractAttempts DEF Init, Abstract!Init
<1>. QED
  BY <1>1, EveryStep, InductiveInvariant, PTL DEF Spec, ImplementsAttempts, Abstract!Spec
=============================================================================
