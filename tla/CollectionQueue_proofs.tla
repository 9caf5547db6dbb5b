------------------------ MODULE CollectionQueue_proofs ------------------------
(***************************************************************************)
(* Proofs about CollectionQueue for all bounds: its variables have their   *)
(* types, a snapshot never replaces one that was read later, nothing is    *)
(* committed under an authorization that was replaced, and no request is   *)
(* swallowed while nothing fails.                                          *)
(***************************************************************************)
EXTENDS CollectionQueue, TLAPS

\* Generations and authorizations are paid for by faults.
Counted ==
    /\ auth <= faults /\ generation <= faults
    /\ keeper.at = "revoke" => generation < faults

\* No fencing token is used before the job has reached it.
FencesUsed ==
    /\ \A f \in Fence : work[f].at # "none" => f <= job.fence
    /\ \A l \in Generation : loop[l].fence <= job.fence
    /\ \A l \in Generation : LoopAt(l, "cycle") => loop[l].fence > 0

\* The worker whose token the job bears has read what is committed, or later.
HolderIsFresh ==
    /\ data <= world
    /\ \A f \in Fence : work[f].saw <= world
    /\ \A f \in Fence : work[f].at \in {"read", "gate"} /\ f = job.fence
                          => data <= work[f].saw

\* Between gate and commit a worker has the database, and its authorization
\* is the saved one.
GateIsGuarded ==
    \A f \in Fence : WorkAt(f, "gate") => writer = f /\ work[f].auth = auth

IInv == TypeOK /\ Counted /\ FencesUsed /\ HolderIsFresh /\ GateIsGuarded

\* The records the loops, workers and the job start from.
LEMMA LoopRecords ==
    /\ Gone \in Loop /\ Gone.fence = 0 /\ Gone.at = "gone"
    /\ Top \in Loop /\ Top.fence = 0 /\ Top.at = "top"
<1>1. Gone \in Loop /\ Gone.fence = 0 /\ Gone.at = "gone"
  <2>1. Nothing \in Seen
    BY DEF Nothing, Seen
  <2>2. 0 \in 0 .. MaxFence
    BY BoundsAssumption
  <2>. QED
    BY <2>1, <2>2 DEF Loop, Gone
<1>. QED
  BY <1>1 DEF Top, Loop

LEMMA JobRecords ==
    ASSUME job \in Job, NEW s \in Seen, NEW h \in BOOLEAN, NEW l \in Generation,
           loop \in [Generation -> Loop], NEW cut
    PROVE  /\ SeenNow \in Seen
           /\ Enqueued(s, h) \in Job /\ Enqueued(s, h).fence = job.fence
           /\ Swept \in Job /\ Swept.fence = job.fence
           /\ Finished(l) \in Job /\ Finished(l).fence = job.fence
           /\ job.fence < MaxFence => /\ Released(cut) \in Job
                                      /\ Released(cut).fence \in {job.fence, job.fence + 1}
           /\ Swept.fence < MaxFence => /\ Leased(Swept) \in Job
                                        /\ Leased(Swept).fence = job.fence + 1
<1>1. SeenNow \in Seen
  BY DEF SeenNow, Seen, Job
<1>2. Enqueued(s, h) \in Job /\ Enqueued(s, h).fence = job.fence
  BY DEF Enqueued, Seen, Job
<1>3. Swept \in Job /\ Swept.fence = job.fence
  BY DEF Swept, Job
<1>4. Finished(l) \in Job /\ Finished(l).fence = job.fence
  <2>1. loop[l].high \in BOOLEAN
    BY DEF Loop
  <2>. QED
    BY <2>1 DEF Finished, Job
<1>5. job.fence < MaxFence => /\ Released(cut) \in Job
                              /\ Released(cut).fence \in {job.fence, job.fence + 1}
  <2>1. job.fence < MaxFence => job.fence + 1 \in 0 .. MaxFence
    BY BoundsAssumption DEF Job
  <2>. QED
    BY <2>1 DEF Released, Job
<1>6. Swept.fence < MaxFence => /\ Leased(Swept) \in Job
                                /\ Leased(Swept).fence = job.fence + 1
  <2>1. Swept.fence < MaxFence => Swept.fence + 1 \in 0 .. MaxFence
    BY <1>3, BoundsAssumption DEF Job
  <2>. QED
    BY <1>3, <2>1 DEF Leased, Job
<1>. QED
  BY <1>1, <1>2, <1>3, <1>4, <1>5, <1>6

LEMMA WorkRecords ==
    /\ NoWork \in Work /\ NoWork.saw = 0 /\ NoWork.at = "none"
    /\ Done \in Work /\ Done.saw = 0 /\ Done.at = "over"
<1>1. NoWork \in Work /\ NoWork.saw = 0 /\ NoWork.at = "none"
  <2>1. 0 \in Generation /\ 0 \in 0 .. MaxWorld
    BY BoundsAssumption DEF Generation
  <2>. QED
    BY <2>1 DEF Work, NoWork
<1>. QED
  BY <1>1 DEF Work, Done

LEMMA CancelledWork ==
    ASSUME work \in [Fence -> Work], NEW cut
    PROVE  /\ Cancelled(cut) \in [Fence -> Work]
           /\ \A f \in Fence : /\ Cancelled(cut)[f].at = work[f].at
                               /\ Cancelled(cut)[f].saw = work[f].saw
                               /\ Cancelled(cut)[f].auth = work[f].auth
<1>1. ASSUME NEW f \in Fence
      PROVE  /\ Cancelled(cut)[f] \in Work
             /\ Cancelled(cut)[f].at = work[f].at
             /\ Cancelled(cut)[f].saw = work[f].saw
             /\ Cancelled(cut)[f].auth = work[f].auth
  BY DEF Cancelled, Work
<1>. QED
  BY <1>1 DEF Cancelled
\* One loop moves; one worker moves.
LEMMA LoopUpdate ==
    ASSUME loop \in [Generation -> Loop], NEW l \in Generation, NEW new \in Loop,
           Becomes(l, new)
    PROVE  /\ loop' \in [Generation -> Loop]
           /\ loop'[l] = new
           /\ \A k \in Generation : k # l => loop'[k] = loop[k]
BY DEF Becomes

LEMMA WorkUpdate ==
    ASSUME work \in [Fence -> Work], NEW f \in Fence, NEW w \in Work,
           work' = [work EXCEPT ![f] = w]
    PROVE  /\ work' \in [Fence -> Work]
           /\ work'[f] = w
           /\ \A k \in Fence : k # f => work'[k] = work[k]
OBVIOUS

(***************************************************************************)
(* What the four parts of the invariant need from a step.                  *)
(***************************************************************************)
\* A worker that moves on keeps its reading or reads what is on the platform.
LEMMA WorkKeepsFresh ==
    ASSUME IInv, NEW f \in Fence, NEW w \in Work, work' = [work EXCEPT ![f] = w],
           w.saw <= world,
           w.at \in {"read", "gate"} => data <= w.saw \/ (WorkAt(f, "read") /\ w.saw = work[f].saw),
           UNCHANGED <<data, world>>, job'.fence = job.fence
    PROVE  HolderIsFresh'
BY WorkUpdate DEF IInv, TypeOK, HolderIsFresh, WorkAt

LEMMA WorkKeepsFences ==
    ASSUME IInv, NEW f \in Fence, NEW w \in Work, work' = [work EXCEPT ![f] = w],
           f <= job.fence, UNCHANGED <<job, loop>>
    PROVE  FencesUsed'
BY WorkUpdate DEF IInv, TypeOK, FencesUsed, LoopAt

\* A loop that moves on has a token of the job, or none.
LEMMA LoopKeepsFences ==
    ASSUME IInv, NEW l \in Generation, NEW new \in Loop, Becomes(l, new),
           new.fence <= job.fence, new.at = "cycle" => new.fence > 0,
           UNCHANGED work, job' \in Job, job'.fence = job.fence
    PROVE  FencesUsed'
BY LoopUpdate DEF IInv, TypeOK, FencesUsed, LoopAt

\* The token of the job only grows, and a new one was never used.
LEMMA JobKeepsFences ==
    ASSUME IInv, job' \in Job, job'.fence \in {job.fence, job.fence + 1},
           UNCHANGED <<work, loop>>
    PROVE  FencesUsed'
<1>1. job.fence \in Nat /\ job'.fence \in Nat
  BY BoundsAssumption DEF IInv, TypeOK, Job
<1>2. \A f \in Fence : f \in Nat
  BY BoundsAssumption DEF Fence
<1>3. \A l \in Generation : loop[l].fence \in Nat
  BY BoundsAssumption DEF IInv, TypeOK, Loop
<1>. QED
  BY <1>1, <1>2, <1>3 DEF IInv, FencesUsed, LoopAt

LEMMA JobKeepsFresh ==
    ASSUME IInv, job' \in Job, job'.fence \in {job.fence, job.fence + 1},
           UNCHANGED <<work, data, world>>
    PROVE  HolderIsFresh'
<1>1. job.fence \in Nat /\ job'.fence \in Nat
  BY BoundsAssumption DEF IInv, TypeOK, Job
<1>2. \A f \in Fence : f \in Nat
  BY BoundsAssumption DEF Fence
<1>3. \A f \in Fence : work[f].at \in {"read", "gate"} => f <= job.fence
  BY DEF IInv, FencesUsed
<1>. QED
  BY <1>1, <1>2, <1>3 DEF IInv, HolderIsFresh

\* Cancelling touches neither stage nor reading of a worker.
LEMMA CancelKeeps ==
    ASSUME IInv, NEW cut, work' = Cancelled(cut)
    PROVE  /\ work' \in [Fence -> Work]
           /\ UNCHANGED <<job, loop>> => FencesUsed'
           /\ UNCHANGED <<job, data, world>> => HolderIsFresh'
           /\ UNCHANGED <<writer, auth>> => GateIsGuarded'
<1>. USE CancelledWork
<1>1. work' \in [Fence -> Work]
  BY DEF IInv, TypeOK
<1>2. UNCHANGED <<job, loop>> => FencesUsed'
  BY DEF IInv, TypeOK, FencesUsed, LoopAt
<1>3. UNCHANGED <<job, data, world>> => HolderIsFresh'
  BY DEF IInv, TypeOK, HolderIsFresh
<1>4. UNCHANGED <<writer, auth>> => GateIsGuarded'
  BY DEF IInv, TypeOK, GateIsGuarded, WorkAt
<1>. QED
  BY <1>1, <1>2, <1>3, <1>4

(***************************************************************************)
(* The scheduler loop: a loop that moves keeps a token of the job, or none.*)
(***************************************************************************)
LEMMA CycleInv ==
    ASSUME IInv, NEW l \in Generation, Cycle(l)
    PROVE  IInv'
<1>1. PICK new \in Loop :
         /\ Becomes(l, new)
         /\ new.fence <= job.fence
         /\ new.at = "cycle" => new.fence > 0
  <2>1. job.fence \in 0 .. MaxFence /\ 0 <= job.fence
    BY BoundsAssumption DEF IInv, TypeOK, Job
  <2>2. loop[l] \in Loop /\ SeenNow \in Seen /\ loop[l].fence <= job.fence
    BY JobRecords DEF IInv, TypeOK, SeenNow, Seen, Job, FencesUsed
  <2>. DEFINE e == Gone
             u == [Top EXCEPT !.at = "look"]
  <2>3. e \in Loop /\ e.fence = 0 /\ e.at = "gone"
    BY <2>2, LoopRecords DEF Loop
  <2>4. u \in Loop /\ u.fence = 0 /\ u.at = "look"
    BY <2>2, LoopRecords DEF Loop
  <2>5. Becomes(l, e) \/ Becomes(l, u)
    BY DEF Cycle
  <2>. HIDE DEF e, u
  <2>. QED
    BY <2>1, <2>2, <2>3, <2>4, <2>5
<1>9. loop' \in [Generation -> Loop]
  BY <1>1, LoopUpdate DEF IInv, TypeOK
<1>2. TypeOK'
  BY <1>9 DEF IInv, Cycle, TypeOK
<1>3. Counted'
  BY DEF IInv, Cycle, Counted
<1>4. FencesUsed'
  <2>1. UNCHANGED work /\ job' \in Job /\ job'.fence = job.fence
    BY DEF IInv, TypeOK, Cycle
  <2>. QED
    BY <1>1, <2>1, LoopKeepsFences
<1>5. HolderIsFresh'
  BY DEF IInv, Cycle, HolderIsFresh
<1>6. GateIsGuarded'
  BY DEF IInv, Cycle, GateIsGuarded, WorkAt
<1>. QED
  BY <1>2, <1>3, <1>4, <1>5, <1>6 DEF IInv

LEMMA TakePendingInv ==
    ASSUME IInv, NEW l \in Generation, TakePending(l)
    PROVE  IInv'
<1>1. PICK new \in Loop :
         /\ Becomes(l, new)
         /\ new.fence <= job.fence
         /\ new.at = "cycle" => new.fence > 0
  <2>1. job.fence \in 0 .. MaxFence /\ 0 <= job.fence
    BY BoundsAssumption DEF IInv, TypeOK, Job
  <2>2. loop[l] \in Loop /\ SeenNow \in Seen /\ loop[l].fence <= job.fence
    BY JobRecords DEF IInv, TypeOK, SeenNow, Seen, Job, FencesUsed
  <2>. DEFINE p == [loop[l] EXCEPT !.at = "put", !.seen = SeenNow, !.high = TRUE]
  <2>3. p \in Loop /\ p.fence = loop[l].fence /\ p.at = "put"
    BY <2>2, LoopRecords DEF Loop
  <2>4. Becomes(l, p)
    BY DEF TakePending
  <2>. HIDE DEF p
  <2>. QED
    BY <2>1, <2>2, <2>3, <2>4
<1>9. loop' \in [Generation -> Loop]
  BY <1>1, LoopUpdate DEF IInv, TypeOK
<1>2. TypeOK'
  BY <1>9 DEF IInv, TakePending, TypeOK
<1>3. Counted'
  BY DEF IInv, TakePending, Counted
<1>4. FencesUsed'
  <2>1. UNCHANGED work /\ job' \in Job /\ job'.fence = job.fence
    BY DEF IInv, TypeOK, TakePending
  <2>. QED
    BY <1>1, <2>1, LoopKeepsFences
<1>5. HolderIsFresh'
  BY DEF IInv, TakePending, HolderIsFresh
<1>6. GateIsGuarded'
  BY DEF IInv, TakePending, GateIsGuarded, WorkAt
<1>. QED
  BY <1>2, <1>3, <1>4, <1>5, <1>6 DEF IInv

LEMMA LookDueInv ==
    ASSUME IInv, NEW l \in Generation, LookDue(l)
    PROVE  IInv'
<1>1. PICK new \in Loop :
         /\ Becomes(l, new)
         /\ new.fence <= job.fence
         /\ new.at = "cycle" => new.fence > 0
  <2>1. job.fence \in 0 .. MaxFence /\ 0 <= job.fence
    BY BoundsAssumption DEF IInv, TypeOK, Job
  <2>2. loop[l] \in Loop /\ SeenNow \in Seen /\ loop[l].fence <= job.fence
    BY JobRecords DEF IInv, TypeOK, SeenNow, Seen, Job, FencesUsed
  <2>. DEFINE c == [loop[l] EXCEPT !.at = "claim"]
             q == [loop[l] EXCEPT !.at = "put", !.seen = SeenNow]
  <2>3. c \in Loop /\ c.fence = loop[l].fence /\ c.at = "claim"
    BY <2>2, LoopRecords DEF Loop
  <2>4. q \in Loop /\ q.fence = loop[l].fence /\ q.at = "put"
    BY <2>2, LoopRecords DEF Loop
  <2>5. Becomes(l, c) \/ Becomes(l, q)
    BY DEF LookDue
  <2>. HIDE DEF c, q
  <2>. QED
    BY <2>1, <2>2, <2>3, <2>4, <2>5
<1>9. loop' \in [Generation -> Loop]
  BY <1>1, LoopUpdate DEF IInv, TypeOK
<1>2. TypeOK'
  BY <1>9 DEF IInv, LookDue, TypeOK
<1>3. Counted'
  BY DEF IInv, LookDue, Counted
<1>4. FencesUsed'
  <2>1. UNCHANGED work /\ job' \in Job /\ job'.fence = job.fence
    BY DEF IInv, TypeOK, LookDue
  <2>. QED
    BY <1>1, <2>1, LoopKeepsFences
<1>5. HolderIsFresh'
  BY DEF IInv, LookDue, HolderIsFresh
<1>6. GateIsGuarded'
  BY DEF IInv, LookDue, GateIsGuarded, WorkAt
<1>. QED
  BY <1>2, <1>3, <1>4, <1>5, <1>6 DEF IInv

LEMMA PutDueInv ==
    ASSUME IInv, NEW l \in Generation, PutDue(l)
    PROVE  IInv'
<1>8. loop[l].seen \in Seen /\ loop[l].high \in BOOLEAN
  BY DEF IInv, TypeOK, Loop
<1>1. PICK new \in Loop :
         /\ Becomes(l, new)
         /\ new.fence <= job.fence
         /\ new.at = "cycle" => new.fence > 0
  <2>1. job.fence \in 0 .. MaxFence /\ 0 <= job.fence
    BY BoundsAssumption DEF IInv, TypeOK, Job
  <2>2. loop[l] \in Loop /\ SeenNow \in Seen /\ loop[l].fence <= job.fence
    BY JobRecords DEF IInv, TypeOK, SeenNow, Seen, Job, FencesUsed
  <2>. DEFINE d == [Top EXCEPT !.at = "claim"]
  <2>3. d \in Loop /\ d.fence = 0 /\ d.at = "claim"
    BY <2>2, LoopRecords DEF Loop
  <2>4. Becomes(l, d)
    BY DEF PutDue
  <2>. HIDE DEF d
  <2>. QED
    BY <2>1, <2>2, <2>3, <2>4
<1>9. loop' \in [Generation -> Loop]
  BY <1>1, LoopUpdate DEF IInv, TypeOK
<1>7. job' \in Job /\ job'.fence = job.fence
  BY JobRecords, <1>8 DEF IInv, TypeOK, PutDue
<1>2. TypeOK'
  BY <1>9, <1>7 DEF IInv, PutDue, TypeOK
<1>3. Counted'
  BY DEF IInv, PutDue, Counted
<1>4. FencesUsed'
  <2>1. UNCHANGED work /\ job' \in Job /\ job'.fence = job.fence
    BY <1>7 DEF IInv, TypeOK, PutDue
  <2>. QED
    BY <1>1, <2>1, LoopKeepsFences
<1>5. HolderIsFresh'
  BY <1>7 DEF IInv, PutDue, HolderIsFresh
<1>6. GateIsGuarded'
  BY DEF IInv, PutDue, GateIsGuarded, WorkAt
<1>. QED
  BY <1>2, <1>3, <1>4, <1>5, <1>6 DEF IInv

LEMMA ClaimInv ==
    ASSUME IInv, NEW l \in Generation, Claim(l)
    PROVE  IInv'
<1>1. Swept \in Job /\ Swept.fence = job.fence /\ job.fence \in 0 .. MaxFence
  BY JobRecords DEF IInv, TypeOK, Job
<1>2. CASE Claimable(Swept)
  <2>1. /\ job' = Leased(Swept) /\ job' \in Job /\ job'.fence = job.fence + 1
    BY <1>2, JobRecords DEF IInv, TypeOK, Claim
  <2>2. PICK new \in Loop : Becomes(l, new) /\ new.fence = job.fence + 1
    <3>1. loop[l] \in Loop /\ Swept.high \in BOOLEAN /\ Swept.fence + 1 \in 0 .. MaxFence
      BY <1>1, <1>2, BoundsAssumption DEF IInv, TypeOK, Claim, Job
    <3>2. loop[l].seen \in Seen
      BY <3>1 DEF Loop
    <3>. DEFINE n == [Top EXCEPT !.at = "cycle", !.high = Swept.high, !.fence = Swept.fence + 1]
    <3>3. n \in Loop /\ n.fence = job.fence + 1
      BY <1>1, <3>1, LoopRecords DEF Loop
    <3>4. Becomes(l, n)
      BY <1>2 DEF Claim
    <3>. QED
      BY <3>3, <3>4
  <2>9. loop' \in [Generation -> Loop]
    BY <2>2, LoopUpdate DEF IInv, TypeOK
  <2>3. TypeOK'
    BY <2>1, <2>9 DEF IInv, Claim, TypeOK
  <2>4. Counted' /\ GateIsGuarded'
    BY DEF IInv, Claim, Counted, GateIsGuarded, WorkAt
  <2>5. FencesUsed'
    <3>1. \A k \in Generation : loop[k].fence \in Nat
      BY DEF IInv, TypeOK, Loop
    <3>2. job.fence \in Nat /\ \A f \in Fence : f \in Nat
      BY <1>1 DEF Fence
    <3>3. /\ \A f \in Fence : work'[f].at # "none" => f <= job'.fence
          /\ \A k \in Generation : loop'[k].fence <= job'.fence
      BY <2>1, <2>2, <3>1, <3>2, LoopUpdate DEF IInv, TypeOK, FencesUsed, Claim
    <3>4. \A k \in Generation : LoopAt(k, "cycle")' => loop'[k].fence > 0
      BY <2>1, <2>2, <3>1, <3>2, LoopUpdate DEF IInv, TypeOK, FencesUsed, LoopAt
    <3>. QED
      BY <3>3, <3>4 DEF FencesUsed
  <2>6. HolderIsFresh'
    BY <2>1, JobKeepsFresh DEF Claim
  <2>. QED
    BY <2>3, <2>4, <2>5, <2>6 DEF IInv
<1>3. CASE ~Claimable(Swept)
  <2>1. job' \in Job /\ job'.fence = job.fence
    BY <1>1, <1>3 DEF Claim
  <2>2. Becomes(l, Top) /\ Top \in Loop /\ Top.fence <= job.fence /\ Top.at # "cycle"
    <3>1. loop[l] \in Loop /\ loop[l].seen \in Seen /\ 0 \in 0 .. MaxFence
      BY BoundsAssumption DEF IInv, TypeOK, Loop
    <3>2. Top \in Loop /\ Top.fence = 0 /\ Top.at = "top"
      BY <3>1, LoopRecords
    <3>3. Becomes(l, Top)
      BY <1>3 DEF Claim
    <3>. QED
      BY <1>1, <3>2, <3>3
  <2>9. loop' \in [Generation -> Loop]
    BY <2>2, LoopUpdate DEF IInv, TypeOK
  <2>3. TypeOK'
    BY <2>1, <2>9 DEF IInv, Claim, TypeOK
  <2>4. Counted' /\ GateIsGuarded'
    BY DEF IInv, Claim, Counted, GateIsGuarded, WorkAt
  <2>5. FencesUsed'
    BY <2>1, <2>2, LoopKeepsFences DEF Claim
  <2>6. HolderIsFresh'
    BY <2>1 DEF IInv, Claim, HolderIsFresh
  <2>. QED
    BY <2>3, <2>4, <2>5, <2>6 DEF IInv
<1>. QED
  BY <1>2, <1>3

LEMMA SubmitInv ==
    ASSUME IInv, NEW l \in Generation, Submit(l)
    PROVE  IInv'
<1>1. PICK new \in Loop :
         /\ Becomes(l, new)
         /\ new.fence <= job.fence
         /\ new.at = "cycle" => new.fence > 0
  <2>1. job.fence \in 0 .. MaxFence /\ 0 <= job.fence
    BY BoundsAssumption DEF IInv, TypeOK, Job
  <2>2. loop[l] \in Loop /\ SeenNow \in Seen /\ loop[l].fence <= job.fence
    BY JobRecords DEF IInv, TypeOK, SeenNow, Seen, Job, FencesUsed
  <2>. DEFINE b == [loop[l] EXCEPT !.at = "book", !.result = "bad"]
             w == [loop[l] EXCEPT !.at = "wait"]
  <2>3. b \in Loop /\ b.fence = loop[l].fence /\ b.at = "book"
    BY <2>2, LoopRecords DEF Loop
  <2>4. w \in Loop /\ w.fence = loop[l].fence /\ w.at = "wait"
    BY <2>2, LoopRecords DEF Loop
  <2>5. Becomes(l, b) \/ Becomes(l, w)
    BY DEF Submit
  <2>. HIDE DEF b, w
  <2>. QED
    BY <2>1, <2>2, <2>3, <2>4, <2>5
<1>2. loop' \in [Generation -> Loop]
  BY <1>1, LoopUpdate DEF IInv, TypeOK
<1>3. UNCHANGED <<generation, stop, thread, job, active, pending, writer, auth, world,
                  data, asker, want, keeper, owner, asks, faults>>
  BY DEF Submit
<1>4. CASE UNCHANGED work
  <2>1. TypeOK' /\ Counted' /\ HolderIsFresh' /\ GateIsGuarded'
    BY <1>2, <1>3, <1>4 DEF IInv, TypeOK, Counted, HolderIsFresh, GateIsGuarded, WorkAt
  <2>2. FencesUsed'
    BY <1>1, <1>3, <1>4, LoopKeepsFences DEF IInv, TypeOK
  <2>. QED
    BY <2>1, <2>2 DEF IInv
<1>5. CASE ~UNCHANGED work
  <2>. DEFINE f == loop[l].fence
              w == [NoWork EXCEPT !.at = "begin", !.gen = l, !.auth = auth]
  <2>1. w \in Work /\ w.at = "begin" /\ w.saw = 0
    BY WorkRecords DEF IInv, TypeOK, Work
  <2>2. work' = [work EXCEPT ![f] = w]
    BY <1>5 DEF Submit
  <2>3. f \in Fence /\ f <= job.fence
    <3>1. loop[l].fence \in 0 .. MaxFence /\ loop[l].fence > 0 /\ loop[l].fence <= job.fence
      BY DEF IInv, TypeOK, FencesUsed, Submit, Loop
    <3>. QED
      BY <3>1, BoundsAssumption DEF Fence
  <2>. HIDE DEF f, w
  <2>4. /\ work' \in [Fence -> Work] /\ work'[f] = w
        /\ \A k \in Fence : k # f => work'[k] = work[k]
    BY <2>1, <2>2, <2>3, WorkUpdate DEF IInv, TypeOK
  <2>5. TypeOK' /\ Counted'
    BY <1>2, <1>3, <2>4 DEF IInv, TypeOK, Counted
  <2>6. FencesUsed'
    <3>1. \A k \in Fence : work'[k].at # "none" => k <= job'.fence
      BY <1>3, <2>3, <2>4 DEF IInv, FencesUsed
    <3>2. \A k \in Generation : loop'[k].fence <= job'.fence
      BY <1>1, <1>3, LoopUpdate DEF IInv, TypeOK, FencesUsed
    <3>3. \A k \in Generation : LoopAt(k, "cycle")' => loop'[k].fence > 0
      BY <1>1, <1>3, LoopUpdate DEF IInv, TypeOK, FencesUsed, LoopAt
    <3>. QED
      BY <3>1, <3>2, <3>3 DEF FencesUsed
  <2>7. HolderIsFresh'
    <3>1. 0 <= world
      BY BoundsAssumption DEF IInv, TypeOK
    <3>. QED
      BY <1>3, <2>1, <2>4, <3>1 DEF IInv, HolderIsFresh
  <2>8. GateIsGuarded'
    BY <1>3, <2>1, <2>4 DEF IInv, GateIsGuarded, WorkAt
  <2>. QED
    BY <2>5, <2>6, <2>7, <2>8 DEF IInv
<1>. QED
  BY <1>4, <1>5

LEMMA CollectedInv ==
    ASSUME IInv, NEW l \in Generation, Collected(l)
    PROVE  IInv'
<1>1. PICK new \in Loop :
         /\ Becomes(l, new)
         /\ new.fence <= job.fence
         /\ new.at = "cycle" => new.fence > 0
  <2>1. job.fence \in 0 .. MaxFence /\ 0 <= job.fence
    BY BoundsAssumption DEF IInv, TypeOK, Job
  <2>2. loop[l] \in Loop /\ SeenNow \in Seen /\ loop[l].fence <= job.fence
    BY JobRecords DEF IInv, TypeOK, SeenNow, Seen, Job, FencesUsed
  <2>. DEFINE g == [loop[l] EXCEPT !.at = "book", !.result = "good"]
             b == [loop[l] EXCEPT !.at = "book", !.result = "bad"]
  <2>3. g \in Loop /\ g.fence = loop[l].fence /\ g.at = "book"
    BY <2>2, LoopRecords DEF Loop
  <2>4. b \in Loop /\ b.fence = loop[l].fence /\ b.at = "book"
    BY <2>2, LoopRecords DEF Loop
  <2>5. Becomes(l, g) \/ Becomes(l, b)
    BY DEF Collected
  <2>. HIDE DEF g, b
  <2>. QED
    BY <2>1, <2>2, <2>3, <2>4, <2>5
<1>2. loop' \in [Generation -> Loop]
  BY <1>1, LoopUpdate DEF IInv, TypeOK
<1>3. UNCHANGED <<generation, stop, thread, job, active, pending, writer, auth, world,
                  data, asker, want, keeper, owner, asks>>
  BY DEF Collected
<1>4. /\ work' \in [Fence -> Work]
      /\ \A f \in Fence : /\ work'[f].at = work[f].at
                          /\ work'[f].saw <= world
                          /\ work[f].at # "over" => /\ work'[f].saw = work[f].saw
                                                    /\ work'[f].auth = work[f].auth
  <2>. DEFINE f == loop[l].fence
  <2>1. CASE work' = [work EXCEPT ![f] = Done] /\ work[f].at = "over"
    <3>1. 0 <= world
      BY BoundsAssumption DEF IInv, TypeOK
    <3>. QED
      BY <2>1, <3>1, WorkRecords DEF IInv, TypeOK, HolderIsFresh
  <2>2. CASE work' = Cancelled({f})
    BY <2>2, CancelledWork DEF IInv, TypeOK, HolderIsFresh
  <2>. QED
    BY <2>1, <2>2 DEF Collected
<1>5. faults' \in 0 .. MaxFault /\ faults <= faults'
  BY BoundsAssumption DEF IInv, TypeOK, Collected, Fault
<1>6. TypeOK'
  BY <1>2, <1>3, <1>4, <1>5 DEF IInv, TypeOK
<1>7. Counted'
  BY <1>3, <1>5 DEF IInv, TypeOK, Counted, Generation
<1>8. FencesUsed'
  <2>1. \A f \in Fence : work'[f].at # "none" => f <= job'.fence
    BY <1>3, <1>4 DEF IInv, FencesUsed
  <2>2. \A k \in Generation : loop'[k].fence <= job'.fence
    BY <1>1, <1>3, LoopUpdate DEF IInv, TypeOK, FencesUsed
  <2>3. \A k \in Generation : LoopAt(k, "cycle")' => loop'[k].fence > 0
    BY <1>1, <1>3, LoopUpdate DEF IInv, TypeOK, FencesUsed, LoopAt
  <2>. QED
    BY <2>1, <2>2, <2>3 DEF FencesUsed
<1>9. HolderIsFresh' /\ GateIsGuarded'
  BY <1>3, <1>4 DEF IInv, HolderIsFresh, GateIsGuarded, WorkAt
<1>. QED
  BY <1>6, <1>7, <1>8, <1>9 DEF IInv

LEMMA BookInv ==
    ASSUME IInv, NEW l \in Generation, Book(l)
    PROVE  IInv'
<1>8. loop[l].seen \in Seen /\ loop[l].high \in BOOLEAN
  BY DEF IInv, TypeOK, Loop
<1>1. PICK new \in Loop :
         /\ Becomes(l, new)
         /\ new.fence <= job.fence
         /\ new.at = "cycle" => new.fence > 0
  <2>1. job.fence \in 0 .. MaxFence /\ 0 <= job.fence
    BY BoundsAssumption DEF IInv, TypeOK, Job
  <2>2. loop[l] \in Loop /\ SeenNow \in Seen /\ loop[l].fence <= job.fence
    BY JobRecords DEF IInv, TypeOK, SeenNow, Seen, Job, FencesUsed
  <2>. DEFINE t == Top
  <2>3. t \in Loop /\ t.fence = 0 /\ t.at = "top"
    BY <2>2, LoopRecords DEF Loop
  <2>4. Becomes(l, t)
    BY DEF Book
  <2>. HIDE DEF t
  <2>. QED
    BY <2>1, <2>2, <2>3, <2>4
<1>9. loop' \in [Generation -> Loop]
  BY <1>1, LoopUpdate DEF IInv, TypeOK
<1>7. job' \in Job /\ job'.fence = job.fence
  BY JobRecords, <1>8 DEF IInv, TypeOK, Book
<1>2. TypeOK'
  BY <1>9, <1>7 DEF IInv, Book, TypeOK
<1>3. Counted'
  BY DEF IInv, Book, Counted
<1>4. FencesUsed'
  <2>1. UNCHANGED work /\ job' \in Job /\ job'.fence = job.fence
    BY <1>7 DEF IInv, TypeOK, Book
  <2>. QED
    BY <1>1, <2>1, LoopKeepsFences
<1>5. HolderIsFresh'
  BY <1>7 DEF IInv, Book, HolderIsFresh
<1>6. GateIsGuarded'
  BY DEF IInv, Book, GateIsGuarded, WorkAt
<1>. QED
  BY <1>2, <1>3, <1>4, <1>5, <1>6 DEF IInv

LEMMA RoundFailsInv ==
    ASSUME IInv, NEW l \in Generation, RoundFails(l)
    PROVE  IInv'
<1>1. PICK new \in Loop :
         /\ Becomes(l, new)
         /\ new.fence <= job.fence
         /\ new.at = "cycle" => new.fence > 0
  <2>1. job.fence \in 0 .. MaxFence /\ 0 <= job.fence
    BY BoundsAssumption DEF IInv, TypeOK, Job
  <2>2. loop[l] \in Loop /\ SeenNow \in Seen /\ loop[l].fence <= job.fence
    BY JobRecords DEF IInv, TypeOK, SeenNow, Seen, Job, FencesUsed
  <2>. DEFINE t == Top
  <2>3. t \in Loop /\ t.fence = 0 /\ t.at = "top"
    BY <2>2, LoopRecords DEF Loop
  <2>4. Becomes(l, t)
    BY DEF RoundFails
  <2>. HIDE DEF t
  <2>. QED
    BY <2>1, <2>2, <2>3, <2>4
<1>2. loop' \in [Generation -> Loop]
  BY <1>1, LoopUpdate DEF IInv, TypeOK
<1>3. UNCHANGED <<generation, stop, thread, job, active, pending, writer, auth, world,
                  data, asker, want, keeper, owner, asks>>
  BY DEF RoundFails
<1>4. /\ work' \in [Fence -> Work]
      /\ \A f \in Fence : /\ work'[f].at = work[f].at
                          /\ work'[f].saw <= world
                          /\ work[f].at # "over" => /\ work'[f].saw = work[f].saw
                                                    /\ work'[f].auth = work[f].auth
  <2>1. PICK cut : work' = Cancelled(cut)
    BY DEF RoundFails
  <2>. QED
    BY <2>1, CancelledWork DEF IInv, TypeOK, HolderIsFresh
<1>5. faults' \in 0 .. MaxFault /\ faults <= faults'
  BY BoundsAssumption DEF IInv, TypeOK, RoundFails, Fault
<1>6. TypeOK'
  BY <1>2, <1>3, <1>4, <1>5 DEF IInv, TypeOK
<1>7. Counted'
  BY <1>3, <1>5 DEF IInv, TypeOK, Counted, Generation
<1>8. FencesUsed'
  <2>1. \A f \in Fence : work'[f].at # "none" => f <= job'.fence
    BY <1>3, <1>4 DEF IInv, FencesUsed
  <2>2. \A k \in Generation : loop'[k].fence <= job'.fence
    BY <1>1, <1>3, LoopUpdate DEF IInv, TypeOK, FencesUsed
  <2>3. \A k \in Generation : LoopAt(k, "cycle")' => loop'[k].fence > 0
    BY <1>1, <1>3, LoopUpdate DEF IInv, TypeOK, FencesUsed, LoopAt
  <2>. QED
    BY <2>1, <2>2, <2>3 DEF FencesUsed
<1>9. HolderIsFresh' /\ GateIsGuarded'
  BY <1>3, <1>4 DEF IInv, HolderIsFresh, GateIsGuarded, WorkAt
<1>. QED
  BY <1>6, <1>7, <1>8, <1>9 DEF IInv

(***************************************************************************)
(* The worker.  Its commit is the one step that writes data: the token it  *)
(* bears is the one the job has, so that its reading is not older.       *)
(***************************************************************************)
LEMMA EnterInv ==
    ASSUME IInv, NEW f \in Fence, Enter(f)
    PROVE  IInv'
<1>1. PICK w \in Work :
         /\ work' = [work EXCEPT ![f] = w]
         /\ w.saw <= world
         /\ w.at \in {"read", "gate"} =>
              data <= w.saw \/ (WorkAt(f, "read") /\ w.saw = work[f].saw)
         /\ w.at = "gate" => writer' = f /\ w.auth = auth'
  <2>1. work[f] \in Work /\ work[f].gen \in Generation /\ work[f].saw <= world
    BY DEF IInv, TypeOK, Work, HolderIsFresh
  <2>2. world \in 0 .. MaxWorld /\ 0 <= world /\ data <= world /\ world <= world
    BY BoundsAssumption DEF IInv, TypeOK, HolderIsFresh
  <2>. DEFINE o == [NoWork EXCEPT !.at = "over", !.gen = work[f].gen, !.good = FALSE]
             a == [work[f] EXCEPT !.at = "active"]
  <2>5. o \in Work /\ o.at = "over" /\ o.saw = 0
    BY <2>1, <2>2, WorkRecords DEF Work
  <2>6. a \in Work /\ a.at = "active" /\ a.saw = work[f].saw
    BY <2>1, <2>2, WorkRecords DEF Work
  <2>4. work' = [work EXCEPT ![f] = o] \/ work' = [work EXCEPT ![f] = a]
    BY DEF Enter, Ends, WorkAt, IInv, TypeOK
  <2>. HIDE DEF o, a
  <2>. QED
    BY <2>1, <2>2, <2>4, <2>5, <2>6
<1>7. work' \in [Fence -> Work] /\ f \in 0 .. MaxFence
  BY <1>1, WorkUpdate, BoundsAssumption DEF IInv, TypeOK, Fence
<1>2. TypeOK'
  BY <1>7, BoundsAssumption DEF IInv, Enter, TypeOK, LeavesActive, Fault
<1>3. Counted'
  BY DEF IInv, Enter, TypeOK, Counted, Fault, Generation
<1>4. FencesUsed'
  <2>1. f <= job.fence
    BY DEF IInv, FencesUsed, Enter, WorkAt
  <2>. QED
    BY <1>1, <2>1, WorkKeepsFences DEF Enter
<1>5. HolderIsFresh'
  BY <1>1, WorkKeepsFresh DEF Enter
<1>6. GateIsGuarded'
  <2>1. 0 \notin Fence
    BY DEF Fence
  <2>. QED
    BY <1>1, <2>1, WorkUpdate DEF IInv, Enter, TypeOK, GateIsGuarded, WorkAt
<1>. QED
  BY <1>2, <1>3, <1>4, <1>5, <1>6 DEF IInv

LEMMA ReadInv ==
    ASSUME IInv, NEW f \in Fence, Read(f)
    PROVE  IInv'
<1>1. PICK w \in Work :
         /\ work' = [work EXCEPT ![f] = w]
         /\ w.saw <= world
         /\ w.at \in {"read", "gate"} =>
              data <= w.saw \/ (WorkAt(f, "read") /\ w.saw = work[f].saw)
         /\ w.at = "gate" => writer' = f /\ w.auth = auth'
  <2>1. work[f] \in Work /\ work[f].gen \in Generation /\ work[f].saw <= world
    BY DEF IInv, TypeOK, Work, HolderIsFresh
  <2>2. world \in 0 .. MaxWorld /\ 0 <= world /\ data <= world /\ world <= world
    BY BoundsAssumption DEF IInv, TypeOK, HolderIsFresh
  <2>. DEFINE r == [work[f] EXCEPT !.at = "read", !.saw = world]
  <2>5. r \in Work /\ r.at = "read" /\ r.saw = world
    BY <2>1, <2>2, WorkRecords DEF Work
  <2>4. work' = [work EXCEPT ![f] = r]
    BY DEF Read, Ends, WorkAt, IInv, TypeOK
  <2>. HIDE DEF r
  <2>. QED
    BY <2>1, <2>2, <2>4, <2>5
<1>7. work' \in [Fence -> Work] /\ f \in 0 .. MaxFence
  BY <1>1, WorkUpdate, BoundsAssumption DEF IInv, TypeOK, Fence
<1>2. TypeOK'
  BY <1>7, BoundsAssumption DEF IInv, Read, TypeOK, LeavesActive, Fault
<1>3. Counted'
  BY DEF IInv, Read, TypeOK, Counted, Fault, Generation
<1>4. FencesUsed'
  <2>1. f <= job.fence
    BY DEF IInv, FencesUsed, Read, WorkAt
  <2>. QED
    BY <1>1, <2>1, WorkKeepsFences DEF Read
<1>5. HolderIsFresh'
  BY <1>1, WorkKeepsFresh DEF Read
<1>6. GateIsGuarded'
  <2>1. 0 \notin Fence
    BY DEF Fence
  <2>. QED
    BY <1>1, <2>1, WorkUpdate DEF IInv, Read, TypeOK, GateIsGuarded, WorkAt
<1>. QED
  BY <1>2, <1>3, <1>4, <1>5, <1>6 DEF IInv

LEMMA ReadFailsInv ==
    ASSUME IInv, NEW f \in Fence, ReadFails(f)
    PROVE  IInv'
<1>1. PICK w \in Work :
         /\ work' = [work EXCEPT ![f] = w]
         /\ w.saw <= world
         /\ w.at \in {"read", "gate"} =>
              data <= w.saw \/ (WorkAt(f, "read") /\ w.saw = work[f].saw)
         /\ w.at = "gate" => writer' = f /\ w.auth = auth'
  <2>1. work[f] \in Work /\ work[f].gen \in Generation /\ work[f].saw <= world
    BY DEF IInv, TypeOK, Work, HolderIsFresh
  <2>2. world \in 0 .. MaxWorld /\ 0 <= world /\ data <= world /\ world <= world
    BY BoundsAssumption DEF IInv, TypeOK, HolderIsFresh
  <2>. DEFINE o == [NoWork EXCEPT !.at = "over", !.gen = work[f].gen, !.good = FALSE]
  <2>5. o \in Work /\ o.at = "over" /\ o.saw = 0
    BY <2>1, <2>2, WorkRecords DEF Work
  <2>4. work' = [work EXCEPT ![f] = o]
    BY DEF ReadFails, Ends, WorkAt, IInv, TypeOK
  <2>. HIDE DEF o
  <2>. QED
    BY <2>1, <2>2, <2>4, <2>5
<1>7. work' \in [Fence -> Work] /\ f \in 0 .. MaxFence
  BY <1>1, WorkUpdate, BoundsAssumption DEF IInv, TypeOK, Fence
<1>2. TypeOK'
  BY <1>7, BoundsAssumption DEF IInv, ReadFails, TypeOK, LeavesActive, Fault
<1>3. Counted'
  BY DEF IInv, ReadFails, TypeOK, Counted, Fault, Generation
<1>4. FencesUsed'
  <2>1. f <= job.fence
    BY DEF IInv, FencesUsed, ReadFails, WorkAt
  <2>. QED
    BY <1>1, <2>1, WorkKeepsFences DEF ReadFails
<1>5. HolderIsFresh'
  BY <1>1, WorkKeepsFresh DEF ReadFails
<1>6. GateIsGuarded'
  <2>1. 0 \notin Fence
    BY DEF Fence
  <2>. QED
    BY <1>1, <2>1, WorkUpdate DEF IInv, ReadFails, TypeOK, GateIsGuarded, WorkAt
<1>. QED
  BY <1>2, <1>3, <1>4, <1>5, <1>6 DEF IInv

LEMMA GateInv ==
    ASSUME IInv, NEW f \in Fence, Gate(f)
    PROVE  IInv'
<1>1. PICK w \in Work :
         /\ work' = [work EXCEPT ![f] = w]
         /\ w.saw <= world
         /\ w.at \in {"read", "gate"} =>
              data <= w.saw \/ (WorkAt(f, "read") /\ w.saw = work[f].saw)
         /\ w.at = "gate" => writer' = f /\ w.auth = auth'
  <2>1. work[f] \in Work /\ work[f].gen \in Generation /\ work[f].saw <= world
    BY DEF IInv, TypeOK, Work, HolderIsFresh
  <2>2. world \in 0 .. MaxWorld /\ 0 <= world /\ data <= world /\ world <= world
    BY BoundsAssumption DEF IInv, TypeOK, HolderIsFresh
  <2>. DEFINE o == [NoWork EXCEPT !.at = "over", !.gen = work[f].gen, !.good = FALSE]
             g == [work[f] EXCEPT !.at = "gate"]
  <2>5. o \in Work /\ o.at = "over" /\ o.saw = 0
    BY <2>1, <2>2, WorkRecords DEF Work
  <2>6. g \in Work /\ g.at = "gate" /\ g.saw = work[f].saw /\ g.auth = work[f].auth
    BY <2>1, <2>2, WorkRecords DEF Work
  <2>4. \/ work' = [work EXCEPT ![f] = o]
        \/ work' = [work EXCEPT ![f] = g] /\ writer' = f /\ work[f].auth = auth'
             /\ WorkAt(f, "read")
    BY DEF Gate, Ends, WorkAt, IInv, TypeOK
  <2>. HIDE DEF o, g
  <2>. QED
    BY <2>1, <2>2, <2>4, <2>5, <2>6
<1>7. work' \in [Fence -> Work] /\ f \in 0 .. MaxFence
  BY <1>1, WorkUpdate, BoundsAssumption DEF IInv, TypeOK, Fence
<1>2. TypeOK'
  BY <1>7, BoundsAssumption DEF IInv, Gate, TypeOK, LeavesActive, Fault
<1>3. Counted'
  BY DEF IInv, Gate, TypeOK, Counted, Fault, Generation
<1>4. FencesUsed'
  <2>1. f <= job.fence
    BY DEF IInv, FencesUsed, Gate, WorkAt
  <2>. QED
    BY <1>1, <2>1, WorkKeepsFences DEF Gate
<1>5. HolderIsFresh'
  BY <1>1, WorkKeepsFresh DEF Gate
<1>6. GateIsGuarded'
  <2>1. 0 \notin Fence
    BY DEF Fence
  <2>. QED
    BY <1>1, <2>1, WorkUpdate DEF IInv, Gate, TypeOK, GateIsGuarded, WorkAt
<1>. QED
  BY <1>2, <1>3, <1>4, <1>5, <1>6 DEF IInv

LEMMA CommitInv ==
    ASSUME IInv, NEW f \in Fence, Commit(f)
    PROVE  IInv'
<1>1. PICK w \in Work :
         /\ work' = [work EXCEPT ![f] = w]
         /\ w.saw <= world
         /\ w.at \in {"read", "gate"} =>
              data <= w.saw \/ (WorkAt(f, "read") /\ w.saw = work[f].saw)
         /\ w.at = "gate" => writer' = f /\ w.auth = auth'
  <2>1. work[f] \in Work /\ work[f].gen \in Generation /\ work[f].saw <= world
    BY DEF IInv, TypeOK, Work, HolderIsFresh
  <2>2. world \in 0 .. MaxWorld /\ 0 <= world /\ data <= world /\ world <= world
    BY BoundsAssumption DEF IInv, TypeOK, HolderIsFresh
  <2>. DEFINE o == [NoWork EXCEPT !.at = "over", !.gen = work[f].gen, !.good = FALSE]
             c == [work[f] EXCEPT !.at = "kept"]
  <2>5. o \in Work /\ o.at = "over" /\ o.saw = 0
    BY <2>1, <2>2, WorkRecords DEF Work
  <2>6. c \in Work /\ c.at = "kept" /\ c.saw = work[f].saw
    BY <2>1, <2>2, WorkRecords DEF Work
  <2>4. work' = [work EXCEPT ![f] = o] \/ work' = [work EXCEPT ![f] = c]
    BY DEF Commit, Ends, WorkAt, IInv, TypeOK
  <2>. HIDE DEF o, c
  <2>. QED
    BY <2>1, <2>2, <2>4, <2>5, <2>6
<1>7. work' \in [Fence -> Work] /\ f \in 0 .. MaxFence
  BY <1>1, WorkUpdate, BoundsAssumption DEF IInv, TypeOK, Fence
<1>2. TypeOK'
  <2>1. work[f].saw \in 0 .. MaxWorld
    BY DEF IInv, TypeOK, Work
  <2>0. 0 \in 0 .. MaxFence
    BY BoundsAssumption
  <2>2. data' \in {work[f].saw, data} /\ writer' = 0
    BY DEF Commit
  <2>3. active' \in {0, active}
    BY DEF Commit, LeavesActive
  <2>. QED
    BY <1>7, <2>0, <2>1, <2>2, <2>3 DEF IInv, Commit, TypeOK
<1>3. Counted'
  BY DEF IInv, Commit, TypeOK, Counted, Fault, Generation
<1>4. FencesUsed'
  <2>1. f <= job.fence
    BY DEF IInv, FencesUsed, Commit, WorkAt
  <2>. QED
    BY <1>1, <2>1, WorkKeepsFences DEF Commit
<1>5. HolderIsFresh'
  <2>1. CASE MayCommit(f)
    <3>1. /\ data' = work[f].saw /\ UNCHANGED <<world, job>>
          /\ work' = [work EXCEPT ![f].at = "kept"]
      BY <2>1 DEF Commit
    <3>2. f = job.fence /\ WorkAt(f, "gate")
      BY <2>1 DEF MayCommit, HoldsLease, Commit
    <3>3. \A k \in Fence : k # f => work'[k] = work[k]
      BY <3>1 DEF IInv, TypeOK
    <3>4. work'[f].at = "kept" /\ work'[f].saw = work[f].saw
      BY <3>1 DEF IInv, TypeOK, Work
    <3>. QED
      BY <3>1, <3>2, <3>3, <3>4 DEF IInv, HolderIsFresh
  <2>2. CASE ~MayCommit(f)
    BY <1>1, <2>2, WorkKeepsFresh DEF Commit
  <2>. QED
    BY <2>1, <2>2
<1>6. GateIsGuarded'
  <2>1. 0 \notin Fence
    BY DEF Fence
  <2>. QED
    BY <1>1, <2>1, WorkUpdate DEF IInv, Commit, TypeOK, GateIsGuarded, WorkAt
<1>. QED
  BY <1>2, <1>3, <1>4, <1>5, <1>6 DEF IInv

LEMMA CompleteInv ==
    ASSUME IInv, NEW f \in Fence, Complete(f)
    PROVE  IInv'
<1>1. PICK w \in Work :
         /\ work' = [work EXCEPT ![f] = w]
         /\ w.saw <= world
         /\ w.at \in {"read", "gate"} =>
              data <= w.saw \/ (WorkAt(f, "read") /\ w.saw = work[f].saw)
         /\ w.at = "gate" => writer' = f /\ w.auth = auth'
  <2>1. work[f] \in Work /\ work[f].gen \in Generation /\ work[f].saw <= world
    BY DEF IInv, TypeOK, Work, HolderIsFresh
  <2>2. world \in 0 .. MaxWorld /\ 0 <= world /\ data <= world /\ world <= world
    BY BoundsAssumption DEF IInv, TypeOK, HolderIsFresh
  <2>. DEFINE k == [NoWork EXCEPT !.at = "over", !.gen = work[f].gen, !.good = TRUE]
  <2>5. k \in Work /\ k.at = "over" /\ k.saw = 0
    BY <2>1, <2>2, WorkRecords DEF Work
  <2>4. work' = [work EXCEPT ![f] = k]
    BY DEF Complete, Ends, WorkAt, IInv, TypeOK
  <2>. HIDE DEF k
  <2>. QED
    BY <2>1, <2>2, <2>4, <2>5
<1>7. work' \in [Fence -> Work] /\ f \in 0 .. MaxFence
  BY <1>1, WorkUpdate, BoundsAssumption DEF IInv, TypeOK, Fence
<1>2. TypeOK'
  BY <1>7, BoundsAssumption DEF IInv, Complete, TypeOK, LeavesActive, Fault
<1>3. Counted'
  BY DEF IInv, Complete, TypeOK, Counted, Fault, Generation
<1>4. FencesUsed'
  <2>1. f <= job.fence
    BY DEF IInv, FencesUsed, Complete, WorkAt
  <2>. QED
    BY <1>1, <2>1, WorkKeepsFences DEF Complete
<1>5. HolderIsFresh'
  BY <1>1, WorkKeepsFresh DEF Complete
<1>6. GateIsGuarded'
  <2>1. 0 \notin Fence
    BY DEF Fence
  <2>. QED
    BY <1>1, <2>1, WorkUpdate DEF IInv, Complete, TypeOK, GateIsGuarded, WorkAt
<1>. QED
  BY <1>2, <1>3, <1>4, <1>5, <1>6 DEF IInv

LEMMA DeadlineInv ==
    ASSUME IInv, NEW f \in Fence, Deadline(f)
    PROVE  IInv'
<1>1. work' = Cancelled({f})
  BY DEF Deadline
<1>2. /\ work' \in [Fence -> Work]
      /\ FencesUsed' /\ HolderIsFresh' /\ GateIsGuarded'
  <2>1. UNCHANGED <<job, loop, data, world, writer, auth>>
    BY DEF Deadline
  <2>. QED
    BY <1>1, <2>1, CancelKeeps
<1>3. faults' \in 0 .. MaxFault /\ faults <= faults'
  BY BoundsAssumption DEF IInv, TypeOK, Deadline, Fault
<1>4. Counted'
  BY <1>3, BoundsAssumption DEF IInv, TypeOK, Deadline, Counted, Generation, Fault
<1>5. TypeOK'
  BY <1>2, <1>3 DEF IInv, TypeOK, Deadline
<1>. QED
  BY <1>2, <1>4, <1>5 DEF IInv

(***************************************************************************)
(* Time, the platform and the requester.                                   *)
(***************************************************************************)
LEMMA NewDataInv ==
    ASSUME IInv, NewData
    PROVE  IInv'
<1>1. TypeOK'
  BY BoundsAssumption DEF IInv, TypeOK, NewData, Fault
<1>2. Counted'
  BY DEF IInv, TypeOK, NewData, Counted, Fault, Generation
<1>3. FencesUsed' /\ GateIsGuarded'
  BY DEF IInv, NewData, FencesUsed, GateIsGuarded, LoopAt, WorkAt
<1>4. HolderIsFresh'
  <2>1. \A f \in Fence : work[f].saw \in 0 .. MaxWorld
    BY DEF IInv, TypeOK, Work
  <2>2. world \in 0 .. MaxWorld /\ data \in 0 .. MaxWorld
    BY DEF IInv, TypeOK
  <2>. QED
    BY <2>1, <2>2, BoundsAssumption DEF IInv, NewData, HolderIsFresh
<1>. QED
  BY <1>1, <1>2, <1>3, <1>4 DEF IInv

LEMMA RipenInv ==
    ASSUME IInv, Ripen
    PROVE  IInv'
<1>1. job' \in Job /\ job'.fence \in {job.fence, job.fence + 1}
  BY DEF IInv, TypeOK, Ripen, Job
<1>2. TypeOK'
  BY <1>1 DEF IInv, TypeOK, Ripen, Idle, Fault
<1>3. Counted'
  BY DEF IInv, TypeOK, Ripen, Counted, Fault, Idle, Generation
<1>4. FencesUsed'
  BY <1>1, JobKeepsFences DEF Ripen
<1>5. HolderIsFresh'
  BY <1>1, JobKeepsFresh DEF Ripen
<1>6. GateIsGuarded'
  BY DEF IInv, Ripen, GateIsGuarded, WorkAt
<1>. QED
  BY <1>2, <1>3, <1>4, <1>5, <1>6 DEF IInv

LEMMA LapseInv ==
    ASSUME IInv, Lapse
    PROVE  IInv'
<1>1. job' \in Job /\ job'.fence \in {job.fence, job.fence + 1}
  BY DEF IInv, TypeOK, Lapse, Job
<1>2. TypeOK'
  <2>1. faults' \in 0 .. MaxFault
    BY BoundsAssumption DEF IInv, TypeOK, Lapse, Fault
  <2>. QED
    BY <1>1, <2>1 DEF IInv, TypeOK, Lapse
<1>3. Counted'
  BY DEF IInv, TypeOK, Lapse, Counted, Fault, Idle, Generation
<1>4. FencesUsed'
  BY <1>1, JobKeepsFences DEF Lapse
<1>5. HolderIsFresh'
  BY <1>1, JobKeepsFresh DEF Lapse
<1>6. GateIsGuarded'
  BY DEF IInv, Lapse, GateIsGuarded, WorkAt
<1>. QED
  BY <1>2, <1>3, <1>4, <1>5, <1>6 DEF IInv

LEMMA AskInv ==
    ASSUME IInv, Ask
    PROVE  IInv'
<1>1. TypeOK'
  <2>1. asks' \in 0 .. MaxAsk
    BY BoundsAssumption DEF IInv, TypeOK, Ask
  <2>2. asker' \in [at : {"idle", "look", "put", "start"}, seen : Seen]
    BY DEF IInv, TypeOK, Ask
  <2>. QED
    BY <2>1, <2>2 DEF IInv, TypeOK, Ask
<1>2. Counted'
  BY DEF IInv, TypeOK, Ask, Counted, Fault, Generation
<1>3. FencesUsed' /\ HolderIsFresh' /\ GateIsGuarded'
  BY DEF IInv, TypeOK, Ask, FencesUsed, HolderIsFresh, GateIsGuarded, LoopAt, WorkAt
<1>. QED
  BY <1>1, <1>2, <1>3 DEF IInv

LEMMA AskLookInv ==
    ASSUME IInv, AskLook
    PROVE  IInv'
<1>1. TypeOK'
  BY BoundsAssumption, JobRecords DEF IInv, TypeOK, AskLook, Fault, Job
<1>2. Counted'
  BY DEF IInv, TypeOK, AskLook, Counted, Fault, Generation
<1>3. FencesUsed' /\ HolderIsFresh' /\ GateIsGuarded'
  BY DEF IInv, TypeOK, AskLook, FencesUsed, HolderIsFresh, GateIsGuarded, LoopAt, WorkAt
<1>. QED
  BY <1>1, <1>2, <1>3 DEF IInv

LEMMA AskPutInv ==
    ASSUME IInv, AskPut
    PROVE  IInv'
<1>1. job' \in Job /\ job'.fence \in {job.fence, job.fence + 1}
  <2>1. asker.seen \in Seen
    BY DEF IInv, TypeOK
  <2>. QED
    BY <2>1, JobRecords DEF IInv, TypeOK, AskPut
<1>2. TypeOK'
  BY <1>1 DEF IInv, TypeOK, AskPut, Idle, Fault, Seen, Nothing
<1>3. Counted'
  BY DEF IInv, TypeOK, AskPut, Counted, Fault, Idle, Generation
<1>4. FencesUsed'
  BY <1>1, JobKeepsFences DEF AskPut
<1>5. HolderIsFresh'
  BY <1>1, JobKeepsFresh DEF AskPut
<1>6. GateIsGuarded'
  BY DEF IInv, AskPut, GateIsGuarded, WorkAt
<1>. QED
  BY <1>2, <1>3, <1>4, <1>5, <1>6 DEF IInv

LEMMA StartKeeps ==
    ASSUME IInv, StartLoop, UNCHANGED <<generation, work, job>>
    PROVE  /\ stop' \in BOOLEAN /\ thread' \in Generation \cup {NoLoop}
           /\ loop' \in [Generation -> Loop]
           /\ FencesUsed'
<1>1. CASE UNCHANGED <<stop, thread, loop>>
  BY <1>1 DEF IInv, TypeOK, FencesUsed, LoopAt
<1>2. CASE stop' = FALSE /\ thread' = generation /\ Becomes(generation, Top)
  <2>1. generation \in Generation /\ job' \in Job /\ 0 <= job.fence
    BY DEF IInv, TypeOK, Job
  <2>2. loop' \in [Generation -> Loop]
    BY <1>2, <2>1, LoopRecords, LoopUpdate DEF IInv, TypeOK
  <2>3. FencesUsed'
    BY <1>2, <2>1, LoopRecords, LoopKeepsFences
  <2>. QED
    BY <1>2, <2>1, <2>2, <2>3
<1>. QED
  BY <1>1, <1>2 DEF StartLoop, Becomes

LEMMA AskStartInv ==
    ASSUME IInv, AskStart
    PROVE  IInv'
<1>1. StartLoop /\ UNCHANGED <<generation, work, job>>
  BY DEF AskStart
<1>2. TypeOK'
  BY <1>1, StartKeeps DEF IInv, TypeOK, AskStart, Idle
<1>3. Counted' /\ HolderIsFresh' /\ GateIsGuarded'
  BY DEF IInv, TypeOK, AskStart, Counted, HolderIsFresh, GateIsGuarded, WorkAt, Idle
<1>4. FencesUsed'
  BY <1>1, StartKeeps
<1>. QED
  BY <1>2, <1>3, <1>4 DEF IInv

(***************************************************************************)
(* Keeper, authorization and crash.                                        *)
(***************************************************************************)
LEMMA InterveneInv ==
    ASSUME IInv, NEW h \in BOOLEAN, Intervene(h)
    PROVE  IInv'
<1>1. TypeOK'
  <2>1. faults' \in 0 .. MaxFault
    BY BoundsAssumption DEF IInv, TypeOK, Intervene, Fault
  <2>2. Contexts(generation) \subseteq Fence
    BY DEF Contexts, Registered
  <2>. QED
    BY <2>1, <2>2 DEF IInv, TypeOK, Intervene
<1>2. Counted'
  BY DEF IInv, TypeOK, Intervene, Counted, Fault, Generation
<1>3. FencesUsed' /\ HolderIsFresh' /\ GateIsGuarded'
  BY DEF IInv, TypeOK, Intervene, FencesUsed, HolderIsFresh, GateIsGuarded, LoopAt, WorkAt
<1>. QED
  BY <1>1, <1>2, <1>3 DEF IInv

LEMMA RevokeInv ==
    ASSUME IInv, Revoke
    PROVE  IInv'
<1>1. PICK cut : work' = Cancelled(cut)
  BY DEF Revoke
<1>2. /\ work' \in [Fence -> Work]
      /\ FencesUsed' /\ HolderIsFresh' /\ GateIsGuarded'
  <2>1. UNCHANGED <<job, loop, data, world, writer, auth>>
    BY DEF Revoke
  <2>. QED
    BY <1>1, <2>1, CancelKeeps
<1>3. Counted'
  BY DEF IInv, TypeOK, Revoke, Counted, Generation
<1>4. TypeOK'
  <2>1. keeper' \in [at : {"idle", "revoke", "release", "start"},
                halts : BOOLEAN, cut : SUBSET Fence]
    BY DEF IInv, TypeOK, Revoke
  <2>2. generation' \in Generation
    BY BoundsAssumption DEF IInv, TypeOK, Counted, Revoke, Generation
  <2>3. thread' \in Generation \cup {NoLoop} /\ stop' \in BOOLEAN
    BY DEF IInv, TypeOK, Revoke
  <2>. QED
    BY <1>2, <2>1, <2>2, <2>3 DEF IInv, TypeOK, Revoke
<1>. QED
  BY <1>2, <1>3, <1>4 DEF IInv

LEMMA KeeperReleasesInv ==
    ASSUME IInv, KeeperReleases
    PROVE  IInv'
<1>1. job' \in Job /\ job'.fence \in {job.fence, job.fence + 1}
  BY JobRecords DEF IInv, TypeOK, KeeperReleases
<1>2. TypeOK'
  <2>1. keeper' \in [at : {"idle", "revoke", "release", "start"},
                halts : BOOLEAN, cut : SUBSET Fence]
    <3>1. Idle \in [at : {"idle", "revoke", "release", "start"},
                    halts : BOOLEAN, cut : SUBSET Fence]
      BY DEF Idle
    <3>2. [keeper EXCEPT !.at = "start"]
             \in [at : {"idle", "revoke", "release", "start"},
                  halts : BOOLEAN, cut : SUBSET Fence]
      BY DEF IInv, TypeOK
    <3>. QED
      BY <3>1, <3>2 DEF KeeperReleases
  <2>2. thread' \in Generation \cup {NoLoop}
    BY DEF IInv, TypeOK, KeeperReleases
  <2>. QED
    BY <1>1, <2>1, <2>2 DEF IInv, TypeOK, KeeperReleases
<1>3. Counted'
  BY DEF IInv, TypeOK, KeeperReleases, Counted, Fault, Idle, Generation
<1>4. FencesUsed'
  BY <1>1, JobKeepsFences DEF KeeperReleases
<1>5. HolderIsFresh'
  BY <1>1, JobKeepsFresh DEF KeeperReleases
<1>6. GateIsGuarded'
  BY DEF IInv, KeeperReleases, GateIsGuarded, WorkAt
<1>. QED
  BY <1>2, <1>3, <1>4, <1>5, <1>6 DEF IInv

LEMMA KeeperStartsInv ==
    ASSUME IInv, KeeperStarts
    PROVE  IInv'
<1>1. StartLoop /\ UNCHANGED <<generation, work, job>>
  BY DEF KeeperStarts
<1>2. TypeOK'
  BY <1>1, StartKeeps DEF IInv, TypeOK, KeeperStarts, Idle
<1>3. Counted' /\ HolderIsFresh' /\ GateIsGuarded'
  BY DEF IInv, TypeOK, KeeperStarts, Counted, HolderIsFresh, GateIsGuarded, WorkAt, Idle
<1>4. FencesUsed'
  BY <1>1, StartKeeps
<1>. QED
  BY <1>2, <1>3, <1>4 DEF IInv

LEMMA AuthorizeInv ==
    ASSUME IInv, Authorize
    PROVE  IInv'
<1>1. TypeOK'
  <2>1. faults' \in 0 .. MaxFault /\ auth' \in Generation
    BY BoundsAssumption DEF IInv, TypeOK, Counted, Authorize, Fault, Generation
  <2>. QED
    BY <2>1 DEF IInv, TypeOK, Authorize
<1>2. Counted'
  BY DEF IInv, TypeOK, Authorize, Counted, Fault, Generation
<1>3. FencesUsed' /\ HolderIsFresh'
  BY DEF IInv, Authorize, FencesUsed, HolderIsFresh, LoopAt
<1>4. GateIsGuarded'
  <2>1. 0 \notin Fence
    BY DEF Fence
  <2>. QED
    BY <2>1 DEF IInv, Authorize, GateIsGuarded, WorkAt
<1>. QED
  BY <1>1, <1>2, <1>3, <1>4 DEF IInv

LEMMA OwnerCancelsInv ==
    ASSUME IInv, OwnerCancels
    PROVE  IInv'
<1>1. PICK cut : work' = Cancelled(cut)
  BY DEF OwnerCancels
<1>2. /\ work' \in [Fence -> Work]
      /\ FencesUsed' /\ HolderIsFresh' /\ GateIsGuarded'
  <2>1. UNCHANGED <<job, loop, data, world, writer, auth>>
    BY DEF OwnerCancels
  <2>. QED
    BY <1>1, <2>1, CancelKeeps
<1>3. Counted'
  BY DEF IInv, TypeOK, OwnerCancels, Counted, Generation
<1>4. TypeOK'
  <2>1. owner' \in [at : {"idle", "cancel", "release", "requeue"}, cut : SUBSET Fence]
    BY DEF IInv, TypeOK, OwnerCancels, Contexts, Registered
  <2>. QED
    BY <1>2, <2>1 DEF IInv, TypeOK, OwnerCancels
<1>. QED
  BY <1>2, <1>3, <1>4 DEF IInv

LEMMA OwnerReleasesInv ==
    ASSUME IInv, OwnerReleases
    PROVE  IInv'
<1>1. job' \in Job /\ job'.fence \in {job.fence, job.fence + 1}
  BY JobRecords DEF IInv, TypeOK, OwnerReleases
<1>2. TypeOK'
  BY <1>1 DEF IInv, TypeOK, OwnerReleases, Idle, Fault
<1>3. Counted'
  BY DEF IInv, TypeOK, OwnerReleases, Counted, Fault, Idle, Generation
<1>4. FencesUsed'
  BY <1>1, JobKeepsFences DEF OwnerReleases
<1>5. HolderIsFresh'
  BY <1>1, JobKeepsFresh DEF OwnerReleases
<1>6. GateIsGuarded'
  BY DEF IInv, OwnerReleases, GateIsGuarded, WorkAt
<1>. QED
  BY <1>2, <1>3, <1>4, <1>5, <1>6 DEF IInv

LEMMA OwnerRequeuesInv ==
    ASSUME IInv, OwnerRequeues
    PROVE  IInv'
<1>1. job' \in Job /\ job'.fence \in {job.fence, job.fence + 1}
  <2>. DEFINE j == Released({job.fence})
  <2>1. j \in Job /\ j.fence \in {job.fence, job.fence + 1}
    BY JobRecords DEF IInv, TypeOK, OwnerRequeues
  <2>2. job' = [j EXCEPT !.due = TRUE]
    BY DEF OwnerRequeues
  <2>. HIDE DEF j
  <2>. QED
    BY <2>1, <2>2 DEF Job
<1>2. TypeOK'
  BY <1>1 DEF IInv, TypeOK, OwnerRequeues, Idle, Fault
<1>3. Counted'
  BY DEF IInv, TypeOK, OwnerRequeues, Counted, Fault, Idle, Generation
<1>4. FencesUsed'
  BY <1>1, JobKeepsFences DEF OwnerRequeues
<1>5. HolderIsFresh'
  BY <1>1, JobKeepsFresh DEF OwnerRequeues
<1>6. GateIsGuarded'
  BY DEF IInv, OwnerRequeues, GateIsGuarded, WorkAt
<1>. QED
  BY <1>2, <1>3, <1>4, <1>5, <1>6 DEF IInv

LEMMA CrashInv ==
    ASSUME IInv, Crash
    PROVE  IInv'
<1>1. faults' \in 0 .. MaxFault /\ faults' = faults + 1 /\ generation' = generation + 1
  BY BoundsAssumption DEF IInv, TypeOK, Crash, Fault
<1>2. Counted' /\ generation' \in Generation
  BY <1>1, BoundsAssumption DEF IInv, TypeOK, Crash, Counted, Generation, Idle
<1>3. loop' \in [Generation -> Loop] /\ \A l \in Generation : loop'[l] \in {Top, Gone}
  BY LoopRecords DEF Crash
<1>4. /\ work' \in [Fence -> Work]
      /\ \A f \in Fence : work'[f] = work[f] \/ (work'[f].saw = 0 /\ work'[f].at = "over")
      /\ \A f \in Fence : work'[f].at \in {"none", "over"}
      /\ \A f \in Fence : work[f].at = "none" => work'[f] = work[f]
  <2>. DEFINE o == [NoWork EXCEPT !.at = "over", !.dead = TRUE]
  <2>1. o \in Work /\ o.saw = 0 /\ o.at = "over"
    BY WorkRecords DEF Work
  <2>2. work' = [f \in Fence |-> IF work[f].at = "none" THEN work[f] ELSE o]
    BY DEF Crash
  <2>. HIDE DEF o
  <2>. QED
    BY <2>1, <2>2 DEF IInv, TypeOK
<1>5. TypeOK'
  <2>1. keeper' = Idle /\ Idle \in [at : {"idle", "revoke", "release", "start"},
                                   halts : BOOLEAN, cut : SUBSET Fence]
    BY DEF Crash, Idle
  <2>2. asker' \in [at : {"idle", "look", "put", "start"}, seen : Seen]
    BY DEF Crash, Seen, Nothing
  <2>3. owner' \in [at : {"idle", "cancel", "release", "requeue"}, cut : SUBSET Fence]
    BY DEF Crash
  <2>4. /\ active' \in 0 .. MaxFence /\ writer' \in 0 .. MaxFence
        /\ thread' \in Generation \cup {NoLoop} /\ stop' \in BOOLEAN /\ pending' \in BOOLEAN
    <3>1. 0 \in 0 .. MaxFence
      BY BoundsAssumption
    <3>2. active' = 0 /\ writer' = 0 /\ thread' = generation' /\ stop' = FALSE /\ pending' = FALSE
      BY <1>1 DEF Crash
    <3>. QED
      BY <1>2, <3>1, <3>2
  <2>. QED
    BY <1>1, <1>2, <1>3, <1>4, <2>1, <2>2, <2>3, <2>4 DEF IInv, TypeOK, Crash
<1>6. FencesUsed'
  <2>1. job' = job /\ 0 <= job.fence
    BY BoundsAssumption DEF IInv, TypeOK, Job, Crash
  <2>2. \A f \in Fence : work'[f].at # "none" => f <= job'.fence
    BY <1>4, <2>1 DEF IInv, FencesUsed
  <2>3. \A l \in Generation : loop'[l].fence <= job'.fence /\ loop'[l].at # "cycle"
    BY <1>3, <2>1, LoopRecords
  <2>. QED
    BY <2>2, <2>3 DEF FencesUsed, LoopAt
<1>7. HolderIsFresh' /\ GateIsGuarded'
  <2>1. 0 <= world /\ UNCHANGED <<world, data>>
    BY BoundsAssumption DEF IInv, TypeOK, Crash
  <2>. QED
    BY <1>4, <2>1 DEF IInv, HolderIsFresh, GateIsGuarded, WorkAt
<1>. QED
  BY <1>2, <1>5, <1>6, <1>7 DEF IInv

(***************************************************************************)
(* The invariant holds.                                                    *)
(***************************************************************************)
LEMMA InitInv == Init => IInv
<1>. SUFFICES ASSUME Init PROVE IInv
  OBVIOUS
<1>1. 0 \in Generation /\ 0 \in 0 .. MaxFence /\ 0 \in 0 .. MaxWorld /\ 0 \in 0 .. MaxAsk
      /\ 0 \in 0 .. MaxFault
  BY BoundsAssumption DEF Generation
<1>2. loop \in [Generation -> Loop] /\ \A l \in Generation : loop[l] \in {Top, Gone}
  BY LoopRecords DEF Init
<1>3. work \in [Fence -> Work] /\ \A f \in Fence : work[f] = NoWork
  BY WorkRecords DEF Init
<1>4. TypeOK
  <2>1. job \in Job
    BY <1>1 DEF Init, Job
  <2>2. asker \in [at : {"idle", "look", "put", "start"}, seen : Seen]
    BY DEF Init, Seen, Nothing
  <2>3. keeper \in [at : {"idle", "revoke", "release", "start"},
                    halts : BOOLEAN, cut : SUBSET Fence]
    BY DEF Init, Idle
  <2>4. owner \in [at : {"idle", "cancel", "release", "requeue"}, cut : SUBSET Fence]
    BY DEF Init
  <2>. QED
    BY <1>1, <1>2, <1>3, <2>1, <2>2, <2>3, <2>4 DEF Init, TypeOK
<1>5. Counted
  BY DEF Init, Counted, Idle
<1>6. FencesUsed
  BY <1>2, <1>3, LoopRecords, WorkRecords DEF Init, FencesUsed, LoopAt
<1>7. HolderIsFresh /\ GateIsGuarded
  BY <1>3, WorkRecords DEF Init, HolderIsFresh, GateIsGuarded, WorkAt
<1>. QED
  BY <1>4, <1>5, <1>6, <1>7 DEF IInv

LEMMA StutterInv == IInv /\ UNCHANGED vars => IInv'
BY DEF vars, IInv, TypeOK, Counted, FencesUsed, HolderIsFresh, GateIsGuarded, LoopAt, WorkAt

LEMMA StepInv == IInv /\ [Next]_vars => IInv'
<1>. SUFFICES ASSUME IInv, [Next]_vars PROVE IInv'
  OBVIOUS
<1>1. ASSUME NEW l \in Generation, LoopStep(l) \/ RoundFails(l) PROVE IInv'
  BY <1>1, CycleInv, TakePendingInv, LookDueInv, PutDueInv, ClaimInv, SubmitInv,
     CollectedInv, BookInv, RoundFailsInv DEF LoopStep
<1>2. ASSUME NEW f \in Fence, WorkStep(f) \/ ReadFails(f) \/ Deadline(f) PROVE IInv'
  BY <1>2, EnterInv, ReadInv, GateInv, CommitInv, CompleteInv, ReadFailsInv, DeadlineInv
     DEF WorkStep
<1>3. ASSUME NewData \/ Ripen \/ Lapse \/ Ask \/ AskStep PROVE IInv'
  BY <1>3, NewDataInv, RipenInv, LapseInv, AskInv, AskLookInv, AskPutInv, AskStartInv
     DEF AskStep
<1>4. ASSUME \/ Intervene(TRUE) \/ Intervene(FALSE) \/ Revoke
             \/ KeeperReleases \/ KeeperStarts
      PROVE  IInv'
  BY <1>4, InterveneInv, RevokeInv, KeeperReleasesInv, KeeperStartsInv
<1>5. ASSUME Authorize \/ OwnerStep \/ Crash PROVE IInv'
  BY <1>5, AuthorizeInv, OwnerCancelsInv, OwnerReleasesInv, OwnerRequeuesInv, CrashInv
     DEF OwnerStep
<1>. QED
  BY <1>1, <1>2, <1>3, <1>4, <1>5, StutterInv DEF Next

\* The invariant that the theorems rest on, for all bounds.
THEOREM InductiveInvariant == Spec => []IInv
<1>. QED
  BY InitInv, StepInv, PTL DEF Spec

\* Every variable keeps its type, in particular no more generations and
\* authorizations come about than faults were allowed.
THEOREM Typed == Spec => []TypeOK
<1>1. IInv => TypeOK
  BY DEF IInv
<1>. QED
  BY <1>1, InductiveInvariant, PTL

\* Whatever workers do that were given up, fenced or forgotten, a committed
\* snapshot is only replaced by one that was read later.
THEOREM SnapshotsGoForward == Spec => NeverBackwards
<1>1. ASSUME IInv, [Next]_vars PROVE [data' >= data]_vars
  <2>1. data \in 0 .. MaxWorld
    BY <1>1 DEF IInv, TypeOK
  <2>2. ASSUME NEW f \in Fence, Commit(f) PROVE data' >= data
    <3>1. CASE MayCommit(f)
      <4>1. f = job.fence /\ WorkAt(f, "gate") /\ data' = work[f].saw
        BY <2>2, <3>1 DEF MayCommit, HoldsLease, Commit
      <4>2. work[f].saw \in 0 .. MaxWorld
        BY <1>1 DEF IInv, TypeOK, Work
      <4>. QED
        BY <1>1, <2>1, <4>1, <4>2, BoundsAssumption DEF IInv, HolderIsFresh, WorkAt
    <3>2. CASE ~MayCommit(f)
      BY <2>1, <2>2, <3>2, BoundsAssumption DEF Commit
    <3>. QED
      BY <3>1, <3>2
  <2>3. CASE data' = data
    BY <2>1, <2>3, BoundsAssumption
  <2>4. CASE Next /\ data' # data
    <3>1. PICK f \in Fence : Commit(f)
      BY <2>4 DEF Next, LoopStep, WorkStep, AskStep, OwnerStep, Cycle, TakePending, LookDue,
         PutDue, Claim, Submit, Collected, Book, RoundFails, Enter, Read, ReadFails, Gate,
         Complete, Deadline, NewData, Ripen, Lapse, Ask, AskLook, AskPut, AskStart, Intervene,
         Revoke, KeeperReleases, KeeperStarts, Authorize, OwnerCancels, OwnerReleases,
         OwnerRequeues, Crash
    <3>. QED
      BY <2>2, <3>1
  <2>. QED
    BY <1>1, <2>3, <2>4 DEF vars
<1>. QED
  BY <1>1, InductiveInvariant, PTL DEF Spec, NeverBackwards

\* A commit bears the authorization that is saved when it becomes visible.
THEOREM AuthorizedCommits == Spec => CommitsAsAuthorized
<1>. DEFINE Right == \A f \in Fence : WorkAt(f, "gate") /\ work'[f].at = "kept" =>
                        work[f].auth = auth'
<1>1. ASSUME IInv, [Next]_vars PROVE [Right]_vars
  <2>1. ASSUME NEW f \in Fence, WorkAt(f, "gate"), auth' # auth PROVE work'[f].at # "kept"
    <3>1. writer = f /\ f # 0
      BY <1>1, <2>1 DEF IInv, GateIsGuarded, Fence
    <3>2. CASE Authorize
      BY <3>1, <3>2 DEF Authorize
    <3>3. ~Authorize => auth' = auth
      BY <1>1 DEF Next, vars, LoopStep, WorkStep, AskStep, OwnerStep, Cycle, TakePending,
         LookDue, PutDue, Claim, Submit, Collected, Book, RoundFails, Enter, Read, ReadFails,
         Gate, Commit, Complete, Deadline, NewData, Ripen, Lapse, Ask, AskLook, AskPut,
         AskStart, Intervene, Revoke, KeeperReleases, KeeperStarts, OwnerCancels,
         OwnerReleases, OwnerRequeues, Crash
    <3>. QED
      BY <2>1, <3>2, <3>3
  <2>2. ASSUME NEW f \in Fence, WorkAt(f, "gate"), auth' = auth PROVE work[f].auth = auth'
    BY <1>1, <2>2 DEF IInv, GateIsGuarded
  <2>. QED
    BY <2>1, <2>2
<1>. QED
  BY <1>1, InductiveInvariant, PTL DEF Spec, CommitsAsAuthorized

(***************************************************************************)
(* Requests, as long as nothing fails.                                     *)
(***************************************************************************)
\* There is one loop, and nobody intervenes.
Undisturbed ==
    /\ generation = 0 /\ auth = 0 /\ ~stop /\ thread = 0
    /\ keeper.at = "idle" /\ owner.at = "idle"
    /\ loop[0].at # "gone" /\ \A l \in Generation \ {0} : loop[l].at = "gone"

\* A lease is the loop's, which is busy with it.
LeaseIsHeld ==
    /\ ~job.lapsed
    /\ job.st = "leased" => /\ loop[0].at \in {"cycle", "wait", "book"}
                            /\ loop[0].fence = job.fence

\* A worker that runs is the one the loop waits for.
Running == {"begin", "active", "read", "gate", "kept"}
WorkIsAwaited ==
    /\ \A f \in Fence : /\ ~work[f].dead /\ work[f].gen = 0 /\ work[f].auth = 0
                        /\ work[f].at \in Running => LoopAt(0, "wait") /\ loop[0].fence = f
    /\ active # 0 => work[active].at \in Running \ {"begin"}
    /\ LoopAt(0, "wait") => loop[0].fence \in Fence

\* It ends well unless it has lost its lease.
LeasedEndsWell ==
    /\ LoopAt(0, "wait") /\ job.st = "leased" /\ work[loop[0].fence].at = "over"
    => work[loop[0].fence].good

\* The claim that is under way has yet to read, or has read what was asked for.
WillRead ==
    \/ LoopAt(0, "cycle")
    \/ LoopAt(0, "wait") /\ work[loop[0].fence].at \in {"begin", "active"}
    \/ LoopAt(0, "wait") /\ work[loop[0].fence].at \in {"read", "gate"}
                         /\ want <= work[loop[0].fence].saw

RequestIsCovered ==
    want > data => \/ pending \/ LoopAt(0, "put")
                   \/ job.st = "queued" /\ job.due
                   \/ job.st = "leased" /\ WillRead

Calm == /\ Undisturbed /\ LeaseIsHeld /\ WorkIsAwaited /\ LeasedEndsWell
        /\ RequestIsCovered

CalmInv == want <= world /\ (faults = 0 => Calm)

LEMMA CalmFacts ==
    ASSUME IInv, Calm
    PROVE  /\ 0 \in Generation
           /\ \A l \in Generation : loop[l].at # "gone" => l = 0
           /\ \A l \in Generation : loop[l] \in Loop
           /\ \A f \in Fence : work[f] \in Work /\ f # 0 /\ f \in 0 .. MaxFence
           /\ job \in Job
           /\ \A f \in Fence : ~Inactive(f)
           /\ want \in Nat /\ data \in Nat /\ world \in Nat
<1>1. 0 \in Generation
  BY BoundsAssumption DEF Generation
<1>2. \A f \in Fence : work[f] \in Work /\ f # 0 /\ f \in 0 .. MaxFence
  BY BoundsAssumption DEF IInv, TypeOK, Fence
<1>3. \A f \in Fence : ~Inactive(f)
  BY DEF Calm, Undisturbed, WorkIsAwaited, Inactive
<1>. QED
  BY <1>1, <1>2, <1>3, BoundsAssumption DEF IInv, TypeOK, Calm, Undisturbed

LEMMA CycleCalm ==
    ASSUME IInv, Calm, NEW l \in Generation, Cycle(l)
    PROVE  Calm'
<1>1. l = 0 /\ LoopAt(0, "top") /\ 0 \in Generation
  BY CalmFacts DEF Cycle, LoopAt
<1>2. loop'[0].at = "look" /\ \A k \in Generation \ {0} : loop'[k] = loop[k]
  <2>1. Becomes(0, [Top EXCEPT !.at = "look"])
    BY <1>1 DEF Cycle, Calm, Undisturbed
  <2>2. [Top EXCEPT !.at = "look"] \in Loop /\ [Top EXCEPT !.at = "look"].at = "look"
    BY LoopRecords DEF Loop
  <2>. QED
    BY <1>1, <2>1, <2>2, LoopUpdate DEF IInv, TypeOK
<1>3. UNCHANGED <<generation, stop, thread, job, work, active, pending, writer, auth,
                  world, data, asker, want, keeper, owner, asks, faults>>
  BY DEF Cycle
<1>. QED
  BY <1>1, <1>2, <1>3, CalmFacts DEF Calm, Undisturbed, LeaseIsHeld, WorkIsAwaited,
     LeasedEndsWell, WillRead, RequestIsCovered, LoopAt

\* The loop moves, and nothing is leased that it leaves.
LEMMA LoopCalm ==
    ASSUME IInv, Calm, NEW l \in Generation, TakePending(l) \/ LookDue(l) \/ PutDue(l)
    PROVE  Calm'
<1>1. l = 0 /\ 0 \in Generation /\ loop[0].at \in {"look", "put"} /\ job.st = "queued"
  BY CalmFacts DEF TakePending, LookDue, PutDue, LoopAt, Calm, LeaseIsHeld, Job
<1>0. SeenNow \in Seen
  BY CalmFacts DEF SeenNow, Seen, Job
<1>2. PICK new \in Loop : /\ Becomes(0, new) /\ new.at \in {"put", "claim"}
                          /\ TakePending(0) => new.at = "put"
                          /\ PutDue(0) => LoopAt(0, "put") 
                          /\ LookDue(0) => LoopAt(0, "look") /\ ~pending
  <2>1. CASE TakePending(0)
    <3> DEFINE new == [loop[0] EXCEPT !.at = "put", !.seen = SeenNow, !.high = TRUE]
    <3>1. new \in Loop /\ new.at = "put"
      BY <1>1, <1>0, CalmFacts DEF Loop
    <3>. QED
      BY <2>1, <3>1 DEF TakePending, LookDue, PutDue, LoopAt
  <2>2. CASE LookDue(0)
    <3>1. [loop[0] EXCEPT !.at = "claim"] \in Loop
      BY <1>1, CalmFacts DEF Loop
    <3>2. [loop[0] EXCEPT !.at = "put", !.seen = SeenNow] \in Loop
      BY <1>1, <1>0, CalmFacts DEF Loop
    <3>3. /\ [loop[0] EXCEPT !.at = "claim"].at = "claim"
          /\ [loop[0] EXCEPT !.at = "put", !.seen = SeenNow].at = "put"
      BY <1>1, CalmFacts DEF Loop
    <3>. QED
      BY <2>2, <3>1, <3>2, <3>3 DEF TakePending, LookDue, PutDue, LoopAt
  <2>3. CASE PutDue(0)
    <3>1. [Top EXCEPT !.at = "claim"] \in Loop /\ [Top EXCEPT !.at = "claim"].at = "claim"
      BY LoopRecords DEF Loop
    <3>. QED
      BY <2>3, <3>1 DEF TakePending, LookDue, PutDue, LoopAt
  <2>. QED
    BY <1>1, <2>1, <2>2, <2>3
<1>3. loop'[0] = new /\ \A k \in Generation \ {0} : loop'[k] = loop[k]
  BY <1>1, <1>2, LoopUpdate DEF IInv, TypeOK
<1>4. UNCHANGED <<generation, stop, thread, work, active, writer, auth,
                  world, data, asker, want, keeper, owner, asks, faults>>
  BY DEF TakePending, LookDue, PutDue
<1>5. /\ job'.st = "queued" /\ ~job'.lapsed
      /\ job.due => job'.due
      /\ PutDue(0) => job'.due
  <2>1. CASE PutDue(0)
    BY <1>1, <2>1, CalmFacts DEF PutDue, Enqueued, Job, Calm, LeaseIsHeld
  <2>2. CASE ~PutDue(0)
    BY <1>1, <2>2 DEF TakePending, LookDue, Calm, LeaseIsHeld
  <2>. QED
    BY <2>1, <2>2
<1>6. PutDue(0) \/ LookDue(0) => pending' = pending
  BY DEF PutDue, LookDue
<1>7. RequestIsCovered'
  <2>1. CASE TakePending(0)
    BY <1>2, <1>3, <2>1, Zenon DEF RequestIsCovered, LoopAt
  <2>2. CASE LookDue(0)
    BY <1>1, <1>2, <1>4, <1>5, <1>6, <2>2 DEF Calm, RequestIsCovered, LoopAt
  <2>3. CASE PutDue(0)
    BY <1>5, <2>3 DEF RequestIsCovered
  <2>. QED
    BY <1>1, <2>1, <2>2, <2>3
<1>. QED
  BY <1>1, <1>2, <1>3, <1>4, <1>5, <1>7, CalmFacts DEF Calm, Undisturbed, LeaseIsHeld,
     WorkIsAwaited, LeasedEndsWell, LoopAt

LEMMA ClaimCalm ==
    ASSUME IInv, Calm, NEW l \in Generation, Claim(l)
    PROVE  Calm'
<1>1. l = 0 /\ 0 \in Generation /\ LoopAt(0, "claim") /\ job.st = "queued"
  BY CalmFacts DEF Claim, LoopAt, Calm, LeaseIsHeld, Job
<1>2. Swept = job
  BY <1>1 DEF Swept
<1>3. UNCHANGED <<generation, stop, thread, work, active, pending, writer, auth,
                  world, data, asker, want, keeper, owner, asks, faults>>
  BY DEF Claim
<1>4. CASE Claimable(job)
  <2> DEFINE new == [Top EXCEPT !.at = "cycle", !.high = job.high, !.fence = job.fence + 1]
  <2>1. job.fence < MaxFence /\ job' = Leased(job) /\ Becomes(0, new)
    BY <1>1, <1>2, <1>4 DEF Claim
  <2>2. new \in Loop /\ new.at = "cycle" /\ new.fence = job.fence + 1
    <3>1. job.fence + 1 \in 0 .. MaxFence /\ job.high \in BOOLEAN
      BY <2>1, CalmFacts, BoundsAssumption DEF Job
    <3>. QED
      BY <3>1, LoopRecords DEF Loop
  <2>3. loop'[0] = new /\ \A k \in Generation \ {0} : loop'[k] = loop[k]
    BY <1>1, <2>1, <2>2, LoopUpdate DEF IInv, TypeOK
  <2>4. job'.st = "leased" /\ job'.fence = job.fence + 1 /\ ~job'.lapsed
    BY <2>1, CalmFacts DEF Leased, Job, Calm, LeaseIsHeld
  <2>5. RequestIsCovered'
    BY <2>2, <2>3, <2>4 DEF RequestIsCovered, WillRead, LoopAt
  <2>. QED
    BY <1>1, <1>3, <2>2, <2>3, <2>4, <2>5, CalmFacts DEF Calm, Undisturbed, LeaseIsHeld,
       WorkIsAwaited, LeasedEndsWell, LoopAt
<1>5. CASE ~Claimable(job)
  <2>1. job' = job /\ Becomes(0, Top)
    BY <1>1, <1>2, <1>5 DEF Claim
  <2>2. loop'[0] = Top /\ \A k \in Generation \ {0} : loop'[k] = loop[k]
    BY <1>1, <2>1, LoopRecords, LoopUpdate DEF IInv, TypeOK
  <2>3. RequestIsCovered'
    BY <1>1, <1>3, <1>5, <2>1, <2>2 DEF Calm, RequestIsCovered, LoopAt, Claimable
  <2>. QED
    BY <1>1, <1>3, <2>1, <2>2, <2>3, LoopRecords, CalmFacts DEF Calm, Undisturbed, LeaseIsHeld,
       WorkIsAwaited, LeasedEndsWell, LoopAt
<1>. QED
  BY <1>4, <1>5

LEMMA SubmitCalm ==
    ASSUME IInv, Calm, NEW l \in Generation, Submit(l)
    PROVE  Calm'
<1> DEFINE f == loop[0].fence
<1>1. l = 0 /\ 0 \in Generation /\ LoopAt(0, "cycle")
  BY CalmFacts DEF Submit, LoopAt
<1>2. f \in Fence
  <2>1. loop[0] \in Loop /\ f > 0
    BY <1>1, CalmFacts DEF IInv, FencesUsed
  <2>. QED
    BY <2>1, BoundsAssumption DEF Loop, Fence
<1> DEFINE new  == [loop[0] EXCEPT !.at = "wait"]
           mine == [NoWork EXCEPT !.at = "begin", !.gen = 0, !.auth = auth]
<1>3. Becomes(0, new) /\ work' = [work EXCEPT ![f] = mine]
  BY <1>1 DEF Submit, Calm, Undisturbed
<1>4. new \in Loop /\ new.at = "wait" /\ new.fence = f
  BY <1>1, CalmFacts DEF Loop
<1>5. loop'[0] = new /\ \A k \in Generation \ {0} : loop'[k] = loop[k]
  BY <1>1, <1>3, <1>4, LoopUpdate DEF IInv, TypeOK
<1>6. mine \in Work /\ mine.at = "begin" /\ ~mine.dead /\ mine.gen = 0 /\ mine.auth = 0
  BY <1>1, WorkRecords DEF Work, NoWork, Calm, Undisturbed
<1>7. work'[f] = mine /\ \A k \in Fence \ {f} : work'[k] = work[k]
  BY <1>2, <1>3, <1>6, WorkUpdate DEF IInv, TypeOK
<1>8. UNCHANGED <<generation, stop, thread, job, active, pending, writer, auth,
                  world, data, asker, want, keeper, owner, asks, faults>>
  BY DEF Submit
<1>. HIDE DEF new, mine
<1>9. \A k \in Fence : work[k].at \notin Running
  BY <1>1 DEF Calm, WorkIsAwaited, LoopAt
<1>10. active = 0
  BY <1>1, <1>9, BoundsAssumption DEF Calm, WorkIsAwaited, IInv, TypeOK, Fence
<1>11. RequestIsCovered'
  BY <1>1, <1>4, <1>5, <1>6, <1>7, <1>8 DEF Calm, RequestIsCovered, WillRead, LoopAt
<1>. QED
  BY <1>1, <1>2, <1>4, <1>5, <1>6, <1>7, <1>8, <1>9, <1>10, <1>11, CalmFacts
  DEF Calm, Undisturbed, LeaseIsHeld, WorkIsAwaited, LeasedEndsWell, LoopAt

\* The worker is over; if it was fenced, its job is due.
LEMMA CollectedCalm ==
    ASSUME IInv, Calm, NEW l \in Generation, Collected(l)
    PROVE  Calm'
<1> DEFINE f == loop[0].fence
<1>1. l = 0 /\ 0 \in Generation /\ LoopAt(0, "wait") /\ f \in Fence
  BY CalmFacts DEF Collected, LoopAt, Calm, WorkIsAwaited
<1>2. WorkAt(f, "over") /\ work' = [work EXCEPT ![f] = Done]
  BY <1>1, CalmFacts DEF Collected, WorkAt
<1>3. PICK result \in {"good", "bad"} :
          Becomes(0, [loop[0] EXCEPT !.at = "book", !.result = result])
  BY <1>1 DEF Collected
<1> DEFINE new == [loop[0] EXCEPT !.at = "book", !.result = result]
<1>4. new \in Loop /\ new.at = "book" /\ new.fence = f
  BY <1>1, CalmFacts DEF Loop
<1>5. loop'[0] = new /\ \A k \in Generation \ {0} : loop'[k] = loop[k]
  BY <1>1, <1>3, <1>4, LoopUpdate DEF IInv, TypeOK
<1>6. work'[f] = Done /\ \A k \in Fence \ {f} : work'[k] = work[k]
  BY <1>1, <1>2, WorkRecords, WorkUpdate DEF IInv, TypeOK
<1>7. Done.at = "over" /\ ~Done.dead /\ Done.gen = 0 /\ Done.auth = 0
  BY DEF Done, NoWork
<1>8. UNCHANGED <<generation, stop, thread, job, active, pending, writer, auth,
                  world, data, asker, want, keeper, owner, asks, faults>>
  BY DEF Collected
<1>9. \A k \in Fence : work[k].at \notin Running
  BY <1>1, <1>2 DEF Calm, WorkIsAwaited, LoopAt, WorkAt, Running
<1>10. active = 0
  BY <1>9, BoundsAssumption DEF Calm, WorkIsAwaited, IInv, TypeOK, Fence
<1>11. RequestIsCovered'
  BY <1>1, <1>2, <1>5, <1>8 DEF Calm, RequestIsCovered, WillRead, LoopAt, WorkAt
<1>. QED
  BY <1>1, <1>4, <1>5, <1>6, <1>7, <1>8, <1>9, <1>10, <1>11, CalmFacts
  DEF Calm, Undisturbed, LeaseIsHeld, WorkIsAwaited, LeasedEndsWell, LoopAt, Running

LEMMA BookCalm ==
    ASSUME IInv, Calm, NEW l \in Generation, Book(l)
    PROVE  Calm'
<1>1. l = 0 /\ 0 \in Generation /\ LoopAt(0, "book")
  BY CalmFacts DEF Book, LoopAt
<1>2. loop'[0] = Top /\ \A k \in Generation \ {0} : loop'[k] = loop[k]
  BY <1>1, LoopRecords, LoopUpdate DEF Book, IInv, TypeOK
<1>3. job' = Finished(0)
  BY <1>1 DEF Book
<1>4. /\ job'.st = "queued" /\ ~job'.lapsed
      /\ job.st = "queued" => job'.due = job.due
  BY <1>1, <1>3, CalmFacts DEF Finished, Job, Calm, LeaseIsHeld
<1>5. UNCHANGED <<generation, stop, thread, work, active, pending, writer, auth,
                  world, data, asker, want, keeper, owner, asks, faults>>
  BY DEF Book
<1>6. RequestIsCovered'
  BY <1>1, <1>4, <1>5 DEF Calm, RequestIsCovered, WillRead, LoopAt
<1>. QED
  BY <1>1, <1>2, <1>4, <1>5, <1>6, LoopRecords, CalmFacts
  DEF Calm, Undisturbed, LeaseIsHeld, WorkIsAwaited, LeasedEndsWell, LoopAt

\* What a step of the worker has to show.
LEMMA WorkerCalm ==
    ASSUME IInv, Calm, NEW f \in Fence, NEW w \in Work, work[f].at \in Running,
           work' = [work EXCEPT ![f] = w],
           ~w.dead, w.gen = 0, w.auth = 0,
           active' # 0 => active' = f /\ w.at \in Running \ {"begin"},
           w.at = "over" /\ job.st = "leased" => w.good,
           RequestIsCovered',
           UNCHANGED <<generation, stop, thread, loop, job, auth, keeper, owner>>
    PROVE  Calm'
<1>1. LoopAt(0, "wait") /\ loop[0].fence = f
  BY DEF Calm, WorkIsAwaited
<1>2. work'[f] = w /\ \A k \in Fence \ {f} : work'[k] = work[k]
  BY WorkUpdate DEF IInv, TypeOK
<1>. QED
  BY <1>1, <1>2, CalmFacts DEF Calm, Undisturbed, LeaseIsHeld, WorkIsAwaited, LeasedEndsWell,
     LoopAt

LEMMA RunningFacts ==
    ASSUME IInv, Calm, NEW f \in Fence, work[f].at \in Running
    PROVE  /\ work[f] \in Work /\ ~work[f].dead /\ work[f].gen = 0 /\ work[f].auth = 0
           /\ LoopAt(0, "wait") /\ loop[0].fence = f
           /\ active # 0 => active = f /\ work[f].at # "begin"
           /\ MayCommit(f) <=> job.st = "leased"
<1>1. LoopAt(0, "wait") /\ loop[0].fence = f
  BY DEF Calm, WorkIsAwaited
<1>2. active # 0 => active = f /\ work[f].at # "begin"
  <2>1. active # 0 => active \in Fence
    BY BoundsAssumption DEF IInv, TypeOK, Fence
  <2>. QED
    BY <1>1, <2>1 DEF Calm, WorkIsAwaited
<1>3. MayCommit(f) <=> job.st = "leased"
  BY <1>1, CalmFacts DEF MayCommit, HoldsLease, Calm, LeaseIsHeld
<1>. QED
  BY <1>1, <1>2, <1>3, CalmFacts DEF Calm, WorkIsAwaited

\* The record that a worker leaves.
LEMMA EndedWork ==
    ASSUME NEW f \in Fence, work[f] \in Work, NEW good \in BOOLEAN
    PROVE  LET w == [NoWork EXCEPT !.at = "over", !.gen = work[f].gen, !.good = good]
           IN  /\ w \in Work /\ w.at = "over" /\ w.gen = work[f].gen /\ w.good = good
               /\ ~w.dead /\ w.auth = 0
BY WorkRecords DEF Work, NoWork

LEMMA EnterCalm ==
    ASSUME IInv, Calm, NEW f \in Fence, Enter(f)
    PROVE  Calm'
<1> DEFINE w == [work[f] EXCEPT !.at = "active"]
<1>1. work[f].at = "begin" /\ work[f].at \in Running
  BY DEF Enter, WorkAt, Running
<1>2. work' = [work EXCEPT ![f].at = "active"] /\ active' = f
  BY <1>1, RunningFacts, CalmFacts DEF Enter
<1>3. w \in Work /\ w.at = "active" /\ ~w.dead /\ w.gen = 0 /\ w.auth = 0
  BY <1>1, RunningFacts DEF Work
<1>4. work' = [work EXCEPT ![f] = w]
  BY <1>2
<1>. HIDE DEF w
<1>5. work'[f] = w
  BY <1>3, <1>4, WorkUpdate DEF IInv, TypeOK
<1>6. UNCHANGED <<generation, stop, thread, loop, job, pending, writer, auth, world,
                  data, asker, want, keeper, owner, asks, faults>>
  BY DEF Enter
<1>7. RequestIsCovered'
  BY <1>1, <1>3, <1>5, <1>6, RunningFacts DEF Calm, RequestIsCovered, WillRead, LoopAt
<1>. QED
  BY <1>1, <1>2, <1>3, <1>4, <1>6, <1>7, WorkerCalm DEF Running

LEMMA ReadCalm ==
    ASSUME IInv, Calm, want <= world, NEW f \in Fence, Read(f)
    PROVE  Calm'
<1> DEFINE w == [work[f] EXCEPT !.at = "read", !.saw = world]
<1>1. work[f].at = "active" /\ work[f].at \in Running
  BY DEF Read, WorkAt, Running
<1>2. w \in Work /\ w.at = "read" /\ ~w.dead /\ w.gen = 0 /\ w.auth = 0 /\ w.saw = world
  BY <1>1, RunningFacts DEF Work, IInv, TypeOK
<1>3. work' = [work EXCEPT ![f] = w]
  BY DEF Read
<1>. HIDE DEF w
<1>4. work'[f] = w
  BY <1>2, <1>3, WorkUpdate DEF IInv, TypeOK
<1>5. UNCHANGED <<generation, stop, thread, loop, job, active, pending, writer, auth, world,
                  data, asker, want, keeper, owner, asks, faults>>
  BY DEF Read
<1>6. RequestIsCovered'
  BY <1>1, <1>2, <1>4, <1>5, RunningFacts DEF Calm, RequestIsCovered, WillRead, LoopAt
<1>. QED
  BY <1>1, <1>2, <1>3, <1>5, <1>6, RunningFacts, WorkerCalm DEF Running

LEMMA GateCalm ==
    ASSUME IInv, Calm, NEW f \in Fence, Gate(f)
    PROVE  Calm'
<1>1. work[f].at = "read" /\ work[f].at \in Running
  BY DEF Gate, WorkAt, Running
<1>2. work[f].auth = auth
  BY <1>1, RunningFacts DEF Calm, Undisturbed
<1>3. UNCHANGED <<generation, stop, thread, loop, job, pending, auth, world, data,
                  asker, want, keeper, owner, asks, faults>>
  BY DEF Gate
<1>4. CASE job.st = "leased"
  <2> DEFINE w == [work[f] EXCEPT !.at = "gate"]
  <2>1. work' = [work EXCEPT ![f].at = "gate"] /\ active' = active
    BY <1>1, <1>2, <1>4, RunningFacts DEF Gate
  <2>2. w \in Work /\ w.at = "gate" /\ ~w.dead /\ w.gen = 0 /\ w.auth = 0
        /\ w.saw = work[f].saw
    BY <1>1, RunningFacts DEF Work
  <2>3. work' = [work EXCEPT ![f] = w]
    BY <2>1
  <2>. HIDE DEF w
  <2>4. work'[f] = w
    BY <2>2, <2>3, WorkUpdate DEF IInv, TypeOK
  <2>5. RequestIsCovered'
    BY <1>1, <1>3, <2>2, <2>4, RunningFacts DEF Calm, RequestIsCovered, WillRead, LoopAt
  <2>. QED
    BY <1>1, <1>3, <2>1, <2>2, <2>3, <2>5, RunningFacts, WorkerCalm DEF Running
<1>5. CASE job.st # "leased"
  <2> DEFINE w == [NoWork EXCEPT !.at = "over", !.gen = work[f].gen, !.good = FALSE]
  <2>1. work' = [work EXCEPT ![f] = w] /\ LeavesActive(f)
    BY <1>1, <1>5, RunningFacts DEF Gate, Ends
  <2>2. w \in Work /\ w.at = "over" /\ ~w.dead /\ w.gen = 0 /\ w.auth = 0
    BY <1>1, RunningFacts, EndedWork
  <2>3. active' = 0
    BY <1>1, <2>1, RunningFacts DEF LeavesActive
  <2>4. RequestIsCovered'
    BY <1>3, <1>5 DEF Calm, RequestIsCovered, LoopAt
  <2>. HIDE DEF w
  <2>. QED
    BY <1>1, <1>3, <1>5, <2>1, <2>2, <2>3, <2>4, WorkerCalm
<1>. QED
  BY <1>4, <1>5

LEMMA CommitCalm ==
    ASSUME IInv, Calm, NEW f \in Fence, Commit(f)
    PROVE  Calm'
<1>1. work[f].at = "gate" /\ work[f].at \in Running
  BY DEF Commit, WorkAt, Running
<1>3. UNCHANGED <<generation, stop, thread, loop, job, pending, auth, world,
                  asker, want, keeper, owner, asks, faults>>
  BY DEF Commit
<1>4. CASE job.st = "leased"
  <2> DEFINE w == [work[f] EXCEPT !.at = "kept"]
  <2>1. work' = [work EXCEPT ![f].at = "kept"] /\ active' = active /\ data' = work[f].saw
    BY <1>1, <1>4, RunningFacts DEF Commit
  <2>2. w \in Work /\ w.at = "kept" /\ ~w.dead /\ w.gen = 0 /\ w.auth = 0
    BY <1>1, RunningFacts DEF Work
  <2>3. work' = [work EXCEPT ![f] = w]
    BY <2>1
  <2>. HIDE DEF w
  <2>4. data <= data'
    <3>1. f = job.fence
      BY <1>1, <1>4, RunningFacts DEF Calm, LeaseIsHeld
    <3>. QED
      BY <1>1, <2>1, <3>1 DEF IInv, HolderIsFresh
  <2>5. data' \in Nat
    BY <1>1, <2>1, RunningFacts, BoundsAssumption DEF Work
  <2>6. RequestIsCovered'
    BY <1>1, <1>3, <2>1, <2>4, <2>5, CalmFacts, RunningFacts
    DEF Calm, RequestIsCovered, WillRead, LoopAt
  <2>. QED
    BY <1>1, <1>3, <2>1, <2>2, <2>3, <2>6, RunningFacts, WorkerCalm DEF Running
<1>5. CASE job.st # "leased"
  <2> DEFINE w == [NoWork EXCEPT !.at = "over", !.gen = work[f].gen, !.good = FALSE]
  <2>1. work' = [work EXCEPT ![f] = w] /\ LeavesActive(f) /\ data' = data
    BY <1>1, <1>5, RunningFacts DEF Commit, Ends
  <2>2. w \in Work /\ w.at = "over" /\ ~w.dead /\ w.gen = 0 /\ w.auth = 0
    BY <1>1, RunningFacts, EndedWork
  <2>3. active' = 0
    BY <1>1, <2>1, RunningFacts DEF LeavesActive
  <2>4. RequestIsCovered'
    BY <1>3, <1>5, <2>1 DEF Calm, RequestIsCovered, LoopAt
  <2>. HIDE DEF w
  <2>. QED
    BY <1>1, <1>3, <1>5, <2>1, <2>2, <2>3, <2>4, WorkerCalm
<1>. QED
  BY <1>4, <1>5

LEMMA CompleteCalm ==
    ASSUME IInv, Calm, NEW f \in Fence, Complete(f)
    PROVE  Calm'
<1> DEFINE w == [NoWork EXCEPT !.at = "over", !.gen = work[f].gen, !.good = TRUE]
<1>1. work[f].at = "kept" /\ work[f].at \in Running
  BY DEF Complete, WorkAt, Running
<1>2. work' = [work EXCEPT ![f] = w] /\ LeavesActive(f)
  BY DEF Complete, Ends
<1>3. w \in Work /\ w.at = "over" /\ ~w.dead /\ w.gen = 0 /\ w.auth = 0 /\ w.good
  BY <1>1, RunningFacts, EndedWork
<1>4. active' = 0
  BY <1>1, <1>2, RunningFacts DEF LeavesActive
<1>5. UNCHANGED <<generation, stop, thread, loop, job, pending, writer, auth, world,
                  data, asker, want, keeper, owner, asks, faults>>
  BY DEF Complete
<1>6. RequestIsCovered'
  BY <1>1, <1>5, RunningFacts DEF Calm, RequestIsCovered, WillRead, LoopAt
<1>. HIDE DEF w
<1>. QED
  BY <1>1, <1>2, <1>3, <1>4, <1>5, <1>6, WorkerCalm

\* The job becomes due, data or a request comes: nothing that was covered is not.
LEMMA WorldCalm ==
    ASSUME IInv, Calm, want <= world, NewData \/ Ripen \/ Ask \/ AskLook
    PROVE  Calm'
<1>1. UNCHANGED <<generation, stop, thread, loop, work, active, writer, auth,
                  data, keeper, owner, faults>>
  BY DEF NewData, Ripen, Ask, AskLook
<1>2. job'.st = job.st /\ job'.fence = job.fence /\ job'.lapsed = job.lapsed
  BY CalmFacts DEF NewData, Ripen, Ask, AskLook, Job
<1>3. RequestIsCovered'
  <2>1. CASE NewData \/ AskLook
    BY <1>1, <2>1 DEF NewData, AskLook, Calm, RequestIsCovered, WillRead, LoopAt
  <2>2. CASE Ripen
    <3>1. job'.due /\ job'.st = "queued"
      BY <2>2, CalmFacts DEF Ripen, Job
    <3>. QED
      BY <3>1 DEF RequestIsCovered
  <2>3. CASE Ask
    <3>1. pending' \/ (pending' = pending /\ want' = want /\ job' = job)
      BY <2>3 DEF Ask
    <3>. QED
      BY <1>1, <3>1 DEF Calm, RequestIsCovered, WillRead, LoopAt
  <2>. QED
    BY <2>1, <2>2, <2>3
<1>. QED
  BY <1>1, <1>2, <1>3 DEF Calm, Undisturbed, LeaseIsHeld, WorkIsAwaited, LeasedEndsWell, LoopAt

\* What was read of the job may be old: then the lease is lost, but the job is due.
LEMMA AskPutCalm ==
    ASSUME IInv, Calm, AskPut
    PROVE  Calm'
<1>1. UNCHANGED <<generation, stop, thread, loop, work, active, pending, writer,
                  auth, world, data, want, keeper, owner, asks, faults>>
  BY DEF AskPut
<1>2. /\ job'.due /\ job'.fence = job.fence /\ ~job'.lapsed
      /\ job'.st \in {"queued", job.st}
  BY CalmFacts DEF AskPut, Enqueued, Job, Calm, LeaseIsHeld
<1>3. job'.st \in {"queued", "leased"}
  BY <1>2, CalmFacts DEF Job
<1>4. RequestIsCovered'
  <2>1. CASE job'.st = "queued"
    BY <1>2, <2>1 DEF RequestIsCovered
  <2>2. CASE job'.st = "leased" /\ job.st = "leased"
    BY <1>1, <2>2 DEF Calm, RequestIsCovered, WillRead, LoopAt
  <2>. QED
    BY <1>2, <1>3, <2>1, <2>2
<1>. QED
  BY <1>1, <1>2, <1>3, <1>4 DEF Calm, Undisturbed, LeaseIsHeld, WorkIsAwaited, LeasedEndsWell,
     LoopAt

LEMMA AskStartCalm ==
    ASSUME IInv, Calm, AskStart
    PROVE  Calm'
<1>1. UNCHANGED <<stop, thread, loop>>
  BY CalmFacts DEF AskStart, StartLoop, Calm, Undisturbed, NoLoop
<1>2. UNCHANGED <<generation, job, work, active, pending, writer, auth, world, data,
                   want, keeper, owner, asks, faults>>
  BY DEF AskStart
<1>. QED
  BY <1>1, <1>2 DEF Calm, Undisturbed, LeaseIsHeld, WorkIsAwaited, LeasedEndsWell, LoopAt,
     RequestIsCovered, WillRead

\* A lease that somebody attends to lapses by a fault only; nobody else acts.
LEMMA NobodyElse ==
    ASSUME IInv, Calm, faults = 0
    PROVE  /\ \A l \in Generation : RoundFails(l) => faults' # 0
           /\ \A f \in Fence : ReadFails(f) \/ Deadline(f) => faults' # 0
           /\ Lapse \/ Authorize \/ Crash \/ Intervene(TRUE) \/ Intervene(FALSE) => faults' # 0
           /\ ~Revoke /\ ~KeeperReleases /\ ~KeeperStarts /\ ~OwnerStep
<1>1. job.st = "leased" => Attended
  BY CalmFacts DEF Calm, LeaseIsHeld, Attended
<1>2. ~Revoke /\ ~KeeperReleases /\ ~KeeperStarts /\ ~OwnerStep
  BY DEF Calm, Undisturbed, Revoke, KeeperReleases, KeeperStarts, NoLoop, OwnerStep,
     OwnerCancels, OwnerReleases, OwnerRequeues
<1>3. Fault => faults' # 0
  BY DEF Fault
<1>4. /\ \A l \in Generation : RoundFails(l) => Fault
      /\ \A f \in Fence : ReadFails(f) \/ Deadline(f) => Fault
      /\ Lapse \/ Authorize \/ Crash \/ Intervene(TRUE) \/ Intervene(FALSE) => Fault
  BY <1>1 DEF RoundFails, ReadFails, Deadline, Lapse, Authorize, Crash, Intervene
<1>. QED
  BY <1>2, <1>3, <1>4

LEMMA InitCalm == ASSUME Init PROVE CalmInv
<1>1. 0 \in Generation /\ 0 \notin Fence
  BY BoundsAssumption DEF Generation, Fence
<1>2. loop[0].at = "top" /\ \A l \in Generation \ {0} : loop[l].at = "gone"
  BY <1>1, LoopRecords DEF Init
<1>3. \A f \in Fence : work[f] = NoWork
  BY DEF Init
<1>4. NoWork.at = "none" /\ ~NoWork.dead /\ NoWork.gen = 0 /\ NoWork.auth = 0
  BY DEF NoWork
<1>5. generation = 0 /\ auth = 0 /\ ~stop /\ thread = 0 /\ active = 0 /\ want = 0
      /\ data = 0 /\ world = 0 /\ keeper.at = "idle" /\ owner.at = "idle"
      /\ job.st = "queued" /\ ~job.lapsed
  BY DEF Init, Idle
<1>6. Undisturbed /\ LeaseIsHeld
  BY <1>2, <1>5 DEF Undisturbed, LeaseIsHeld
<1>7. WorkIsAwaited /\ LeasedEndsWell
  BY <1>2, <1>3, <1>4, <1>5 DEF WorkIsAwaited, LeasedEndsWell, LoopAt, Running
<1>8. RequestIsCovered /\ want <= world
  BY <1>5 DEF RequestIsCovered
<1>. QED
  BY <1>6, <1>7, <1>8 DEF Calm, CalmInv

LEMMA StepCalm ==
    ASSUME IInv, CalmInv, [Next]_vars
    PROVE  CalmInv'
<1>1. (want <= world)'
  <2>1. want \in Nat /\ world \in Nat
    BY BoundsAssumption DEF IInv, TypeOK
  <2>2. (want' = want \/ want' = world') /\ (world' = world \/ (world' = world + 1 /\ want' = want))
    BY DEF Next, vars, LoopStep, WorkStep, AskStep, OwnerStep, Cycle, TakePending,
       LookDue, PutDue, Claim, Submit, Collected, Book, RoundFails, Enter, Read, ReadFails,
       Gate, Commit, Complete, Deadline, NewData, Ripen, Lapse, Ask, AskLook, AskPut,
       AskStart, Intervene, Revoke, KeeperReleases, KeeperStarts, Authorize, OwnerCancels,
       OwnerReleases, OwnerRequeues, Crash
  <2>. QED
    BY <2>1, <2>2 DEF CalmInv
<1>2. ASSUME faults' = 0 PROVE Calm'
  <2>1. faults = 0
    <3>1. faults \in Nat
      BY BoundsAssumption DEF IInv, TypeOK
    <3>2. Fault \/ faults' = faults
      BY DEF Next, vars, LoopStep, WorkStep, AskStep, OwnerStep,
         Cycle, TakePending, LookDue, PutDue, Claim, Submit, Collected, Book, RoundFails, Enter,
         Read, ReadFails, Gate, Commit, Complete, Deadline, NewData, Ripen, Lapse, Ask, AskLook,
         AskPut, AskStart, Intervene, Revoke, KeeperReleases, KeeperStarts, Authorize,
         OwnerCancels, OwnerReleases, OwnerRequeues, Crash
    <3>. QED
      BY <1>2, <3>1, <3>2 DEF Fault
  <2>2. Calm /\ want <= world
    BY <2>1 DEF CalmInv
  <2>3. CASE UNCHANGED vars
    BY <2>2, <2>3 DEF vars, Calm, Undisturbed, LeaseIsHeld, WorkIsAwaited, LeasedEndsWell,
       LoopAt, RequestIsCovered, WillRead
  <2>4. ASSUME NEW l \in Generation, LoopStep(l) PROVE Calm'
    BY <2>2, <2>4, CycleCalm, LoopCalm, ClaimCalm, SubmitCalm, CollectedCalm, BookCalm
    DEF LoopStep
  <2>5. ASSUME NEW f \in Fence, WorkStep(f) PROVE Calm'
    BY <2>2, <2>5, EnterCalm, ReadCalm, GateCalm, CommitCalm, CompleteCalm DEF WorkStep
  <2>6. CASE NewData \/ Ripen \/ Ask \/ AskStep
    BY <2>2, <2>6, WorldCalm, AskPutCalm, AskStartCalm DEF AskStep
  <2>. QED
    BY <1>2, <2>1, <2>2, <2>3, <2>4, <2>5, <2>6, NobodyElse DEF Next
<1>. QED
  BY <1>1, <1>2 DEF CalmInv

\* A request that was accepted leads to a round, whatever loop, worker and the
\* request itself do in between, as long as nothing fails.
THEOREM RequestsAreKept == Spec => []RequestIsNotSwallowed
<1>1. IInv /\ CalmInv => RequestIsNotSwallowed
  <2> SUFFICES ASSUME IInv, CalmInv, faults = 0, want > data
               PROVE  \/ pending \/ job.due \/ job.st = "leased"
                      \/ \E l \in Generation : LoopAt(l, "put")
    BY DEF RequestIsNotSwallowed
  <2>1. Calm
    BY DEF CalmInv
  <2>. QED
    BY <2>1, CalmFacts DEF Calm, RequestIsCovered
<1>2. Init => CalmInv
  BY InitCalm
<1>3. IInv /\ CalmInv /\ [Next]_vars => CalmInv'
  BY StepCalm
<1>. QED
  BY <1>1, <1>2, <1>3, InductiveInvariant, PTL DEF Spec

=============================================================================
