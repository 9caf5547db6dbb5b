--------------------------- MODULE TokenStore_proofs ---------------------------
(***************************************************************************)
(* Proofs about TokenStore, for any number of requests, pages and writes.   *)
(* The inductive invariant IInv says what a snapshot taken earlier still    *)
(* knows of the file while their revisions agree; EInv, which relies on it, *)
(* which page is about to drop the evidence of an earlier grant.            *)
(***************************************************************************)
EXTENDS TokenStore, TLAPS

Numbers ==      \* whatever was named, was named by a write
    /\ file.rev <= rev /\ file.gen <= rev /\ file.token <= rev
    /\ \A c \in Caller : snap[c].rev <= rev /\ snap[c].gen <= rev /\ snap[c].token <= rev
    /\ \A c \in Caller : held[c] <= rev /\ observed[c] <= rev
    /\ \A p \in Page : read[p].rev <= rev /\ read[p].gen <= rev /\ read[p].token <= rev
    /\ \A t \in spent : 1 <= t /\ t <= rev

Matches(b) ==
    Same(b) => /\ b.app = file.app /\ b.gen = file.gen /\ b.state = file.state /\ b.token = file.token
               /\ file.fresh => b.fresh
Snapshots == (\A c \in Caller : Matches(snap[c])) /\ (\A p \in Page : Matches(read[p]))

OneRefresh ==
    /\ \A c, d \in Caller : pc[c] \in {"wire", "replied", "failed"}
                            /\ pc[d] \in {"wire", "replied", "failed"} => c = d
    /\ \A c \in Caller : pc[c] \in {"wire", "replied"} =>
          snap[c].token # 0 /\ ~(snap[c].state # 0 /\ snap[c].fresh)

Waiting == choice.fresh => file.fresh /\ file.state # 0

OnWire ==
    \A c \in Caller : pc[c] = "wire" /\ file.token = snap[c].token =>
        Same(snap[c]) \/ file.state # 0

Rejected ==
    \A c \in Caller : pc[c] = "wait" /\ force[c] =>
        observed[c] # 0 /\ (observed[c] = file.rev => ~good)

IInv == /\ TypeOK /\ Numbers /\ Snapshots /\ OneRefresh /\ LatestChoiceStands /\ Waiting
        /\ OnWire /\ GrantKept /\ Rejected

LEMMA Revised ==
    ASSUME NEW b \in Bundle, NEW n \in Nat
    PROVE  [b EXCEPT !.rev = n] \in Bundle
BY DEF Bundle

LEMMA Refreshed ==
    ASSUME NEW b \in Bundle, NEW n \in Nat
    PROVE  [b EXCEPT !.token = n, !.live = TRUE, !.state = 0, !.fresh = FALSE] \in Bundle
BY DEF Bundle

LEMMA Opened ==
    ASSUME NEW b \in Bundle, NEW n \in Nat
    PROVE  [b EXCEPT !.state = n, !.fresh = TRUE] \in Bundle
BY DEF Bundle

LEMMA Granted ==
    ASSUME NEW b \in Bundle, NEW n \in Nat
    PROVE  [b EXCEPT !.token = n, !.live = TRUE] \in Bundle
BY DEF Bundle

FileTyped ==
    /\ file \in Bundle /\ (Saved => file.app \in App) /\ rev \in Nat /\ good \in BOOLEAN
    /\ spent \subseteq Nat /\ choice \in [gen : Nat, state : Nat, fresh : BOOLEAN]
CallersTyped ==
    /\ pc \in [Caller -> {"idle", "wait", "wire", "replied", "failed"}]
    /\ force \in [Caller -> BOOLEAN] /\ observed \in [Caller -> Nat] /\ held \in [Caller -> Nat]
    /\ snap \in [Caller -> Bundle]
PagesTyped ==
    /\ page \in [Page -> {"idle", "remove", "begin", "exchange", "wire", "status", "announce"}]
    /\ read \in [Page -> Bundle] /\ prev \in [Page -> Identity] /\ cur \in [Page -> Identity]
    /\ event \in [Page -> {"saved", "disconnected", "authorized"}]
RecordsTyped ==
    /\ reader \in {"idle", "reading"} /\ asOf \in Identity
    /\ selection \in Identity /\ proof \in Identity
    /\ faults \in 0..MaxFault /\ lost \in BOOLEAN /\ muted \in BOOLEAN

LEMMA Parts ==
    /\ TypeOK <=> FileTyped /\ CallersTyped /\ PagesTyped /\ RecordsTyped
    /\ TypeOK' <=> FileTyped' /\ CallersTyped' /\ PagesTyped' /\ RecordsTyped'
BY DEF TypeOK, FileTyped, CallersTyped, PagesTyped, RecordsTyped, Saved

Fields ==       \* what the types say of single fields and of the empty record
    /\ rev \in Nat /\ rev + 1 \in Nat /\ spent \subseteq Nat
    /\ file.rev \in Nat /\ file.gen \in Nat /\ file.token \in Nat /\ file.state \in Nat
    /\ \A c \in Caller : snap[c].rev \in Nat /\ snap[c].gen \in Nat /\ snap[c].token \in Nat
    /\ \A p \in Page : read[p].rev \in Nat /\ read[p].gen \in Nat /\ read[p].token \in Nat
    /\ NoFile.rev = 0 /\ NoFile.gen = 0 /\ NoFile.token = 0 /\ NoFile.state = 0
    /\ ~NoFile.fresh
    /\ pc \in [Caller -> {"idle", "wait", "wire", "replied", "failed"}]
    /\ force \in [Caller -> BOOLEAN] /\ observed \in [Caller -> Nat] /\ held \in [Caller -> Nat]
    /\ snap \in [Caller -> Bundle] /\ read \in [Page -> Bundle]
    /\ page \in [Page -> {"idle", "remove", "begin", "exchange", "wire", "status", "announce"}]
    /\ NoFile \in Bundle /\ NoId \in Identity /\ Id \in Identity

LEMMA Known == TypeOK => Fields
<1>. SUFFICES ASSUME TypeOK PROVE Fields
  OBVIOUS
<1>1. /\ file \in Bundle /\ snap \in [Caller -> Bundle] /\ read \in [Page -> Bundle]
      /\ rev \in Nat /\ spent \subseteq Nat
  BY DEF TypeOK
<1>2. /\ file.rev \in Nat /\ file.gen \in Nat /\ file.token \in Nat /\ file.state \in Nat
      /\ \A c \in Caller : snap[c].rev \in Nat /\ snap[c].gen \in Nat /\ snap[c].token \in Nat
      /\ \A p \in Page : read[p].rev \in Nat /\ read[p].gen \in Nat /\ read[p].token \in Nat
  BY <1>1 DEF Bundle
<1>3. /\ NoFile.rev = 0 /\ NoFile.gen = 0 /\ NoFile.token = 0 /\ NoFile.state = 0
      /\ ~NoFile.fresh /\ NoFile \in Bundle /\ NoId \in Identity /\ Id \in Identity
  BY <1>1 DEF Bundle, NoFile, NoId, Id, Identity
<1>4. /\ pc \in [Caller -> {"idle", "wait", "wire", "replied", "failed"}]
      /\ force \in [Caller -> BOOLEAN] /\ observed \in [Caller -> Nat] /\ held \in [Caller -> Nat]
      /\ page \in [Page -> {"idle", "remove", "begin", "exchange", "wire", "status", "announce"}]
  BY DEF TypeOK
<1>. QED
  BY <1>1, <1>2, <1>3, <1>4 DEF Fields

LEMMA Returned ==
    ASSUME Fields, CallersTyped, NEW c \in Caller, NEW r \in Nat, Return(c, r)
    PROVE  CallersTyped'
BY DEF Return, CallersTyped, Fields

LEMMA Replied ==
    ASSUME Fields, PagesTyped, NEW p \in Page, Answer(p)
    PROVE  PagesTyped'
BY DEF Answer, PagesTyped, Fields

LEMMA Announced ==
    ASSUME PagesTyped, NEW p \in Page, NEW i \in Identity, NEW j \in Identity,
           NEW what \in {"saved", "disconnected", "authorized"}, Announcing(p, i, j, what)
    PROVE  PagesTyped'
BY DEF Announcing, PagesTyped

SaveFact(c) ==      \* what a refresh writes, and leaves
    /\ pc[c] = "replied" /\ \E r \in {0, file.rev, file'.rev} : Return(c, r)
    /\ good' \in {good, TRUE}
    /\ UNCHANGED <<spent, pages, records, faults, choice, lost, muted>>
    /\ \/ /\ Same(snap[c]) /\ file' \in Bundle /\ rev' = rev + 1 /\ file'.rev = rev + 1
          /\ file'.app = snap[c].app /\ file'.gen = snap[c].gen /\ file'.token = rev + 1
          /\ file'.state = 0 /\ file'.fresh = FALSE /\ good'
       \/ ~Same(snap[c]) /\ file' = file /\ rev' = rev /\ good' = good

LEMMA Saves ==
    ASSUME TypeOK, NEW c \in Caller, Save(c)
    PROVE  SaveFact(c)
<1>1. snap[c] \in Bundle /\ rev \in Nat
  BY DEF TypeOK
<1>4. rev + 1 \in Nat
  BY <1>1
<1>2. CASE Same(snap[c])
  <2>1. /\ rev' = rev + 1
        /\ file' = [[snap[c] EXCEPT !.token = rev + 1, !.live = TRUE, !.state = 0,
                                    !.fresh = FALSE] EXCEPT !.rev = rev + 1]
    BY <1>2 DEF Save, SaveRefreshed, Write
  <2>2. /\ file'.rev = rev + 1 /\ file'.app = snap[c].app
        /\ file'.gen = snap[c].gen /\ file'.token = rev + 1 /\ file'.state = 0
        /\ file'.fresh = FALSE
    BY <1>1, <2>1 DEF Bundle
  <2>3. [snap[c] EXCEPT !.token = rev + 1, !.live = TRUE, !.state = 0, !.fresh = FALSE] \in Bundle
    BY <1>1, <1>4, Refreshed, Zenon
  <2>4. file' \in Bundle
    BY <1>4, <2>1, <2>3, Revised, Zenon
  <2>5. /\ pc[c] = "replied" /\ good' = TRUE /\ Return(c, rev + 1)
        /\ UNCHANGED <<spent, pages, records, faults, choice, lost, muted>>
    BY <1>2 DEF Save, SaveRefreshed
  <2>. QED
    BY <1>2, <2>1, <2>2, <2>4, <2>5 DEF SaveFact
<1>3. CASE ~Same(snap[c])
  BY <1>3 DEF Save, SaveRefreshed, SaveFact
<1>. QED
  BY <1>2, <1>3

BeginFact(p) ==     \* what a begun authorization writes, and leaves
    /\ page[p] = "begin" /\ Answer(p)
    /\ UNCHANGED <<good, spent, callers, records, faults, lost, muted>>
    /\ \/ /\ Same(read[p]) /\ file' \in Bundle /\ rev' = rev + 1 /\ file'.rev = rev + 1
          /\ file'.app = read[p].app /\ file'.gen = read[p].gen
          /\ file'.token = read[p].token /\ file'.state = rev + 1 /\ file'.fresh = TRUE
          /\ choice' = [gen |-> read[p].gen, state |-> rev + 1, fresh |-> TRUE]
       \/ file' = file /\ rev' = rev /\ choice' = choice

LEMMA Begins ==
    ASSUME TypeOK, NEW p \in Page, Begun(p)
    PROVE  BeginFact(p)
<1>1. read[p] \in Bundle /\ rev \in Nat
  BY DEF TypeOK
<1>4. rev + 1 \in Nat
  BY <1>1
<1>2. CASE Same(read[p])
  <2>1. /\ rev' = rev + 1
        /\ file' = [[read[p] EXCEPT !.state = rev + 1, !.fresh = TRUE] EXCEPT !.rev = rev + 1]
    BY <1>2 DEF Begun, Write
  <2>2. /\ file'.rev = rev + 1 /\ file'.app = read[p].app
        /\ file'.gen = read[p].gen /\ file'.token = read[p].token /\ file'.state = rev + 1
        /\ file'.fresh = TRUE
    BY <1>1, <2>1 DEF Bundle
  <2>4. [read[p] EXCEPT !.state = rev + 1, !.fresh = TRUE] \in Bundle
    BY <1>1, <1>4, Opened, Zenon
  <2>5. file' \in Bundle
    BY <1>4, <2>1, <2>4, Revised, Zenon
  <2>3. choice' = [gen |-> read[p].gen, state |-> rev + 1, fresh |-> TRUE]
    <3>1. Chosen(read[p].gen, rev + 1) /\ rev + 1 # 0
      BY <1>1, <1>2 DEF Begun
    <3>. QED
      BY <3>1 DEF Chosen
  <2>6. /\ page[p] = "begin" /\ Answer(p)
        /\ UNCHANGED <<good, spent, callers, records, faults, lost, muted>>
    BY DEF Begun
  <2>. QED
    BY <1>2, <2>1, <2>2, <2>3, <2>5, <2>6 DEF BeginFact
<1>3. CASE ~Same(read[p])
  BY <1>3 DEF Begun, BeginFact
<1>. QED
  BY <1>2, <1>3

GrantFact(p) ==     \* what an exchange writes, and leaves
    /\ page[p] = "wire" /\ good' \in {good, TRUE}
    /\ UNCHANGED <<spent, callers, records, faults, lost, muted>>
    /\ \/ Answer(p)
       \/ /\ page' = [page EXCEPT ![p] = "status"] /\ read' = [read EXCEPT ![p] = NoFile]
          /\ UNCHANGED <<prev, cur, event>>
    /\ \/ /\ Same(read[p]) /\ file' \in Bundle /\ rev' = rev + 1 /\ file'.rev = rev + 1
          /\ file'.app = read[p].app /\ file'.gen = rev + 1 /\ file'.token = rev + 1
          /\ file'.state = 0 /\ file'.fresh = FALSE /\ good'
          /\ choice' = [gen |-> rev + 1, state |-> 0, fresh |-> FALSE]
       \/ file' = file /\ rev' = rev /\ choice' = choice /\ good' = good

LEMMA Grants ==
    ASSUME TypeOK, NEW p \in Page, Grant(p)
    PROVE  GrantFact(p)
<1>1. read[p] \in Bundle /\ rev \in Nat
  BY DEF TypeOK
<1>4. rev + 1 \in Nat
  BY <1>1
<1>2. CASE Same(read[p])
  <2>1. /\ rev' = rev + 1
        /\ file' = [[Fresh(read[p].app) EXCEPT !.token = rev + 1, !.live = TRUE]
                       EXCEPT !.rev = rev + 1]
    BY <1>2 DEF Grant, GrantIf, Write
  <2>2. /\ file'.rev = rev + 1 /\ file'.app = read[p].app
        /\ file'.gen = rev + 1 /\ file'.token = rev + 1 /\ file'.state = 0
        /\ file'.fresh = FALSE
    BY <1>1, <2>1 DEF Bundle, Fresh, NoFile
  <2>4. Fresh(read[p].app) \in Bundle
    BY <1>1, <1>4 DEF Bundle, Fresh, NoFile
  <2>5. [Fresh(read[p].app) EXCEPT !.token = rev + 1, !.live = TRUE] \in Bundle
    BY <1>4, <2>4, Granted, Zenon
  <2>6. file' \in Bundle
    BY <1>4, <2>1, <2>5, Revised, Zenon
  <2>3. choice' = [gen |-> rev + 1, state |-> 0, fresh |-> FALSE]
    <3>1. Chosen(rev + 1, 0)
      BY <1>2 DEF Grant, GrantIf
    <3>. QED
      BY <3>1 DEF Chosen
  <2>7. /\ page[p] = "wire" /\ good' = TRUE
        /\ page' = [page EXCEPT ![p] = "status"] /\ read' = [read EXCEPT ![p] = NoFile]
        /\ UNCHANGED <<prev, cur, event, spent, callers, records, faults, lost, muted>>
    BY <1>2 DEF Grant, GrantIf
  <2>. QED
    BY <1>2, <2>1, <2>2, <2>3, <2>6, <2>7 DEF GrantFact
<1>3. CASE ~Same(read[p])
  BY <1>3 DEF Grant, GrantIf, GrantFact
<1>. QED
  BY <1>2, <1>3

LEMMA Renewed ==
    ASSUME TypeOK, NEW a \in App, Write(Fresh(a)), Chosen(rev + 1, 0)
    PROVE  /\ file' \in Bundle /\ rev' = rev + 1 /\ file'.rev = rev + 1 /\ file'.gen = rev + 1
           /\ file'.app = a /\ file'.token = 0 /\ file'.state = 0 /\ file'.fresh = FALSE
           /\ choice' = [gen |-> rev + 1, state |-> 0, fresh |-> FALSE]
<1>1. rev \in Nat /\ rev + 1 \in Nat
  BY DEF TypeOK
<1>2. rev' = rev + 1 /\ file' = [Fresh(a) EXCEPT !.rev = rev + 1]
  BY DEF Write
<1>3. /\ file'.rev = rev + 1 /\ file'.gen = rev + 1 /\ file'.app = a
      /\ file'.token = 0 /\ file'.state = 0 /\ file'.fresh = FALSE
  BY <1>1, <1>2 DEF Bundle, Fresh, NoFile
<1>5. Fresh(a) \in Bundle
  BY <1>1 DEF Bundle, Fresh, NoFile
<1>6. file' \in Bundle
  BY <1>1, <1>2, <1>5, Revised, Zenon
<1>4. choice' = [gen |-> rev + 1, state |-> 0, fresh |-> FALSE]
  BY <1>1 DEF Chosen
<1>. QED
  BY <1>2, <1>3, <1>4, <1>6

RenewFact ==        \* what new credentials or an unbinding write, and leave
    /\ UNCHANGED <<good, spent, callers, read, records, faults, lost, muted>>
    /\ file' \in Bundle /\ rev' = rev + 1 /\ file'.rev = rev + 1 /\ file'.gen = rev + 1
    /\ file'.app \in App /\ file'.token = 0 /\ file'.state = 0 /\ file'.fresh = FALSE
    /\ choice' = [gen |-> rev + 1, state |-> 0, fresh |-> FALSE]
    /\ \/ UNCHANGED <<page, prev, cur, event>>
       \/ \E p \in Page, i \in Identity : Announcing(p, Id, i, "saved")

LEMMA Renews ==
    ASSUME TypeOK, NEW p \in Page,
           Unbind(p) \/ \E a \in App : Credentials(p, a)
    PROVE  RenewFact
<1>1. CASE Unbind(p)
  <2>1. /\ file.app \in App /\ Write(Fresh(file.app)) /\ Chosen(rev + 1, 0)
        /\ UNCHANGED <<good, spent, callers, pages, records, faults, lost, muted>>
    BY <1>1 DEF Unbind, TypeOK
  <2>. QED
    BY <2>1, Renewed DEF RenewFact, pages
<1>2. ASSUME NEW a \in App, Credentials(p, a) PROVE RenewFact
  <2>1. /\ Write(Fresh(a)) /\ Chosen(rev + 1, 0)
        /\ Announcing(p, Id, [app |-> a, gen |-> rev + 1], "saved")
        /\ UNCHANGED <<good, spent, callers, records, faults, lost, muted>>
    BY <1>2 DEF Credentials
  <2>2. [app |-> a, gen |-> rev + 1] \in Identity
    BY DEF TypeOK, Identity
  <2>3. read' = read
    BY <2>1 DEF Announcing
  <2>. QED
    BY <2>1, <2>2, <2>3, Renewed DEF RenewFact
<1>. QED
  BY <1>1, <1>2

LEMMA Ages ==       \* time changes no name
    ASSUME TypeOK, Expires \/ PendingExpires
    PROVE  /\ file' \in Bundle /\ file'.app = file.app /\ file'.rev = file.rev
           /\ file'.gen = file.gen /\ file'.token = file.token /\ file'.state = file.state
           /\ file'.fresh => file.fresh
           /\ \/ PendingExpires /\ choice'.fresh = FALSE /\ choice'.gen = choice.gen
              \/ file'.fresh = file.fresh /\ choice' = choice
<1>1. file \in Bundle /\ choice \in [gen : Nat, state : Nat, fresh : BOOLEAN]
  BY DEF TypeOK
<1>2. CASE Expires
  <2>1. file' = [file EXCEPT !.live = FALSE] /\ choice' = choice
    BY <1>2 DEF Expires
  <2>. QED
    BY <1>1, <2>1 DEF Bundle
<1>3. CASE PendingExpires
  <2>1. file' = [file EXCEPT !.fresh = FALSE] /\ choice' = [choice EXCEPT !.fresh = FALSE]
    BY <1>3 DEF PendingExpires
  <2>. QED
    BY <1>1, <1>3, <2>1 DEF Bundle
<1>. QED
  BY <1>2, <1>3

LEMMA TypeKept ==
    ASSUME TypeOK, Snapshots, Next
    PROVE  TypeOK'
<1>0. Fields
  BY Known
<1>p. FileTyped /\ CallersTyped /\ PagesTyped /\ RecordsTyped
  BY Parts
<1>1. ASSUME NEW c \in Caller, Ask(c) PROVE TypeOK'
  BY <1>0, <1>1, BoundAssumption DEF Ask, callers, pages, records, TypeOK, Saved, Bundle,
     NoFile, Identity, NoId, Id
<1>2. ASSUME NEW c \in Caller, Refused(c) PROVE TypeOK'
  BY <1>0, <1>2, BoundAssumption DEF Refused, callers, pages, records, TypeOK, Saved, Bundle,
     NoFile, Identity, NoId, Id
<1>3. ASSUME NEW c \in Caller, Answered(c) PROVE TypeOK'
  BY <1>0, <1>3, BoundAssumption DEF Answered, callers, pages, records, TypeOK, Saved,
     Bundle, NoFile, Identity, NoId, Id
<1>4. ASSUME NEW c \in Caller, Enter(c) PROVE TypeOK'
  <2>1. /\ \/ \E r \in {0, file.rev} : Return(c, r)
           \/ /\ \E l \in {"failed", "wire"} : pc' = [pc EXCEPT ![c] = l]
              /\ snap' = [snap EXCEPT ![c] = file] /\ UNCHANGED held
              /\ force' = [force EXCEPT ![c] = FALSE] /\ observed' = [observed EXCEPT ![c] = 0]
        /\ UNCHANGED <<file, rev, good, spent, pages, records, faults, choice, lost, muted>>
    BY <1>4 DEF Enter, EnterIf
  <2>2. FileTyped'
    BY <1>0, <1>p, <2>1 DEF Fields, FileTyped, Saved, Same, Snapshots, Matches
  <2>3. CallersTyped'
    <3>1. CASE \E r \in {0, file.rev} : Return(c, r)
      BY <1>0, <1>p, <3>1, Returned DEF Fields
    <3>2. CASE ~\E r \in {0, file.rev} : Return(c, r)
      <4>1. pc' \in [Caller -> {"idle", "wait", "wire", "replied", "failed"}]
        BY <1>p, <2>1, <3>2 DEF CallersTyped
      <4>2. snap' \in [Caller -> Bundle] /\ held' \in [Caller -> Nat]
        BY <1>p, <2>1, <3>2 DEF FileTyped, CallersTyped
      <4>3. force' \in [Caller -> BOOLEAN] /\ observed' \in [Caller -> Nat]
        <5>1. force' = [force EXCEPT ![c] = FALSE] /\ observed' = [observed EXCEPT ![c] = 0]
          BY <2>1, <3>2, Zenon
        <5>. QED
          BY <1>p, <5>1 DEF CallersTyped
      <4>. QED
        BY <4>1, <4>2, <4>3 DEF CallersTyped
    <3>. QED
      BY <3>1, <3>2
  <2>4. PagesTyped'
    BY <1>0, <1>p, <2>1 DEF Return, pages, Fields, FileTyped, PagesTyped
  <2>5. RecordsTyped'
    BY <1>p, <2>1, BoundAssumption DEF records, RecordsTyped
  <2>. QED
    BY <2>2, <2>3, <2>4, <2>5, Parts
<1>5. ASSUME NEW c \in Caller, Exchanged(c) PROVE TypeOK'
  <2>1. /\ spent' \in {spent, spent \cup {snap[c].token}}
        /\ \E l \in {"failed", "replied"} : pc' = [pc EXCEPT ![c] = l]
        /\ UNCHANGED <<faults, lost>> \/ (Fault /\ lost' = TRUE)
        /\ UNCHANGED <<file, rev, good, force, observed, held, snap, pages, records, choice, muted>>
    BY <1>5 DEF Exchanged
  <2>2. FileTyped'
    BY <1>0, <1>p, <2>1 DEF Fields, FileTyped, Saved, Same, Snapshots, Matches
  <2>3. CallersTyped'
    BY <1>0, <1>p, <2>1 DEF Fault, callers, Fields, FileTyped, CallersTyped
  <2>4. PagesTyped'
    BY <1>0, <1>p, <2>1 DEF Fault, pages, Fields, FileTyped, PagesTyped
  <2>5. RecordsTyped'
    <3>1. faults' \in 0..MaxFault
      <4>1. faults' = faults \/ (faults < MaxFault /\ faults' = faults + 1)
        BY <2>1 DEF Fault
      <4>. QED
        BY <1>p, <4>1, BoundAssumption DEF RecordsTyped
    <3>2. lost' \in BOOLEAN
      BY <1>p, <2>1 DEF RecordsTyped
    <3>. QED
      BY <1>p, <2>1, <3>1, <3>2 DEF records, RecordsTyped
  <2>. QED
    BY <2>2, <2>3, <2>4, <2>5, Parts
<1>6. ASSUME NEW c \in Caller, Unsent(c) PROVE TypeOK'
  BY <1>0, <1>6, BoundAssumption DEF Unsent, Fault, callers, pages, records, TypeOK, Saved,
     Bundle, NoFile, Identity, NoId, Id
<1>7. ASSUME NEW c \in Caller, Save(c) PROVE TypeOK'
  <2>1. SaveFact(c)
    BY <1>7, Saves
  <2>2. FileTyped'
    BY <1>0, <1>p, <2>1 DEF SaveFact, Fields, FileTyped, Saved, Same, Snapshots, Matches
  <2>3. CallersTyped'
    BY <1>0, <1>p, <2>1 DEF SaveFact, Return, callers, Fields, FileTyped, CallersTyped
  <2>4. PagesTyped'
    BY <1>0, <1>p, <2>1 DEF SaveFact, Return, pages, Fields, FileTyped, PagesTyped
  <2>5. RecordsTyped'
    BY <1>p, <2>1, BoundAssumption DEF SaveFact, records, RecordsTyped
  <2>. QED
    BY <2>2, <2>3, <2>4, <2>5, Parts
<1>8. ASSUME NEW c \in Caller, Failed(c) PROVE TypeOK'
  BY <1>0, <1>8, BoundAssumption DEF Failed, Return, callers, pages, records, TypeOK, Saved,
     Bundle, NoFile, Identity, NoId, Id
<1>9. ASSUME NEW p \in Page, NEW a \in App, Credentials(p, a) PROVE TypeOK'
  <2>1. RenewFact
    BY <1>9, Renews
  <2>2. FileTyped'
    BY <1>0, <1>p, <2>1 DEF RenewFact, Fields, FileTyped, Saved, Same, Snapshots, Matches
  <2>3. CallersTyped'
    BY <1>0, <1>p, <2>1 DEF RenewFact, Announcing, callers, Fields, FileTyped, CallersTyped
  <2>4. PagesTyped'
    <3>1. ASSUME NEW q \in Page, NEW i \in Identity, Announcing(q, Id, i, "saved")
          PROVE  PagesTyped'
      BY <1>0, <1>p, <3>1, Announced DEF Fields
    <3>2. ASSUME UNCHANGED <<page, prev, cur, event, read>> PROVE PagesTyped'
      BY <1>p, <3>2 DEF PagesTyped
    <3>. QED
      BY <2>1, <3>1, <3>2 DEF RenewFact
  <2>5. RecordsTyped'
    BY <1>p, <2>1, BoundAssumption DEF RenewFact, records, RecordsTyped
  <2>. QED
    BY <2>2, <2>3, <2>4, <2>5, Parts
<1>10. ASSUME NEW p \in Page, Unbind(p) PROVE TypeOK'
  <2>1. RenewFact
    BY <1>10, Renews
  <2>2. FileTyped'
    BY <1>0, <1>p, <2>1 DEF RenewFact, Fields, FileTyped, Saved, Same, Snapshots, Matches
  <2>3. CallersTyped'
    BY <1>0, <1>p, <2>1 DEF RenewFact, Announcing, callers, Fields, FileTyped, CallersTyped
  <2>4. PagesTyped'
    <3>1. ASSUME NEW q \in Page, NEW i \in Identity, Announcing(q, Id, i, "saved")
          PROVE  PagesTyped'
      BY <1>0, <1>p, <3>1, Announced DEF Fields
    <3>2. ASSUME UNCHANGED <<page, prev, cur, event, read>> PROVE PagesTyped'
      BY <1>p, <3>2 DEF PagesTyped
    <3>. QED
      BY <2>1, <3>1, <3>2 DEF RenewFact
  <2>5. RecordsTyped'
    BY <1>p, <2>1, BoundAssumption DEF RenewFact, records, RecordsTyped
  <2>. QED
    BY <2>2, <2>3, <2>4, <2>5, Parts
<1>11. ASSUME NEW p \in Page, Disconnect(p) PROVE TypeOK'
  BY <1>0, <1>11, BoundAssumption DEF Disconnect, callers, pages, records, TypeOK, Saved,
     Bundle, NoFile, Identity, NoId, Id
<1>12. ASSUME NEW p \in Page, Remove(p) PROVE TypeOK'
  BY <1>0, <1>12, BoundAssumption DEF Remove, Chosen, Announcing, callers, pages, records,
     TypeOK, Saved, Bundle, NoFile, Identity, NoId, Id
<1>13. ASSUME NEW p \in Page, Begin(p) PROVE TypeOK'
  BY <1>0, <1>13, BoundAssumption DEF Begin, callers, pages, records, TypeOK, Saved, Bundle,
     NoFile, Identity, NoId, Id
<1>14. ASSUME NEW p \in Page, Begun(p) PROVE TypeOK'
  <2>1. BeginFact(p)
    BY <1>14, Begins
  <2>2. FileTyped'
    <3>1. choice' \in [gen : Nat, state : Nat, fresh : BOOLEAN]
      <4>1. CASE choice' = choice
        BY <1>p, <4>1 DEF FileTyped
      <4>2. CASE choice' = [gen |-> read[p].gen, state |-> rev + 1, fresh |-> TRUE]
        BY <1>0, <4>2 DEF Fields
      <4>. QED
        BY <2>1, <4>1, <4>2 DEF BeginFact
    <3>2. file' \in Bundle /\ rev' \in Nat /\ good' \in BOOLEAN /\ spent' \subseteq Nat
      BY <1>0, <1>p, <2>1 DEF BeginFact, Fields, FileTyped
    <3>3. Saved' => file'.app \in App
      BY <1>0, <1>p, <2>1 DEF BeginFact, FileTyped, Saved, Same, Snapshots, Matches
    <3>. QED
      BY <3>1, <3>2, <3>3 DEF FileTyped
  <2>3. CallersTyped'
    BY <1>0, <1>p, <2>1 DEF BeginFact, Answer, callers, Fields, FileTyped, CallersTyped
  <2>4. PagesTyped'
    BY <1>0, <1>p, <2>1 DEF BeginFact, Answer, pages, Fields, FileTyped, PagesTyped
  <2>5. RecordsTyped'
    BY <1>p, <2>1, BoundAssumption DEF BeginFact, records, RecordsTyped
  <2>. QED
    BY <2>2, <2>3, <2>4, <2>5, Parts
<1>15. ASSUME NEW p \in Page, Finish(p) PROVE TypeOK'
  BY <1>0, <1>15, BoundAssumption DEF Finish, Pending, callers, pages, records, TypeOK,
     Saved, Bundle, NoFile, Identity, NoId, Id
<1>16. ASSUME NEW p \in Page, Exchange(p) PROVE TypeOK'
  <2>1. /\ \/ Answer(p)
           \/ /\ page' = [page EXCEPT ![p] = "wire"] /\ read' = [read EXCEPT ![p] = file]
              /\ UNCHANGED <<prev, cur, event>>
        /\ UNCHANGED <<file, rev, good, spent, callers, records, faults, choice, lost, muted>>
    BY <1>16 DEF Exchange
  <2>2. FileTyped'
    BY <1>0, <1>p, <2>1 DEF Fields, FileTyped, Saved, Same, Snapshots, Matches
  <2>3. CallersTyped'
    BY <1>0, <1>p, <2>1 DEF Answer, callers, Fields, FileTyped, CallersTyped
  <2>4. PagesTyped'
    <3>1. CASE Answer(p)
      BY <1>0, <1>p, <3>1, Replied
    <3>2. CASE ~Answer(p)
      BY <1>0, <1>p, <2>1, <3>2 DEF FileTyped, PagesTyped, Fields
    <3>. QED
      BY <3>1, <3>2
  <2>5. RecordsTyped'
    BY <1>p, <2>1, BoundAssumption DEF records, RecordsTyped
  <2>. QED
    BY <2>2, <2>3, <2>4, <2>5, Parts
<1>17. ASSUME NEW p \in Page, Denied(p) PROVE TypeOK'
  BY <1>0, <1>17, BoundAssumption DEF Denied, Answer, Fault, callers, pages, records, TypeOK,
     Saved, Bundle, NoFile, Identity, NoId, Id
<1>18. ASSUME NEW p \in Page, Grant(p) PROVE TypeOK'
  <2>1. GrantFact(p)
    BY <1>18, Grants
  <2>2. FileTyped'
    <3>1. choice' \in [gen : Nat, state : Nat, fresh : BOOLEAN]
      <4>1. CASE choice' = choice
        BY <1>p, <4>1 DEF FileTyped
      <4>2. CASE choice' = [gen |-> rev + 1, state |-> 0, fresh |-> FALSE]
        BY <1>0, <4>2 DEF Fields
      <4>. QED
        BY <2>1, <4>1, <4>2 DEF GrantFact
    <3>2. file' \in Bundle /\ rev' \in Nat /\ good' \in BOOLEAN /\ spent' \subseteq Nat
      BY <1>0, <1>p, <2>1 DEF GrantFact, Fields, FileTyped
    <3>3. Saved' => file'.app \in App
      BY <1>0, <1>p, <2>1 DEF GrantFact, FileTyped, Saved, Same, Snapshots, Matches
    <3>. QED
      BY <3>1, <3>2, <3>3 DEF FileTyped
  <2>3. CallersTyped'
    BY <1>0, <1>p, <2>1 DEF GrantFact, Answer, callers, Fields, FileTyped, CallersTyped
  <2>4. PagesTyped'
    <3>1. CASE Answer(p)
      BY <1>0, <1>p, <3>1, Replied
    <3>2. CASE ~Answer(p)
      BY <1>0, <1>p, <2>1, <3>2 DEF GrantFact, FileTyped, PagesTyped, Fields
    <3>. QED
      BY <3>1, <3>2
  <2>5. RecordsTyped'
    BY <1>p, <2>1, BoundAssumption DEF GrantFact, records, RecordsTyped
  <2>. QED
    BY <2>2, <2>3, <2>4, <2>5, Parts
<1>19. ASSUME NEW p \in Page, Status(p) PROVE TypeOK'
  <2>1. /\ Answer(p) \/ Announcing(p, prev[p], Id, "authorized")
        /\ UNCHANGED <<file, rev, good, spent, callers, records, faults, choice, lost, muted>>
    BY <1>19 DEF Status
  <2>2. FileTyped'
    BY <1>0, <1>p, <2>1 DEF Fields, FileTyped, Saved, Same, Snapshots, Matches
  <2>3. CallersTyped'
    BY <1>0, <1>p, <2>1 DEF Answer, Announcing, callers, Fields, FileTyped, CallersTyped
  <2>4. PagesTyped'
    <3>1. prev[p] \in Identity /\ Id \in Identity
      BY <1>0, <1>p DEF PagesTyped, Fields
    <3>. QED
      BY <1>0, <1>p, <2>1, <3>1, Replied, Announced
  <2>5. RecordsTyped'
    BY <1>p, <2>1, BoundAssumption DEF records, RecordsTyped
  <2>. QED
    BY <2>2, <2>3, <2>4, <2>5, Parts
<1>20. ASSUME NEW p \in Page, Announce(p) PROVE TypeOK'
  BY <1>0, <1>20, BoundAssumption DEF Announce, Answer, callers, pages, records, TypeOK,
     Saved, Bundle, NoFile, Identity, NoId, Id
<1>21. ASSUME NEW p \in Page, AnnounceFails(p) PROVE TypeOK'
  BY <1>0, <1>21, BoundAssumption DEF AnnounceFails, Answer, Fault, callers, pages, records,
     TypeOK, Saved, Bundle, NoFile, Identity, NoId, Id
<1>22. CASE ReadPlans
  BY <1>0, <1>22, BoundAssumption DEF ReadPlans, callers, pages, records, TypeOK, Saved,
     Bundle, NoFile, Identity, NoId, Id
<1>23. CASE AddAccount
  BY <1>0, <1>23, BoundAssumption DEF AddAccount, Reads, callers, pages, records, TypeOK,
     Saved, Bundle, NoFile, Identity, NoId, Id
<1>24. CASE SavePlans
  BY <1>0, <1>24, BoundAssumption DEF SavePlans, Reads, callers, pages, records, TypeOK,
     Saved, Bundle, NoFile, Identity, NoId, Id
<1>25. CASE Superseded
  BY <1>0, <1>25, BoundAssumption DEF Superseded, Reads, callers, pages, records, TypeOK,
     Saved, Bundle, NoFile, Identity, NoId, Id
<1>26. CASE Expires
  BY <1>0, <1>26, BoundAssumption, Ages DEF Expires, callers, pages, records, TypeOK, Saved,
     Bundle, NoFile, Identity, NoId, Id
<1>27. CASE Withdrawn
  BY <1>0, <1>27, BoundAssumption DEF Withdrawn, callers, pages, records, TypeOK, Saved,
     Bundle, NoFile, Identity, NoId, Id
<1>28. CASE PendingExpires
  BY <1>0, <1>28, BoundAssumption, Ages DEF PendingExpires, Pending, callers, pages, records,
     TypeOK, Saved, Bundle, NoFile, Identity, NoId, Id
<1>29. CASE Restart
  BY <1>0, <1>29, BoundAssumption DEF Restart, Fault, callers, pages, records, TypeOK, Saved,
     Bundle, NoFile, Identity, NoId, Id
<1>. QED
  BY <1>1, <1>2, <1>3, <1>4, <1>5, <1>6, <1>7, <1>8, <1>9, <1>10, <1>11, <1>12, <1>13, <1>14,
     <1>15, <1>16, <1>17, <1>18, <1>19, <1>20, <1>21, <1>22, <1>23, <1>24, <1>25, <1>26,
     <1>27, <1>28, <1>29 DEF Next, Requests, Pages

LEMMA NumbersKept ==
    ASSUME TypeOK, Numbers, OneRefresh, Next
    PROVE  Numbers'
<1>0. Fields
  BY Known
<1>1. ASSUME NEW c \in Caller, Ask(c) PROVE Numbers'
  BY <1>0, <1>1 DEF Ask, callers, pages, records, Numbers, Fields, Saved
<1>2. ASSUME NEW c \in Caller, Refused(c) PROVE Numbers'
  BY <1>0, <1>2 DEF Refused, callers, pages, records, Numbers, Fields, Saved
<1>3. ASSUME NEW c \in Caller, Answered(c) PROVE Numbers'
  BY <1>0, <1>3 DEF Answered, callers, pages, records, Numbers, Fields, Saved
<1>4. ASSUME NEW c \in Caller, Enter(c) PROVE Numbers'
  BY <1>0, <1>4 DEF Enter, EnterIf, Reusable, Return, Refreshing, Pending, callers, pages,
     records, Numbers, Fields, Saved
<1>5. ASSUME NEW c \in Caller, Exchanged(c) PROVE Numbers'
  <2>1. spent' \subseteq spent \cup {snap[c].token} /\ UNCHANGED <<file, rev, snap, held, observed, read>>
    BY <1>5 DEF Exchanged, pages
  <2>2. spent' # spent => pc[c] = "wire"
    BY <1>5 DEF Exchanged
  <2>3. pc[c] = "wire" => snap[c].token # 0
    BY DEF OneRefresh
  <2>. QED
    BY <1>0, <2>1, <2>2, <2>3 DEF Numbers, Fields
<1>6. ASSUME NEW c \in Caller, Unsent(c) PROVE Numbers'
  BY <1>0, <1>6 DEF Unsent, Fault, callers, pages, records, Numbers, Fields, Saved
<1>7. ASSUME NEW c \in Caller, Save(c) PROVE Numbers'
  <2>1. SaveFact(c)
    BY <1>7, Saves
  <2>2. file'.rev <= rev' /\ file'.gen <= rev' /\ file'.token <= rev' /\ rev <= rev'
    BY <1>0, <2>1 DEF SaveFact, Numbers, Fields, Same
  <2>3. \A d \in Caller : snap'[d] \in {snap[d], NoFile}
    BY <1>0, <2>1 DEF SaveFact, Return, Fields, callers
  <2>4. \A q \in Page : read'[q] \in {read[q], NoFile}
    BY <1>0, <2>1 DEF SaveFact, Return, Fields, pages
  <2>5. \A d \in Caller : /\ held'[d] \in {held[d], 0, file.rev, file'.rev}
                          /\ observed'[d] \in {observed[d], 0}
    BY <1>0, <2>1 DEF SaveFact, Return, Fields, callers
  <2>6. spent' = spent /\ rev' \in {rev, rev + 1}
    BY <2>1 DEF SaveFact
  <2>7. \A d \in Caller : held'[d] <= rev' /\ observed'[d] <= rev'
    BY <1>0, <2>2, <2>5, <2>6 DEF Numbers, Fields
  <2>8. \A d \in Caller : snap'[d].rev <= rev' /\ snap'[d].gen <= rev' /\ snap'[d].token <= rev'
    BY <1>0, <2>3, <2>6 DEF Numbers, Fields
  <2>9. \A q \in Page : read'[q].rev <= rev' /\ read'[q].gen <= rev' /\ read'[q].token <= rev'
    BY <1>0, <2>4, <2>6 DEF Numbers, Fields
  <2>10. \A t \in spent' : 1 <= t /\ t <= rev'
    BY <1>0, <2>6 DEF Numbers, Fields
  <2>. QED
    BY <2>2, <2>7, <2>8, <2>9, <2>10 DEF Numbers
<1>8. ASSUME NEW c \in Caller, Failed(c) PROVE Numbers'
  BY <1>0, <1>8 DEF Failed, Return, callers, pages, records, Numbers, Fields, Saved
<1>9. ASSUME NEW p \in Page, NEW a \in App, Credentials(p, a) PROVE Numbers'
  <2>1. RenewFact
    BY <1>9, Renews
  <2>2. file'.rev <= rev' /\ file'.gen <= rev' /\ file'.token <= rev' /\ rev <= rev'
    BY <1>0, <2>1 DEF RenewFact, Numbers, Fields, Same
  <2>3. \A d \in Caller : snap'[d] \in {snap[d], NoFile}
    BY <1>0, <2>1 DEF RenewFact, Announcing, Fields, callers
  <2>4. \A q \in Page : read'[q] \in {read[q], NoFile}
    BY <1>0, <2>1 DEF RenewFact, Announcing, Fields, pages
  <2>5. \A d \in Caller : /\ held'[d] \in {held[d], 0, file.rev, file'.rev}
                          /\ observed'[d] \in {observed[d], 0}
    BY <1>0, <2>1 DEF RenewFact, Announcing, Fields, callers
  <2>6. spent' = spent /\ rev' \in {rev, rev + 1}
    BY <2>1 DEF RenewFact
  <2>7. \A d \in Caller : held'[d] <= rev' /\ observed'[d] <= rev'
    BY <1>0, <2>2, <2>5, <2>6 DEF Numbers, Fields
  <2>8. \A d \in Caller : snap'[d].rev <= rev' /\ snap'[d].gen <= rev' /\ snap'[d].token <= rev'
    BY <1>0, <2>3, <2>6 DEF Numbers, Fields
  <2>9. \A q \in Page : read'[q].rev <= rev' /\ read'[q].gen <= rev' /\ read'[q].token <= rev'
    BY <1>0, <2>4, <2>6 DEF Numbers, Fields
  <2>10. \A t \in spent' : 1 <= t /\ t <= rev'
    BY <1>0, <2>6 DEF Numbers, Fields
  <2>. QED
    BY <2>2, <2>7, <2>8, <2>9, <2>10 DEF Numbers
<1>10. ASSUME NEW p \in Page, Unbind(p) PROVE Numbers'
  <2>1. RenewFact
    BY <1>10, Renews
  <2>2. file'.rev <= rev' /\ file'.gen <= rev' /\ file'.token <= rev' /\ rev <= rev'
    BY <1>0, <2>1 DEF RenewFact, Numbers, Fields, Same
  <2>3. \A d \in Caller : snap'[d] \in {snap[d], NoFile}
    BY <1>0, <2>1 DEF RenewFact, Announcing, Fields, callers
  <2>4. \A q \in Page : read'[q] \in {read[q], NoFile}
    BY <1>0, <2>1 DEF RenewFact, Announcing, Fields, pages
  <2>5. \A d \in Caller : /\ held'[d] \in {held[d], 0, file.rev, file'.rev}
                          /\ observed'[d] \in {observed[d], 0}
    BY <1>0, <2>1 DEF RenewFact, Announcing, Fields, callers
  <2>6. spent' = spent /\ rev' \in {rev, rev + 1}
    BY <2>1 DEF RenewFact
  <2>7. \A d \in Caller : held'[d] <= rev' /\ observed'[d] <= rev'
    BY <1>0, <2>2, <2>5, <2>6 DEF Numbers, Fields
  <2>8. \A d \in Caller : snap'[d].rev <= rev' /\ snap'[d].gen <= rev' /\ snap'[d].token <= rev'
    BY <1>0, <2>3, <2>6 DEF Numbers, Fields
  <2>9. \A q \in Page : read'[q].rev <= rev' /\ read'[q].gen <= rev' /\ read'[q].token <= rev'
    BY <1>0, <2>4, <2>6 DEF Numbers, Fields
  <2>10. \A t \in spent' : 1 <= t /\ t <= rev'
    BY <1>0, <2>6 DEF Numbers, Fields
  <2>. QED
    BY <2>2, <2>7, <2>8, <2>9, <2>10 DEF Numbers
<1>11. ASSUME NEW p \in Page, Disconnect(p) PROVE Numbers'
  BY <1>0, <1>11 DEF Disconnect, callers, pages, records, Numbers, Fields, Saved
<1>12. ASSUME NEW p \in Page, Remove(p) PROVE Numbers'
  BY <1>0, <1>12 DEF Remove, Chosen, Announcing, callers, pages, records, Numbers, Fields,
     Saved
<1>13. ASSUME NEW p \in Page, Begin(p) PROVE Numbers'
  BY <1>0, <1>13 DEF Begin, callers, pages, records, Numbers, Fields, Saved
<1>14. ASSUME NEW p \in Page, Begun(p) PROVE Numbers'
  <2>1. BeginFact(p)
    BY <1>14, Begins
  <2>2. file'.rev <= rev' /\ file'.gen <= rev' /\ file'.token <= rev' /\ rev <= rev'
    BY <1>0, <2>1 DEF BeginFact, Numbers, Fields, Same
  <2>3. \A d \in Caller : snap'[d] \in {snap[d], NoFile}
    BY <1>0, <2>1 DEF BeginFact, Answer, Fields, callers
  <2>4. \A q \in Page : read'[q] \in {read[q], NoFile}
    BY <1>0, <2>1 DEF BeginFact, Answer, Fields, pages
  <2>5. \A d \in Caller : /\ held'[d] \in {held[d], 0, file.rev, file'.rev}
                          /\ observed'[d] \in {observed[d], 0}
    BY <1>0, <2>1 DEF BeginFact, Answer, Fields, callers
  <2>6. spent' = spent /\ rev' \in {rev, rev + 1}
    BY <2>1 DEF BeginFact
  <2>7. \A d \in Caller : held'[d] <= rev' /\ observed'[d] <= rev'
    BY <1>0, <2>2, <2>5, <2>6 DEF Numbers, Fields
  <2>8. \A d \in Caller : snap'[d].rev <= rev' /\ snap'[d].gen <= rev' /\ snap'[d].token <= rev'
    BY <1>0, <2>3, <2>6 DEF Numbers, Fields
  <2>9. \A q \in Page : read'[q].rev <= rev' /\ read'[q].gen <= rev' /\ read'[q].token <= rev'
    BY <1>0, <2>4, <2>6 DEF Numbers, Fields
  <2>10. \A t \in spent' : 1 <= t /\ t <= rev'
    BY <1>0, <2>6 DEF Numbers, Fields
  <2>. QED
    BY <2>2, <2>7, <2>8, <2>9, <2>10 DEF Numbers
<1>15. ASSUME NEW p \in Page, Finish(p) PROVE Numbers'
  BY <1>0, <1>15 DEF Finish, Pending, callers, pages, records, Numbers, Fields, Saved
<1>16. ASSUME NEW p \in Page, Exchange(p) PROVE Numbers'
  BY <1>0, <1>16 DEF Exchange, Pending, Answer, callers, pages, records, Numbers, Fields,
     Saved
<1>17. ASSUME NEW p \in Page, Denied(p) PROVE Numbers'
  BY <1>0, <1>17 DEF Denied, Answer, Fault, callers, pages, records, Numbers, Fields, Saved
<1>18. ASSUME NEW p \in Page, Grant(p) PROVE Numbers'
  <2>1. GrantFact(p)
    BY <1>18, Grants
  <2>2. file'.rev <= rev' /\ file'.gen <= rev' /\ file'.token <= rev' /\ rev <= rev'
    BY <1>0, <2>1 DEF GrantFact, Numbers, Fields, Same
  <2>3. \A d \in Caller : snap'[d] \in {snap[d], NoFile}
    BY <1>0, <2>1 DEF GrantFact, Answer, Fields, callers
  <2>4. \A q \in Page : read'[q] \in {read[q], NoFile}
    BY <1>0, <2>1 DEF GrantFact, Answer, Fields, pages
  <2>5. \A d \in Caller : /\ held'[d] \in {held[d], 0, file.rev, file'.rev}
                          /\ observed'[d] \in {observed[d], 0}
    BY <1>0, <2>1 DEF GrantFact, Answer, Fields, callers
  <2>6. spent' = spent /\ rev' \in {rev, rev + 1}
    BY <2>1 DEF GrantFact
  <2>7. \A d \in Caller : held'[d] <= rev' /\ observed'[d] <= rev'
    BY <1>0, <2>2, <2>5, <2>6 DEF Numbers, Fields
  <2>8. \A d \in Caller : snap'[d].rev <= rev' /\ snap'[d].gen <= rev' /\ snap'[d].token <= rev'
    BY <1>0, <2>3, <2>6 DEF Numbers, Fields
  <2>9. \A q \in Page : read'[q].rev <= rev' /\ read'[q].gen <= rev' /\ read'[q].token <= rev'
    BY <1>0, <2>4, <2>6 DEF Numbers, Fields
  <2>10. \A t \in spent' : 1 <= t /\ t <= rev'
    BY <1>0, <2>6 DEF Numbers, Fields
  <2>. QED
    BY <2>2, <2>7, <2>8, <2>9, <2>10 DEF Numbers
<1>19. ASSUME NEW p \in Page, Status(p) PROVE Numbers'
  BY <1>0, <1>19 DEF Status, Announcing, Answer, callers, pages, records, Numbers, Fields,
     Saved
<1>20. ASSUME NEW p \in Page, Announce(p) PROVE Numbers'
  BY <1>0, <1>20 DEF Announce, Answer, callers, pages, records, Numbers, Fields, Saved
<1>21. ASSUME NEW p \in Page, AnnounceFails(p) PROVE Numbers'
  BY <1>0, <1>21 DEF AnnounceFails, Answer, Fault, callers, pages, records, Numbers, Fields,
     Saved
<1>22. CASE ReadPlans
  BY <1>0, <1>22 DEF ReadPlans, callers, pages, records, Numbers, Fields, Saved
<1>23. CASE AddAccount
  BY <1>0, <1>23 DEF AddAccount, Reads, callers, pages, records, Numbers, Fields, Saved
<1>24. CASE SavePlans
  BY <1>0, <1>24 DEF SavePlans, Reads, callers, pages, records, Numbers, Fields, Saved
<1>25. CASE Superseded
  BY <1>0, <1>25 DEF Superseded, Reads, callers, pages, records, Numbers, Fields, Saved
<1>26. CASE Expires
  BY <1>0, <1>26, Ages DEF Expires, callers, pages, records, Numbers, Fields, Saved
<1>27. CASE Withdrawn
  BY <1>0, <1>27 DEF Withdrawn, callers, pages, records, Numbers, Fields, Saved
<1>28. CASE PendingExpires
  BY <1>0, <1>28, Ages DEF PendingExpires, Pending, callers, pages, records, Numbers, Fields,
     Saved
<1>29. CASE Restart
  BY <1>0, <1>29 DEF Restart, Fault, callers, pages, records, Numbers, Fields, Saved
<1>. QED
  BY <1>1, <1>2, <1>3, <1>4, <1>5, <1>6, <1>7, <1>8, <1>9, <1>10, <1>11, <1>12, <1>13, <1>14,
     <1>15, <1>16, <1>17, <1>18, <1>19, <1>20, <1>21, <1>22, <1>23, <1>24, <1>25, <1>26,
     <1>27, <1>28, <1>29 DEF Next, Requests, Pages

LEMMA SnapshotsKept ==
    ASSUME TypeOK, Numbers, Snapshots, Next
    PROVE  Snapshots'
<1>0. Fields
  BY Known
<1>1. ASSUME NEW c \in Caller, Ask(c) PROVE Snapshots'
  BY <1>0, <1>1 DEF Ask, callers, pages, records, Snapshots, Matches, Numbers, Same, Fields,
     Saved
<1>2. ASSUME NEW c \in Caller, Refused(c) PROVE Snapshots'
  BY <1>0, <1>2 DEF Refused, callers, pages, records, Snapshots, Matches, Numbers, Same,
     Fields, Saved
<1>3. ASSUME NEW c \in Caller, Answered(c) PROVE Snapshots'
  BY <1>0, <1>3 DEF Answered, callers, pages, records, Snapshots, Matches, Numbers, Same,
     Fields, Saved
<1>4. ASSUME NEW c \in Caller, Enter(c) PROVE Snapshots'
  BY <1>0, <1>4 DEF Enter, EnterIf, Reusable, Return, Refreshing, Pending, callers, pages,
     records, Snapshots, Matches, Numbers, Same, Fields, Saved
<1>5. ASSUME NEW c \in Caller, Exchanged(c) PROVE Snapshots'
  BY <1>0, <1>5 DEF Exchanged, Fault, callers, pages, records, Snapshots, Matches, Numbers,
     Same, Fields, Saved
<1>6. ASSUME NEW c \in Caller, Unsent(c) PROVE Snapshots'
  BY <1>0, <1>6 DEF Unsent, Fault, callers, pages, records, Snapshots, Matches, Numbers,
     Same, Fields, Saved
<1>7. ASSUME NEW c \in Caller, Save(c) PROVE Snapshots'
  <2>1. SaveFact(c)
    BY <1>7, Saves
  <2>. QED
    BY <1>0, <2>1 DEF SaveFact, Return, callers, pages, records, Snapshots, Matches, Numbers,
       Same, Fields, Saved
<1>8. ASSUME NEW c \in Caller, Failed(c) PROVE Snapshots'
  BY <1>0, <1>8 DEF Failed, Return, callers, pages, records, Snapshots, Matches, Numbers,
     Same, Fields, Saved
<1>9. ASSUME NEW p \in Page, NEW a \in App, Credentials(p, a) PROVE Snapshots'
  <2>1. RenewFact
    BY <1>9, Renews
  <2>. QED
    BY <1>0, <2>1 DEF RenewFact, Announcing, callers, pages, records, Snapshots, Matches,
       Numbers, Same, Fields, Saved
<1>10. ASSUME NEW p \in Page, Unbind(p) PROVE Snapshots'
  <2>1. RenewFact
    BY <1>10, Renews
  <2>. QED
    BY <1>0, <2>1 DEF RenewFact, Announcing, callers, pages, records, Snapshots, Matches,
       Numbers, Same, Fields, Saved
<1>11. ASSUME NEW p \in Page, Disconnect(p) PROVE Snapshots'
  BY <1>0, <1>11 DEF Disconnect, callers, pages, records, Snapshots, Matches, Numbers, Same,
     Fields, Saved
<1>12. ASSUME NEW p \in Page, Remove(p) PROVE Snapshots'
  BY <1>0, <1>12 DEF Remove, Chosen, Announcing, callers, pages, records, Snapshots, Matches,
     Numbers, Same, Fields, Saved
<1>13. ASSUME NEW p \in Page, Begin(p) PROVE Snapshots'
  BY <1>0, <1>13 DEF Begin, callers, pages, records, Snapshots, Matches, Numbers, Same,
     Fields, Saved
<1>14. ASSUME NEW p \in Page, Begun(p) PROVE Snapshots'
  <2>1. BeginFact(p)
    BY <1>14, Begins
  <2>. QED
    BY <1>0, <2>1 DEF BeginFact, Answer, callers, pages, records, Snapshots, Matches, Numbers,
       Same, Fields, Saved
<1>15. ASSUME NEW p \in Page, Finish(p) PROVE Snapshots'
  BY <1>0, <1>15 DEF Finish, Pending, callers, pages, records, Snapshots, Matches, Numbers,
     Same, Fields, Saved
<1>16. ASSUME NEW p \in Page, Exchange(p) PROVE Snapshots'
  BY <1>0, <1>16 DEF Exchange, Pending, Answer, callers, pages, records, Snapshots, Matches,
     Numbers, Same, Fields, Saved
<1>17. ASSUME NEW p \in Page, Denied(p) PROVE Snapshots'
  BY <1>0, <1>17 DEF Denied, Answer, Fault, callers, pages, records, Snapshots, Matches,
     Numbers, Same, Fields, Saved
<1>18. ASSUME NEW p \in Page, Grant(p) PROVE Snapshots'
  <2>1. GrantFact(p)
    BY <1>18, Grants
  <2>. QED
    BY <1>0, <2>1 DEF GrantFact, Answer, callers, pages, records, Snapshots, Matches, Numbers,
       Same, Fields, Saved
<1>19. ASSUME NEW p \in Page, Status(p) PROVE Snapshots'
  BY <1>0, <1>19 DEF Status, Announcing, Answer, callers, pages, records, Snapshots, Matches,
     Numbers, Same, Fields, Saved
<1>20. ASSUME NEW p \in Page, Announce(p) PROVE Snapshots'
  BY <1>0, <1>20 DEF Announce, Answer, callers, pages, records, Snapshots, Matches, Numbers,
     Same, Fields, Saved
<1>21. ASSUME NEW p \in Page, AnnounceFails(p) PROVE Snapshots'
  BY <1>0, <1>21 DEF AnnounceFails, Answer, Fault, callers, pages, records, Snapshots,
     Matches, Numbers, Same, Fields, Saved
<1>22. CASE ReadPlans
  BY <1>0, <1>22 DEF ReadPlans, callers, pages, records, Snapshots, Matches, Numbers, Same,
     Fields, Saved
<1>23. CASE AddAccount
  BY <1>0, <1>23 DEF AddAccount, Reads, callers, pages, records, Snapshots, Matches, Numbers,
     Same, Fields, Saved
<1>24. CASE SavePlans
  BY <1>0, <1>24 DEF SavePlans, Reads, callers, pages, records, Snapshots, Matches, Numbers,
     Same, Fields, Saved
<1>25. CASE Superseded
  BY <1>0, <1>25 DEF Superseded, Reads, callers, pages, records, Snapshots, Matches, Numbers,
     Same, Fields, Saved
<1>26. CASE Expires
  BY <1>0, <1>26, Ages DEF Expires, callers, pages, records, Snapshots, Matches, Numbers,
     Same, Fields, Saved
<1>27. CASE Withdrawn
  BY <1>0, <1>27 DEF Withdrawn, callers, pages, records, Snapshots, Matches, Numbers, Same,
     Fields, Saved
<1>28. CASE PendingExpires
  BY <1>0, <1>28, Ages DEF PendingExpires, Pending, callers, pages, records, Snapshots,
     Matches, Numbers, Same, Fields, Saved
<1>29. CASE Restart
  BY <1>0, <1>29 DEF Restart, Fault, callers, pages, records, Snapshots, Matches, Numbers,
     Same, Fields, Saved
<1>. QED
  BY <1>1, <1>2, <1>3, <1>4, <1>5, <1>6, <1>7, <1>8, <1>9, <1>10, <1>11, <1>12, <1>13, <1>14,
     <1>15, <1>16, <1>17, <1>18, <1>19, <1>20, <1>21, <1>22, <1>23, <1>24, <1>25, <1>26,
     <1>27, <1>28, <1>29 DEF Next, Requests, Pages

LEMMA OneRefreshKept ==
    ASSUME TypeOK, OneRefresh, Next
    PROVE  OneRefresh'
<1>0. Fields
  BY Known
<1>1. ASSUME NEW c \in Caller, Ask(c) PROVE OneRefresh'
  BY <1>0, <1>1 DEF Ask, callers, pages, records, OneRefresh, Fields, Saved
<1>2. ASSUME NEW c \in Caller, Refused(c) PROVE OneRefresh'
  BY <1>0, <1>2 DEF Refused, callers, pages, records, OneRefresh, Fields, Saved
<1>3. ASSUME NEW c \in Caller, Answered(c) PROVE OneRefresh'
  BY <1>0, <1>3 DEF Answered, callers, pages, records, OneRefresh, Fields, Saved
<1>4. ASSUME NEW c \in Caller, Enter(c) PROVE OneRefresh'
  BY <1>0, <1>4 DEF Enter, EnterIf, Reusable, Return, Refreshing, Pending, callers, pages,
     records, OneRefresh, Fields, Saved
<1>5. ASSUME NEW c \in Caller, Exchanged(c) PROVE OneRefresh'
  BY <1>0, <1>5 DEF Exchanged, Fault, callers, pages, records, OneRefresh, Fields, Saved
<1>6. ASSUME NEW c \in Caller, Unsent(c) PROVE OneRefresh'
  BY <1>0, <1>6 DEF Unsent, Fault, callers, pages, records, OneRefresh, Fields, Saved
<1>7. ASSUME NEW c \in Caller, Save(c) PROVE OneRefresh'
  <2>1. SaveFact(c)
    BY <1>7, Saves
  <2>. QED
    BY <1>0, <2>1 DEF SaveFact, Return, callers, pages, records, OneRefresh, Fields, Saved
<1>8. ASSUME NEW c \in Caller, Failed(c) PROVE OneRefresh'
  BY <1>0, <1>8 DEF Failed, Return, callers, pages, records, OneRefresh, Fields, Saved
<1>9. ASSUME NEW p \in Page, NEW a \in App, Credentials(p, a) PROVE OneRefresh'
  <2>1. RenewFact
    BY <1>9, Renews
  <2>. QED
    BY <1>0, <2>1 DEF RenewFact, Announcing, callers, pages, records, OneRefresh, Fields,
       Saved
<1>10. ASSUME NEW p \in Page, Unbind(p) PROVE OneRefresh'
  <2>1. RenewFact
    BY <1>10, Renews
  <2>. QED
    BY <1>0, <2>1 DEF RenewFact, Announcing, callers, pages, records, OneRefresh, Fields,
       Saved
<1>11. ASSUME NEW p \in Page, Disconnect(p) PROVE OneRefresh'
  BY <1>0, <1>11 DEF Disconnect, callers, pages, records, OneRefresh, Fields, Saved
<1>12. ASSUME NEW p \in Page, Remove(p) PROVE OneRefresh'
  BY <1>0, <1>12 DEF Remove, Chosen, Announcing, callers, pages, records, OneRefresh, Fields,
     Saved
<1>13. ASSUME NEW p \in Page, Begin(p) PROVE OneRefresh'
  BY <1>0, <1>13 DEF Begin, callers, pages, records, OneRefresh, Fields, Saved
<1>14. ASSUME NEW p \in Page, Begun(p) PROVE OneRefresh'
  <2>1. BeginFact(p)
    BY <1>14, Begins
  <2>. QED
    BY <1>0, <2>1 DEF BeginFact, Answer, callers, pages, records, OneRefresh, Fields, Saved
<1>15. ASSUME NEW p \in Page, Finish(p) PROVE OneRefresh'
  BY <1>0, <1>15 DEF Finish, Pending, callers, pages, records, OneRefresh, Fields, Saved
<1>16. ASSUME NEW p \in Page, Exchange(p) PROVE OneRefresh'
  BY <1>0, <1>16 DEF Exchange, Pending, Answer, callers, pages, records, OneRefresh, Fields,
     Saved
<1>17. ASSUME NEW p \in Page, Denied(p) PROVE OneRefresh'
  BY <1>0, <1>17 DEF Denied, Answer, Fault, callers, pages, records, OneRefresh, Fields,
     Saved
<1>18. ASSUME NEW p \in Page, Grant(p) PROVE OneRefresh'
  <2>1. GrantFact(p)
    BY <1>18, Grants
  <2>. QED
    BY <1>0, <2>1 DEF GrantFact, Answer, callers, pages, records, OneRefresh, Fields, Saved
<1>19. ASSUME NEW p \in Page, Status(p) PROVE OneRefresh'
  BY <1>0, <1>19 DEF Status, Announcing, Answer, callers, pages, records, OneRefresh, Fields,
     Saved
<1>20. ASSUME NEW p \in Page, Announce(p) PROVE OneRefresh'
  BY <1>0, <1>20 DEF Announce, Answer, callers, pages, records, OneRefresh, Fields, Saved
<1>21. ASSUME NEW p \in Page, AnnounceFails(p) PROVE OneRefresh'
  BY <1>0, <1>21 DEF AnnounceFails, Answer, Fault, callers, pages, records, OneRefresh,
     Fields, Saved
<1>22. CASE ReadPlans
  BY <1>0, <1>22 DEF ReadPlans, callers, pages, records, OneRefresh, Fields, Saved
<1>23. CASE AddAccount
  BY <1>0, <1>23 DEF AddAccount, Reads, callers, pages, records, OneRefresh, Fields, Saved
<1>24. CASE SavePlans
  BY <1>0, <1>24 DEF SavePlans, Reads, callers, pages, records, OneRefresh, Fields, Saved
<1>25. CASE Superseded
  BY <1>0, <1>25 DEF Superseded, Reads, callers, pages, records, OneRefresh, Fields, Saved
<1>26. CASE Expires
  BY <1>0, <1>26, Ages DEF Expires, callers, pages, records, OneRefresh, Fields, Saved
<1>27. CASE Withdrawn
  BY <1>0, <1>27 DEF Withdrawn, callers, pages, records, OneRefresh, Fields, Saved
<1>28. CASE PendingExpires
  BY <1>0, <1>28, Ages DEF PendingExpires, Pending, callers, pages, records, OneRefresh,
     Fields, Saved
<1>29. CASE Restart
  BY <1>0, <1>29 DEF Restart, Fault, callers, pages, records, OneRefresh, Fields, Saved
<1>. QED
  BY <1>1, <1>2, <1>3, <1>4, <1>5, <1>6, <1>7, <1>8, <1>9, <1>10, <1>11, <1>12, <1>13, <1>14,
     <1>15, <1>16, <1>17, <1>18, <1>19, <1>20, <1>21, <1>22, <1>23, <1>24, <1>25, <1>26,
     <1>27, <1>28, <1>29 DEF Next, Requests, Pages

LEMMA ChoiceKept ==
    ASSUME TypeOK, Numbers, Snapshots, OneRefresh, LatestChoiceStands, Waiting, Next
    PROVE  (LatestChoiceStands /\ Waiting)'
<1>0. Fields
  BY Known
<1>1. ASSUME NEW c \in Caller, Ask(c) PROVE (LatestChoiceStands /\ Waiting)'
  BY <1>0, <1>1 DEF Ask, callers, pages, records, LatestChoiceStands, Waiting, OneRefresh,
     Snapshots, Matches, Numbers, Same, Fields, Saved
<1>2. ASSUME NEW c \in Caller, Refused(c) PROVE (LatestChoiceStands /\ Waiting)'
  BY <1>0, <1>2 DEF Refused, callers, pages, records, LatestChoiceStands, Waiting,
     OneRefresh, Snapshots, Matches, Numbers, Same, Fields, Saved
<1>3. ASSUME NEW c \in Caller, Answered(c) PROVE (LatestChoiceStands /\ Waiting)'
  BY <1>0, <1>3 DEF Answered, callers, pages, records, LatestChoiceStands, Waiting,
     OneRefresh, Snapshots, Matches, Numbers, Same, Fields, Saved
<1>4. ASSUME NEW c \in Caller, Enter(c) PROVE (LatestChoiceStands /\ Waiting)'
  BY <1>0, <1>4 DEF Enter, EnterIf, Reusable, Return, Refreshing, Pending, callers, pages,
     records, LatestChoiceStands, Waiting, OneRefresh, Snapshots, Matches, Numbers, Same,
     Fields, Saved
<1>5. ASSUME NEW c \in Caller, Exchanged(c) PROVE (LatestChoiceStands /\ Waiting)'
  BY <1>0, <1>5 DEF Exchanged, Fault, callers, pages, records, LatestChoiceStands, Waiting,
     OneRefresh, Snapshots, Matches, Numbers, Same, Fields, Saved
<1>6. ASSUME NEW c \in Caller, Unsent(c) PROVE (LatestChoiceStands /\ Waiting)'
  BY <1>0, <1>6 DEF Unsent, Fault, callers, pages, records, LatestChoiceStands, Waiting,
     OneRefresh, Snapshots, Matches, Numbers, Same, Fields, Saved
<1>7. ASSUME NEW c \in Caller, Save(c) PROVE (LatestChoiceStands /\ Waiting)'
  <2>1. SaveFact(c)
    BY <1>7, Saves
  <2>. QED
    BY <1>0, <2>1 DEF SaveFact, Return, callers, pages, records, LatestChoiceStands, Waiting,
       OneRefresh, Snapshots, Matches, Numbers, Same, Fields, Saved
<1>8. ASSUME NEW c \in Caller, Failed(c) PROVE (LatestChoiceStands /\ Waiting)'
  BY <1>0, <1>8 DEF Failed, Return, callers, pages, records, LatestChoiceStands, Waiting,
     OneRefresh, Snapshots, Matches, Numbers, Same, Fields, Saved
<1>9. ASSUME NEW p \in Page, NEW a \in App, Credentials(p, a) PROVE (LatestChoiceStands /\ Waiting)'
  <2>1. RenewFact
    BY <1>9, Renews
  <2>. QED
    BY <1>0, <2>1 DEF RenewFact, Announcing, callers, pages, records, LatestChoiceStands,
       Waiting, OneRefresh, Snapshots, Matches, Numbers, Same, Fields, Saved
<1>10. ASSUME NEW p \in Page, Unbind(p) PROVE (LatestChoiceStands /\ Waiting)'
  <2>1. RenewFact
    BY <1>10, Renews
  <2>. QED
    BY <1>0, <2>1 DEF RenewFact, Announcing, callers, pages, records, LatestChoiceStands,
       Waiting, OneRefresh, Snapshots, Matches, Numbers, Same, Fields, Saved
<1>11. ASSUME NEW p \in Page, Disconnect(p) PROVE (LatestChoiceStands /\ Waiting)'
  BY <1>0, <1>11 DEF Disconnect, callers, pages, records, LatestChoiceStands, Waiting,
     OneRefresh, Snapshots, Matches, Numbers, Same, Fields, Saved
<1>12. ASSUME NEW p \in Page, Remove(p) PROVE (LatestChoiceStands /\ Waiting)'
  BY <1>0, <1>12 DEF Remove, Chosen, Announcing, callers, pages, records, LatestChoiceStands,
     Waiting, OneRefresh, Snapshots, Matches, Numbers, Same, Fields, Saved
<1>13. ASSUME NEW p \in Page, Begin(p) PROVE (LatestChoiceStands /\ Waiting)'
  BY <1>0, <1>13 DEF Begin, callers, pages, records, LatestChoiceStands, Waiting, OneRefresh,
     Snapshots, Matches, Numbers, Same, Fields, Saved
<1>14. ASSUME NEW p \in Page, Begun(p) PROVE (LatestChoiceStands /\ Waiting)'
  <2>1. BeginFact(p)
    BY <1>14, Begins
  <2>. QED
    BY <1>0, <2>1 DEF BeginFact, Answer, callers, pages, records, LatestChoiceStands, Waiting,
       OneRefresh, Snapshots, Matches, Numbers, Same, Fields, Saved
<1>15. ASSUME NEW p \in Page, Finish(p) PROVE (LatestChoiceStands /\ Waiting)'
  BY <1>0, <1>15 DEF Finish, Pending, callers, pages, records, LatestChoiceStands, Waiting,
     OneRefresh, Snapshots, Matches, Numbers, Same, Fields, Saved
<1>16. ASSUME NEW p \in Page, Exchange(p) PROVE (LatestChoiceStands /\ Waiting)'
  BY <1>0, <1>16 DEF Exchange, Pending, Answer, callers, pages, records, LatestChoiceStands,
     Waiting, OneRefresh, Snapshots, Matches, Numbers, Same, Fields, Saved
<1>17. ASSUME NEW p \in Page, Denied(p) PROVE (LatestChoiceStands /\ Waiting)'
  BY <1>0, <1>17 DEF Denied, Answer, Fault, callers, pages, records, LatestChoiceStands,
     Waiting, OneRefresh, Snapshots, Matches, Numbers, Same, Fields, Saved
<1>18. ASSUME NEW p \in Page, Grant(p) PROVE (LatestChoiceStands /\ Waiting)'
  <2>1. GrantFact(p)
    BY <1>18, Grants
  <2>. QED
    BY <1>0, <2>1 DEF GrantFact, Answer, callers, pages, records, LatestChoiceStands, Waiting,
       OneRefresh, Snapshots, Matches, Numbers, Same, Fields, Saved
<1>19. ASSUME NEW p \in Page, Status(p) PROVE (LatestChoiceStands /\ Waiting)'
  BY <1>0, <1>19 DEF Status, Announcing, Answer, callers, pages, records, LatestChoiceStands,
     Waiting, OneRefresh, Snapshots, Matches, Numbers, Same, Fields, Saved
<1>20. ASSUME NEW p \in Page, Announce(p) PROVE (LatestChoiceStands /\ Waiting)'
  BY <1>0, <1>20 DEF Announce, Answer, callers, pages, records, LatestChoiceStands, Waiting,
     OneRefresh, Snapshots, Matches, Numbers, Same, Fields, Saved
<1>21. ASSUME NEW p \in Page, AnnounceFails(p) PROVE (LatestChoiceStands /\ Waiting)'
  BY <1>0, <1>21 DEF AnnounceFails, Answer, Fault, callers, pages, records,
     LatestChoiceStands, Waiting, OneRefresh, Snapshots, Matches, Numbers, Same, Fields,
     Saved
<1>22. CASE ReadPlans
  BY <1>0, <1>22 DEF ReadPlans, callers, pages, records, LatestChoiceStands, Waiting,
     OneRefresh, Snapshots, Matches, Numbers, Same, Fields, Saved
<1>23. CASE AddAccount
  BY <1>0, <1>23 DEF AddAccount, Reads, callers, pages, records, LatestChoiceStands, Waiting,
     OneRefresh, Snapshots, Matches, Numbers, Same, Fields, Saved
<1>24. CASE SavePlans
  BY <1>0, <1>24 DEF SavePlans, Reads, callers, pages, records, LatestChoiceStands, Waiting,
     OneRefresh, Snapshots, Matches, Numbers, Same, Fields, Saved
<1>25. CASE Superseded
  BY <1>0, <1>25 DEF Superseded, Reads, callers, pages, records, LatestChoiceStands, Waiting,
     OneRefresh, Snapshots, Matches, Numbers, Same, Fields, Saved
<1>26. CASE Expires
  BY <1>0, <1>26, Ages DEF Expires, callers, pages, records, LatestChoiceStands, Waiting,
     OneRefresh, Snapshots, Matches, Numbers, Same, Fields, Saved
<1>27. CASE Withdrawn
  BY <1>0, <1>27 DEF Withdrawn, callers, pages, records, LatestChoiceStands, Waiting,
     OneRefresh, Snapshots, Matches, Numbers, Same, Fields, Saved
<1>28. CASE PendingExpires
  BY <1>0, <1>28, Ages DEF PendingExpires, Pending, callers, pages, records,
     LatestChoiceStands, Waiting, OneRefresh, Snapshots, Matches, Numbers, Same, Fields,
     Saved
<1>29. CASE Restart
  BY <1>0, <1>29 DEF Restart, Fault, callers, pages, records, LatestChoiceStands, Waiting,
     OneRefresh, Snapshots, Matches, Numbers, Same, Fields, Saved
<1>. QED
  BY <1>1, <1>2, <1>3, <1>4, <1>5, <1>6, <1>7, <1>8, <1>9, <1>10, <1>11, <1>12, <1>13, <1>14,
     <1>15, <1>16, <1>17, <1>18, <1>19, <1>20, <1>21, <1>22, <1>23, <1>24, <1>25, <1>26,
     <1>27, <1>28, <1>29 DEF Next, Requests, Pages

LEMMA OnWireKept ==
    ASSUME TypeOK, Numbers, Snapshots, OneRefresh, OnWire, Next
    PROVE  OnWire'
<1>0. Fields
  BY Known
<1>1. ASSUME NEW c \in Caller, Ask(c) PROVE OnWire'
  BY <1>0, <1>1 DEF Ask, callers, pages, records, OnWire, OneRefresh, Snapshots, Matches,
     Numbers, Same, Fields, Saved
<1>2. ASSUME NEW c \in Caller, Refused(c) PROVE OnWire'
  BY <1>0, <1>2 DEF Refused, callers, pages, records, OnWire, OneRefresh, Snapshots, Matches,
     Numbers, Same, Fields, Saved
<1>3. ASSUME NEW c \in Caller, Answered(c) PROVE OnWire'
  BY <1>0, <1>3 DEF Answered, callers, pages, records, OnWire, OneRefresh, Snapshots,
     Matches, Numbers, Same, Fields, Saved
<1>4. ASSUME NEW c \in Caller, Enter(c) PROVE OnWire'
  BY <1>0, <1>4 DEF Enter, EnterIf, Reusable, Return, Refreshing, Pending, callers, pages,
     records, OnWire, OneRefresh, Snapshots, Matches, Numbers, Same, Fields, Saved
<1>5. ASSUME NEW c \in Caller, Exchanged(c) PROVE OnWire'
  BY <1>0, <1>5 DEF Exchanged, Fault, callers, pages, records, OnWire, OneRefresh, Snapshots,
     Matches, Numbers, Same, Fields, Saved
<1>6. ASSUME NEW c \in Caller, Unsent(c) PROVE OnWire'
  BY <1>0, <1>6 DEF Unsent, Fault, callers, pages, records, OnWire, OneRefresh, Snapshots,
     Matches, Numbers, Same, Fields, Saved
<1>7. ASSUME NEW c \in Caller, Save(c) PROVE OnWire'
  <2>1. SaveFact(c)
    BY <1>7, Saves
  <2>. QED
    BY <1>0, <2>1 DEF SaveFact, Return, callers, pages, records, OnWire, OneRefresh, Snapshots,
       Matches, Numbers, Same, Fields, Saved
<1>8. ASSUME NEW c \in Caller, Failed(c) PROVE OnWire'
  BY <1>0, <1>8 DEF Failed, Return, callers, pages, records, OnWire, OneRefresh, Snapshots,
     Matches, Numbers, Same, Fields, Saved
<1>9. ASSUME NEW p \in Page, NEW a \in App, Credentials(p, a) PROVE OnWire'
  <2>1. RenewFact
    BY <1>9, Renews
  <2>. QED
    BY <1>0, <2>1 DEF RenewFact, Announcing, callers, pages, records, OnWire, OneRefresh,
       Snapshots, Matches, Numbers, Same, Fields, Saved
<1>10. ASSUME NEW p \in Page, Unbind(p) PROVE OnWire'
  <2>1. RenewFact
    BY <1>10, Renews
  <2>. QED
    BY <1>0, <2>1 DEF RenewFact, Announcing, callers, pages, records, OnWire, OneRefresh,
       Snapshots, Matches, Numbers, Same, Fields, Saved
<1>11. ASSUME NEW p \in Page, Disconnect(p) PROVE OnWire'
  BY <1>0, <1>11 DEF Disconnect, callers, pages, records, OnWire, OneRefresh, Snapshots,
     Matches, Numbers, Same, Fields, Saved
<1>12. ASSUME NEW p \in Page, Remove(p) PROVE OnWire'
  BY <1>0, <1>12 DEF Remove, Chosen, Announcing, callers, pages, records, OnWire, OneRefresh,
     Snapshots, Matches, Numbers, Same, Fields, Saved
<1>13. ASSUME NEW p \in Page, Begin(p) PROVE OnWire'
  BY <1>0, <1>13 DEF Begin, callers, pages, records, OnWire, OneRefresh, Snapshots, Matches,
     Numbers, Same, Fields, Saved
<1>14. ASSUME NEW p \in Page, Begun(p) PROVE OnWire'
  <2>1. BeginFact(p)
    BY <1>14, Begins
  <2>. QED
    BY <1>0, <2>1 DEF BeginFact, Answer, callers, pages, records, OnWire, OneRefresh,
       Snapshots, Matches, Numbers, Same, Fields, Saved
<1>15. ASSUME NEW p \in Page, Finish(p) PROVE OnWire'
  BY <1>0, <1>15 DEF Finish, Pending, callers, pages, records, OnWire, OneRefresh, Snapshots,
     Matches, Numbers, Same, Fields, Saved
<1>16. ASSUME NEW p \in Page, Exchange(p) PROVE OnWire'
  BY <1>0, <1>16 DEF Exchange, Pending, Answer, callers, pages, records, OnWire, OneRefresh,
     Snapshots, Matches, Numbers, Same, Fields, Saved
<1>17. ASSUME NEW p \in Page, Denied(p) PROVE OnWire'
  BY <1>0, <1>17 DEF Denied, Answer, Fault, callers, pages, records, OnWire, OneRefresh,
     Snapshots, Matches, Numbers, Same, Fields, Saved
<1>18. ASSUME NEW p \in Page, Grant(p) PROVE OnWire'
  <2>1. GrantFact(p)
    BY <1>18, Grants
  <2>. QED
    BY <1>0, <2>1 DEF GrantFact, Answer, callers, pages, records, OnWire, OneRefresh,
       Snapshots, Matches, Numbers, Same, Fields, Saved
<1>19. ASSUME NEW p \in Page, Status(p) PROVE OnWire'
  BY <1>0, <1>19 DEF Status, Announcing, Answer, callers, pages, records, OnWire, OneRefresh,
     Snapshots, Matches, Numbers, Same, Fields, Saved
<1>20. ASSUME NEW p \in Page, Announce(p) PROVE OnWire'
  BY <1>0, <1>20 DEF Announce, Answer, callers, pages, records, OnWire, OneRefresh,
     Snapshots, Matches, Numbers, Same, Fields, Saved
<1>21. ASSUME NEW p \in Page, AnnounceFails(p) PROVE OnWire'
  BY <1>0, <1>21 DEF AnnounceFails, Answer, Fault, callers, pages, records, OnWire,
     OneRefresh, Snapshots, Matches, Numbers, Same, Fields, Saved
<1>22. CASE ReadPlans
  BY <1>0, <1>22 DEF ReadPlans, callers, pages, records, OnWire, OneRefresh, Snapshots,
     Matches, Numbers, Same, Fields, Saved
<1>23. CASE AddAccount
  BY <1>0, <1>23 DEF AddAccount, Reads, callers, pages, records, OnWire, OneRefresh,
     Snapshots, Matches, Numbers, Same, Fields, Saved
<1>24. CASE SavePlans
  BY <1>0, <1>24 DEF SavePlans, Reads, callers, pages, records, OnWire, OneRefresh,
     Snapshots, Matches, Numbers, Same, Fields, Saved
<1>25. CASE Superseded
  BY <1>0, <1>25 DEF Superseded, Reads, callers, pages, records, OnWire, OneRefresh,
     Snapshots, Matches, Numbers, Same, Fields, Saved
<1>26. CASE Expires
  BY <1>0, <1>26, Ages DEF Expires, callers, pages, records, OnWire, OneRefresh, Snapshots,
     Matches, Numbers, Same, Fields, Saved
<1>27. CASE Withdrawn
  BY <1>0, <1>27 DEF Withdrawn, callers, pages, records, OnWire, OneRefresh, Snapshots,
     Matches, Numbers, Same, Fields, Saved
<1>28. CASE PendingExpires
  BY <1>0, <1>28, Ages DEF PendingExpires, Pending, callers, pages, records, OnWire,
     OneRefresh, Snapshots, Matches, Numbers, Same, Fields, Saved
<1>29. CASE Restart
  BY <1>0, <1>29 DEF Restart, Fault, callers, pages, records, OnWire, OneRefresh, Snapshots,
     Matches, Numbers, Same, Fields, Saved
<1>. QED
  BY <1>1, <1>2, <1>3, <1>4, <1>5, <1>6, <1>7, <1>8, <1>9, <1>10, <1>11, <1>12, <1>13, <1>14,
     <1>15, <1>16, <1>17, <1>18, <1>19, <1>20, <1>21, <1>22, <1>23, <1>24, <1>25, <1>26,
     <1>27, <1>28, <1>29 DEF Next, Requests, Pages

LEMMA GrantStays ==
    ASSUME TypeOK, Numbers, Snapshots, OneRefresh, OnWire, GrantKept, Next
    PROVE  GrantKept'
<1>0. Fields
  BY Known
<1>1. ASSUME NEW c \in Caller, Ask(c) PROVE GrantKept'
  BY <1>0, <1>1 DEF Ask, callers, pages, records, GrantKept, OnWire, OneRefresh, Snapshots,
     Matches, Numbers, Same, Fields, Saved
<1>2. ASSUME NEW c \in Caller, Refused(c) PROVE GrantKept'
  BY <1>0, <1>2 DEF Refused, callers, pages, records, GrantKept, OnWire, OneRefresh,
     Snapshots, Matches, Numbers, Same, Fields, Saved
<1>3. ASSUME NEW c \in Caller, Answered(c) PROVE GrantKept'
  BY <1>0, <1>3 DEF Answered, callers, pages, records, GrantKept, OnWire, OneRefresh,
     Snapshots, Matches, Numbers, Same, Fields, Saved
<1>4. ASSUME NEW c \in Caller, Enter(c) PROVE GrantKept'
  BY <1>0, <1>4 DEF Enter, EnterIf, Reusable, Return, Refreshing, Pending, callers, pages,
     records, GrantKept, OnWire, OneRefresh, Snapshots, Matches, Numbers, Same, Fields,
     Saved
<1>5. ASSUME NEW c \in Caller, Exchanged(c) PROVE GrantKept'
  BY <1>0, <1>5 DEF Exchanged, Fault, callers, pages, records, GrantKept, OnWire, OneRefresh,
     Snapshots, Matches, Numbers, Same, Fields, Saved
<1>6. ASSUME NEW c \in Caller, Unsent(c) PROVE GrantKept'
  BY <1>0, <1>6 DEF Unsent, Fault, callers, pages, records, GrantKept, OnWire, OneRefresh,
     Snapshots, Matches, Numbers, Same, Fields, Saved
<1>7. ASSUME NEW c \in Caller, Save(c) PROVE GrantKept'
  <2>1. SaveFact(c)
    BY <1>7, Saves
  <2>. QED
    BY <1>0, <2>1 DEF SaveFact, Return, callers, pages, records, GrantKept, OnWire, OneRefresh,
       Snapshots, Matches, Numbers, Same, Fields, Saved
<1>8. ASSUME NEW c \in Caller, Failed(c) PROVE GrantKept'
  BY <1>0, <1>8 DEF Failed, Return, callers, pages, records, GrantKept, OnWire, OneRefresh,
     Snapshots, Matches, Numbers, Same, Fields, Saved
<1>9. ASSUME NEW p \in Page, NEW a \in App, Credentials(p, a) PROVE GrantKept'
  <2>1. RenewFact
    BY <1>9, Renews
  <2>. QED
    BY <1>0, <2>1 DEF RenewFact, Announcing, callers, pages, records, GrantKept, OnWire,
       OneRefresh, Snapshots, Matches, Numbers, Same, Fields, Saved
<1>10. ASSUME NEW p \in Page, Unbind(p) PROVE GrantKept'
  <2>1. RenewFact
    BY <1>10, Renews
  <2>. QED
    BY <1>0, <2>1 DEF RenewFact, Announcing, callers, pages, records, GrantKept, OnWire,
       OneRefresh, Snapshots, Matches, Numbers, Same, Fields, Saved
<1>11. ASSUME NEW p \in Page, Disconnect(p) PROVE GrantKept'
  BY <1>0, <1>11 DEF Disconnect, callers, pages, records, GrantKept, OnWire, OneRefresh,
     Snapshots, Matches, Numbers, Same, Fields, Saved
<1>12. ASSUME NEW p \in Page, Remove(p) PROVE GrantKept'
  BY <1>0, <1>12 DEF Remove, Chosen, Announcing, callers, pages, records, GrantKept, OnWire,
     OneRefresh, Snapshots, Matches, Numbers, Same, Fields, Saved
<1>13. ASSUME NEW p \in Page, Begin(p) PROVE GrantKept'
  BY <1>0, <1>13 DEF Begin, callers, pages, records, GrantKept, OnWire, OneRefresh,
     Snapshots, Matches, Numbers, Same, Fields, Saved
<1>14. ASSUME NEW p \in Page, Begun(p) PROVE GrantKept'
  <2>1. BeginFact(p)
    BY <1>14, Begins
  <2>. QED
    BY <1>0, <2>1 DEF BeginFact, Answer, callers, pages, records, GrantKept, OnWire,
       OneRefresh, Snapshots, Matches, Numbers, Same, Fields, Saved
<1>15. ASSUME NEW p \in Page, Finish(p) PROVE GrantKept'
  BY <1>0, <1>15 DEF Finish, Pending, callers, pages, records, GrantKept, OnWire, OneRefresh,
     Snapshots, Matches, Numbers, Same, Fields, Saved
<1>16. ASSUME NEW p \in Page, Exchange(p) PROVE GrantKept'
  BY <1>0, <1>16 DEF Exchange, Pending, Answer, callers, pages, records, GrantKept, OnWire,
     OneRefresh, Snapshots, Matches, Numbers, Same, Fields, Saved
<1>17. ASSUME NEW p \in Page, Denied(p) PROVE GrantKept'
  BY <1>0, <1>17 DEF Denied, Answer, Fault, callers, pages, records, GrantKept, OnWire,
     OneRefresh, Snapshots, Matches, Numbers, Same, Fields, Saved
<1>18. ASSUME NEW p \in Page, Grant(p) PROVE GrantKept'
  <2>1. GrantFact(p)
    BY <1>18, Grants
  <2>. QED
    BY <1>0, <2>1 DEF GrantFact, Answer, callers, pages, records, GrantKept, OnWire,
       OneRefresh, Snapshots, Matches, Numbers, Same, Fields, Saved
<1>19. ASSUME NEW p \in Page, Status(p) PROVE GrantKept'
  BY <1>0, <1>19 DEF Status, Announcing, Answer, callers, pages, records, GrantKept, OnWire,
     OneRefresh, Snapshots, Matches, Numbers, Same, Fields, Saved
<1>20. ASSUME NEW p \in Page, Announce(p) PROVE GrantKept'
  BY <1>0, <1>20 DEF Announce, Answer, callers, pages, records, GrantKept, OnWire,
     OneRefresh, Snapshots, Matches, Numbers, Same, Fields, Saved
<1>21. ASSUME NEW p \in Page, AnnounceFails(p) PROVE GrantKept'
  BY <1>0, <1>21 DEF AnnounceFails, Answer, Fault, callers, pages, records, GrantKept,
     OnWire, OneRefresh, Snapshots, Matches, Numbers, Same, Fields, Saved
<1>22. CASE ReadPlans
  BY <1>0, <1>22 DEF ReadPlans, callers, pages, records, GrantKept, OnWire, OneRefresh,
     Snapshots, Matches, Numbers, Same, Fields, Saved
<1>23. CASE AddAccount
  BY <1>0, <1>23 DEF AddAccount, Reads, callers, pages, records, GrantKept, OnWire,
     OneRefresh, Snapshots, Matches, Numbers, Same, Fields, Saved
<1>24. CASE SavePlans
  BY <1>0, <1>24 DEF SavePlans, Reads, callers, pages, records, GrantKept, OnWire,
     OneRefresh, Snapshots, Matches, Numbers, Same, Fields, Saved
<1>25. CASE Superseded
  BY <1>0, <1>25 DEF Superseded, Reads, callers, pages, records, GrantKept, OnWire,
     OneRefresh, Snapshots, Matches, Numbers, Same, Fields, Saved
<1>26. CASE Expires
  BY <1>0, <1>26, Ages DEF Expires, callers, pages, records, GrantKept, OnWire, OneRefresh,
     Snapshots, Matches, Numbers, Same, Fields, Saved
<1>27. CASE Withdrawn
  BY <1>0, <1>27 DEF Withdrawn, callers, pages, records, GrantKept, OnWire, OneRefresh,
     Snapshots, Matches, Numbers, Same, Fields, Saved
<1>28. CASE PendingExpires
  BY <1>0, <1>28, Ages DEF PendingExpires, Pending, callers, pages, records, GrantKept,
     OnWire, OneRefresh, Snapshots, Matches, Numbers, Same, Fields, Saved
<1>29. CASE Restart
  BY <1>0, <1>29 DEF Restart, Fault, callers, pages, records, GrantKept, OnWire, OneRefresh,
     Snapshots, Matches, Numbers, Same, Fields, Saved
<1>. QED
  BY <1>1, <1>2, <1>3, <1>4, <1>5, <1>6, <1>7, <1>8, <1>9, <1>10, <1>11, <1>12, <1>13, <1>14,
     <1>15, <1>16, <1>17, <1>18, <1>19, <1>20, <1>21, <1>22, <1>23, <1>24, <1>25, <1>26,
     <1>27, <1>28, <1>29 DEF Next, Requests, Pages

LEMMA RejectedKept ==
    ASSUME TypeOK, Numbers, Rejected, Next
    PROVE  Rejected'
<1>0. Fields
  BY Known
<1>1. ASSUME NEW c \in Caller, Ask(c) PROVE Rejected'
  BY <1>0, <1>1 DEF Ask, callers, pages, records, Rejected, Numbers, Fields, Saved
<1>2. ASSUME NEW c \in Caller, Refused(c) PROVE Rejected'
  BY <1>0, <1>2 DEF Refused, callers, pages, records, Rejected, Numbers, Fields, Saved
<1>3. ASSUME NEW c \in Caller, Answered(c) PROVE Rejected'
  BY <1>0, <1>3 DEF Answered, callers, pages, records, Rejected, Numbers, Fields, Saved
<1>4. ASSUME NEW c \in Caller, Enter(c) PROVE Rejected'
  BY <1>0, <1>4 DEF Enter, EnterIf, Reusable, Return, Refreshing, Pending, callers, pages,
     records, Rejected, Numbers, Fields, Saved
<1>5. ASSUME NEW c \in Caller, Exchanged(c) PROVE Rejected'
  BY <1>0, <1>5 DEF Exchanged, Fault, callers, pages, records, Rejected, Numbers, Fields,
     Saved
<1>6. ASSUME NEW c \in Caller, Unsent(c) PROVE Rejected'
  BY <1>0, <1>6 DEF Unsent, Fault, callers, pages, records, Rejected, Numbers, Fields, Saved
<1>7. ASSUME NEW c \in Caller, Save(c) PROVE Rejected'
  <2>1. SaveFact(c)
    BY <1>7, Saves
  <2>. QED
    BY <1>0, <2>1 DEF SaveFact, Return, callers, pages, records, Rejected, Numbers, Fields,
       Saved
<1>8. ASSUME NEW c \in Caller, Failed(c) PROVE Rejected'
  BY <1>0, <1>8 DEF Failed, Return, callers, pages, records, Rejected, Numbers, Fields,
     Saved
<1>9. ASSUME NEW p \in Page, NEW a \in App, Credentials(p, a) PROVE Rejected'
  <2>1. RenewFact
    BY <1>9, Renews
  <2>. QED
    BY <1>0, <2>1 DEF RenewFact, Announcing, callers, pages, records, Rejected, Numbers,
       Fields, Saved
<1>10. ASSUME NEW p \in Page, Unbind(p) PROVE Rejected'
  <2>1. RenewFact
    BY <1>10, Renews
  <2>. QED
    BY <1>0, <2>1 DEF RenewFact, Announcing, callers, pages, records, Rejected, Numbers,
       Fields, Saved
<1>11. ASSUME NEW p \in Page, Disconnect(p) PROVE Rejected'
  BY <1>0, <1>11 DEF Disconnect, callers, pages, records, Rejected, Numbers, Fields, Saved
<1>12. ASSUME NEW p \in Page, Remove(p) PROVE Rejected'
  BY <1>0, <1>12 DEF Remove, Chosen, Announcing, callers, pages, records, Rejected, Numbers,
     Fields, Saved
<1>13. ASSUME NEW p \in Page, Begin(p) PROVE Rejected'
  BY <1>0, <1>13 DEF Begin, callers, pages, records, Rejected, Numbers, Fields, Saved
<1>14. ASSUME NEW p \in Page, Begun(p) PROVE Rejected'
  <2>1. BeginFact(p)
    BY <1>14, Begins
  <2>. QED
    BY <1>0, <2>1 DEF BeginFact, Answer, callers, pages, records, Rejected, Numbers, Fields,
       Saved
<1>15. ASSUME NEW p \in Page, Finish(p) PROVE Rejected'
  BY <1>0, <1>15 DEF Finish, Pending, callers, pages, records, Rejected, Numbers, Fields,
     Saved
<1>16. ASSUME NEW p \in Page, Exchange(p) PROVE Rejected'
  BY <1>0, <1>16 DEF Exchange, Pending, Answer, callers, pages, records, Rejected, Numbers,
     Fields, Saved
<1>17. ASSUME NEW p \in Page, Denied(p) PROVE Rejected'
  BY <1>0, <1>17 DEF Denied, Answer, Fault, callers, pages, records, Rejected, Numbers,
     Fields, Saved
<1>18. ASSUME NEW p \in Page, Grant(p) PROVE Rejected'
  <2>1. GrantFact(p)
    BY <1>18, Grants
  <2>. QED
    BY <1>0, <2>1 DEF GrantFact, Answer, callers, pages, records, Rejected, Numbers, Fields,
       Saved
<1>19. ASSUME NEW p \in Page, Status(p) PROVE Rejected'
  BY <1>0, <1>19 DEF Status, Announcing, Answer, callers, pages, records, Rejected, Numbers,
     Fields, Saved
<1>20. ASSUME NEW p \in Page, Announce(p) PROVE Rejected'
  BY <1>0, <1>20 DEF Announce, Answer, callers, pages, records, Rejected, Numbers, Fields,
     Saved
<1>21. ASSUME NEW p \in Page, AnnounceFails(p) PROVE Rejected'
  BY <1>0, <1>21 DEF AnnounceFails, Answer, Fault, callers, pages, records, Rejected,
     Numbers, Fields, Saved
<1>22. CASE ReadPlans
  BY <1>0, <1>22 DEF ReadPlans, callers, pages, records, Rejected, Numbers, Fields, Saved
<1>23. CASE AddAccount
  BY <1>0, <1>23 DEF AddAccount, Reads, callers, pages, records, Rejected, Numbers, Fields,
     Saved
<1>24. CASE SavePlans
  BY <1>0, <1>24 DEF SavePlans, Reads, callers, pages, records, Rejected, Numbers, Fields,
     Saved
<1>25. CASE Superseded
  BY <1>0, <1>25 DEF Superseded, Reads, callers, pages, records, Rejected, Numbers, Fields,
     Saved
<1>26. CASE Expires
  BY <1>0, <1>26, Ages DEF Expires, callers, pages, records, Rejected, Numbers, Fields,
     Saved
<1>27. CASE Withdrawn
  BY <1>0, <1>27 DEF Withdrawn, callers, pages, records, Rejected, Numbers, Fields, Saved
<1>28. CASE PendingExpires
  BY <1>0, <1>28, Ages DEF PendingExpires, Pending, callers, pages, records, Rejected,
     Numbers, Fields, Saved
<1>29. CASE Restart
  BY <1>0, <1>29 DEF Restart, Fault, callers, pages, records, Rejected, Numbers, Fields,
     Saved
<1>. QED
  BY <1>1, <1>2, <1>3, <1>4, <1>5, <1>6, <1>7, <1>8, <1>9, <1>10, <1>11, <1>12, <1>13, <1>14,
     <1>15, <1>16, <1>17, <1>18, <1>19, <1>20, <1>21, <1>22, <1>23, <1>24, <1>25, <1>26,
     <1>27, <1>28, <1>29 DEF Next, Requests, Pages

LEMMA Started == Init => IInv
<1>. SUFFICES ASSUME Init PROVE IInv
  OBVIOUS
<1>1. PICK a \in App, live \in BOOLEAN :
        file = [app |-> a, gen |-> 1, rev |-> 1, token |-> 1, live |-> live,
                state |-> 0, fresh |-> FALSE]
  BY DEF Init
<1>2. TypeOK
  <2>1. /\ file \in Bundle /\ file.app \in App /\ file.gen \in Nat
        /\ NoFile \in Bundle /\ NoId \in Identity
    BY <1>1 DEF Bundle, NoFile, Identity, NoId
  <2>2. Id \in Identity
    BY <2>1 DEF Identity, Id
  <2>3. FileTyped
    BY <2>1 DEF Init, FileTyped
  <2>4. CallersTyped /\ PagesTyped
    BY <2>1 DEF Init, CallersTyped, PagesTyped
  <2>5. RecordsTyped
    <3>1. 0 \in 0..MaxFault
      BY BoundAssumption
    <3>2. /\ reader = "idle" /\ asOf = NoId /\ selection = Id /\ proof = Id /\ faults = 0
          /\ lost = FALSE /\ muted = FALSE
      BY DEF Init
    <3>. QED
      BY <2>1, <2>2, <3>1, <3>2 DEF RecordsTyped
  <2>. QED
    BY <2>3, <2>4, <2>5, Parts
<1>3. Numbers /\ Snapshots /\ OneRefresh
  BY <1>1 DEF Init, Numbers, Snapshots, Matches, Same, Saved, NoFile, OneRefresh
<1>4. LatestChoiceStands /\ Waiting /\ OnWire /\ GrantKept /\ Rejected
  BY <1>1 DEF Init, LatestChoiceStands, Waiting, OnWire, GrantKept, Rejected
<1>. QED
  BY <1>2, <1>3, <1>4 DEF IInv

LEMMA StepKeeps == IInv /\ [Next]_vars => IInv'
<1>1. ASSUME IInv, Next PROVE IInv'
  BY <1>1, TypeKept, NumbersKept, SnapshotsKept, OneRefreshKept, ChoiceKept, OnWireKept,
     GrantStays, RejectedKept DEF IInv
<1>2. ASSUME IInv, UNCHANGED vars PROVE IInv'
  BY <1>2 DEF vars, callers, pages, records, IInv, TypeOK, Numbers, Saved, Snapshots, Matches,
     Same, OneRefresh, LatestChoiceStands, Waiting, OnWire, GrantKept, Rejected
<1>. QED
  BY <1>1, <1>2

THEOREM InductiveInvariant == Spec => []IInv
BY Started, StepKeeps, PTL DEF Spec

\* Every variable of the authorization file, its requests and its pages keeps its
\* type (token_provider.py, configuration.py).
THEOREM Typed == Spec => []TypeOK
<1>1. IInv => TypeOK
  BY DEF IInv
<1>. QED
  BY <1>1, InductiveInvariant, PTL

\* No refresh and no exchange that was on the wire undoes what the user decided
\* meanwhile (get_token, _exchange_authorization_code_locked).
THEOREM UserDecides == Spec => []LatestChoiceStands
<1>1. IInv => LatestChoiceStands
  BY DEF IInv
<1>. QED
  BY <1>1, InductiveInvariant, PTL

\* A grant is used up only by a lost reply or by an authorization begun while the
\* refresh was on the wire (_refresh, get_token).
THEOREM GrantSurvives == Spec => []GrantKept
<1>1. IInv => GrantKept
  BY DEF IInv
<1>. QED
  BY <1>1, InductiveInvariant, PTL

\* Requests refused at the same time do not refresh the token that one of them
\* has just replaced (get_token).
THEOREM RefreshesCoalesce == Spec => WorkingTokenKept
<1>1. ASSUME IInv, Next, NEW c \in Caller, pc[c] = "wait", pc'[c] = "wire"
      PROVE  ~file.live \/ ~good
  <2>1. ASSUME NEW d \in Caller, Ask(d) PROVE ~file.live \/ ~good
    BY <1>1, <2>1 DEF Ask, callers, pages, records, IInv, Rejected, TypeOK, Saved
  <2>2. ASSUME NEW d \in Caller, Refused(d) PROVE ~file.live \/ ~good
    BY <1>1, <2>2 DEF Refused, callers, pages, records, IInv, Rejected, TypeOK, Saved
  <2>3. ASSUME NEW d \in Caller, Answered(d) PROVE ~file.live \/ ~good
    BY <1>1, <2>3 DEF Answered, callers, pages, records, IInv, Rejected, TypeOK, Saved
  <2>4. ASSUME NEW d \in Caller, Enter(d) PROVE ~file.live \/ ~good
    BY <1>1, <2>4 DEF Enter, EnterIf, Reusable, Return, Refreshing, Pending, callers, pages,
       records, IInv, Rejected, TypeOK, Saved
  <2>5. ASSUME NEW d \in Caller, Exchanged(d) PROVE ~file.live \/ ~good
    BY <1>1, <2>5 DEF Exchanged, Fault, callers, pages, records, IInv, Rejected, TypeOK, Saved
  <2>6. ASSUME NEW d \in Caller, Unsent(d) PROVE ~file.live \/ ~good
    BY <1>1, <2>6 DEF Unsent, Fault, callers, pages, records, IInv, Rejected, TypeOK, Saved
  <2>7. ASSUME NEW d \in Caller, Save(d) PROVE ~file.live \/ ~good
    BY <1>1, <2>7 DEF Save, SaveRefreshed, Return, callers, pages, records, IInv, Rejected,
       TypeOK, Saved
  <2>8. ASSUME NEW d \in Caller, Failed(d) PROVE ~file.live \/ ~good
    BY <1>1, <2>8 DEF Failed, Return, callers, pages, records, IInv, Rejected, TypeOK, Saved
  <2>9. ASSUME NEW p \in Page, NEW a \in App, Credentials(p, a) PROVE ~file.live \/ ~good
    BY <1>1, <2>9 DEF Credentials, Announcing, callers, pages, records, IInv, Rejected, TypeOK,
       Saved
  <2>10. ASSUME NEW p \in Page, Unbind(p) PROVE ~file.live \/ ~good
    BY <1>1, <2>10 DEF Unbind, callers, pages, records, IInv, Rejected, TypeOK,
       Saved
  <2>11. ASSUME NEW p \in Page, Disconnect(p) PROVE ~file.live \/ ~good
    BY <1>1, <2>11 DEF Disconnect, callers, pages, records, IInv, Rejected, TypeOK, Saved
  <2>12. ASSUME NEW p \in Page, Remove(p) PROVE ~file.live \/ ~good
    BY <1>1, <2>12 DEF Remove, Chosen, Announcing, callers, pages, records, IInv, Rejected,
       TypeOK, Saved
  <2>13. ASSUME NEW p \in Page, Begin(p) PROVE ~file.live \/ ~good
    BY <1>1, <2>13 DEF Begin, callers, pages, records, IInv, Rejected, TypeOK, Saved
  <2>14. ASSUME NEW p \in Page, Begun(p) PROVE ~file.live \/ ~good
    BY <1>1, <2>14 DEF Begun, Answer, callers, pages, records, IInv, Rejected, TypeOK, Saved
  <2>15. ASSUME NEW p \in Page, Finish(p) PROVE ~file.live \/ ~good
    BY <1>1, <2>15 DEF Finish, Pending, callers, pages, records, IInv, Rejected, TypeOK, Saved
  <2>16. ASSUME NEW p \in Page, Exchange(p) PROVE ~file.live \/ ~good
    BY <1>1, <2>16 DEF Exchange, Pending, Answer, callers, pages, records, IInv, Rejected,
       TypeOK, Saved
  <2>17. ASSUME NEW p \in Page, Denied(p) PROVE ~file.live \/ ~good
    BY <1>1, <2>17 DEF Denied, Answer, Fault, callers, pages, records, IInv, Rejected, TypeOK,
       Saved
  <2>18. ASSUME NEW p \in Page, Grant(p) PROVE ~file.live \/ ~good
    BY <1>1, <2>18 DEF Grant, GrantIf, Answer, callers, pages, records, IInv, Rejected, TypeOK,
       Saved
  <2>19. ASSUME NEW p \in Page, Status(p) PROVE ~file.live \/ ~good
    BY <1>1, <2>19 DEF Status, Announcing, Answer, callers, pages, records, IInv, Rejected,
       TypeOK, Saved
  <2>20. ASSUME NEW p \in Page, Announce(p) PROVE ~file.live \/ ~good
    BY <1>1, <2>20 DEF Announce, Answer, callers, pages, records, IInv, Rejected, TypeOK,
       Saved
  <2>21. ASSUME NEW p \in Page, AnnounceFails(p) PROVE ~file.live \/ ~good
    BY <1>1, <2>21 DEF AnnounceFails, Answer, Fault, callers, pages, records, IInv, Rejected,
       TypeOK, Saved
  <2>22. CASE ReadPlans
    BY <1>1, <2>22 DEF ReadPlans, callers, pages, records, IInv, Rejected, TypeOK, Saved
  <2>23. CASE AddAccount
    BY <1>1, <2>23 DEF AddAccount, Reads, callers, pages, records, IInv, Rejected, TypeOK,
       Saved
  <2>24. CASE SavePlans
    BY <1>1, <2>24 DEF SavePlans, Reads, callers, pages, records, IInv, Rejected, TypeOK,
       Saved
  <2>25. CASE Superseded
    BY <1>1, <2>25 DEF Superseded, Reads, callers, pages, records, IInv, Rejected, TypeOK,
       Saved
  <2>26. CASE Expires
    BY <1>1, <2>26 DEF Expires, callers, pages, records, IInv, Rejected, TypeOK, Saved
  <2>27. CASE Withdrawn
    BY <1>1, <2>27 DEF Withdrawn, callers, pages, records, IInv, Rejected, TypeOK, Saved
  <2>28. CASE PendingExpires
    BY <1>1, <2>28 DEF PendingExpires, Pending, callers, pages, records, IInv, Rejected,
       TypeOK, Saved
  <2>29. CASE Restart
    BY <1>1, <2>29 DEF Restart, Fault, callers, pages, records, IInv, Rejected, TypeOK, Saved
  <2>. QED
    BY <1>1, <2>1, <2>2, <2>3, <2>4, <2>5, <2>6, <2>7, <2>8, <2>9, <2>10, <2>11, <2>12, <2>13,
       <2>14, <2>15, <2>16, <2>17, <2>18, <2>19, <2>20, <2>21, <2>22, <2>23, <2>24, <2>25,
       <2>26, <2>27, <2>28, <2>29 DEF Next, Requests, Pages
<1>2. IInv /\ [Next]_vars =>
        [\A c \in Caller : pc[c] = "wait" /\ pc'[c] = "wire" => ~file.live \/ ~good]_vars
  BY <1>1
<1>. QED
  BY <1>2, InductiveInvariant, PTL DEF Spec, WorkingTokenKept

(***************************************************************************)
(* What is announced, and what was verified.                                *)
(***************************************************************************)
ClearedIsEmpty ==       \* nothing is left of a configuration that was removed
    /\ ~Saved => file = NoFile
    /\ \A p \in Page : page[p] = "announce" /\ event[p] = "disconnected" => cur[p] = NoId

StatesNamed ==
    /\ file.state <= rev
    /\ \A p \in Page : read[p].state <= rev /\ (page[p] = "exchange" => read[p].state # 0)

GrantReplaces ==        \* a grant that can be saved knows the identity it replaces
    \A p \in Page :
        (page[p] = "exchange" /\ read[p].state = file.state) \/ (page[p] = "wire" /\ Same(read[p]))
            => prev[p] = Id

Drops(p) ==             \* page p will drop the evidence of an earlier grant
    /\ prev[p].app = file.app
    /\ \/ page[p] = "status" /\ prev[p] # Id
       \/ page[p] = "announce" /\ cur[p] = Id /\ event[p] # "disconnected"
EvidenceIsCarried ==
    file.token # 0 /\ proof \notin {NoId, Id} => muted \/ \E p \in Page : Drops(p)

EInv == ClearedIsEmpty /\ ClearedMeansDetached /\ StatesNamed /\ GrantReplaces /\ EvidenceIsCarried

LEMMA Identities ==
    ASSUME TypeOK
    PROVE  /\ page \in [Page -> {"idle", "remove", "begin", "exchange", "wire", "status", "announce"}]
           /\ prev \in [Page -> Identity] /\ cur \in [Page -> Identity]
           /\ event \in [Page -> {"saved", "disconnected", "authorized"}]
           /\ read \in [Page -> Bundle]
           /\ \A p \in Page : read[p].state \in Nat
           /\ file = NoFile => Id = NoId
BY DEF TypeOK, Bundle, Id, NoFile, NoId

LEMMA ClearedKept ==
    ASSUME TypeOK, Numbers, Snapshots, ClearedIsEmpty, Next
    PROVE  ClearedIsEmpty'
<1>0. Fields
  BY Known
<1>1. ASSUME NEW c \in Caller, Ask(c) PROVE ClearedIsEmpty'
  BY <1>0, <1>1, Identities DEF Ask, callers, pages, records, ClearedIsEmpty, Fields,
     Saved, NoFile
<1>2. ASSUME NEW c \in Caller, Refused(c) PROVE ClearedIsEmpty'
  BY <1>0, <1>2, Identities DEF Refused, callers, pages, records, ClearedIsEmpty, Fields,
     Saved, NoFile
<1>3. ASSUME NEW c \in Caller, Answered(c) PROVE ClearedIsEmpty'
  BY <1>0, <1>3, Identities DEF Answered, callers, pages, records, ClearedIsEmpty, Fields,
     Saved, NoFile
<1>4. ASSUME NEW c \in Caller, Enter(c) PROVE ClearedIsEmpty'
  BY <1>0, <1>4, Identities DEF Enter, EnterIf, Reusable, Return, Refreshing, Pending,
     callers, pages, records, ClearedIsEmpty, Fields, Saved, NoFile
<1>5. ASSUME NEW c \in Caller, Exchanged(c) PROVE ClearedIsEmpty'
  BY <1>0, <1>5, Identities DEF Exchanged, Fault, callers, pages, records, ClearedIsEmpty,
     Fields, Saved, NoFile
<1>6. ASSUME NEW c \in Caller, Unsent(c) PROVE ClearedIsEmpty'
  BY <1>0, <1>6, Identities DEF Unsent, Fault, callers, pages, records, ClearedIsEmpty,
     Fields, Saved, NoFile
<1>7. ASSUME NEW c \in Caller, Save(c) PROVE ClearedIsEmpty'
  <2>1. SaveFact(c)
    BY <1>7, Saves
  <2>. QED
    BY <1>0, <2>1, Identities DEF SaveFact, Return, callers, pages, records,
       ClearedIsEmpty, Fields, Saved, NoFile
<1>8. ASSUME NEW c \in Caller, Failed(c) PROVE ClearedIsEmpty'
  BY <1>0, <1>8, Identities DEF Failed, Return, callers, pages, records, ClearedIsEmpty,
     Fields, Saved, NoFile
<1>9. ASSUME NEW p \in Page, NEW a \in App, Credentials(p, a) PROVE ClearedIsEmpty'
  <2>1. RenewFact
    BY <1>9, Renews
  <2>. QED
    BY <1>0, <2>1, Identities DEF RenewFact, Announcing, callers, pages, records,
       ClearedIsEmpty, Fields, Saved, NoFile
<1>10. ASSUME NEW p \in Page, Unbind(p) PROVE ClearedIsEmpty'
  <2>1. RenewFact
    BY <1>10, Renews
  <2>. QED
    BY <1>0, <2>1, Identities DEF RenewFact, Announcing, callers, pages, records,
       ClearedIsEmpty, Fields, Saved, NoFile
<1>11. ASSUME NEW p \in Page, Disconnect(p) PROVE ClearedIsEmpty'
  BY <1>0, <1>11, Identities DEF Disconnect, callers, pages, records, ClearedIsEmpty,
     Fields, Saved, NoFile
<1>12. ASSUME NEW p \in Page, Remove(p) PROVE ClearedIsEmpty'
  BY <1>0, <1>12, Identities DEF Remove, Chosen, Announcing, callers, pages, records,
     ClearedIsEmpty, Fields, Saved, NoFile
<1>13. ASSUME NEW p \in Page, Begin(p) PROVE ClearedIsEmpty'
  BY <1>0, <1>13, Identities DEF Begin, callers, pages, records, ClearedIsEmpty, Fields,
     Saved, NoFile
<1>14. ASSUME NEW p \in Page, Begun(p) PROVE ClearedIsEmpty'
  <2>1. BeginFact(p)
    BY <1>14, Begins
  <2>. QED
    BY <1>0, <2>1, Identities DEF BeginFact, Answer, callers, pages, records,
       ClearedIsEmpty, Fields, Saved, NoFile
<1>15. ASSUME NEW p \in Page, Finish(p) PROVE ClearedIsEmpty'
  BY <1>0, <1>15, Identities DEF Finish, Pending, callers, pages, records, ClearedIsEmpty,
     Fields, Saved, NoFile
<1>16. ASSUME NEW p \in Page, Exchange(p) PROVE ClearedIsEmpty'
  BY <1>0, <1>16, Identities DEF Exchange, Pending, Answer, callers, pages, records,
     ClearedIsEmpty, Fields, Saved, NoFile
<1>17. ASSUME NEW p \in Page, Denied(p) PROVE ClearedIsEmpty'
  BY <1>0, <1>17, Identities DEF Denied, Answer, Fault, callers, pages, records,
     ClearedIsEmpty, Fields, Saved, NoFile
<1>18. ASSUME NEW p \in Page, Grant(p) PROVE ClearedIsEmpty'
  <2>1. GrantFact(p)
    BY <1>18, Grants
  <2>. QED
    BY <1>0, <2>1, Identities DEF GrantFact, Answer, callers, pages, records,
       ClearedIsEmpty, Fields, Saved, NoFile
<1>19. ASSUME NEW p \in Page, Status(p) PROVE ClearedIsEmpty'
  BY <1>0, <1>19, Identities DEF Status, Announcing, Answer, callers, pages, records,
     ClearedIsEmpty, Fields, Saved, NoFile
<1>20. ASSUME NEW p \in Page, Announce(p) PROVE ClearedIsEmpty'
  BY <1>0, <1>20, Identities DEF Announce, Answer, callers, pages, records, ClearedIsEmpty,
     Fields, Saved, NoFile
<1>21. ASSUME NEW p \in Page, AnnounceFails(p) PROVE ClearedIsEmpty'
  BY <1>0, <1>21, Identities DEF AnnounceFails, Answer, Fault, callers, pages, records,
     ClearedIsEmpty, Fields, Saved, NoFile
<1>22. CASE ReadPlans
  BY <1>0, <1>22, Identities DEF ReadPlans, callers, pages, records, ClearedIsEmpty,
     Fields, Saved, NoFile
<1>23. CASE AddAccount
  BY <1>0, <1>23, Identities DEF AddAccount, Guarded, Reads, callers, pages, records,
     ClearedIsEmpty, Fields, Saved, NoFile
<1>24. CASE SavePlans
  BY <1>0, <1>24, Identities DEF SavePlans, Guarded, Reads, callers, pages, records,
     ClearedIsEmpty, Fields, Saved, NoFile
<1>25. CASE Superseded
  BY <1>0, <1>25, Identities DEF Superseded, Reads, callers, pages, records,
     ClearedIsEmpty, Fields, Saved, NoFile
<1>26. CASE Expires
  BY <1>0, <1>26, Ages, Identities DEF Expires, callers, pages, records, ClearedIsEmpty,
     Fields, Saved, NoFile
<1>27. CASE Withdrawn
  BY <1>0, <1>27, Identities DEF Withdrawn, callers, pages, records, ClearedIsEmpty,
     Fields, Saved, NoFile
<1>28. CASE PendingExpires
  BY <1>0, <1>28, Ages, Identities DEF PendingExpires, Pending, callers, pages, records,
     ClearedIsEmpty, Fields, Saved, NoFile
<1>29. CASE Restart
  BY <1>0, <1>29, Identities DEF Restart, Fault, callers, pages, records, ClearedIsEmpty,
     Fields, Saved, NoFile
<1>. QED
  BY <1>1, <1>2, <1>3, <1>4, <1>5, <1>6, <1>7, <1>8, <1>9, <1>10, <1>11, <1>12, <1>13, <1>14,
     <1>15, <1>16, <1>17, <1>18, <1>19, <1>20, <1>21, <1>22, <1>23, <1>24, <1>25, <1>26,
     <1>27, <1>28, <1>29 DEF Next, Requests, Pages

LEMMA DetachedKept ==
    ASSUME TypeOK, Numbers, ClearedIsEmpty, ClearedMeansDetached, Next
    PROVE  ClearedMeansDetached'
<1>0. Fields
  BY Known
<1>1. ASSUME NEW c \in Caller, Ask(c) PROVE ClearedMeansDetached'
  BY <1>0, <1>1, Identities DEF Ask, callers, pages, records, ClearedIsEmpty,
     ClearedMeansDetached, Fields, Saved
<1>2. ASSUME NEW c \in Caller, Refused(c) PROVE ClearedMeansDetached'
  BY <1>0, <1>2, Identities DEF Refused, callers, pages, records, ClearedIsEmpty,
     ClearedMeansDetached, Fields, Saved
<1>3. ASSUME NEW c \in Caller, Answered(c) PROVE ClearedMeansDetached'
  BY <1>0, <1>3, Identities DEF Answered, callers, pages, records, ClearedIsEmpty,
     ClearedMeansDetached, Fields, Saved
<1>4. ASSUME NEW c \in Caller, Enter(c) PROVE ClearedMeansDetached'
  BY <1>0, <1>4, Identities DEF Enter, EnterIf, Reusable, Return, Refreshing, Pending,
     callers, pages, records, ClearedIsEmpty, ClearedMeansDetached, Fields, Saved
<1>5. ASSUME NEW c \in Caller, Exchanged(c) PROVE ClearedMeansDetached'
  BY <1>0, <1>5, Identities DEF Exchanged, Fault, callers, pages, records, ClearedIsEmpty,
     ClearedMeansDetached, Fields, Saved
<1>6. ASSUME NEW c \in Caller, Unsent(c) PROVE ClearedMeansDetached'
  BY <1>0, <1>6, Identities DEF Unsent, Fault, callers, pages, records, ClearedIsEmpty,
     ClearedMeansDetached, Fields, Saved
<1>7. ASSUME NEW c \in Caller, Save(c) PROVE ClearedMeansDetached'
  <2>1. SaveFact(c)
    BY <1>7, Saves
  <2>. QED
    BY <1>0, <2>1, Identities DEF SaveFact, Return, callers, pages, records,
       ClearedIsEmpty, ClearedMeansDetached, Fields, Saved
<1>8. ASSUME NEW c \in Caller, Failed(c) PROVE ClearedMeansDetached'
  BY <1>0, <1>8, Identities DEF Failed, Return, callers, pages, records, ClearedIsEmpty,
     ClearedMeansDetached, Fields, Saved
<1>9. ASSUME NEW p \in Page, NEW a \in App, Credentials(p, a) PROVE ClearedMeansDetached'
  <2>1. RenewFact
    BY <1>9, Renews
  <2>. QED
    BY <1>0, <2>1, Identities DEF RenewFact, Announcing, callers, pages, records,
       ClearedIsEmpty, ClearedMeansDetached, Fields, Saved
<1>10. ASSUME NEW p \in Page, Unbind(p) PROVE ClearedMeansDetached'
  <2>1. RenewFact
    BY <1>10, Renews
  <2>. QED
    BY <1>0, <2>1, Identities DEF RenewFact, Announcing, callers, pages, records,
       ClearedIsEmpty, ClearedMeansDetached, Fields, Saved
<1>11. ASSUME NEW p \in Page, Disconnect(p) PROVE ClearedMeansDetached'
  BY <1>0, <1>11, Identities DEF Disconnect, callers, pages, records, ClearedIsEmpty,
     ClearedMeansDetached, Fields, Saved
<1>12. ASSUME NEW p \in Page, Remove(p) PROVE ClearedMeansDetached'
  BY <1>0, <1>12, Identities DEF Remove, Chosen, Announcing, callers, pages, records,
     ClearedIsEmpty, ClearedMeansDetached, Fields, Saved
<1>13. ASSUME NEW p \in Page, Begin(p) PROVE ClearedMeansDetached'
  BY <1>0, <1>13, Identities DEF Begin, callers, pages, records, ClearedIsEmpty,
     ClearedMeansDetached, Fields, Saved
<1>14. ASSUME NEW p \in Page, Begun(p) PROVE ClearedMeansDetached'
  <2>1. BeginFact(p)
    BY <1>14, Begins
  <2>. QED
    BY <1>0, <2>1, Identities DEF BeginFact, Answer, callers, pages, records,
       ClearedIsEmpty, ClearedMeansDetached, Fields, Saved
<1>15. ASSUME NEW p \in Page, Finish(p) PROVE ClearedMeansDetached'
  BY <1>0, <1>15, Identities DEF Finish, Pending, callers, pages, records, ClearedIsEmpty,
     ClearedMeansDetached, Fields, Saved
<1>16. ASSUME NEW p \in Page, Exchange(p) PROVE ClearedMeansDetached'
  BY <1>0, <1>16, Identities DEF Exchange, Pending, Answer, callers, pages, records,
     ClearedIsEmpty, ClearedMeansDetached, Fields, Saved
<1>17. ASSUME NEW p \in Page, Denied(p) PROVE ClearedMeansDetached'
  BY <1>0, <1>17, Identities DEF Denied, Answer, Fault, callers, pages, records,
     ClearedIsEmpty, ClearedMeansDetached, Fields, Saved
<1>18. ASSUME NEW p \in Page, Grant(p) PROVE ClearedMeansDetached'
  <2>1. GrantFact(p)
    BY <1>18, Grants
  <2>. QED
    BY <1>0, <2>1, Identities DEF GrantFact, Answer, callers, pages, records,
       ClearedIsEmpty, ClearedMeansDetached, Fields, Saved
<1>19. ASSUME NEW p \in Page, Status(p) PROVE ClearedMeansDetached'
  BY <1>0, <1>19, Identities DEF Status, Announcing, Answer, callers, pages, records,
     ClearedIsEmpty, ClearedMeansDetached, Fields, Saved
<1>20. ASSUME NEW p \in Page, Announce(p) PROVE ClearedMeansDetached'
  BY <1>0, <1>20, Identities DEF Announce, Answer, callers, pages, records, ClearedIsEmpty,
     ClearedMeansDetached, Fields, Saved
<1>21. ASSUME NEW p \in Page, AnnounceFails(p) PROVE ClearedMeansDetached'
  BY <1>0, <1>21, Identities DEF AnnounceFails, Answer, Fault, callers, pages, records,
     ClearedIsEmpty, ClearedMeansDetached, Fields, Saved
<1>22. CASE ReadPlans
  BY <1>0, <1>22, Identities DEF ReadPlans, callers, pages, records, ClearedIsEmpty,
     ClearedMeansDetached, Fields, Saved
<1>23. CASE AddAccount
  BY <1>0, <1>23, Identities DEF AddAccount, Guarded, Reads, callers, pages, records,
     ClearedIsEmpty, ClearedMeansDetached, Fields, Saved
<1>24. CASE SavePlans
  BY <1>0, <1>24, Identities DEF SavePlans, Guarded, Reads, callers, pages, records,
     ClearedIsEmpty, ClearedMeansDetached, Fields, Saved
<1>25. CASE Superseded
  BY <1>0, <1>25, Identities DEF Superseded, Reads, callers, pages, records,
     ClearedIsEmpty, ClearedMeansDetached, Fields, Saved
<1>26. CASE Expires
  BY <1>0, <1>26, Ages, Identities DEF Expires, callers, pages, records, ClearedIsEmpty,
     ClearedMeansDetached, Fields, Saved
<1>27. CASE Withdrawn
  BY <1>0, <1>27, Identities DEF Withdrawn, callers, pages, records, ClearedIsEmpty,
     ClearedMeansDetached, Fields, Saved
<1>28. CASE PendingExpires
  BY <1>0, <1>28, Ages, Identities DEF PendingExpires, Pending, callers, pages, records,
     ClearedIsEmpty, ClearedMeansDetached, Fields, Saved
<1>29. CASE Restart
  BY <1>0, <1>29, Identities DEF Restart, Fault, callers, pages, records, ClearedIsEmpty,
     ClearedMeansDetached, Fields, Saved
<1>. QED
  BY <1>1, <1>2, <1>3, <1>4, <1>5, <1>6, <1>7, <1>8, <1>9, <1>10, <1>11, <1>12, <1>13, <1>14,
     <1>15, <1>16, <1>17, <1>18, <1>19, <1>20, <1>21, <1>22, <1>23, <1>24, <1>25, <1>26,
     <1>27, <1>28, <1>29 DEF Next, Requests, Pages

LEMMA StatesKept ==
    ASSUME TypeOK, Numbers, StatesNamed, Next
    PROVE  StatesNamed'
<1>0. Fields
  BY Known
<1>1. ASSUME NEW c \in Caller, Ask(c) PROVE StatesNamed'
  BY <1>0, <1>1, Identities DEF Ask, callers, pages, records, StatesNamed, Numbers, Fields
<1>2. ASSUME NEW c \in Caller, Refused(c) PROVE StatesNamed'
  BY <1>0, <1>2, Identities DEF Refused, callers, pages, records, StatesNamed, Numbers,
     Fields
<1>3. ASSUME NEW c \in Caller, Answered(c) PROVE StatesNamed'
  BY <1>0, <1>3, Identities DEF Answered, callers, pages, records, StatesNamed, Numbers,
     Fields
<1>4. ASSUME NEW c \in Caller, Enter(c) PROVE StatesNamed'
  BY <1>0, <1>4, Identities DEF Enter, EnterIf, Reusable, Return, Refreshing, Pending,
     callers, pages, records, StatesNamed, Numbers, Fields
<1>5. ASSUME NEW c \in Caller, Exchanged(c) PROVE StatesNamed'
  BY <1>0, <1>5, Identities DEF Exchanged, Fault, callers, pages, records, StatesNamed,
     Numbers, Fields
<1>6. ASSUME NEW c \in Caller, Unsent(c) PROVE StatesNamed'
  BY <1>0, <1>6, Identities DEF Unsent, Fault, callers, pages, records, StatesNamed,
     Numbers, Fields
<1>7. ASSUME NEW c \in Caller, Save(c) PROVE StatesNamed'
  <2>1. SaveFact(c)
    BY <1>7, Saves
  <2>. QED
    BY <1>0, <2>1, Identities DEF SaveFact, Return, callers, pages, records, StatesNamed,
       Numbers, Fields
<1>8. ASSUME NEW c \in Caller, Failed(c) PROVE StatesNamed'
  BY <1>0, <1>8, Identities DEF Failed, Return, callers, pages, records, StatesNamed,
     Numbers, Fields
<1>9. ASSUME NEW p \in Page, NEW a \in App, Credentials(p, a) PROVE StatesNamed'
  <2>1. RenewFact
    BY <1>9, Renews
  <2>. QED
    BY <1>0, <2>1, Identities DEF RenewFact, Announcing, callers, pages, records,
       StatesNamed, Numbers, Fields
<1>10. ASSUME NEW p \in Page, Unbind(p) PROVE StatesNamed'
  <2>1. RenewFact
    BY <1>10, Renews
  <2>. QED
    BY <1>0, <2>1, Identities DEF RenewFact, Announcing, callers, pages, records,
       StatesNamed, Numbers, Fields
<1>11. ASSUME NEW p \in Page, Disconnect(p) PROVE StatesNamed'
  BY <1>0, <1>11, Identities DEF Disconnect, callers, pages, records, StatesNamed, Numbers,
     Fields
<1>12. ASSUME NEW p \in Page, Remove(p) PROVE StatesNamed'
  BY <1>0, <1>12, Identities DEF Remove, Chosen, Announcing, callers, pages, records,
     StatesNamed, Numbers, Fields
<1>13. ASSUME NEW p \in Page, Begin(p) PROVE StatesNamed'
  BY <1>0, <1>13, Identities DEF Begin, callers, pages, records, StatesNamed, Numbers,
     Fields
<1>14. ASSUME NEW p \in Page, Begun(p) PROVE StatesNamed'
  <2>1. BeginFact(p)
    BY <1>14, Begins
  <2>. QED
    BY <1>0, <2>1, Identities DEF BeginFact, Answer, callers, pages, records, StatesNamed,
       Numbers, Fields
<1>15. ASSUME NEW p \in Page, Finish(p) PROVE StatesNamed'
  BY <1>0, <1>15, Identities DEF Finish, Pending, callers, pages, records, StatesNamed,
     Numbers, Fields
<1>16. ASSUME NEW p \in Page, Exchange(p) PROVE StatesNamed'
  BY <1>0, <1>16, Identities DEF Exchange, Pending, Answer, callers, pages, records,
     StatesNamed, Numbers, Fields
<1>17. ASSUME NEW p \in Page, Denied(p) PROVE StatesNamed'
  BY <1>0, <1>17, Identities DEF Denied, Answer, Fault, callers, pages, records,
     StatesNamed, Numbers, Fields
<1>18. ASSUME NEW p \in Page, Grant(p) PROVE StatesNamed'
  <2>1. GrantFact(p)
    BY <1>18, Grants
  <2>. QED
    BY <1>0, <2>1, Identities DEF GrantFact, Answer, callers, pages, records, StatesNamed,
       Numbers, Fields
<1>19. ASSUME NEW p \in Page, Status(p) PROVE StatesNamed'
  BY <1>0, <1>19, Identities DEF Status, Announcing, Answer, callers, pages, records,
     StatesNamed, Numbers, Fields
<1>20. ASSUME NEW p \in Page, Announce(p) PROVE StatesNamed'
  BY <1>0, <1>20, Identities DEF Announce, Answer, callers, pages, records, StatesNamed,
     Numbers, Fields
<1>21. ASSUME NEW p \in Page, AnnounceFails(p) PROVE StatesNamed'
  BY <1>0, <1>21, Identities DEF AnnounceFails, Answer, Fault, callers, pages, records,
     StatesNamed, Numbers, Fields
<1>22. CASE ReadPlans
  BY <1>0, <1>22, Identities DEF ReadPlans, callers, pages, records, StatesNamed, Numbers,
     Fields
<1>23. CASE AddAccount
  BY <1>0, <1>23, Identities DEF AddAccount, Guarded, Reads, callers, pages, records,
     StatesNamed, Numbers, Fields
<1>24. CASE SavePlans
  BY <1>0, <1>24, Identities DEF SavePlans, Guarded, Reads, callers, pages, records,
     StatesNamed, Numbers, Fields
<1>25. CASE Superseded
  BY <1>0, <1>25, Identities DEF Superseded, Reads, callers, pages, records, StatesNamed,
     Numbers, Fields
<1>26. CASE Expires
  BY <1>0, <1>26, Ages, Identities DEF Expires, callers, pages, records, StatesNamed,
     Numbers, Fields
<1>27. CASE Withdrawn
  BY <1>0, <1>27, Identities DEF Withdrawn, callers, pages, records, StatesNamed, Numbers,
     Fields
<1>28. CASE PendingExpires
  BY <1>0, <1>28, Ages, Identities DEF PendingExpires, Pending, callers, pages, records,
     StatesNamed, Numbers, Fields
<1>29. CASE Restart
  BY <1>0, <1>29, Identities DEF Restart, Fault, callers, pages, records, StatesNamed,
     Numbers, Fields
<1>. QED
  BY <1>1, <1>2, <1>3, <1>4, <1>5, <1>6, <1>7, <1>8, <1>9, <1>10, <1>11, <1>12, <1>13, <1>14,
     <1>15, <1>16, <1>17, <1>18, <1>19, <1>20, <1>21, <1>22, <1>23, <1>24, <1>25, <1>26,
     <1>27, <1>28, <1>29 DEF Next, Requests, Pages

LEMMA ReplaceKept ==
    ASSUME TypeOK, Numbers, Snapshots, StatesNamed, GrantReplaces, Next
    PROVE  GrantReplaces'
<1>0. Fields
  BY Known
<1>1. ASSUME NEW c \in Caller, Ask(c) PROVE GrantReplaces'
  BY <1>0, <1>1, Identities DEF Ask, callers, pages, records, GrantReplaces, StatesNamed,
     Numbers, Same, Saved, Id, Fields
<1>2. ASSUME NEW c \in Caller, Refused(c) PROVE GrantReplaces'
  BY <1>0, <1>2, Identities DEF Refused, callers, pages, records, GrantReplaces,
     StatesNamed, Numbers, Same, Saved, Id, Fields
<1>3. ASSUME NEW c \in Caller, Answered(c) PROVE GrantReplaces'
  BY <1>0, <1>3, Identities DEF Answered, callers, pages, records, GrantReplaces,
     StatesNamed, Numbers, Same, Saved, Id, Fields
<1>4. ASSUME NEW c \in Caller, Enter(c) PROVE GrantReplaces'
  BY <1>0, <1>4, Identities DEF Enter, EnterIf, Reusable, Return, Refreshing, Pending,
     callers, pages, records, GrantReplaces, StatesNamed, Numbers, Same, Saved, Id, Fields
<1>5. ASSUME NEW c \in Caller, Exchanged(c) PROVE GrantReplaces'
  BY <1>0, <1>5, Identities DEF Exchanged, Fault, callers, pages, records, GrantReplaces,
     StatesNamed, Numbers, Same, Saved, Id, Fields
<1>6. ASSUME NEW c \in Caller, Unsent(c) PROVE GrantReplaces'
  BY <1>0, <1>6, Identities DEF Unsent, Fault, callers, pages, records, GrantReplaces,
     StatesNamed, Numbers, Same, Saved, Id, Fields
<1>7. ASSUME NEW c \in Caller, Save(c) PROVE GrantReplaces'
  <2>1. SaveFact(c)
    BY <1>7, Saves
  <2>. QED
    BY <1>0, <2>1, Identities DEF SaveFact, Return, callers, pages, records, GrantReplaces,
       StatesNamed, Numbers, Same, Saved, Id, Fields
<1>8. ASSUME NEW c \in Caller, Failed(c) PROVE GrantReplaces'
  BY <1>0, <1>8, Identities DEF Failed, Return, callers, pages, records, GrantReplaces,
     StatesNamed, Numbers, Same, Saved, Id, Fields
<1>9. ASSUME NEW p \in Page, NEW a \in App, Credentials(p, a) PROVE GrantReplaces'
  <2>1. RenewFact
    BY <1>9, Renews
  <2>. QED
    BY <1>0, <2>1, Identities DEF RenewFact, Announcing, callers, pages, records,
       GrantReplaces, StatesNamed, Numbers, Same, Saved, Id, Fields
<1>10. ASSUME NEW p \in Page, Unbind(p) PROVE GrantReplaces'
  <2>1. RenewFact
    BY <1>10, Renews
  <2>. QED
    BY <1>0, <2>1, Identities DEF RenewFact, Announcing, callers, pages, records,
       GrantReplaces, StatesNamed, Numbers, Same, Saved, Id, Fields
<1>11. ASSUME NEW p \in Page, Disconnect(p) PROVE GrantReplaces'
  BY <1>0, <1>11, Identities DEF Disconnect, callers, pages, records, GrantReplaces,
     StatesNamed, Numbers, Same, Saved, Id, Fields
<1>12. ASSUME NEW p \in Page, Remove(p) PROVE GrantReplaces'
  BY <1>0, <1>12, Identities DEF Remove, Chosen, Announcing, callers, pages, records,
     GrantReplaces, StatesNamed, Numbers, Same, Saved, Id, Fields
<1>13. ASSUME NEW p \in Page, Begin(p) PROVE GrantReplaces'
  BY <1>0, <1>13, Identities DEF Begin, callers, pages, records, GrantReplaces,
     StatesNamed, Numbers, Same, Saved, Id, Fields
<1>14. ASSUME NEW p \in Page, Begun(p) PROVE GrantReplaces'
  <2>1. BeginFact(p)
    BY <1>14, Begins
  <2>. QED
    BY <1>0, <2>1, Identities DEF BeginFact, Answer, callers, pages, records,
       GrantReplaces, StatesNamed, Numbers, Same, Saved, Id, Fields
<1>15. ASSUME NEW p \in Page, Finish(p) PROVE GrantReplaces'
  BY <1>0, <1>15, Identities DEF Finish, Pending, callers, pages, records, GrantReplaces,
     StatesNamed, Numbers, Same, Saved, Id, Fields
<1>16. ASSUME NEW p \in Page, Exchange(p) PROVE GrantReplaces'
  BY <1>0, <1>16, Identities DEF Exchange, Pending, Answer, callers, pages, records,
     GrantReplaces, StatesNamed, Numbers, Same, Saved, Id, Fields
<1>17. ASSUME NEW p \in Page, Denied(p) PROVE GrantReplaces'
  BY <1>0, <1>17, Identities DEF Denied, Answer, Fault, callers, pages, records,
     GrantReplaces, StatesNamed, Numbers, Same, Saved, Id, Fields
<1>18. ASSUME NEW p \in Page, Grant(p) PROVE GrantReplaces'
  <2>1. GrantFact(p)
    BY <1>18, Grants
  <2>. QED
    BY <1>0, <2>1, Identities DEF GrantFact, Answer, callers, pages, records,
       GrantReplaces, StatesNamed, Numbers, Same, Saved, Id, Fields
<1>19. ASSUME NEW p \in Page, Status(p) PROVE GrantReplaces'
  BY <1>0, <1>19, Identities DEF Status, Announcing, Answer, callers, pages, records,
     GrantReplaces, StatesNamed, Numbers, Same, Saved, Id, Fields
<1>20. ASSUME NEW p \in Page, Announce(p) PROVE GrantReplaces'
  BY <1>0, <1>20, Identities DEF Announce, Answer, callers, pages, records, GrantReplaces,
     StatesNamed, Numbers, Same, Saved, Id, Fields
<1>21. ASSUME NEW p \in Page, AnnounceFails(p) PROVE GrantReplaces'
  BY <1>0, <1>21, Identities DEF AnnounceFails, Answer, Fault, callers, pages, records,
     GrantReplaces, StatesNamed, Numbers, Same, Saved, Id, Fields
<1>22. CASE ReadPlans
  BY <1>0, <1>22, Identities DEF ReadPlans, callers, pages, records, GrantReplaces,
     StatesNamed, Numbers, Same, Saved, Id, Fields
<1>23. CASE AddAccount
  BY <1>0, <1>23, Identities DEF AddAccount, Guarded, Reads, callers, pages, records,
     GrantReplaces, StatesNamed, Numbers, Same, Saved, Id, Fields
<1>24. CASE SavePlans
  BY <1>0, <1>24, Identities DEF SavePlans, Guarded, Reads, callers, pages, records,
     GrantReplaces, StatesNamed, Numbers, Same, Saved, Id, Fields
<1>25. CASE Superseded
  BY <1>0, <1>25, Identities DEF Superseded, Reads, callers, pages, records, GrantReplaces,
     StatesNamed, Numbers, Same, Saved, Id, Fields
<1>26. CASE Expires
  BY <1>0, <1>26, Ages, Identities DEF Expires, callers, pages, records, GrantReplaces,
     StatesNamed, Numbers, Same, Saved, Id, Fields
<1>27. CASE Withdrawn
  BY <1>0, <1>27, Identities DEF Withdrawn, callers, pages, records, GrantReplaces,
     StatesNamed, Numbers, Same, Saved, Id, Fields
<1>28. CASE PendingExpires
  BY <1>0, <1>28, Ages, Identities DEF PendingExpires, Pending, callers, pages, records,
     GrantReplaces, StatesNamed, Numbers, Same, Saved, Id, Fields
<1>29. CASE Restart
  BY <1>0, <1>29, Identities DEF Restart, Fault, callers, pages, records, GrantReplaces,
     StatesNamed, Numbers, Same, Saved, Id, Fields
<1>. QED
  BY <1>1, <1>2, <1>3, <1>4, <1>5, <1>6, <1>7, <1>8, <1>9, <1>10, <1>11, <1>12, <1>13, <1>14,
     <1>15, <1>16, <1>17, <1>18, <1>19, <1>20, <1>21, <1>22, <1>23, <1>24, <1>25, <1>26,
     <1>27, <1>28, <1>29 DEF Next, Requests, Pages

LEMMA EvidenceKept ==
    ASSUME TypeOK, Numbers, Snapshots, OneRefresh, GrantReplaces, EvidenceIsCarried, Next
    PROVE  EvidenceIsCarried'
<1>0. Fields
  BY Known
<1>1. ASSUME NEW c \in Caller, Ask(c) PROVE EvidenceIsCarried'
  BY <1>0, <1>1, Identities DEF Ask, callers, pages, records, EvidenceIsCarried, Drops, Id,
     Fields
<1>2. ASSUME NEW c \in Caller, Refused(c) PROVE EvidenceIsCarried'
  BY <1>0, <1>2, Identities DEF Refused, callers, pages, records, EvidenceIsCarried, Drops,
     Id, Fields
<1>3. ASSUME NEW c \in Caller, Answered(c) PROVE EvidenceIsCarried'
  BY <1>0, <1>3, Identities DEF Answered, callers, pages, records, EvidenceIsCarried,
     Drops, Id, Fields
<1>4. ASSUME NEW c \in Caller, Enter(c) PROVE EvidenceIsCarried'
  BY <1>0, <1>4, Identities DEF Enter, EnterIf, Reusable, Return, Refreshing, Pending,
     callers, pages, records, EvidenceIsCarried, Drops, Id, Fields
<1>5. ASSUME NEW c \in Caller, Exchanged(c) PROVE EvidenceIsCarried'
  BY <1>0, <1>5, Identities DEF Exchanged, Fault, callers, pages, records,
     EvidenceIsCarried, Drops, Id, Fields
<1>6. ASSUME NEW c \in Caller, Unsent(c) PROVE EvidenceIsCarried'
  BY <1>0, <1>6, Identities DEF Unsent, Fault, callers, pages, records, EvidenceIsCarried,
     Drops, Id, Fields
<1>7. ASSUME NEW c \in Caller, Save(c) PROVE EvidenceIsCarried'
  <2>1. SaveFact(c)
    BY <1>7, Saves
  <2>2. /\ file'.app = file.app /\ file'.gen = file.gen
        /\ file.token = 0 => file'.token = 0
    BY <1>0, <2>1 DEF SaveFact, Snapshots, Matches, OneRefresh
  <2>3. UNCHANGED <<page, prev, cur, event, proof, muted>>
    BY <2>1 DEF SaveFact, pages, records
  <2>. QED
    BY <2>2, <2>3 DEF EvidenceIsCarried, Drops, Id
<1>8. ASSUME NEW c \in Caller, Failed(c) PROVE EvidenceIsCarried'
  BY <1>0, <1>8, Identities DEF Failed, Return, callers, pages, records, EvidenceIsCarried,
     Drops, Id, Fields
<1>9. ASSUME NEW p \in Page, NEW a \in App, Credentials(p, a) PROVE EvidenceIsCarried'
  <2>1. RenewFact
    BY <1>9, Renews
  <2>. QED
    BY <1>0, <2>1, Identities DEF RenewFact, Announcing, callers, pages, records,
       EvidenceIsCarried, Drops, Id, Fields
<1>10. ASSUME NEW p \in Page, Unbind(p) PROVE EvidenceIsCarried'
  <2>1. RenewFact
    BY <1>10, Renews
  <2>. QED
    BY <1>0, <2>1, Identities DEF RenewFact, Announcing, callers, pages, records,
       EvidenceIsCarried, Drops, Id, Fields
<1>11. ASSUME NEW p \in Page, Disconnect(p) PROVE EvidenceIsCarried'
  BY <1>0, <1>11, Identities DEF Disconnect, callers, pages, records, EvidenceIsCarried,
     Drops, Id, Fields
<1>12. ASSUME NEW p \in Page, Remove(p) PROVE EvidenceIsCarried'
  BY <1>0, <1>12, Identities DEF Remove, Chosen, Announcing, callers, pages, records,
     EvidenceIsCarried, Drops, Id, Fields
<1>13. ASSUME NEW p \in Page, Begin(p) PROVE EvidenceIsCarried'
  BY <1>0, <1>13, Identities DEF Begin, callers, pages, records, EvidenceIsCarried, Drops,
     Id, Fields
<1>14. ASSUME NEW p \in Page, Begun(p) PROVE EvidenceIsCarried'
  <2>1. BeginFact(p)
    BY <1>14, Begins
  <2>2. file'.app = file.app /\ file'.gen = file.gen /\ file'.token = file.token
    BY <2>1 DEF BeginFact, Snapshots, Matches
  <2>. QED
    BY <1>0, <2>1, <2>2, Identities DEF BeginFact, Answer, records, EvidenceIsCarried, Drops, Id
<1>15. ASSUME NEW p \in Page, Finish(p) PROVE EvidenceIsCarried'
  BY <1>0, <1>15, Identities DEF Finish, Pending, callers, pages, records,
     EvidenceIsCarried, Drops, Id, Fields
<1>16. ASSUME NEW p \in Page, Exchange(p) PROVE EvidenceIsCarried'
  BY <1>0, <1>16, Identities DEF Exchange, Pending, Answer, callers, pages, records,
     EvidenceIsCarried, Drops, Id, Fields
<1>17. ASSUME NEW p \in Page, Denied(p) PROVE EvidenceIsCarried'
  BY <1>0, <1>17, Identities DEF Denied, Answer, Fault, callers, pages, records,
     EvidenceIsCarried, Drops, Id, Fields
<1>18. ASSUME NEW p \in Page, Grant(p) PROVE EvidenceIsCarried'
  <2>1. CASE ~Same(read[p])
    BY <1>0, <1>18, <2>1, Identities DEF Grant, GrantIf, Answer, callers, pages, records,
       EvidenceIsCarried, Drops, Id, Fields
  <2>2. CASE Same(read[p])
    <3>1. page[p] = "wire" /\ page' = [page EXCEPT ![p] = "status"] /\ prev' = prev
      BY <1>18, <2>2 DEF Grant, GrantIf
    <3>2. prev[p] = Id
      BY <2>2, <3>1 DEF GrantReplaces
    <3>3. file'.app = file.app /\ file'.gen = rev + 1
      <4>1. rev' = rev + 1 /\ rev + 1 # rev
        BY <1>0, <1>18, <2>2 DEF Grant, GrantIf, Write, Fields
      <4>2. GrantFact(p)
        BY <1>18, Grants
      <4>. QED
        BY <2>2, <4>1, <4>2 DEF GrantFact, Snapshots, Matches
    <3>4. prev'[p].app = file'.app /\ prev'[p].gen # file'.gen
      BY <1>0, <3>1, <3>2, <3>3 DEF Id, Numbers, Fields
    <3>5. Drops(p)'
      BY <1>0, <3>1, <3>4 DEF Drops, Id, Fields
    <3>. QED
      BY <3>5 DEF EvidenceIsCarried
  <2>. QED
    BY <2>1, <2>2
<1>19. ASSUME NEW p \in Page, Status(p) PROVE EvidenceIsCarried'
  BY <1>0, <1>19, Identities DEF Status, Announcing, Answer, callers, pages, records,
     EvidenceIsCarried, Drops, Id, Fields
<1>20. ASSUME NEW p \in Page, Announce(p) PROVE EvidenceIsCarried'
  BY <1>0, <1>20, Identities DEF Announce, Answer, callers, pages, records,
     EvidenceIsCarried, Drops, Id, Fields
<1>21. ASSUME NEW p \in Page, AnnounceFails(p) PROVE EvidenceIsCarried'
  BY <1>0, <1>21, Identities DEF AnnounceFails, Answer, Fault, callers, pages, records,
     EvidenceIsCarried, Drops, Id, Fields
<1>22. CASE ReadPlans
  BY <1>0, <1>22, Identities DEF ReadPlans, callers, pages, records, EvidenceIsCarried,
     Drops, Id, Fields
<1>23. CASE AddAccount
  BY <1>0, <1>23, Identities DEF AddAccount, Guarded, Reads, callers, pages, records,
     EvidenceIsCarried, Drops, Id, Fields
<1>24. CASE SavePlans
  BY <1>0, <1>24, Identities DEF SavePlans, Guarded, Reads, callers, pages, records,
     EvidenceIsCarried, Drops, Id, Fields
<1>25. CASE Superseded
  BY <1>0, <1>25, Identities DEF Superseded, Reads, callers, pages, records,
     EvidenceIsCarried, Drops, Id, Fields
<1>26. CASE Expires
  BY <1>0, <1>26, Ages, Identities DEF Expires, callers, pages, records, EvidenceIsCarried,
     Drops, Id, Fields
<1>27. CASE Withdrawn
  BY <1>0, <1>27, Identities DEF Withdrawn, callers, pages, records, EvidenceIsCarried,
     Drops, Id, Fields
<1>28. CASE PendingExpires
  BY <1>0, <1>28, Ages, Identities DEF PendingExpires, Pending, callers, pages, records,
     EvidenceIsCarried, Drops, Id, Fields
<1>29. CASE Restart
  BY <1>0, <1>29, Identities DEF Restart, Fault, callers, pages, records,
     EvidenceIsCarried, Drops, Id, Fields
<1>. QED
  BY <1>1, <1>2, <1>3, <1>4, <1>5, <1>6, <1>7, <1>8, <1>9, <1>10, <1>11, <1>12, <1>13, <1>14,
     <1>15, <1>16, <1>17, <1>18, <1>19, <1>20, <1>21, <1>22, <1>23, <1>24, <1>25, <1>26,
     <1>27, <1>28, <1>29 DEF Next, Requests, Pages

LEMMA EvidenceStarted == Init => EInv
<1>. SUFFICES ASSUME Init PROVE EInv
  OBVIOUS
<1>1. PICK a \in App, live \in BOOLEAN :
        file = [app |-> a, gen |-> 1, rev |-> 1, token |-> 1, live |-> live,
                state |-> 0, fresh |-> FALSE]
  BY DEF Init
<1>2. /\ rev = 1 /\ page = [p \in Page |-> "idle"] /\ read = [p \in Page |-> NoFile]
      /\ proof = Id /\ file.rev = 1 /\ file.state = 0
  BY <1>1 DEF Init
<1>. QED
  BY <1>2 DEF EInv, ClearedIsEmpty, ClearedMeansDetached, StatesNamed, GrantReplaces,
     EvidenceIsCarried, Saved, NoFile

LEMMA EvidenceStep == IInv /\ EInv /\ [Next]_vars => EInv'
<1>1. ASSUME IInv, EInv, Next PROVE EInv'
  BY <1>1, ClearedKept, DetachedKept, StatesKept, ReplaceKept, EvidenceKept DEF IInv, EInv
<1>2. ASSUME EInv, UNCHANGED vars PROVE EInv'
  BY <1>2 DEF vars, callers, pages, records, EInv, ClearedIsEmpty, ClearedMeansDetached,
     StatesNamed, GrantReplaces, EvidenceIsCarried, Drops, Saved, Same, Id
<1>. QED
  BY <1>1, <1>2

LEMMA Announcements == Spec => [](IInv /\ EInv)
BY EvidenceStarted, EvidenceStep, InductiveInvariant, PTL DEF Spec

\* Evidence under an earlier grant is dropped before the next grant has been
\* announced, unless an announcement failed (handle_change, _catalog_local_call).
THEOREM EvidenceIsDropped == Spec => []EvidenceFollowsGrant
<1>1. EInv => EvidenceFollowsGrant
  BY DEF EInv, EvidenceIsCarried, Drops, EvidenceFollowsGrant
<1>. QED
  BY <1>1, Announcements, PTL

\* No account stays added to a configuration that was removed, once its removal
\* is announced (disconnect_configuration, add_authorized_account).
THEOREM AccountsAreDetached == Spec => []ClearedMeansDetached
<1>1. EInv => ClearedMeansDetached
  BY DEF EInv
<1>. QED
  BY <1>1, Announcements, PTL
=============================================================================
