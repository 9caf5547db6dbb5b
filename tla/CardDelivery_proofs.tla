------------------------ MODULE CardDelivery_proofs ------------------------
(***************************************************************************)
(* Proofs about CardDelivery for any number of drainers, updaters, changes *)
(* of the task, attempts and faults: one message, which never goes back,   *)
(* shows nothing new after a withdrawal and is not left behind.            *)
(*                                                                         *)
(* The argument.  Which thread may change what is shown is decided by two  *)
(* locks: a request runs under the audience lock, a PATCH also under the   *)
(* lane, with a content that was built under it (ThreadInv).  Nothing but  *)
(* the first POST can show something before the first message exists       *)
(* (MessageInv), for every update comes from the list of messages or from  *)
(* the receipt of an earlier update.  That no update is forgotten is an    *)
(* invariant of its own: each step of a patch hands what it has in hand    *)
(* over to a row or to its next step.                                      *)
(***************************************************************************)
EXTENDS CardDelivery, TLAPS

Sending  == {"claimed", "post", "posting"}
Patching == {"patch", "patching", "sent", "recheck"}
Known    == {"receipt", "enter"} \cup Patching

\* What is true of a thread where it is: a request is on the wire under the
\* audience lock, a POST is sent while Feishu remembers its UUID, and a PATCH
\* under the lane carries a content that is no older than what is shown.
ThreadInv(t) ==
    /\ work[t].at \in {"posting", "patching"} => wire = t
    /\ work[t].at \in Sending => t \in Drainer /\ clock < 2
    /\ work[t].at \in Sending \cup {"receipt"} => work[t].row = Send
    /\ work[t].at \in Known => chat.messages > 0
    /\ work[t].at \in Patching => lane = t /\ work[t].content \in 0 .. task.version
    /\ work[t].at \in {"patch", "patching"} => chat.shown <= work[t].content
    /\ work[t].at \in {"sent", "recheck"} => chat.shown = work[t].content
    /\ work[t].at = "idle" => work[t].row = NoRow

\* Before the first message there is nothing to update; a message shows a state
\* of the task, and nothing newer than that is noted as shown.
MessageInv ==
    /\ revoked => wire = NoThread
    /\ chat.messages <= 1
    /\ chat.messages = 0 => /\ chat.shown = Unset /\ task.hash = Unset /\ ~task.listed
                            /\ \A r \in Update : outbox[r].status = "none"
    /\ chat.messages > 0 => /\ chat.shown <= task.version
                            /\ task.hash # Unset => task.hash <= chat.shown

IInv == TypeOK /\ (\A t \in Thread : ThreadInv(t)) /\ MessageInv

(***************************************************************************)
(* Types                                                                   *)
(***************************************************************************)
Row == [status : RowStatus, attempts : Nat, token : Nat, lapsed : BOOLEAN]
Place == {"idle", "claimed", "post", "posting", "receipt", "enter",
          "patch", "patching", "sent", "recheck", "fail"}
Content == Version \cup {Unset}
Work == [at : Place, row : RowId \cup {NoRow}, token : Nat, tries : Nat,
         content : Content, patches : Nat]

LEMMA Constants ==
    /\ Last \in Nat /\ MaxAttempts \in Nat /\ MaxFault \in Nat
    /\ NoThread \notin Thread /\ Drainer \subseteq Thread /\ Updater \subseteq Thread
    /\ Version \subseteq Nat /\ 0 \in Version
    /\ Unset \in Nat /\ Unset \notin Version
BY DeliveryAssumption DEF Thread, Version, Unset

LEMMA TypesAre ==
    TypeOK <=> /\ outbox \in [RowId -> Row]
               /\ task \in [version : Version, listed : BOOLEAN, hash : Content]
               /\ work \in [Thread -> Work]
               /\ jobs \in Nat
               /\ lane \in Thread \cup {NoThread} /\ wire \in Thread \cup {NoThread}
               /\ chat \in [messages : Nat, shown : Content]
               /\ revoked \in BOOLEAN
               /\ clock \in 0 .. 2 /\ crashed \in BOOLEAN /\ faults \in 0 .. MaxFault
BY DEF TypeOK, Row, Work, Place, Content

LEMMA RowIds ==
    /\ Send \in RowId /\ Send \notin Update /\ Update \subseteq RowId
    /\ NoRow \notin RowId
    /\ \A v \in Version : Receipt(v) \in Update /\ Retry(v) \in Update
<1>1. \A v \in Version : Receipt(v) \in RowId /\ Retry(v) \in RowId
  BY DEF RowId, Receipt, Retry
<1>2. \A v \in Version : Receipt(v) # Send /\ Retry(v) # Send
  BY DEF Receipt, Retry, Send
<1>3. Send \in RowId /\ NoRow \notin RowId
  BY DEF Send, RowId, NoRow
<1> QED BY <1>1, <1>2, <1>3 DEF Update

LEMMA ClosedTyped ==
    ASSUME NEW row \in Row, NEW status \in RowStatus
    PROVE  /\ Closed(row, status) \in Row
           /\ Closed(row, status).status = status
           /\ Closed(row, status).token = row.token
BY DEF Closed, Row

LEMMA RowTyped ==
    ASSUME NEW row \in Row
    PROVE  [row EXCEPT !.status = "sending", !.attempts = row.attempts + 1,
                       !.token = row.token + 1] \in Row
<1>1. row.attempts + 1 \in Nat /\ row.token + 1 \in Nat /\ "sending" \in RowStatus
  BY DEF Row, RowStatus
<1> QED BY <1>1 DEF Row

LEMMA IdleTyped == Idle \in Work /\ Idle.at = "idle" /\ Idle.row = NoRow
BY Constants DEF Idle, Work, Place, Content

LEMMA WorkTyped ==
    ASSUME NEW w \in Work, NEW at \in Place
    PROVE  /\ [w EXCEPT !.at = at] \in Work
           /\ [w EXCEPT !.at = at].at = at
           /\ [w EXCEPT !.at = at].row = w.row
           /\ [w EXCEPT !.at = at].content = w.content
BY DEF Work

\* What the sweep leaves: rows, and of an update what it was, queued again at most.
LEMMA SweptTyped ==
    ASSUME TypeOK
    PROVE  /\ Swept \in [RowId -> Row]
           /\ \A r \in RowId : Swept[r].status = "none" <=> outbox[r].status = "none"
           /\ \A r \in Update : outbox[r].status \in {"queued", "sending", "failed"} =>
                  Swept[r].status \in {"queued", "sending", "failed"}
<1>1. outbox \in [RowId -> Row]
  BY TypesAre
<1>2. \A r \in RowId : Closed(outbox[r], "unknown") \in Row /\ Closed(outbox[r], "queued") \in Row
  BY <1>1, ClosedTyped DEF RowStatus
<1>3. Swept \in [RowId -> Row]
  BY <1>1, <1>2 DEF Swept
<1>4. \A r \in RowId : /\ Closed(outbox[r], "unknown").status = "unknown"
                       /\ Closed(outbox[r], "queued").status = "queued"
  BY <1>1, ClosedTyped DEF RowStatus
<1>5. \A r \in RowId : Swept[r] \in {outbox[r], Closed(outbox[r], "unknown"), Closed(outbox[r], "queued")}
                       /\ (Swept[r] # outbox[r] => outbox[r].status = "sending")
                       /\ (r # Send => Swept[r] # Closed(outbox[r], "unknown") \/ Swept[r] = outbox[r])
  BY <1>4 DEF Swept
<1>6. \A r \in RowId : Swept[r].status = "none" <=> outbox[r].status = "none"
  BY <1>4, <1>5
<1>7. \A r \in Update : Send # r /\ r \in RowId
  BY DEF Update
<1>8. \A r \in Update : Swept[r] \in {outbox[r], Closed(outbox[r], "queued")}
  BY <1>7, <1>4 DEF Swept
<1> QED BY <1>3, <1>4, <1>6, <1>7, <1>8

LEMMA CloseOwnTyped ==
    ASSUME TypeOK, NEW t \in Thread, NEW status \in RowStatus \ {"none"}, CloseOwn(t, status)
    PROVE  /\ outbox' \in [RowId -> Row]
           /\ \A r \in RowId : outbox'[r].status = "none" <=> outbox[r].status = "none"
           /\ \A r \in RowId : r # work[t].row => outbox'[r] = outbox[r]
           /\ work[t].row \in RowId =>
                  outbox'[work[t].row].status \in {outbox[work[t].row].status, status}
<1>1. outbox \in [RowId -> Row] /\ work \in [Thread -> Work]
  BY TypesAre
<1>2. CASE ~Holds(t)
  BY <1>1, <1>2 DEF CloseOwn
<1>3. CASE Holds(t)
  <2>1. work[t].row \in RowId
    BY <1>1, <1>3 DEF Holds, Work
  <2>2. outbox' = [outbox EXCEPT ![work[t].row] = Closed(outbox[work[t].row], status)]
    BY <1>3 DEF CloseOwn
  <2>3. /\ Closed(outbox[work[t].row], status) \in Row
        /\ Closed(outbox[work[t].row], status).status = status
    BY <1>1, <2>1, ClosedTyped
  <2>4. outbox[work[t].row].status = "sending"
    BY <1>3 DEF Holds
  <2> QED BY <1>1, <2>1, <2>2, <2>3, <2>4
<1> QED BY <1>2, <1>3

(***************************************************************************)
(* Steps of one thread                                                     *)
(***************************************************************************)

\* The others keep their facts when thread t moves, as long as it takes and
\* gives back only locks that are free or its own, and changes what the
\* recipient sees under the lane only.
Mild(t) ==
    /\ lane' = lane \/ lane \in {t, NoThread}
    /\ wire' = wire \/ wire \in {t, NoThread}
    /\ clock' = clock /\ task'.version = task.version
    /\ chat'.messages \in {chat.messages, chat.messages + 1}
    /\ chat'.shown = chat.shown \/ lane = t \/ chat.messages = 0

LEMMA OthersKept ==
    ASSUME IInv, NEW t \in Thread, NEW u \in Thread, u # t, Mild(t), work'[u] = work[u]
    PROVE  ThreadInv(u)'
<1>1. ThreadInv(u) /\ u # NoThread
  BY Constants DEF IInv
<1>2. chat.messages \in Nat
  BY DEF IInv, TypeOK
<1>3. work[u].at \in Patching => lane = u /\ lane' = lane
  BY <1>1 DEF ThreadInv, Mild
<1>4. work[u].at \in {"posting", "patching"} => wire' = u
  BY <1>1 DEF ThreadInv, Mild
<1>5. work[u].at \in Patching => chat'.shown = chat.shown
  BY <1>1, <1>2, <1>3 DEF ThreadInv, Mild, Known
<1>6. work[u].at \in Known => chat'.messages > 0
  BY <1>1, <1>2 DEF ThreadInv, Mild
<1> QED BY <1>1, <1>3, <1>4, <1>5, <1>6 DEF ThreadInv, Mild, Patching

LEMMA MoveInv ==
    ASSUME IInv, NEW t \in Thread, NEW w \in Work, work' = [work EXCEPT ![t] = w], Mild(t),
           TypeOK', ThreadInv(t)', MessageInv'
    PROVE  IInv'
<1>1. work \in [Thread -> Work]
  BY TypesAre DEF IInv
<1>2. \A u \in Thread : u # t => ThreadInv(u)'
  BY <1>1, OthersKept
<1> QED BY <1>2 DEF IInv

\* Rows are closed, or claimed; the message and the locks stay as they are.
LEMMA QuietMove ==
    ASSUME IInv, NEW t \in Thread, NEW w \in Work, work' = [work EXCEPT ![t] = w],
           outbox' \in [RowId -> Row],
           \A r \in Update : outbox[r].status = "none" => outbox'[r].status = "none",
           lane' = lane \/ (lane = t /\ lane' = NoThread),
           UNCHANGED <<task, jobs, wire, chat, revoked, clock, crashed, faults>>,
           w.at \in {"idle", "enter", "fail", "claimed", "post"},
           w.at \in {"claimed", "post"} => t \in Drainer /\ clock < 2 /\ w.row = Send,
           w.at = "enter" => chat.messages > 0,
           w.at = "idle" => w.row = NoRow
    PROVE  IInv'
<1>1. work \in [Thread -> Work] /\ work'[t] = w
  BY TypesAre DEF IInv
<1>2. TypeOK'
  <2>1. work' \in [Thread -> Work]
    BY <1>1
  <2> QED BY <2>1, TypesAre DEF IInv, TypeOK, Row, Work, Place, Content
<1>3. ThreadInv(t)'
  BY <1>1 DEF ThreadInv, Sending, Patching, Known
<1>4. MessageInv'
  BY DEF IInv, MessageInv
<1>5. chat'.messages = chat.messages /\ Mild(t)
  BY DEF Mild
<1> QED BY <1>2, <1>3, <1>4, <1>5, MoveInv

(***************************************************************************)
(* The first delivery                                                      *)
(***************************************************************************)

\* The sweep, and a delivery that is given up with it.
LEMMA GiveUpInv ==
    ASSUME IInv, NEW d \in Drainer, SweepOnly(d) \/ GiveUp(d)
    PROVE  IInv'
<1>1. /\ Swept \in [RowId -> Row] /\ TypeOK
      /\ \A r \in RowId : Swept[r].status = "none" <=> outbox[r].status = "none"
  BY SweptTyped DEF IInv
<1>2. /\ outbox' \in [RowId -> Row]
      /\ \A r \in Update : outbox[r].status = "none" => outbox'[r].status = "none"
  <2>1. CASE SweepOnly(d)
    BY <1>1, <2>1, RowIds DEF SweepOnly
  <2>2. CASE GiveUp(d)
    <3> DEFINE status == IF revoked THEN "superseded" ELSE "unknown"
    <3>1. outbox' = [Swept EXCEPT ![Send].status = status]
      BY <2>2 DEF GiveUp
    <3>2. [Swept[Send] EXCEPT !.status = status] \in Row
      BY <1>1, RowIds DEF Row, RowStatus
    <3> QED BY <1>1, <3>1, <3>2, RowIds
  <2> QED BY <2>1, <2>2
<1>3. UNCHANGED <<task, work, jobs, lane, wire, chat, revoked, clock, crashed, faults>>
  BY DEF SweepOnly, GiveUp
<1>4. TypeOK'
  BY <1>1, <1>2, <1>3, TypesAre DEF TypeOK, Row, Work, Place, Content
<1>5. \A t \in Thread : ThreadInv(t)'
  BY <1>3 DEF ThreadInv, IInv
<1>6. MessageInv'
  BY <1>2, <1>3 DEF MessageInv, IInv
<1> QED BY <1>4, <1>5, <1>6 DEF IInv

\* A claim: of the first delivery within its hour, or of an update, which exists
\* only after the first message.
LEMMA ClaimInv ==
    ASSUME IInv, NEW d \in Drainer, NEW r \in RowId, Claim(d, r)
    PROVE  IInv'
<1> DEFINE new == [Swept[r] EXCEPT !.status = "sending", !.attempts = @ + 1, !.token = @ + 1]
           w == [at |-> IF r = Send THEN "claimed" ELSE "enter", row |-> r,
                 token |-> Swept[r].token + 1, tries |-> Swept[r].attempts + 1,
                 content |-> Unset, patches |-> 0]
<1>1. /\ Swept \in [RowId -> Row] /\ TypeOK
      /\ \A x \in RowId : Swept[x].status = "none" <=> outbox[x].status = "none"
  BY SweptTyped DEF IInv
<1>2. Swept[r] \in Row /\ new \in Row
  <2>1. Swept[r] \in Row
    BY <1>1
  <2>2. new = [Swept[r] EXCEPT !.status = "sending", !.attempts = Swept[r].attempts + 1,
                               !.token = Swept[r].token + 1]
    OBVIOUS
  <2> HIDE DEF new
  <2> QED BY <2>1, <2>2, RowTyped
<1>3. outbox' = [Swept EXCEPT ![r] = new] /\ work' = [work EXCEPT ![d] = w]
  BY <1>1 DEF Claim
<1>4. /\ outbox' \in [RowId -> Row]
      /\ \A x \in Update : outbox[x].status = "none" => outbox'[x].status = "none"
  <2>1. Swept[r].status # "none"
    BY DEF Claim
  <2> QED BY <1>1, <1>2, <1>3, <2>1, RowIds
<1>5. w \in Work
  BY <1>2, Constants DEF Work, Place, Content, Row
<1>6. r # Send => chat.messages > 0
  <2>1. r # Send => outbox[r].status # "none"
    BY <1>1 DEF Claim
  <2>2. chat.messages \in Nat
    BY <1>1 DEF TypeOK
  <2> QED BY <2>1, <2>2 DEF Update, IInv, MessageInv
<1>7. r = Send => clock < 2
  BY DEF Claim, Retryable
<1>8. /\ w.at \in {"claimed", "enter"}
      /\ w.at = "claimed" => clock < 2 /\ w.row = Send
      /\ w.at = "enter" => chat.messages > 0
  BY <1>6, <1>7
<1>9. UNCHANGED <<task, jobs, lane, wire, chat, revoked, clock, crashed, faults>>
  BY DEF Claim
<1> HIDE DEF w, new
<1> QED
  BY <1>3, <1>4, <1>5, <1>8, <1>9, QuietMove, Constants

\* A thread that stays where it has a right to be, or ends, and closes its own row.
LEMMA CloseMove ==
    ASSUME IInv, NEW t \in Thread, NEW w \in Work, work' = [work EXCEPT ![t] = w],
           UNCHANGED outbox \/ \E status \in RowStatus \ {"none"} : CloseOwn(t, status),
           UNCHANGED <<task, jobs, lane, wire, chat, revoked, clock, crashed, faults>>,
           w.at \in {"idle", "fail", "post"},
           w.at = "post" => t \in Drainer /\ clock < 2 /\ w.row = Send,
           w.at = "idle" => w.row = NoRow
    PROVE  IInv'
<1>1. TypeOK /\ outbox \in [RowId -> Row]
  BY TypesAre DEF IInv
<1>2. /\ outbox' \in [RowId -> Row]
      /\ \A r \in RowId : outbox'[r].status = "none" <=> outbox[r].status = "none"
  BY <1>1, CloseOwnTyped
<1> QED BY <1>2, QuietMove, RowIds

LEMMA DoneIsIdle ==
    ASSUME NEW t \in Thread, Done(t)
    PROVE  /\ work' = [work EXCEPT ![t] = Idle]
           /\ Idle \in Work /\ Idle.at = "idle" /\ Idle.row = NoRow
BY IdleTyped DEF Done

LEMMA GotoMoves ==
    ASSUME TypeOK, NEW t \in Thread, NEW at \in Place, Goto(t, at)
    PROVE  \E w \in Work : /\ work' = [work EXCEPT ![t] = w]
                           /\ w.at = at /\ w.row = work[t].row /\ w.content = work[t].content
<1>1. work \in [Thread -> Work]
  BY TypesAre
<1>2. work' = [work EXCEPT ![t] = [work[t] EXCEPT !.at = at]]
  BY <1>1 DEF Goto
<1> QED BY <1>1, <1>2, WorkTyped

LEMMA CheckTaskInv ==
    ASSUME IInv, NEW t \in Thread, CheckTask(t)
    PROVE  IInv'
<1>1. UNCHANGED <<task, jobs, lane, wire, chat, revoked, clock, crashed, faults>>
  BY DEF CheckTask
<1>2. CASE task.version = Last
  BY <1>1, <1>2, CloseMove, DoneIsIdle DEF CheckTask, RowStatus
<1>3. CASE task.version # Last
  <2>1. Goto(t, "post") /\ UNCHANGED outbox /\ TypeOK
    BY <1>3 DEF CheckTask, IInv
  <2>2. t \in Drainer /\ clock < 2 /\ work[t].row = Send
    BY DEF CheckTask, At, IInv, ThreadInv, Sending
  <2> QED BY <1>1, <2>1, <2>2, CloseMove, GotoMoves DEF Place
<1> QED BY <1>2, <1>3

\* The audience is asked under the lock that the request then keeps.
LEMMA PostInv ==
    ASSUME IInv, NEW t \in Thread, Post(t)
    PROVE  IInv'
<1>1. TypeOK /\ Goto(t, "posting") /\ ~revoked /\ wire = NoThread /\ wire' = t
  BY DEF Post, IInv
<1>2. UNCHANGED <<outbox, task, jobs, lane, chat, revoked, clock, crashed, faults>>
  BY DEF Post
<1>3. PICK w \in Work : /\ work' = [work EXCEPT ![t] = w]
                        /\ w.at = "posting" /\ w.row = work[t].row
  BY <1>1, GotoMoves DEF Place
<1>4. work \in [Thread -> Work] /\ work'[t] = w
  BY <1>1, <1>3, TypesAre
<1>5. TypeOK'
  <2>1. work' \in [Thread -> Work]
    BY <1>3, <1>4
  <2> QED BY <1>1, <1>2, <2>1, TypesAre DEF TypeOK, Row, Work, Place, Content
<1>6. ThreadInv(t)'
  <2>1. t \in Drainer /\ clock < 2 /\ work[t].row = Send
    BY DEF Post, At, IInv, ThreadInv, Sending
  <2> QED BY <1>1, <1>2, <1>3, <1>4, <2>1 DEF ThreadInv, Sending, Known, Patching
<1>7. MessageInv'
  BY <1>1, <1>2 DEF IInv, MessageInv
<1>8. Mild(t)
  BY <1>1, <1>2 DEF Mild
<1> QED BY <1>3, <1>5, <1>6, <1>7, <1>8, MoveInv

LEMMA PostRefusedInv ==
    ASSUME IInv, NEW t \in Thread, PostRefused(t)
    PROVE  IInv'
<1>1. outbox \in [RowId -> Row]
  BY TypesAre DEF IInv
<1>2. Closed(outbox[Send], "superseded") \in Row
  BY <1>1, RowIds, ClosedTyped DEF RowStatus
<1>3. /\ outbox' \in [RowId -> Row]
      /\ \A r \in Update : outbox'[r] = outbox[r]
  BY <1>1, <1>2, RowIds DEF PostRefused
<1>4. UNCHANGED <<task, jobs, lane, wire, chat, revoked, clock, crashed, faults>>
  BY DEF PostRefused
<1>5. work' = [work EXCEPT ![t] = Idle] /\ Idle \in Work /\ Idle.at = "idle" /\ Idle.row = NoRow
  BY DoneIsIdle DEF PostRefused
<1> QED BY <1>3, <1>4, <1>5, QuietMove

\* The answer, or none: one message and no second, for the UUID is remembered.
LEMMA DeliveredOnce ==
    ASSUME IInv, clock < 2, chat' \in {chat, Delivered}
    PROVE  /\ chat' \in [messages : Nat, shown : Content]
           /\ chat' = chat \/ (chat.messages = 0 /\ chat' = [messages |-> 1, shown |-> 0])
           /\ chat' = Delivered => chat'.messages > 0
           /\ UNCHANGED <<task, outbox, revoked>> /\ ~revoked => MessageInv'
<1>1. chat \in [messages : Nat, shown : Content] /\ MessageInv /\ TypeOK
  BY TypesAre DEF IInv
<1>2. chat.messages = 0 \/ chat.messages = 1
  BY <1>1 DEF MessageInv
<1>3. Delivered = IF chat.messages = 1 THEN chat ELSE [messages |-> 1, shown |-> 0]
  BY <1>2 DEF Delivered
<1>4. chat' = chat \/ (chat.messages = 0 /\ chat' = [messages |-> 1, shown |-> 0])
  BY <1>2, <1>3
<1>5. task.version \in Nat
  BY <1>1, Constants DEF TypeOK
<1>6. UNCHANGED <<task, outbox, revoked>> /\ ~revoked => MessageInv'
  BY <1>1, <1>4, <1>5 DEF MessageInv
<1> QED BY <1>1, <1>2, <1>3, <1>4, <1>6, Constants DEF Content

LEMMA PostAnswerInv ==
    ASSUME IInv, NEW t \in Thread, PostAnswer(t)
    PROVE  IInv'
<1>1. TypeOK /\ MessageInv /\ ThreadInv(t) /\ work[t].at = "posting" /\ wire' = NoThread
  BY DEF PostAnswer, At, IInv
<1>2. UNCHANGED <<outbox, task, jobs, lane, revoked, clock, crashed, faults>>
  BY DEF PostAnswer
<1>3. wire = t /\ clock < 2 /\ work[t].row = Send /\ ~revoked
  BY <1>1, Constants DEF ThreadInv, Sending, MessageInv
<1>4. /\ chat' \in {chat, Delivered}
      /\ Goto(t, "fail") \/ (Goto(t, "receipt") /\ chat' = Delivered)
  BY DEF PostAnswer
<1>5. PICK w \in Work : /\ work' = [work EXCEPT ![t] = w] /\ w.row = Send
                        /\ w.at = "fail" \/ (w.at = "receipt" /\ chat' = Delivered)
  BY <1>1, <1>3, <1>4, GotoMoves DEF Place
<1>6. /\ chat' \in [messages : Nat, shown : Content]
      /\ chat' = chat \/ (chat.messages = 0 /\ chat' = [messages |-> 1, shown |-> 0])
      /\ chat' = Delivered => chat'.messages > 0
      /\ MessageInv'
  BY <1>2, <1>3, <1>4, DeliveredOnce
<1>7. work \in [Thread -> Work] /\ work'[t] = w /\ work' \in [Thread -> Work]
  BY <1>1, <1>5, TypesAre
<1>8. TypeOK'
  BY <1>1, <1>2, <1>6, <1>7, TypesAre DEF TypeOK, Row, Work, Place, Content
<1>9. ThreadInv(t)'
  BY <1>5, <1>6, <1>7 DEF ThreadInv, Sending, Known, Patching
<1>10. Mild(t)
  BY <1>1, <1>2, <1>3, <1>6 DEF Mild
<1> QED BY <1>5, <1>6, <1>8, <1>9, <1>10, MoveInv

\* The receipt and the list of messages, which now has one.
LEMMA BookReceiptInv ==
    ASSUME IInv, NEW t \in Thread, BookReceipt(t)
    PROVE  IInv'
<1>1. TypeOK /\ MessageInv /\ ThreadInv(t) /\ work[t].at = "receipt"
  BY DEF BookReceipt, At, IInv
<1>2. UNCHANGED <<jobs, lane, wire, chat, revoked, clock, crashed, faults>>
  BY DEF BookReceipt
<1>3. chat.messages > 0
  BY <1>1 DEF ThreadInv, Known
<1>4. CloseOwn(t, "sent") /\ "sent" \in RowStatus \ {"none"}
  BY DEF BookReceipt, RowStatus
<1>5. CASE ~Holds(t)
  <2>1. Done(t) /\ UNCHANGED task
    BY <1>5 DEF BookReceipt
  <2> QED BY <1>2, <1>4, <2>1, CloseMove, DoneIsIdle
<1>6. CASE Holds(t)
  <2> DEFINE w == [Idle EXCEPT !.at = "enter"]
  <2>1. task' = [task EXCEPT !.listed = TRUE] /\ work' = [work EXCEPT ![t] = w]
    BY <1>6 DEF BookReceipt
  <2>2. w \in Work /\ w.at = "enter"
    BY IdleTyped, WorkTyped DEF Place
  <2>3. /\ outbox' \in [RowId -> Row]
        /\ \A r \in RowId : outbox'[r].status = "none" <=> outbox[r].status = "none"
    BY <1>1, <1>4, CloseOwnTyped
  <2> HIDE DEF w
  <2>4. /\ task \in [version : Version, listed : BOOLEAN, hash : Content]
        /\ task' \in [version : Version, listed : BOOLEAN, hash : Content]
        /\ task'.version = task.version /\ task'.hash = task.hash
    BY <1>1, <2>1, TypesAre
  <2>5. work \in [Thread -> Work] /\ work'[t] = w /\ work' \in [Thread -> Work]
    BY <1>1, <2>1, <2>2, TypesAre
  <2>6. TypeOK'
    BY <1>1, <1>2, <2>3, <2>4, <2>5, TypesAre DEF TypeOK, Row, Work, Place, Content
  <2>7. ThreadInv(t)'
    BY <1>2, <1>3, <2>2, <2>5 DEF ThreadInv, Sending, Known, Patching
  <2>8. MessageInv'
    BY <1>1, <1>2, <1>3, <2>4 DEF MessageInv
  <2>9. Mild(t)
    BY <1>2, <2>4 DEF Mild
  <2> QED BY <2>1, <2>2, <2>6, <2>7, <2>8, <2>9, MoveInv
<1> QED BY <1>5, <1>6

LEMMA BookFailureInv ==
    ASSUME IInv, NEW t \in Thread, BookFailure(t)
    PROVE  IInv'
<1>1. \E status \in RowStatus \ {"none"} : CloseOwn(t, status)
  BY DEF BookFailure, RowStatus
<1>2. UNCHANGED <<task, jobs, lane, wire, chat, revoked, clock, crashed, faults>>
  BY DEF BookFailure
<1>3. work' = [work EXCEPT ![t] = Idle] /\ Idle \in Work /\ Idle.at = "idle" /\ Idle.row = NoRow
  BY DoneIsIdle DEF BookFailure
<1> QED BY <1>1, <1>2, <1>3, CloseMove

(***************************************************************************)
(* The patches                                                             *)
(***************************************************************************)

\* The three ways in which nothing is patched.
LEMMA EnterNotInv ==
    ASSUME IInv, NEW t \in Thread, EnterLate(t) \/ EnterRevoked(t) \/ EnterCurrent(t)
    PROVE  IInv'
<1>1. UNCHANGED <<task, jobs, lane, wire, chat, revoked, clock, crashed, faults>>
  BY DEF EnterLate, EnterRevoked, EnterCurrent
<1>2. work' = [work EXCEPT ![t] = Idle] /\ Idle \in Work /\ Idle.at = "idle" /\ Idle.row = NoRow
  BY DoneIsIdle DEF EnterLate, EnterRevoked, EnterCurrent
<1>3. CASE EnterLate(t) \/ EnterCurrent(t)
  <2>1. UNCHANGED outbox \/ \E status \in RowStatus \ {"none"} : CloseOwn(t, status)
    BY <1>3 DEF EnterLate, EnterCurrent, RowStatus
  <2> QED BY <1>1, <1>2, <2>1, CloseMove
<1>4. CASE EnterRevoked(t)
  <2>1. outbox \in [RowId -> Row]
    BY TypesAre DEF IInv
  <2>2. \A r \in RowId : Closed(outbox[r], "superseded") \in Row
    BY <2>1, ClosedTyped DEF RowStatus
  <2>3. /\ outbox' \in [RowId -> Row]
        /\ \A r \in Update : outbox[r].status = "none" => outbox'[r].status = "none"
    BY <1>4, <2>1, <2>2, RowIds DEF EnterRevoked
  <2> QED BY <1>1, <1>2, <2>3, QuietMove
<1> QED BY <1>3, <1>4

\* The lane is taken, and the content built from the task as it is then.
LEMMA EnterPatchInv ==
    ASSUME IInv, NEW t \in Thread, EnterPatch(t)
    PROVE  IInv'
<1> DEFINE v     == task.version
           mark  == outbox[Receipt(v)]
           tries == IF mark.attempts > work[t].tries THEN mark.attempts ELSE work[t].tries
           w     == [work[t] EXCEPT !.at = "patch", !.content = v, !.patches = tries]
           row   == [mark EXCEPT !.status = "sending", !.attempts = tries, !.lapsed = FALSE]
<1>1. TypeOK /\ MessageInv /\ ThreadInv(t) /\ work[t].at = "enter"
  BY DEF EnterPatch, At, IInv
<1>2. /\ lane = NoThread /\ lane' = t /\ ~revoked
      /\ UNCHANGED <<task, jobs, wire, chat, revoked, clock, crashed, faults>>
  BY DEF EnterPatch
<1>3. /\ work \in [Thread -> Work] /\ outbox \in [RowId -> Row]
      /\ v \in Version /\ v \in Nat /\ Receipt(v) \in Update /\ Receipt(v) \in RowId
  BY <1>1, TypesAre, RowIds, Constants
<1>4. mark \in Row /\ work[t] \in Work /\ tries \in Nat
  <2>1. mark \in Row /\ work[t] \in Work
    BY <1>3
  <2> QED BY <2>1 DEF Row, Work
<1>5. w \in Work /\ w.at = "patch" /\ w.content = v
  BY <1>3, <1>4 DEF Work, Place, Content
<1>6. row \in Row
  BY <1>4 DEF Row, RowStatus
<1>7. work' = [work EXCEPT ![t] = w] /\ outbox' = [outbox EXCEPT ![Receipt(v)] = row]
  BY <1>3 DEF EnterPatch
<1> HIDE DEF w, row, tries, mark
<1>8. chat.messages > 0 /\ chat.shown <= v
  BY <1>1 DEF ThreadInv, Known, MessageInv
<1>9. TypeOK'
  <2>1. work' \in [Thread -> Work] /\ outbox' \in [RowId -> Row]
    BY <1>3, <1>5, <1>6, <1>7
  <2> QED BY <1>1, <1>2, <2>1, TypesAre DEF TypeOK, Row, Work, Place, Content
<1>10. ThreadInv(t)'
  <2>1. work'[t] = w /\ v \in 0 .. task.version
    BY <1>3, <1>7
  <2> QED BY <1>2, <1>5, <1>8, <2>1 DEF ThreadInv, Sending, Known, Patching
<1>11. MessageInv'
  BY <1>1, <1>2, <1>8, Constants DEF MessageInv, TypeOK
<1>12. Mild(t)
  BY <1>2 DEF Mild
<1> QED BY <1>5, <1>7, <1>9, <1>10, <1>11, <1>12, MoveInv

\* The holder of the lane moves on or leaves, with its own row or all rows closed;
\* what is shown may become its content.
LEMMA LaneMove ==
    ASSUME IInv, NEW t \in Thread, work[t].at \in Patching,
           NEW w \in Work, work' = [work EXCEPT ![t] = w],
           outbox' \in [RowId -> Row],
           lane' = lane \/ (lane' = NoThread /\ w.at \notin Patching),
           wire' = wire \/ (wire' = t /\ wire = NoThread /\ ~revoked) \/ (wire' = NoThread /\ wire = t),
           w.at \in {"patching", "sent", "recheck", "idle", "fail"},
           w.at = "patching" => wire' = t,
           w.at \in Patching => w.content = work[t].content,
           w.at = "idle" => w.row = NoRow,
           chat' = chat \/ (work[t].at = "patching" /\ chat' = [chat EXCEPT !.shown = work[t].content]),
           w.at = "patching" => work[t].at = "patch" /\ chat' = chat,
           w.at \in {"sent", "recheck"} => chat'.shown = work[t].content,
           task' = task \/ (work[t].at = "sent" /\ task' = [task EXCEPT !.hash = work[t].content]),
           UNCHANGED <<jobs, revoked, clock, crashed, faults>>
    PROVE  IInv'
<1>1. TypeOK /\ MessageInv /\ ThreadInv(t) /\ chat.messages > 0 /\ lane = t
  BY DEF IInv, ThreadInv, Known
<1>2. /\ work \in [Thread -> Work] /\ work'[t] = w /\ work' \in [Thread -> Work]
      /\ chat \in [messages : Nat, shown : Content]
      /\ task \in [version : Version, listed : BOOLEAN, hash : Content]
  BY <1>1, TypesAre
<1>3. work[t].content \in 0 .. task.version /\ task.version \in Nat
  BY <1>1, <1>2, Constants DEF ThreadInv
<1>4. work[t].content \in Content /\ work[t].content \in Nat
  BY <1>2, <1>3 DEF Work
<1>5. /\ chat' \in [messages : Nat, shown : Content] /\ chat'.messages = chat.messages
      /\ chat'.shown = chat.shown \/ (chat'.shown = work[t].content /\ work[t].at = "patching")
  BY <1>2, <1>4
<1>6. /\ task' \in [version : Version, listed : BOOLEAN, hash : Content]
      /\ task'.version = task.version
      /\ task'.hash = task.hash \/ (task'.hash = work[t].content /\ work[t].at = "sent")
  BY <1>2, <1>4
<1>7. TypeOK'
  <2>1. lane' \in Thread \cup {NoThread} /\ wire' \in Thread \cup {NoThread}
    BY <1>1 DEF TypeOK
  <2> QED BY <1>1, <1>2, <1>5, <1>6, <2>1, TypesAre DEF TypeOK, Row, Work, Place, Content
<1>8. ThreadInv(t)'
  BY <1>1, <1>2, <1>3, <1>5, <1>6 DEF ThreadInv, Sending, Known, Patching
<1>9. MessageInv'
  <2>1. revoked' => wire' = NoThread
    BY <1>1 DEF MessageInv
  <2>2. chat'.shown <= task'.version
    BY <1>1, <1>3, <1>5, <1>6 DEF MessageInv
  <2>3. task'.hash # Unset => task'.hash <= chat'.shown
    <3>1. CASE work[t].at = "patching"
      <4>1. chat.shown <= work[t].content /\ task'.hash = task.hash
        BY <1>1, <1>6, <3>1 DEF ThreadInv
      <4>2. chat.shown \in Nat /\ task.hash \in Nat
        BY <1>2, Constants DEF Content
      <4> QED BY <1>1, <1>4, <1>5, <4>1, <4>2 DEF MessageInv
    <3>2. CASE work[t].at = "sent"
      <4>1. chat.shown = work[t].content /\ chat'.shown = chat.shown
        BY <1>1, <1>5, <3>2 DEF ThreadInv
      <4> QED BY <1>1, <1>4, <1>6, <4>1 DEF MessageInv
    <3>3. CASE work[t].at \notin {"patching", "sent"}
      BY <1>1, <1>5, <1>6, <3>3 DEF MessageInv
    <3> QED BY <3>1, <3>2, <3>3
  <2> QED BY <1>1, <1>5, <2>1, <2>2, <2>3 DEF MessageInv
<1>10. Mild(t)
  BY <1>1, <1>5, <1>6 DEF Mild
<1> QED BY <1>7, <1>8, <1>9, <1>10, MoveInv

LEMMA AbortEnds ==
    ASSUME TypeOK, NEW t \in Thread, Abort(t)
    PROVE  \E w \in Work : /\ work' = [work EXCEPT ![t] = w] /\ w.at \in {"idle", "fail"}
                           /\ w.at = "idle" => w.row = NoRow
BY DoneIsIdle, GotoMoves DEF Abort, Place

\* The receipt of the content that is being patched gets another status.
LEMMA ReceiptTyped ==
    ASSUME IInv, NEW t \in Thread, work[t].at \in Patching, NEW status \in RowStatus,
           outbox' = [outbox EXCEPT ![Receipt(work[t].content)] = Closed(@, status)]
    PROVE  /\ outbox' \in [RowId -> Row]
           /\ outbox'[Receipt(work[t].content)].status = status
           /\ \A r \in RowId : r # Receipt(work[t].content) => outbox'[r] = outbox[r]
           /\ Receipt(work[t].content) \in Update
<1>1. outbox \in [RowId -> Row] /\ task.version \in 0 .. Last /\ Last \in Nat
  BY TypesAre, Constants DEF IInv, Version
<1>2. work[t].content \in Version
  <2>1. work[t].content \in 0 .. task.version
    BY DEF IInv, ThreadInv
  <2> QED BY <1>1, <2>1 DEF Version
<1>3. Receipt(work[t].content) \in Update /\ Receipt(work[t].content) \in RowId
  BY <1>2, RowIds
<1>4. Closed(outbox[Receipt(work[t].content)], status) \in Row
  BY <1>1, <1>3, ClosedTyped
<1>5. Closed(outbox[Receipt(work[t].content)], status).status = status
  BY <1>1, <1>3, ClosedTyped
<1> QED BY <1>1, <1>3, <1>4, <1>5

LEMMA PatchInv ==
    ASSUME IInv, NEW t \in Thread, Patch(t)
    PROVE  IInv'
<1>1. TypeOK /\ work[t].at = "patch" /\ ~revoked /\ wire = NoThread /\ wire' = t
  BY DEF Patch, At, IInv
<1>2. UNCHANGED <<outbox, task, jobs, lane, chat, revoked, clock, crashed, faults>>
  BY DEF Patch
<1>3. PICK w \in Work : /\ work' = [work EXCEPT ![t] = w]
                        /\ w.at = "patching" /\ w.content = work[t].content
  BY <1>1, GotoMoves DEF Patch, Place
<1> QED BY <1>1, <1>2, <1>3, LaneMove, TypesAre DEF Patching

LEMMA PatchRefusedInv ==
    ASSUME IInv, NEW t \in Thread, PatchRefused(t)
    PROVE  IInv'
<1>1. TypeOK /\ work[t].at = "patch" /\ lane' = NoThread
  BY DEF PatchRefused, At, IInv
<1>2. UNCHANGED <<task, jobs, wire, chat, revoked, clock, crashed, faults>>
  BY DEF PatchRefused
<1>3. outbox' \in [RowId -> Row]
  BY <1>1, ReceiptTyped DEF PatchRefused, RowStatus, Patching
<1>4. PICK w \in Work : /\ work' = [work EXCEPT ![t] = w] /\ w.at \in {"idle", "fail"}
                        /\ w.at = "idle" => w.row = NoRow
  BY <1>1, AbortEnds DEF PatchRefused
<1> QED BY <1>1, <1>2, <1>3, <1>4, LaneMove DEF Patching

LEMMA PatchEndsInv ==
    ASSUME IInv, NEW t \in Thread, PatchSucceeds(t) \/ PatchFails(t)
    PROVE  IInv'
<1>1. TypeOK /\ ThreadInv(t) /\ work[t].at = "patching" /\ wire' = NoThread
  BY DEF PatchSucceeds, PatchFails, At, IInv
<1>2. wire = t /\ UNCHANGED <<task, jobs, revoked, clock, crashed, faults>>
  BY <1>1 DEF PatchSucceeds, PatchFails, ThreadInv
<1>3. outbox \in [RowId -> Row] /\ chat \in [messages : Nat, shown : Content]
  BY <1>1, TypesAre
<1>4. CASE PatchSucceeds(t)
  <2>1. PICK w \in Work : /\ work' = [work EXCEPT ![t] = w]
                          /\ w.at = "sent" /\ w.content = work[t].content
    BY <1>1, <1>4, GotoMoves DEF PatchSucceeds, Place
  <2>2. chat' = [chat EXCEPT !.shown = work[t].content] /\ UNCHANGED <<outbox, lane>>
    BY <1>4 DEF PatchSucceeds
  <2>3. chat'.shown = work[t].content
    BY <1>3, <2>2
  <2> QED BY <1>1, <1>2, <1>3, <2>1, <2>2, <2>3, LaneMove DEF Patching
<1>5. CASE PatchFails(t)
  <2>1. outbox' \in [RowId -> Row]
    BY <1>1, <1>5, ReceiptTyped DEF PatchFails, RowStatus, Patching
  <2>2. PICK w \in Work : /\ work' = [work EXCEPT ![t] = w] /\ w.at \in {"idle", "fail"}
                          /\ w.at = "idle" => w.row = NoRow
    BY <1>1, <1>5, AbortEnds DEF PatchFails
  <2>3. lane' = NoThread /\ chat' \in {chat, [chat EXCEPT !.shown = work[t].content]}
    BY <1>5 DEF PatchFails
  <2> QED BY <1>1, <1>2, <2>1, <2>2, <2>3, LaneMove DEF Patching
<1> QED BY <1>4, <1>5

LEMMA BookPatchInv ==
    ASSUME IInv, NEW t \in Thread, BookPatch(t)
    PROVE  IInv'
<1>1. TypeOK /\ ThreadInv(t) /\ work[t].at = "sent"
  BY DEF BookPatch, At, IInv
<1>2. UNCHANGED <<jobs, lane, wire, chat, revoked, clock, crashed, faults>>
  BY DEF BookPatch
<1>3. outbox \in [RowId -> Row]
  BY <1>1, TypesAre
<1>4. \A r \in RowId : Closed(outbox[r], "sent") \in Row /\ Closed(outbox[r], "superseded") \in Row
  BY <1>3, ClosedTyped DEF RowStatus
<1>5. outbox' \in [RowId -> Row]
  BY <1>3, <1>4 DEF BookPatch
<1>6. PICK w \in Work : /\ work' = [work EXCEPT ![t] = w]
                        /\ w.at = "recheck" /\ w.content = work[t].content
  BY <1>1, GotoMoves DEF BookPatch, Place
<1>7. chat'.shown = work[t].content /\ task' = [task EXCEPT !.hash = work[t].content]
  BY <1>1, <1>2 DEF ThreadInv, BookPatch
<1> QED BY <1>1, <1>2, <1>5, <1>6, <1>7, LaneMove DEF Patching

LEMMA RecheckInv ==
    ASSUME IInv, NEW t \in Thread, Recheck(t)
    PROVE  IInv'
<1>1. TypeOK /\ work[t].at = "recheck" /\ lane' = NoThread
  BY DEF Recheck, At, IInv
<1>2. UNCHANGED <<task, jobs, wire, chat, revoked, clock, crashed, faults>>
  BY DEF Recheck
<1>3. outbox \in [RowId -> Row] /\ task.version \in Version
  BY <1>1, TypesAre
<1>4. outbox' \in [RowId -> Row]
  <2>1. Retry(task.version) \in RowId
    BY <1>3, RowIds
  <2>2. [outbox[Retry(task.version)] EXCEPT !.status = "queued"] \in Row
    BY <1>3, <2>1 DEF Row, RowStatus
  <2> QED BY <1>3, <2>1, <2>2 DEF Recheck
<1>5. work' = [work EXCEPT ![t] = Idle] /\ Idle \in Work /\ Idle.at = "idle" /\ Idle.row = NoRow
  BY DoneIsIdle DEF Recheck
<1> QED BY <1>1, <1>2, <1>4, <1>5, LaneMove DEF Patching

(***************************************************************************)
(* The task, the clock and the process                                     *)
(***************************************************************************)

\* A job that finds a list that is not empty enters.
LEMMA StartUpdateInv ==
    ASSUME IInv, NEW u \in Updater, StartUpdate(u)
    PROVE  IInv'
<1>1. TypeOK /\ MessageInv /\ u \in Thread /\ jobs' \in Nat
  BY Constants DEF IInv, StartUpdate, TypeOK
<1>2. UNCHANGED <<outbox, task, lane, wire, chat, revoked, clock, crashed, faults>>
  BY DEF StartUpdate
<1>3. work \in [Thread -> Work] /\ chat.messages \in Nat
  BY <1>1, TypesAre
<1>4. CASE ~task.listed
  <2>1. work' = work
    BY <1>4 DEF StartUpdate
  <2> QED BY <1>1, <1>2, <2>1 DEF IInv, TypeOK, ThreadInv, MessageInv
<1>5. CASE task.listed
  <2> DEFINE w == [work[u] EXCEPT !.at = "enter"]
  <2>1. work' = [work EXCEPT ![u] = w] /\ w \in Work /\ w.at = "enter"
    <3>1. work[u] \in Work
      BY <1>1, <1>3
    <3> QED BY <1>3, <1>5, <3>1, WorkTyped DEF StartUpdate, Place
  <2> HIDE DEF w
  <2>2. work'[u] = w /\ work' \in [Thread -> Work]
    BY <1>1, <1>3, <2>1
  <2>3. TypeOK'
    BY <1>1, <1>2, <2>2, TypesAre DEF TypeOK, Row, Work, Place, Content
  <2>4. ThreadInv(u)'
    BY <1>1, <1>2, <1>3, <1>5, <2>1, <2>2 DEF ThreadInv, MessageInv, Sending, Known, Patching
  <2>5. MessageInv' /\ Mild(u)
    BY <1>1, <1>2, <1>3 DEF MessageInv, Mild
  <2> QED BY <1>1, <2>1, <2>3, <2>4, <2>5, MoveInv
<1> QED BY <1>4, <1>5

LEMMA EnvironmentInv ==
    ASSUME IInv, Change \/ Revoke \/ Tick \/ Crash \/ \E r \in RowId : LeaseLapses(r)
    PROVE  IInv'
<1>1. TypeOK /\ MessageInv /\ \A t \in Thread : ThreadInv(t)
  BY DEF IInv
<1>2. /\ outbox \in [RowId -> Row] /\ work \in [Thread -> Work]
      /\ chat \in [messages : Nat, shown : Content]
      /\ task \in [version : Version, listed : BOOLEAN, hash : Content]
      /\ task.version \in Nat /\ chat.shown \in Nat
  BY <1>1, TypesAre, Constants DEF Content
<1>3. CASE Change
  <2>1. /\ task' = [task EXCEPT !.version = task.version + 1] /\ task.version < Last
        /\ jobs' = jobs + 1
        /\ UNCHANGED <<outbox, work, lane, wire, chat, revoked, clock, crashed, faults>>
    BY <1>3 DEF Change
  <2>2. task.version + 1 \in Version
    BY <1>2, <2>1, Constants DEF Version
  <2>3. /\ task' \in [version : Version, listed : BOOLEAN, hash : Content]
        /\ task'.version = task.version + 1 /\ task'.listed = task.listed /\ task'.hash = task.hash
    BY <1>2, <2>1, <2>2
  <2>4. TypeOK'
    BY <1>1, <2>1, <2>3, TypesAre DEF TypeOK, Content
  <2>5. \A t \in Thread : ThreadInv(t)'
    BY <1>1, <1>2, <2>1, <2>3 DEF ThreadInv
  <2>6. MessageInv'
    BY <1>1, <1>2, <2>1, <2>3 DEF MessageInv
  <2> QED BY <2>4, <2>5, <2>6 DEF IInv
<1>4. CASE Revoke
  BY <1>1, <1>4 DEF Revoke, IInv, TypeOK, ThreadInv, MessageInv
<1>5. CASE Tick
  <2>1. /\ clock' = clock + 1 /\ clock < 2 /\ clock \in 0 .. 2
        /\ clock = 1 => \A d \in Drainer : work[d].at \notin {"claimed", "post", "posting"}
        /\ UNCHANGED <<outbox, task, work, jobs, lane, wire, chat, revoked, crashed, faults>>
    BY <1>1, <1>5 DEF Tick, TypeOK
  <2>2. TypeOK' /\ MessageInv'
    BY <1>1, <2>1 DEF TypeOK, MessageInv
  <2>3. \A t \in Thread : ThreadInv(t)'
    BY <1>1, <2>1 DEF ThreadInv, Sending
  <2> QED BY <2>2, <2>3 DEF IInv
<1>6. CASE Crash
  <2>1. /\ work' = [t \in Thread |-> Idle] /\ jobs' = 0 /\ lane' = NoThread /\ wire' = NoThread
        /\ crashed' = TRUE /\ faults < MaxFault /\ faults' = faults + 1
        /\ UNCHANGED <<outbox, task, chat, revoked, clock>>
    BY <1>6 DEF Crash
  <2>2. work' \in [Thread -> Work] /\ \A t \in Thread : work'[t].at = "idle" /\ work'[t].row = NoRow
    BY <2>1, IdleTyped
  <2>3. faults' \in 0 .. MaxFault
    BY <1>1, <2>1, Constants DEF TypeOK
  <2>4. TypeOK'
    BY <1>1, <2>1, <2>2, <2>3, TypesAre DEF TypeOK, Row, Work, Place, Content
  <2>5. MessageInv'
    BY <1>1, <2>1 DEF MessageInv
  <2> QED BY <2>2, <2>4, <2>5 DEF IInv, ThreadInv, Sending, Known, Patching
<1>7. ASSUME NEW r \in RowId, LeaseLapses(r) PROVE IInv'
  <2>1. /\ outbox' = [outbox EXCEPT ![r].lapsed = TRUE]
        /\ UNCHANGED <<task, work, jobs, lane, wire, chat, revoked, clock, crashed>>
    BY <1>7 DEF LeaseLapses
  <2>2. faults' \in 0 .. MaxFault
    BY <1>1, <1>7, Constants DEF LeaseLapses, TypeOK
  <2>3. [outbox[r] EXCEPT !.lapsed = TRUE] \in Row
    BY <1>2 DEF Row
  <2>4. outbox' \in [RowId -> Row] /\ \A x \in RowId : outbox'[x].status = outbox[x].status
    BY <1>2, <2>1, <2>3 DEF Row
  <2>5. TypeOK'
    BY <1>1, <2>1, <2>2, <2>4, TypesAre DEF TypeOK, Row, Work, Place, Content
  <2>6. MessageInv' /\ \A t \in Thread : ThreadInv(t)'
    BY <1>1, <2>1, <2>4, RowIds DEF MessageInv, ThreadInv
  <2> QED BY <2>5, <2>6 DEF IInv
<1> QED BY <1>3, <1>4, <1>5, <1>6, <1>7

LEMMA InitInv == Init => IInv
<1> SUFFICES ASSUME Init PROVE IInv
  OBVIOUS
<1>1. \A r \in RowId : outbox[r].status = "none" \/ r = Send
  BY DEF Init
<1>2. TypeOK
  <2>1. work \in [Thread -> Work]
    BY IdleTyped DEF Init
  <2>2. outbox \in [RowId -> Row]
    BY DEF Init, Row, RowStatus
  <2>3. /\ task \in [version : Version, listed : BOOLEAN, hash : Content]
        /\ chat \in [messages : Nat, shown : Content]
    BY Constants DEF Init, Content
  <2>4. /\ jobs \in Nat /\ clock \in 0 .. 2 /\ faults \in 0 .. MaxFault
        /\ lane \in Thread \cup {NoThread} /\ wire \in Thread \cup {NoThread}
    BY Constants, SMT DEF Init
  <2>5. revoked \in BOOLEAN /\ crashed \in BOOLEAN
    BY Zenon DEF Init
  <2> QED BY <2>1, <2>2, <2>3, <2>4, <2>5, TypesAre
<1>3. \A t \in Thread : ThreadInv(t)
  BY IdleTyped DEF Init, ThreadInv, Sending, Known, Patching
<1>4. MessageInv
  BY <1>1, RowIds DEF Init, MessageInv
<1> QED BY <1>2, <1>3, <1>4 DEF IInv

LEMMA NextInv == IInv /\ [Next]_vars => IInv'
<1> SUFFICES ASSUME IInv, [Next]_vars PROVE IInv'
  OBVIOUS
<1>1. CASE UNCHANGED vars
  BY <1>1 DEF vars, IInv, TypeOK, ThreadInv, MessageInv
<1>2. ASSUME NEW t \in Thread, CarryOn(t) PROVE IInv'
  <2>1. CASE SendStep(t)
    BY <2>1, CheckTaskInv, PostInv, PostRefusedInv, PostAnswerInv, BookReceiptInv DEF SendStep
  <2>2. CASE PatchStep(t)
    BY <2>2, EnterNotInv, EnterPatchInv, PatchInv, PatchRefusedInv, PatchEndsInv,
       BookPatchInv, RecheckInv DEF PatchStep
  <2>3. CASE BookFailure(t)
    BY <2>3, BookFailureInv
  <2> QED BY <1>2, <2>1, <2>2, <2>3 DEF CarryOn
<1> QED
  BY <1>1, <1>2, GiveUpInv, ClaimInv, StartUpdateInv, EnvironmentInv DEF Next

\* Types, locks and contents agree in every reachable state: the inductive
\* invariant.
THEOREM Invariant == Spec => []IInv
BY InitInv, NextInv, PTL DEF Spec

\* Every variable of the delivery keeps its type.
THEOREM Typed == Spec => []TypeOK
<1>1. IInv => TypeOK
  BY DEF IInv
<1> QED BY <1>1, Invariant, PTL

\* However many drainers, claims, lapsed leases and crashes there are, all the
\* POSTs of the first delivery make one message (_deliver_outbox_once).
THEOREM PostedAsOne == Spec => []OneMessage
<1>1. IInv => OneMessage
  BY DEF IInv, MessageInv, OneMessage
<1> QED BY <1>1, Invariant, PTL

(***************************************************************************)
(* What the recipient sees                                                 *)
(***************************************************************************)

\* A step changes the chat as the end of a POST that made the first message, or
\* as a PATCH with a content that is no older than what was shown.
LEMMA ChatSteps ==
    ASSUME IInv, Next, chat' # chat
    PROVE  /\ ~revoked
           /\ chat.shown = Unset \/ chat.shown <= chat'.shown
<1>1. /\ TypeOK /\ MessageInv
      /\ chat \in [messages : Nat, shown : Content]
  BY TypesAre DEF IInv
<1>2. PICK t \in Thread : PostAnswer(t) \/ PatchSucceeds(t) \/ PatchFails(t)
  BY DEF Next, SweepOnly, GiveUp, Claim, StartUpdate, LeaseLapses, Change, Revoke, Tick, Crash,
         CarryOn, SendStep, PatchStep, BookFailure, CheckTask, Post, PostRefused, BookReceipt,
         EnterLate, EnterRevoked, EnterCurrent, EnterPatch, Patch, PatchRefused, BookPatch, Recheck
<1>3. work[t].at \in {"posting", "patching"} /\ ThreadInv(t)
  BY <1>2 DEF PostAnswer, PatchSucceeds, PatchFails, At, IInv
<1>4. ~revoked
  BY <1>1, <1>3, Constants DEF ThreadInv, MessageInv
<1>5. CASE PostAnswer(t)
  <2>1. clock < 2 /\ chat' \in {chat, Delivered}
    BY <1>3, <1>5 DEF PostAnswer, At, ThreadInv, Sending
  <2>2. chat.messages = 0
    BY <2>1, DeliveredOnce
  <2> QED BY <1>1, <1>4, <2>2 DEF MessageInv
<1>6. CASE PatchSucceeds(t) \/ PatchFails(t)
  <2>1. work[t].at = "patching" /\ chat' = [chat EXCEPT !.shown = work[t].content]
    BY <1>6 DEF PatchSucceeds, PatchFails, At
  <2>2. chat.shown <= work[t].content
    BY <1>3, <2>1 DEF ThreadInv
  <2> QED BY <1>1, <1>4, <2>1, <2>2
<1> QED BY <1>2, <1>5, <1>6

\* The content that a recipient sees is never replaced by an older one, whoever
\* patches (_patch_latest_task_card).
THEOREM NeverGoesBack == Spec => NeverOlder
<1>1. IInv /\ [Next]_vars =>
          [chat.shown # Unset /\ chat'.shown # Unset => chat'.shown >= chat.shown]_vars
  <2> SUFFICES ASSUME IInv, Next, chat.shown # Unset, chat'.shown # Unset
               PROVE  chat'.shown >= chat.shown
    BY DEF vars
  <2>1. chat.shown \in Nat
    BY Constants, TypesAre DEF IInv, Content
  <2>2. CASE chat' = chat
    BY <2>1, <2>2
  <2>3. CASE chat' # chat
    <3>1. chat'.shown \in Nat
      <4>1. TypeOK'
        BY NextInv DEF IInv
      <4> QED BY <4>1, Constants, TypesAre DEF TypeOK, Content
    <3> QED BY <2>1, <2>3, <3>1, ChatSteps
  <2> QED BY <2>2, <2>3
<1> QED BY <1>1, Invariant, PTL DEF Spec, NeverOlder

\* A recipient whose authorization was withdrawn sees nothing new, because the
\* withdrawal waits for the request that is under way (_update_profile).
THEOREM SilentWhenRevoked == Spec => RevokedIsSilent
<1>1. IInv /\ [Next]_vars => [revoked => UNCHANGED chat]_vars
  BY ChatSteps DEF vars
<1> QED BY <1>1, Invariant, PTL DEF Spec, RevokedIsSilent

(***************************************************************************)
(* The one message                                                         *)
(***************************************************************************)

\* Only the end of a request changes the chat: a POST that makes the first message,
\* or a PATCH with a later state of the task.
LEMMA ChatIsMessage ==
    ASSUME IInv, Next, chat' # chat
    PROVE  Message!Post \/ Message!Renew
<1>1. /\ TypeOK /\ MessageInv
      /\ chat \in [messages : Nat, shown : Content] /\ task.version \in Version
  BY TypesAre DEF IInv
<1>2. PICK t \in Thread : PostAnswer(t) \/ PatchSucceeds(t) \/ PatchFails(t)
  BY DEF Next, SweepOnly, GiveUp, Claim, StartUpdate, LeaseLapses, Change, Revoke, Tick, Crash,
         CarryOn, SendStep, PatchStep, BookFailure, CheckTask, Post, PostRefused, BookReceipt,
         EnterLate, EnterRevoked, EnterCurrent, EnterPatch, Patch, PatchRefused, BookPatch, Recheck
<1>3. task' = task /\ revoked' = revoked /\ ThreadInv(t)
  BY <1>2 DEF PostAnswer, PatchSucceeds, PatchFails, IInv
<1>4. ~revoked
  BY ChatSteps
<1>5. CASE PostAnswer(t)
  <2>1. clock < 2 /\ chat' \in {chat, Delivered}
    BY <1>3, <1>5 DEF PostAnswer, At, ThreadInv, Sending
  <2>2. chat.messages = 0
    BY <2>1, DeliveredOnce
  <2>3. chat' = [messages |-> 1, shown |-> 0]
    BY <2>1, <2>2 DEF Delivered
  <2> QED BY <1>3, <1>4, <2>2, <2>3 DEF Message!Post
<1>6. CASE PatchSucceeds(t) \/ PatchFails(t)
  <2>1. work[t].at = "patching" /\ chat' = [chat EXCEPT !.shown = work[t].content]
    BY <1>6 DEF PatchSucceeds, PatchFails, At
  <2>2. /\ chat.messages > 0 /\ chat.shown <= work[t].content
        /\ work[t].content \in 0 .. task.version
    BY <1>3, <2>1 DEF ThreadInv, Known, Patching
  <2>3. chat.messages = 1 /\ chat.shown \in Nat /\ task.version \in Nat
    <3>1. chat.messages \in Nat /\ chat.shown \in Content /\ chat.messages <= 1
      BY <1>1 DEF MessageInv
    <3>2. chat.shown \in Nat /\ task.version \in Nat
      BY <1>1, <3>1, Constants DEF Content
    <3> QED BY <2>2, <3>1, <3>2
  <2>4. chat'.shown = work[t].content /\ chat'.messages = chat.messages
    BY <1>1, <2>1
  <2>5. work[t].content # chat.shown
    BY <1>1, <2>1
  <2>6. chat'.shown \in chat.shown + 1 .. task.version
    BY <2>2, <2>3, <2>4, <2>5
  <2> QED BY <1>3, <1>4, <2>3, <2>4, <2>6 DEF Message!Renew
<1> QED BY <1>2, <1>5, <1>6

\* The other steps leave the chat; of them only a change of the task and a
\* withdrawal are steps of the message.
LEMMA EveryStep ==
    ASSUME IInv, [Next]_vars
    PROVE  [Message!Next]_(Message!vars)
<1>1. task \in [version : Version, listed : BOOLEAN, hash : Content]
  BY TypesAre DEF IInv
<1>2. CASE chat' # chat
  <2>1. Next
    BY <1>2 DEF vars
  <2> QED BY <1>2, <2>1, ChatIsMessage DEF Message!Next
<1>3. CASE Change
  <2>1. task.version < Last /\ task'.version = task.version + 1
    BY <1>1, <1>3 DEF Change
  <2> QED BY <1>3, <2>1 DEF Change, Message!Change, Message!Next
<1>4. CASE Revoke
  BY <1>4 DEF Revoke, Message!Withdraw, Message!Next
<1>5. CASE chat' = chat /\ ~Change /\ ~Revoke
  <2>1. revoked' = revoked
    BY <1>5 DEF Next, vars, SweepOnly, GiveUp, Claim, StartUpdate, LeaseLapses, Tick, Crash,
           CarryOn, SendStep, PatchStep, BookFailure, CheckTask, Post, PostRefused, PostAnswer,
           BookReceipt, EnterLate, EnterRevoked, EnterCurrent, EnterPatch, Patch, PatchRefused,
           PatchSucceeds, PatchFails, BookPatch, Recheck
  <2>2. task' = task \/ \E t \in Thread : BookReceipt(t) \/ BookPatch(t)
    BY <1>5 DEF Next, vars, SweepOnly, GiveUp, Claim, StartUpdate, LeaseLapses, Tick, Crash,
           CarryOn, SendStep, PatchStep, BookFailure, CheckTask, Post, PostRefused, PostAnswer,
           EnterLate, EnterRevoked, EnterCurrent, EnterPatch, Patch, PatchRefused,
           PatchSucceeds, PatchFails, Recheck
  <2>3. task'.version = task.version
    BY <1>1, <2>2 DEF BookReceipt, BookPatch
  <2> QED BY <1>5, <2>1, <2>3 DEF Message!vars
<1> QED BY <1>2, <1>3, <1>4, <1>5

\* Outbox, drainers, executor and locks implement the one message (ImplementsMessage),
\* for any number of drainers, updaters, changes, attempts and faults.
THEOREM KeepsOneMessage == Spec => ImplementsMessage
<1>1. Init => Message!Init
  BY DEF Init, Message!Init, Message!Nothing, Unset
<1>2. IInv /\ [Next]_vars => [Message!Next]_(Message!vars)
  BY EveryStep
<1> QED BY <1>1, <1>2, Invariant, PTL DEF Spec, ImplementsMessage, Message!Spec

\* The content that was noted is the one that is shown.
LEMMA CurrentIsShown ==
    ASSUME IInv, NEW t \in Thread, EnterCurrent(t)
    PROVE  chat.shown = task.version
<1>1. /\ TypeOK /\ MessageInv /\ task.hash = task.version
      /\ task.version \in Version
  BY TypesAre DEF IInv, EnterCurrent
<1>2. chat.messages > 0
  BY DEF IInv, ThreadInv, EnterCurrent, At, Known
<1>3. task.hash # Unset /\ task.version \in Nat /\ chat.shown \in Nat
  BY <1>1, Constants, TypesAre DEF Content
<1> QED BY <1>1, <1>2, <1>3 DEF MessageInv

\* A thread that finds the message up to date, and patches nothing, is right
\* (the comparison with last_content_sha256 in _patch_latest_task_card).
THEOREM SkippedIsShown ==
    Spec => [][\A t \in Thread : EnterCurrent(t) => chat.shown = task.version]_vars
<1>1. IInv => \A t \in Thread : EnterCurrent(t) => chat.shown = task.version
  BY CurrentIsShown
<1> QED BY <1>1, Invariant, PTL DEF Spec

(***************************************************************************)
(* No update is forgotten                                                  *)
(***************************************************************************)
Carries(t) == \/ work[t].at = "enter" /\ work[t].row = NoRow
              \/ work[t].at \in Patching

LEMMA CarriedBy ==
    StaleHasCarrier <=>
        (task.listed /\ chat.shown # task.version /\ ~revoked /\ ~crashed =>
            \/ jobs > 0
            \/ \E r \in Update : outbox[r].status \in Open
            \/ \E t \in Thread : Carries(t))
BY DEF StaleHasCarrier, Carries, Patching

\* The carriers stay when a thread moves that is none of them.
LEMMA CarriersStay ==
    ASSUME StaleHasCarrier, NEW t \in Thread, ~Carries(t),
           \A u \in Thread : u # t => work'[u] = work[u],
           \A r \in Update : outbox[r].status \in Open => outbox'[r].status \in Open,
           jobs' >= jobs, jobs \in Nat, jobs' \in Nat,
           task'.listed => task.listed /\ chat'.shown = chat.shown,
           UNCHANGED task.version, revoked => revoked', crashed => crashed'
    PROVE  StaleHasCarrier'
<1> SUFFICES ASSUME task'.listed, chat'.shown # task'.version, ~revoked', ~crashed'
             PROVE  \/ jobs' > 0
                    \/ \E r \in Update : outbox'[r].status \in Open
                    \/ \E u \in Thread : Carries(u)'
  BY DEF StaleHasCarrier, Carries, Patching
<1>1. \/ jobs > 0
      \/ \E r \in Update : outbox[r].status \in Open
      \/ \E u \in Thread : Carries(u)
  BY CarriedBy
<1>2. ASSUME NEW u \in Thread, Carries(u) PROVE Carries(u)'
  BY <1>2 DEF Carries
<1> QED BY <1>1, <1>2

\* A thread that has an update of its own in hand is a carrier.
LEMMA ThreadCarries ==
    ASSUME NEW t \in Thread, Carries(t)'
    PROVE  StaleHasCarrier'
BY DEF StaleHasCarrier, Carries, Patching

LEMMA RowCarries ==
    ASSUME NEW r \in Update, outbox'[r].status \in Open
    PROVE  StaleHasCarrier'
BY DEF StaleHasCarrier

\* A drainer sweeps and claims.
LEMMA DrainCarried ==
    ASSUME IInv, StaleHasCarrier, NEW d \in Drainer,
           SweepOnly(d) \/ GiveUp(d) \/ \E r \in RowId : Claim(d, r)
    PROVE  StaleHasCarrier'
<1>1. /\ TypeOK /\ Swept \in [RowId -> Row] /\ d \in Thread
      /\ \A r \in Update : outbox[r].status \in Open => Swept[r].status \in Open
  BY SweptTyped, Constants DEF IInv, Open
<1>2. ~Carries(d) /\ jobs \in Nat
  BY <1>1 DEF SweepOnly, GiveUp, Claim, At, Carries, Patching, TypeOK
<1>3. UNCHANGED <<task, jobs, chat, revoked, crashed>>
  BY DEF SweepOnly, GiveUp, Claim
<1>4. CASE SweepOnly(d) \/ GiveUp(d)
  <2>1. \A r \in Update : outbox[r].status \in Open => outbox'[r].status \in Open
    BY <1>1, <1>4, RowIds DEF SweepOnly, GiveUp
  <2>2. work' = work
    BY <1>4 DEF SweepOnly, GiveUp
  <2> QED BY <1>1, <1>2, <1>3, <2>1, <2>2, CarriersStay
<1>5. ASSUME NEW r \in RowId, Claim(d, r) PROVE StaleHasCarrier'
  <2>1. \A x \in RowId : outbox'[x].status \in {"sending", Swept[x].status}
    <3>1. Swept[r] \in Row
      BY <1>1
    <3>2. outbox' = [Swept EXCEPT ![r] = [Swept[r] EXCEPT !.status = "sending",
                        !.attempts = Swept[r].attempts + 1, !.token = Swept[r].token + 1]]
      BY <1>1, <1>5 DEF Claim
    <3>3. outbox'[r].status = "sending"
      BY <1>1, <3>1, <3>2 DEF Row
    <3>4. \A x \in RowId : x # r => outbox'[x] = Swept[x]
      BY <1>1, <3>2
    <3> QED BY <3>3, <3>4
  <2>2. \A x \in Update : outbox[x].status \in Open => outbox'[x].status \in Open
    BY <1>1, <2>1, RowIds DEF Open
  <2>3. \A u \in Thread : u # d => work'[u] = work[u]
    BY <1>1, <1>5 DEF Claim, TypeOK
  <2> QED BY <1>1, <1>2, <1>3, <2>2, <2>3, CarriersStay
<1> QED BY <1>4, <1>5

\* The first delivery: once the message is listed its thread carries the update.
LEMMA SendCarried ==
    ASSUME IInv, StaleHasCarrier, NEW t \in Thread, SendStep(t)
    PROVE  StaleHasCarrier'
<1>1. TypeOK /\ MessageInv /\ ThreadInv(t) /\ jobs \in Nat /\ work \in [Thread -> Work]
  BY TypesAre DEF IInv, TypeOK
<1>2. /\ work[t].at \in Sending \cup {"receipt"} /\ work[t].row = Send
      /\ UNCHANGED <<jobs, revoked, crashed>>
  BY <1>1 DEF SendStep, CheckTask, Post, PostRefused, PostAnswer, BookReceipt, At, Sending, ThreadInv
<1>3. ~Carries(t)
  BY <1>2 DEF Carries, Sending, Patching
<1>4. \A u \in Thread : u # t => work'[u] = work[u]
  BY <1>1 DEF SendStep, CheckTask, Post, PostRefused, PostAnswer, BookReceipt, Goto, Done
<1>5. \A r \in Update : outbox'[r] = outbox[r]
  <2>1. CASE \E status \in RowStatus \ {"none"} : CloseOwn(t, status)
    BY <1>1, <1>2, <2>1, CloseOwnTyped, RowIds
  <2>2. CASE PostRefused(t)
    BY <2>2, <1>1, RowIds DEF PostRefused, TypeOK
  <2>3. CASE UNCHANGED outbox
    BY <2>3
  <2> QED BY <2>1, <2>2, <2>3 DEF SendStep, CheckTask, Post, PostAnswer, BookReceipt, RowStatus
<1>6. CASE BookReceipt(t) /\ Holds(t)
  <2>1. work'[t] = [Idle EXCEPT !.at = "enter"]
    BY <1>1, <1>6 DEF BookReceipt
  <2>2. Carries(t)'
    BY <2>1, IdleTyped, WorkTyped DEF Carries, Place
  <2> QED BY <2>2, ThreadCarries
<1>7. CASE ~(BookReceipt(t) /\ Holds(t))
  <2>1. task' = task
    BY <1>7 DEF SendStep, CheckTask, Post, PostRefused, PostAnswer, BookReceipt
  <2>2. task.listed => chat' = chat
    <3>1. CASE PostAnswer(t)
      <4>1. clock < 2 /\ chat' \in {chat, Delivered}
        BY <1>1, <3>1 DEF PostAnswer, At, ThreadInv, Sending
      <4> QED BY <1>1, <4>1, DeliveredOnce DEF MessageInv
    <3>2. CASE ~PostAnswer(t)
      BY <3>2 DEF SendStep, CheckTask, Post, PostRefused, BookReceipt
    <3> QED BY <3>1, <3>2
  <2> QED BY <1>1, <1>2, <1>3, <1>4, <1>5, <2>1, <2>2, CarriersStay
<1> QED BY <1>6, <1>7

\* The patches: a thread hands its update over to a row or to its own next step.
LEMMA PatchCarried ==
    ASSUME IInv, StaleHasCarrier, NEW t \in Thread, PatchStep(t)
    PROVE  StaleHasCarrier'
<1>1. /\ TypeOK /\ MessageInv /\ ThreadInv(t)
      /\ work \in [Thread -> Work] /\ outbox \in [RowId -> Row]
  BY TypesAre DEF IInv
<1>2. CASE EnterLate(t)
  <2>1. ~Carries(t)
    BY <1>2 DEF EnterLate, Carries, At, Patching
  <2>2. \A u \in Thread : u # t => work'[u] = work[u]
    BY <1>1, <1>2 DEF EnterLate, Done
  <2> QED BY <1>1, <1>2, <2>1, <2>2, CarriersStay DEF EnterLate, TypeOK
<1>3. CASE EnterRevoked(t) \/ PatchRefused(t)
  BY <1>3 DEF EnterRevoked, PatchRefused, StaleHasCarrier
<1>4. CASE EnterCurrent(t)
  <2>1. chat.shown = task.version
    BY <1>4, CurrentIsShown
  <2> QED BY <1>4, <2>1 DEF EnterCurrent, StaleHasCarrier
<1>5. CASE EnterPatch(t) \/ Patch(t) \/ PatchSucceeds(t) \/ BookPatch(t)
  <2>1. work'[t].at \in Patching
    BY <1>1, <1>5 DEF EnterPatch, Patch, PatchSucceeds, BookPatch, Goto, Work, Patching
  <2> QED BY <2>1, ThreadCarries DEF Carries
<1>6. CASE PatchFails(t)
  <2> DEFINE status == IF work[t].patches >= MaxAttempts THEN "failed" ELSE "queued"
  <2>1. /\ work[t].at \in Patching /\ status \in RowStatus /\ status \in Open
        /\ outbox' = [outbox EXCEPT ![Receipt(work[t].content)] = Closed(@, status)]
    BY <1>6 DEF PatchFails, At, Patching, RowStatus, Open
  <2> HIDE DEF status
  <2> QED BY <2>1, ReceiptTyped, RowCarries
<1>7. CASE Recheck(t)
  <2>1. CASE task.version = work[t].content
    <3>1. chat.shown = task.version
      BY <1>1, <1>7, <2>1 DEF Recheck, At, ThreadInv
    <3> QED BY <1>7, <3>1 DEF Recheck, StaleHasCarrier
  <2>2. CASE task.version # work[t].content
    <3>1. Retry(task.version) \in Update /\ Retry(task.version) \in RowId
      BY <1>1, RowIds, TypesAre
    <3>2. outbox'[Retry(task.version)].status = "queued"
      BY <1>1, <1>7, <2>2, <3>1 DEF Recheck, Row
    <3> QED BY <3>1, <3>2, RowCarries DEF Open
  <2> QED BY <2>1, <2>2
<1> QED BY <1>2, <1>3, <1>4, <1>5, <1>6, <1>7 DEF PatchStep

\* An error of a claimed update leaves its row queued, or failed.
LEMMA FailureCarried ==
    ASSUME IInv, StaleHasCarrier, NEW t \in Thread, BookFailure(t)
    PROVE  StaleHasCarrier'
<1> DEFINE status == IF work[t].row = Send
                     THEN IF Retryable(work[t].tries) THEN "queued" ELSE "unknown"
                     ELSE IF work[t].tries < MaxAttempts THEN "queued" ELSE "failed"
<1>1. /\ TypeOK /\ jobs \in Nat
      /\ work \in [Thread -> Work] /\ outbox \in [RowId -> Row]
  BY TypesAre DEF IInv, TypeOK
<1>2. CloseOwn(t, status) /\ status \in RowStatus \ {"none"}
  BY DEF BookFailure, RowStatus
<1>3. work[t].row # Send => status \in Open
  BY DEF Open
<1> HIDE DEF status
<1>4. /\ \A r \in RowId : r # work[t].row => outbox'[r] = outbox[r]
      /\ work[t].row \in RowId =>
             outbox'[work[t].row].status \in {outbox[work[t].row].status, status}
  BY <1>1, <1>2, CloseOwnTyped
<1>5. \A r \in Update : outbox[r].status \in Open => outbox'[r].status \in Open
  BY <1>3, <1>4, RowIds
<1>6. ~Carries(t) /\ \A u \in Thread : u # t => work'[u] = work[u]
  BY <1>1 DEF BookFailure, Done, At, Carries, Patching
<1> QED BY <1>1, <1>5, <1>6, CarriersStay DEF BookFailure

LEMMA EnvironmentCarried ==
    ASSUME IInv, StaleHasCarrier,
           \/ Change \/ Revoke \/ Tick \/ Crash
           \/ \E r \in RowId : LeaseLapses(r)
           \/ \E u \in Updater : StartUpdate(u)
    PROVE  StaleHasCarrier'
<1>1. /\ TypeOK /\ jobs \in Nat
      /\ work \in [Thread -> Work] /\ outbox \in [RowId -> Row]
  BY TypesAre DEF IInv, TypeOK
<1>2. CASE Change
  BY <1>1, <1>2 DEF Change, StaleHasCarrier
<1>3. CASE Revoke \/ Crash
  BY <1>3 DEF Revoke, Crash, StaleHasCarrier
<1>4. CASE Tick
  BY <1>4 DEF Tick, StaleHasCarrier
<1>5. ASSUME NEW r \in RowId, LeaseLapses(r) PROVE StaleHasCarrier'
  <2>1. outbox' = [outbox EXCEPT ![r] = [outbox[r] EXCEPT !.lapsed = TRUE]]
    BY <1>1, <1>5 DEF LeaseLapses
  <2>2. \A x \in RowId : outbox'[x].status = outbox[x].status
    BY <1>1, <2>1 DEF Row
  <2> QED BY <1>5, <2>2, RowIds DEF LeaseLapses, StaleHasCarrier
<1>6. ASSUME NEW u \in Updater, StartUpdate(u) PROVE StaleHasCarrier'
  <2>1. u \in Thread /\ ThreadInv(u) /\ work[u].row = NoRow
    BY <1>6, Constants DEF StartUpdate, At, IInv, ThreadInv
  <2>2. CASE task.listed
    <3>1. work'[u].at = "enter" /\ work'[u].row = NoRow
      BY <1>1, <1>6, <2>1, <2>2 DEF StartUpdate, Work
    <3> QED BY <2>1, <3>1, ThreadCarries DEF Carries
  <2>3. CASE ~task.listed
    BY <1>6, <2>3 DEF StartUpdate, StaleHasCarrier
  <2> QED BY <2>2, <2>3
<1> QED BY <1>2, <1>3, <1>4, <1>5, <1>6

\* A message that was left behind by the task always has something under way
\* that brings it up to date, until the process crashes (update_task_cards,
\* _patch_latest_task_card).
THEOREM NoUpdateForgotten == Spec => []StaleHasCarrier
<1>1. Init => StaleHasCarrier
  BY DEF Init, StaleHasCarrier
<1>2. IInv /\ StaleHasCarrier /\ [Next]_vars => StaleHasCarrier'
  <2> SUFFICES ASSUME IInv, StaleHasCarrier, [Next]_vars PROVE StaleHasCarrier'
    OBVIOUS
  <2>1. CASE UNCHANGED vars
    BY <2>1 DEF vars, StaleHasCarrier
  <2>2. ASSUME NEW t \in Thread, CarryOn(t) PROVE StaleHasCarrier'
    BY <2>2, SendCarried, PatchCarried, FailureCarried DEF CarryOn
  <2> QED BY <2>1, <2>2, DrainCarried, EnvironmentCarried DEF Next
<1> QED BY <1>1, <1>2, Invariant, PTL DEF Spec
=============================================================================
