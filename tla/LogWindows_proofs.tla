--------------------------- MODULE LogWindows_proofs ---------------------------
(***************************************************************************)
(* What is proved of LogWindows for any number of plans, cells of the day  *)
(* and troubles: types, that coverage only grows, that it was read, and    *)
(* that a missed phase is caught up with.                                  *)
(*                                                                         *)
(* The invariant says of the rows of an object that what is done was read  *)
(* (DoneIsRead) and that a cell is stored at least as late as any row that *)
(* covers it was read (Fits).  Better(a, b, s) says that a change from the *)
(* rows a to the rows b keeps both and gives up no coverage; it holds of   *)
(* every part of the scheduler, of splitting and resolving, and of every   *)
(* end of a claim.                                                         *)
(***************************************************************************)
EXTENDS LogWindows, TLAPS

Rows == [Window -> Row]

DoneIsRead(own) == \A w \in Window : own[w].status = "done" => own[w].success >= 1
Fits(own, s)    == \A w \in Window : \A c \in Cells(w) : own[w].success <= s[c]
Sound(own, s)   == own \in Rows /\ DoneIsRead(own) /\ Fits(own, s)

Better(a, b, s) == Sound(b, s) /\ ReadSince(a, 1) \subseteq ReadSince(b, 1)

RowsAreSound == \A o \in Object : Sound(rows[o], seen[o])

\* A read that has begun has a moment, and what it brought is stored.
WorkIsSound ==
    /\ work.at \in {"reading", "ingested"} => work.began >= 1
    /\ work.at = "ingested" =>
           \A c \in Cells(work.window) : work.began <= seen[work.of][c]

WindowInv == TypeOK /\ RowsAreSound /\ WorkIsSound /\ CoverageIsRead

USE DEF Object, NextDay, D1, D2, Cell

-----------------------------------------------------------------------------
(* Windows, rows and coverage *)

LEMMA NIsNat == N \in Nat /\ N >= 1 /\ MaxTrouble \in Nat /\ 1 \in Nat
BY WindowAssumption

LEMMA WindowParts ==
    ASSUME NEW w \in Window
    PROVE  w.from \in 1 .. N /\ w.to \in 1 .. N /\ Cells(w) \subseteq 1 .. N
BY NIsNat DEF Window, Day, Piece, Increment, Cells

LEMMA Kinds ==
    /\ Day \in Window
    /\ \A w \in Window : Pieces(w) \subseteq Window
    /\ \A a, b \in 1 .. N : a <= b => Increment(a, b) \in Window
<1>1. Day \in Window BY DEF Window
<1>2. \A c \in 1 .. N : Piece(c) \in Window BY DEF Window
<1>3. \A w \in Window : Pieces(w) \subseteq Window
  BY <1>2, WindowParts DEF Pieces
<1>4. \A a, b \in 1 .. N : a <= b => Increment(a, b) \in Window
  BY DEF Window, Increment
<1> QED BY <1>1, <1>3, <1>4

\* A cell is covered when a window with it was read.
LEMMA ReadOf ==
    ASSUME NEW own, NEW t, NEW c
    PROVE  c \in ReadSince(own, t) <=>
               \E w \in Window : own[w].success >= t /\ c \in Cells(w)
BY DEF ReadSince

LEMMA NoRowIsRow == NoRow \in Row /\ NoRow.success = 0 /\ NoRow.status = "none"
BY NIsNat DEF NoRow, Row, Status, Active, Kind

\* A row that turns keeps what was read.
LEMMA TurnedRow ==
    ASSUME NEW row \in Row, NEW status \in Status
    PROVE  /\ Turned(row, status) \in Row
           /\ Turned(row, status).success = row.success
           /\ Turned(row, status).status = status
<1> DEFINE r1 == [row EXCEPT !.status = status]
           r2 == [r1 EXCEPT !.ended = 0]
           r3 == [r2 EXCEPT !.error = "none"]
<1>1. r1 \in Row /\ r1.success = row.success /\ r1.status = status
  BY DEF Row
<1> HIDE DEF r1
<1>2. r2 \in Row /\ r2.success = row.success /\ r2.status = status
  BY <1>1, NIsNat DEF Row
<1> HIDE DEF r2
<1>3. r3 \in Row /\ r3.success = row.success /\ r3.status = status
  BY <1>2 DEF Row
<1>4. Turned(row, status) = r3 BY Zenon DEF Turned, r1, r2, r3
<1> HIDE DEF r3
<1> QED BY <1>3, <1>4

LEMMA ProofCleared ==
    ASSUME NEW row \in Row
    PROVE  LET r == [row EXCEPT !.proof = {}]
           IN  r \in Row /\ r.success = row.success /\ r.status = row.status
BY DEF Row

LEMMA QueuedRow ==
    ASSUME NEW row \in Row, NEW kind \in Kind
    PROVE  /\ Queued(row, kind) \in Row
           /\ Queued(row, kind).success = row.success
           /\ Queued(row, kind).status = "queued"
<1> DEFINE r1 == Turned(row, "queued")
           r2 == [r1 EXCEPT !.kind = kind]
           r3 == [r2 EXCEPT !.proof = {}]
<1>1. r1 \in Row /\ r1.success = row.success /\ r1.status = "queued"
  BY TurnedRow DEF Status, Active
<1> HIDE DEF r1
<1>2. r2 \in Row /\ r2.success = row.success /\ r2.status = "queued"
  BY <1>1 DEF Row
<1> HIDE DEF r2
<1>3. r3 \in Row /\ r3.success = row.success /\ r3.status = "queued"
  BY <1>2, ProofCleared
<1>4. Queued(row, kind) = r3 BY Zenon DEF Queued, r1, r2, r3
<1> HIDE DEF r3
<1> QED BY <1>3, <1>4

\* A change of rows that keeps the moments of success, and that finishes none,
\* is for the better.
LEMMA KeepingIsBetter ==
    ASSUME NEW a, NEW b, NEW s, Sound(a, s), b \in Rows,
           \A w \in Window : b[w].success = a[w].success,
           \A w \in Window : b[w].status = "done" => a[w].status = "done"
    PROVE  Better(a, b, s)
<1>1. DoneIsRead(b) BY DEF Sound, DoneIsRead
<1>2. Fits(b, s) BY DEF Sound, Fits
<1>3. ReadSince(a, 1) \subseteq ReadSince(b, 1) BY ReadOf
<1> QED BY <1>1, <1>2, <1>3 DEF Better, Sound

LEMMA BetterIsTransitive ==
    ASSUME NEW a, NEW b, NEW c, NEW s, Better(a, b, s), Better(b, c, s)
    PROVE  Better(a, c, s)
BY DEF Better

LEMMA SoundIsBetter ==
    ASSUME NEW a, NEW s, Sound(a, s)
    PROVE  Better(a, a, s)
BY DEF Better

-----------------------------------------------------------------------------
(* The parts that the operations are made of *)

\* The rows that Changed leaves, one by one.
LEMMA ChangedRows ==
    ASSUME NEW own \in Rows, NEW S \in SUBSET Window, NEW f, DOMAIN f = S,
           \A w \in S : f[w] \in Row
    PROVE  /\ Changed(own, f) \in Rows
           /\ \A w \in Window : Changed(own, f)[w] = IF w \in S THEN f[w] ELSE own[w]
<1>1. CASE S = {} BY <1>1 DEF Changed
<1>2. CASE S # {}
  <2>1. Changed(own, f) = [w \in Window |-> IF w \in S THEN f[w] ELSE own[w]]
    BY <1>2 DEF Changed
  <2> QED BY <2>1 DEF Rows
<1> QED BY <1>1, <1>2

\* Changing rows so that each keeps its success, and none is done that was not.
LEMMA ChangeIsBetter ==
    ASSUME NEW own, NEW s, Sound(own, s), NEW S \in SUBSET Window, NEW f, DOMAIN f = S,
           \A w \in S : /\ f[w] \in Row /\ f[w].success = own[w].success
                        /\ f[w].status # "done"
    PROVE  Better(own, Changed(own, f), s)
<1>1. own \in Rows BY DEF Sound
<1>2. /\ Changed(own, f) \in Rows
      /\ \A w \in Window : Changed(own, f)[w] = IF w \in S THEN f[w] ELSE own[w]
  BY <1>1, ChangedRows
<1> QED BY <1>2, KeepingIsBetter

LEMMA SplitIsBetter ==
    ASSUME NEW own, NEW s, Sound(own, s), NEW windows \in SUBSET Window
    PROVE  Better(own, Split(own, windows), s)
<1> DEFINE pieces == {c \in UNION {Pieces(w) : w \in windows} : own[c].status \notin Active}
           f == [c \in pieces |-> Queued(own[c], "repair")]
           mid == Changed(own, f)
           g == [w \in windows |-> Turned(own[w], "repairing")]
<1>1. own \in Rows BY DEF Sound
<1>2. pieces \subseteq Window BY Kinds
<1>3. \A c \in pieces : /\ f[c] \in Row /\ f[c].success = own[c].success
                        /\ f[c].status # "done"
  BY <1>1, <1>2, QueuedRow DEF Rows, Kind
<1>4. Better(own, mid, s)
  <2>1. DOMAIN f = pieces OBVIOUS
  <2> HIDE DEF f, pieces
  <2> QED BY <2>1, <1>2, <1>3, ChangeIsBetter
<1>5. \A w \in windows : /\ g[w] \in Row /\ g[w].success = own[w].success
                         /\ g[w].status # "done"
  <2>1. "repairing" \in Status BY DEF Status, Active
  <2> QED BY <1>1, <2>1, TurnedRow DEF Rows
<1>6. \A w \in windows : mid[w].success = own[w].success
  <2>1. DOMAIN f = pieces OBVIOUS
  <2>2. \A w \in Window : mid[w] = IF w \in pieces THEN f[w] ELSE own[w]
    <3> HIDE DEF f, pieces
    <3> QED BY <2>1, <1>1, <1>2, <1>3, ChangedRows
  <2> QED BY <2>2, <1>3
<1>7. Better(mid, Changed(mid, g), s)
  <2>1. Sound(mid, s) BY <1>4 DEF Better
  <2>2. DOMAIN g = windows OBVIOUS
  <2>3. \A w \in windows : /\ g[w] \in Row /\ g[w].success = mid[w].success
                           /\ g[w].status # "done"
    BY <1>5, <1>6
  <2> HIDE DEF g, mid
  <2> QED BY <2>1, <2>2, <2>3, ChangeIsBetter
<1>8. Split(own, windows) = Changed(mid, g) BY DEF Split
<1> HIDE DEF g, mid
<1> QED BY <1>4, <1>7, <1>8, BetterIsTransitive

LEMMA ResolvedIsBetter ==
    ASSUME NEW own, NEW s, Sound(own, s)
    PROVE  Better(own, Resolved(own), s)
<1> DEFINE read(w) == UNION {Cells(p) : p \in {p \in own[w].proof : own[p].status # "none"}}
           resolved == {w \in Window : own[w].status \in Gap /\ Cells(w) \subseteq read(w)}
           f == [w \in resolved |-> [Turned(own[w], "superseded") EXCEPT !.proof = {}]]
<1>1. own \in Rows BY DEF Sound
<1>2. \A w \in resolved : /\ f[w] \in Row /\ f[w].success = own[w].success
                          /\ f[w].status # "done"
  <2> SUFFICES ASSUME NEW w \in Window
               PROVE  LET r == [Turned(own[w], "superseded") EXCEPT !.proof = {}]
                      IN  r \in Row /\ r.success = own[w].success /\ r.status # "done"
    OBVIOUS
  <2>1. "superseded" \in Status BY DEF Status
  <2>2. own[w] \in Row BY <1>1 DEF Rows
  <2> QED BY <2>1, <2>2, TurnedRow, ProofCleared
<1>3. Resolved(own) = Changed(own, f) BY DEF Resolved
<1>4. DOMAIN f = resolved OBVIOUS
<1>5. resolved \in SUBSET Window OBVIOUS
<1> HIDE DEF f, resolved
<1> QED BY <1>2, <1>3, <1>4, <1>5, ChangeIsBetter

LEMMA IncrementedIsBetter ==
    ASSUME NEW own, NEW s, Sound(own, s), now \in Moment
    PROVE  Better(own, Incremented(own), s)
<1> DEFINE next == IF \/ now > N
                      \/ \E w \in Window : /\ own[w].kind = "incremental"
                                           /\ own[w].status \in {"queued", "running"}
                   THEN {} ELSE {Increment(a, now) : a \in Starts(own)}
           f == [w \in next |-> Queued(own[w], "incremental")]
<1>1. own \in Rows BY DEF Sound
<1>2. next \subseteq Window
  <2>1. Starts(own) \subseteq 1 .. now BY DEF Starts
  <2> QED BY <2>1, Kinds, NIsNat DEF Moment
<1>3. \A w \in next : /\ f[w] \in Row /\ f[w].success = own[w].success
                      /\ f[w].status # "done"
  BY <1>1, <1>2, QueuedRow DEF Rows, Kind
<1>4. Incremented(own) = Changed(own, f) BY DEF Incremented
<1>5. DOMAIN f = next OBVIOUS
<1> HIDE DEF f, next
<1> QED BY <1>2, <1>3, <1>4, <1>5, ChangeIsBetter

\* Queueing the day.
LEMMA DayQueuedIsBetter ==
    ASSUME NEW own, NEW s, Sound(own, s), NEW kind \in Kind
    PROVE  Better(own, [own EXCEPT ![Day] = Queued(@, kind)], s)
<1>1. own \in Rows BY DEF Sound
<1>2. /\ Queued(own[Day], kind) \in Row
      /\ Queued(own[Day], kind).success = own[Day].success
      /\ Queued(own[Day], kind).status = "queued"
  BY <1>1, Kinds, QueuedRow DEF Rows
<1> DEFINE b == [own EXCEPT ![Day] = Queued(@, kind)]
<1>3. b \in Rows BY <1>1, <1>2, Kinds DEF Rows
<1>4. \A w \in Window : b[w] = IF w = Day THEN Queued(own[Day], kind) ELSE own[w]
  BY <1>1, Kinds DEF Rows
<1> HIDE DEF b
<1>5. Better(own, b, s) BY <1>2, <1>3, <1>4, KeepingIsBetter
<1> QED BY <1>5 DEF b

LEMMA HistoryIsBetter ==
    ASSUME NEW own, NEW s, Sound(own, s)
    PROVE  Better(own, WithHistory(own), s)
BY DayQueuedIsBetter, SoundIsBetter DEF WithHistory, Kind

LEMMA VerifiedIsBetter ==
    ASSUME NEW own, NEW s, Sound(own, s)
    PROVE  Better(own, Verified(own), s)
BY DayQueuedIsBetter, SoundIsBetter DEF Verified, Kind

LEMMA RepairedIsBetter ==
    ASSUME NEW own, NEW s, Sound(own, s)
    PROVE  Better(own, Repaired(own), s)
BY SplitIsBetter DEF Repaired

\* Pruning gives up a success only where another one covers its cells.
LEMMA PrunedIsBetter ==
    ASSUME NEW own, NEW s, Sound(own, s), s \in [Cell -> Nat]
    PROVE  Better(own, Pruned(own), s)
<1> DEFINE whole  == {v \in Window : own[v].kind # "incremental" /\ own[v].status = "done"}
           pruned == {w \in Window : /\ now >= NextDay
                                     /\ own[w].kind = "incremental" /\ own[w].status = "done"
                                     /\ \E v \in whole : Cells(w) \subseteq Cells(v)}
           f == [w \in pruned |-> NoRow]
           b == Pruned(own)
<1>1. own \in Rows BY DEF Sound
<1>2. /\ b \in Rows
      /\ \A w \in Window : b[w] = IF w \in pruned THEN NoRow ELSE own[w]
  <2>1. b = Changed(own, f) BY DEF Pruned
  <2>2. \A w \in pruned : f[w] \in Row BY NoRowIsRow
  <2>3. DOMAIN f = pruned /\ pruned \in SUBSET Window OBVIOUS
  <2>4. \A w \in pruned : f[w] = NoRow OBVIOUS
  <2> HIDE DEF f, pruned, b
  <2> QED BY <1>1, <2>1, <2>2, <2>3, <2>4, ChangedRows
<1> HIDE DEF b
<1>3. DoneIsRead(b)
  BY <1>2, NoRowIsRow DEF Sound, DoneIsRead
<1>4. Fits(b, s)
  <2> SUFFICES ASSUME NEW w \in Window, NEW c \in Cells(w) PROVE b[w].success <= s[c]
    BY DEF Fits
  <2>1. c \in Cell BY WindowParts
  <2>2. own[w].success <= s[c] BY DEF Sound, Fits
  <2> QED BY <1>2, <2>1, <2>2, NoRowIsRow
<1>5. ReadSince(own, 1) \subseteq ReadSince(b, 1)
  <2> SUFFICES ASSUME NEW c \in ReadSince(own, 1) PROVE c \in ReadSince(b, 1)
    OBVIOUS
  <2>1. PICK w \in Window : own[w].success >= 1 /\ c \in Cells(w) BY ReadOf
  <2>2. CASE w \notin pruned BY <1>2, <2>1, <2>2, ReadOf
  <2>3. CASE w \in pruned
    <3>1. PICK v \in whole : Cells(w) \subseteq Cells(v) BY <2>3
    <3>2. v \in Window /\ v \notin pruned BY <3>1
    <3>3. own[v].success >= 1 BY <3>1 DEF Sound, DoneIsRead
    <3>4. b[v].success >= 1 /\ c \in Cells(v) BY <1>2, <2>1, <3>1, <3>2, <3>3
    <3> QED BY <3>2, <3>4, ReadOf
  <2> QED BY <2>2, <2>3
<1>6. Better(own, b, s) BY <1>2, <1>3, <1>4, <1>5 DEF Better, Sound
<1> QED BY <1>6 DEF b

LEMMA ScheduledIsBetter ==
    ASSUME NEW own, NEW s, Sound(own, s), s \in [Cell -> Nat], now \in Moment
    PROVE  Better(own, Scheduled(own), s)
<1> DEFINE a == Incremented(own)
           b == WithHistory(a)
           c == Resolved(b)
           d == Repaired(c)
           e == Verified(d)
<1>1. Better(own, a, s) BY IncrementedIsBetter
<1> HIDE DEF a
<1>2. Better(own, b, s) BY <1>1, HistoryIsBetter, BetterIsTransitive DEF Better
<1> HIDE DEF b
<1>3. Better(own, c, s) BY <1>2, ResolvedIsBetter, BetterIsTransitive DEF Better
<1> HIDE DEF c
<1>4. Better(own, d, s) BY <1>3, RepairedIsBetter, BetterIsTransitive DEF Better
<1> HIDE DEF d
<1>5. Better(own, e, s) BY <1>4, VerifiedIsBetter, BetterIsTransitive DEF Better
<1> HIDE DEF e
<1>6. Better(own, Pruned(e), s) BY <1>5, PrunedIsBetter, BetterIsTransitive DEF Better
<1> QED BY <1>6 DEF Scheduled, a, b, c, d, e

-----------------------------------------------------------------------------
(* What a step makes of the rows, and what is shown afterwards *)

RowsAreBetter(all) ==
    all \in [Object -> Rows] /\ \A o \in Object : Better(rows[o], all[o], seen[o])

\* The part of the invariant that is about rows and what is shown, after a step
\* that stores nothing, and that no coverage was given up.
ShownIsSound ==
    /\ rows' \in [Object -> Rows] /\ RowsAreSound' /\ CoverageIsRead'
    /\ shown' \in [cells : SUBSET Cell, of : SUBSET Object]
    /\ \A o \in Object : Covered(o) \subseteq Covered(o)'

LEMMA StatusOnly ==
    ASSUME NEW row \in Row, NEW status \in Status
    PROVE  LET r == [row EXCEPT !.status = status]
           IN  r \in Row /\ r.success = row.success /\ r.status = status
BY DEF Row

LEMMA BetterRowsAreSound ==
    ASSUME WindowInv, RowsAreBetter(rows'), seen' = seen
    PROVE  /\ RowsAreSound'
           /\ \A o \in Object : Covered(o) \subseteq Covered(o)'
<1>1. \A o \in Object : Sound(rows'[o], seen[o]) BY DEF RowsAreBetter, Better
<1>2. RowsAreSound' BY <1>1 DEF RowsAreSound
<1>3. \A o \in Object : ReadSince(rows[o], 1) \subseteq ReadSince(rows'[o], 1)
  BY DEF RowsAreBetter, Better
<1> QED BY <1>2, <1>3 DEF Covered

LEMMA KeptRows ==
    ASSUME WindowInv, RowsAreBetter(rows'), seen' = seen, shown' = shown
    PROVE  ShownIsSound
BY BetterRowsAreSound DEF ShownIsSound, WindowInv, TypeOK, CoverageIsRead, RowsAreBetter

LEMMA RefreshedRows ==
    ASSUME WindowInv, NEW all, RowsAreBetter(all), Refreshed(all), seen' = seen
    PROVE  ShownIsSound
<1>1. rows' = [o \in Object |-> Resolved(all[o])] /\ shown' = Coverage(rows')
  BY DEF Refreshed
<1>2. RowsAreBetter(rows')
  <2> SUFFICES ASSUME NEW o \in Object
               PROVE  Better(rows[o], rows'[o], seen[o]) /\ rows'[o] \in Rows
    BY <1>1 DEF RowsAreBetter
  <2>1. Better(rows[o], all[o], seen[o]) BY DEF RowsAreBetter
  <2>2. Better(all[o], Resolved(all[o]), seen[o]) BY <2>1, ResolvedIsBetter DEF Better
  <2>3. rows'[o] = Resolved(all[o]) BY <1>1
  <2>4. Better(rows[o], rows'[o], seen[o]) BY <2>1, <2>2, <2>3, BetterIsTransitive
  <2> QED BY <2>4 DEF Better, Sound
<1>3. Required \subseteq Object BY DEF Required, WindowInv, TypeOK
<1>4. shown' \in [cells : SUBSET Cell, of : SUBSET Object]
  <2>1. Coverage(rows').of = Required BY DEF Coverage
  <2>2. Coverage(rows').cells \subseteq Cell BY DEF Coverage, LastSegment
  <2>3. Coverage(rows') = [of |-> Coverage(rows').of, cells |-> Coverage(rows').cells]
    BY DEF Coverage
  <2> HIDE DEF Cell
  <2> QED BY <1>1, <1>3, <2>1, <2>2, <2>3
<1>5. \A o \in shown'.of, c \in shown'.cells : c \in ReadSince(rows'[o], 1)
  BY <1>1 DEF Coverage, LastSegment
<1>6. CoverageIsRead'
  <2> SUFFICES ASSUME NEW c \in shown'.cells, NEW o \in shown'.of PROVE seen[o][c] > 0
    BY DEF CoverageIsRead
  <2>1. o \in Object /\ c \in Cell BY <1>4
  <2>2. PICK w \in Window : rows'[o][w].success >= 1 /\ c \in Cells(w) BY <1>5, ReadOf
  <2>3. Sound(rows'[o], seen[o]) BY <1>2, <2>1 DEF RowsAreBetter, Better
  <2>4. rows'[o][w].success <= seen[o][c] /\ rows'[o][w] \in Row
    BY <2>2, <2>3 DEF Sound, Fits, Rows
  <2>5. rows'[o][w].success \in 0 .. D2 BY <2>4 DEF Row
  <2>6. seen[o][c] \in 0 .. D2
    <3>1. seen \in [Object -> [Cell -> 0 .. D2]] BY DEF WindowInv, TypeOK
    <3> HIDE DEF Object, Cell
    <3> QED BY <2>1, <3>1
  <2> QED BY <2>2, <2>4, <2>5, <2>6, NIsNat
<1> QED BY <1>2, <1>4, <1>6, BetterRowsAreSound DEF ShownIsSound, RowsAreBetter

\* One object's rows changed for the better.
LEMMA OneIsBetter ==
    ASSUME WindowInv, NEW o \in Object, NEW own, Better(rows[o], own, seen[o])
    PROVE  RowsAreBetter([rows EXCEPT ![o] = own])
<1>1. rows \in [Object -> Rows] BY DEF WindowInv, TypeOK, Rows
<1>2. own \in Rows BY DEF Better, Sound
<1>3. \A p \in Object : Better(rows[p], rows[p], seen[p])
  BY SoundIsBetter DEF WindowInv, RowsAreSound
<1> QED BY <1>1, <1>2, <1>3 DEF RowsAreBetter

LEMMA UnchangedIsBetter ==
    ASSUME WindowInv
    PROVE  RowsAreBetter(rows)
<1>1. rows \in [Object -> Rows] BY DEF WindowInv, TypeOK, Rows
<1> QED BY <1>1, SoundIsBetter DEF RowsAreBetter, WindowInv, RowsAreSound

\* Rows of which only the status of some changes, and not to done.
LEMMA StatusesAreBetter ==
    ASSUME WindowInv, NEW all \in [Object -> Rows],
           \A o \in Object, w \in Window :
               /\ all[o][w].success = rows[o][w].success
               /\ all[o][w].status = "done" => rows[o][w].status = "done"
    PROVE  RowsAreBetter(all)
BY KeepingIsBetter DEF RowsAreBetter, WindowInv, RowsAreSound

-----------------------------------------------------------------------------
(* The steps *)

Grown == \A o \in Object : Covered(o) \subseteq Covered(o)'

LEMMA IdleIsTyped ==
    Idle \in [at : {"idle", "begin", "reading", "ingested"}, of : Object,
              window : Window, began : 0 .. D2]
BY Kinds, NIsNat DEF Idle

LEMMA FinishKeeps ==
    ASSUME WindowInv, NEW own, NEW cost \in {0, 1}, seen' = seen,
           Better(rows[work.of], own, seen[work.of]), Finish(own, cost)
    PROVE  WindowInv' /\ Grown
<1> DEFINE all == IF Held THEN [rows EXCEPT ![work.of] = own] ELSE rows
<1>1. RowsAreBetter(all)
  <2>1. work.of \in Object BY DEF WindowInv, TypeOK
  <2> QED BY <2>1, OneIsBetter, UnchangedIsBetter
<1>2. /\ \/ Refreshed(all) /\ trouble' = trouble + cost
         \/ rows' = all /\ trouble' = trouble + cost + 1 /\ UNCHANGED shown
      /\ trouble' <= MaxTrouble /\ work' = Idle /\ UNCHANGED <<settings, now>>
  BY DEF Finish
<1> HIDE DEF all
<1>3. ShownIsSound BY <1>1, <1>2, RefreshedRows, KeptRows
<1>4. trouble' \in 0 .. MaxTrouble BY <1>2, NIsNat DEF WindowInv, TypeOK
<1>5. TypeOK'
  BY <1>2, <1>3, <1>4, IdleIsTyped DEF WindowInv, TypeOK, ShownIsSound, settings, Rows
<1>6. WorkIsSound' BY <1>2 DEF WorkIsSound, Idle
<1> QED BY <1>3, <1>5, <1>6 DEF WindowInv, ShownIsSound, Grown

\* A claim that ends without a read, with the row given to its object.
LEMMA EndedIsBetter ==
    ASSUME WindowInv, NEW row \in Row, row.success = Own.success, row.status # "done"
    PROVE  Better(rows[work.of], Ended(row), seen[work.of])
<1>1. /\ work.of \in Object /\ work.window \in Window /\ rows[work.of] \in Rows
      /\ Sound(rows[work.of], seen[work.of])
  BY DEF WindowInv, TypeOK, Rows, RowsAreSound
<1>2. Ended(row) \in Rows BY <1>1 DEF Ended, Rows
<1>3. \A w \in Window : Ended(row)[w] = IF w = work.window THEN row ELSE rows[work.of][w]
  BY <1>1 DEF Ended, Rows
<1>4. \A w \in Window : /\ Ended(row)[w].success = rows[work.of][w].success
                        /\ Ended(row)[w].status = "done" => rows[work.of][w].status = "done"
  BY <1>3 DEF Own
<1> QED BY <1>1, <1>2, <1>4, KeepingIsBetter

LEMMA OwnIsRow ==
    ASSUME WindowInv
    PROVE  Own \in Row /\ work.of \in Object /\ work.window \in Window
BY DEF Own, WindowInv, TypeOK

LEMMA CancelledKeeps ==
    ASSUME WindowInv, Cancelled
    PROVE  WindowInv' /\ Grown
<1> DEFINE row == [Own EXCEPT !.status = "cancelled"]
<1>1. row \in Row /\ row.success = Own.success /\ row.status = "cancelled"
  BY OwnIsRow, StatusOnly DEF Status
<1> HIDE DEF row
<1>2. Better(rows[work.of], Ended(row), seen[work.of]) BY <1>1, EndedIsBetter
<1>3. Finish(Ended(row), 0) /\ seen' = seen BY DEF Cancelled, row
<1> QED BY <1>2, <1>3, FinishKeeps

LEMMA PhaseIsMoment ==
    ASSUME now \in Moment
    PROVE  Phase(now) \in 0 .. D2 /\ Phase(now) >= 1
BY NIsNat DEF Phase, Moment

LEMMA BeginReadKeeps ==
    ASSUME WindowInv, BeginRead
    PROVE  WindowInv' /\ Grown
<1>1. CASE InScope
  <2>1. /\ work' = [work EXCEPT !.at = "reading", !.began = Phase(now)]
        /\ UNCHANGED <<rows, settings, now, shown, seen, trouble>>
    BY <1>1 DEF BeginRead
  <2>2. /\ work'.at = "reading" /\ work'.began = Phase(now)
        /\ work' \in [at : {"idle", "begin", "reading", "ingested"}, of : Object,
                      window : Window, began : 0 .. D2]
    BY <2>1, PhaseIsMoment DEF WindowInv, TypeOK
  <2>3. TypeOK' BY <2>1, <2>2 DEF WindowInv, TypeOK, settings
  <2>4. WorkIsSound' BY <2>2, PhaseIsMoment DEF WindowInv, TypeOK, WorkIsSound
  <2> QED BY <2>1, <2>3, <2>4
        DEF WindowInv, RowsAreSound, CoverageIsRead, Grown, Covered
<1>2. CASE ~ InScope BY <1>2, CancelledKeeps DEF BeginRead
<1> QED BY <1>1, <1>2

\* Storing makes what is stored of a cell only later.
LEMMA IngestKeeps ==
    ASSUME WindowInv, Ingest
    PROVE  WindowInv' /\ Grown
<1>1. CASE InScope
  <2> DEFINE s == [c \in Cell |->
                 IF c \in Cells(work.window) /\ seen[work.of][c] < work.began
                 THEN work.began ELSE seen[work.of][c]]
  <2>1. /\ seen' = [seen EXCEPT ![work.of] = s]
        /\ work' = [work EXCEPT !.at = "ingested"]
        /\ UNCHANGED <<rows, settings, now, shown, trouble>> /\ work.at = "reading"
    BY <1>1 DEF Ingest
  <2>2. /\ work.of \in Object /\ work.window \in Window /\ work.began \in 0 .. D2
        /\ seen \in [Object -> [Cell -> 0 .. D2]]
    BY DEF WindowInv, TypeOK
  <2>3. s \in [Cell -> 0 .. D2]
    <3>1. seen[work.of] \in [Cell -> 0 .. D2] BY <2>2
    <3> HIDE DEF Cell
    <3> QED BY <2>2, <3>1
  <2>4. \A c \in Cell : /\ seen[work.of][c] <= s[c]
                        /\ c \in Cells(work.window) => work.began <= s[c]
    <3>1. seen[work.of] \in [Cell -> 0 .. D2] BY <2>2
    <3>2. \A c \in Cell : seen[work.of][c] \in Int BY <3>1, NIsNat
    <3> HIDE DEF Cell
    <3> QED BY <2>2, <3>2, NIsNat
  <2> HIDE DEF s
  <2>5. \A o \in Object, c \in Cell : seen[o][c] <= seen'[o][c]
    <3>1. \A o \in Object, c \in Cell : seen[o][c] \in Int
      <4> HIDE DEF Object, Cell
      <4>1. 0 .. D2 \subseteq Int BY NIsNat
      <4> QED BY <2>2, <4>1
    <3> HIDE DEF Object, Cell
    <3> QED BY <2>1, <2>2, <2>4, <3>1
  <2>6. seen' \in [Object -> [Cell -> 0 .. D2]]
    <3> HIDE DEF Object, Cell
    <3> QED BY <2>1, <2>2, <2>3
  <2>7. RowsAreSound'
    <3> SUFFICES ASSUME NEW o \in Object PROVE Sound(rows[o], seen'[o])
      BY <2>1 DEF RowsAreSound
    <3>1. Sound(rows[o], seen[o]) BY DEF WindowInv, RowsAreSound
    <3>2. ASSUME NEW w \in Window, NEW c \in Cells(w) PROVE rows[o][w].success <= seen'[o][c]
      <4>1. c \in Cell BY WindowParts
      <4>2. rows[o][w].success <= seen[o][c] BY <3>1 DEF Sound, Fits
      <4>3. seen[o][c] <= seen'[o][c] BY <2>5, <4>1
      <4>4. rows[o][w].success \in 0 .. D2 BY DEF WindowInv, TypeOK, Row
      <4>5. seen[o][c] \in 0 .. D2 /\ seen'[o][c] \in 0 .. D2
        <5> HIDE DEF Object, Cell
        <5> QED BY <2>2, <2>6, <4>1
      <4> QED BY <4>2, <4>3, <4>4, <4>5, NIsNat
    <3> QED BY <3>1, <3>2 DEF Sound, Fits
  <2>8. WorkIsSound'
    <3>1. work'.at = "ingested" /\ work'.of = work.of /\ work'.window = work.window
          /\ work'.began = work.began
      BY <2>1 DEF WindowInv, TypeOK
    <3>2. work.began >= 1 BY <2>1 DEF WindowInv, WorkIsSound
    <3>3. seen'[work.of] = s
      <4> HIDE DEF Object, Cell
      <4> QED BY <2>1, <2>2
    <3>4. \A c \in Cells(work.window) : work.began <= s[c] BY <2>2, <2>4, WindowParts
    <3> QED BY <3>1, <3>2, <3>3, <3>4 DEF WorkIsSound
  <2>9. CoverageIsRead'
    <3> SUFFICES ASSUME NEW c \in shown.cells, NEW o \in shown.of PROVE seen'[o][c] > 0
      BY <2>1 DEF CoverageIsRead
    <3>1. o \in Object /\ c \in Cell BY DEF WindowInv, TypeOK
    <3>2. seen[o][c] > 0 BY DEF WindowInv, CoverageIsRead
    <3>3. seen[o][c] \in 0 .. D2 /\ seen'[o][c] \in 0 .. D2
      <4> HIDE DEF Object, Cell
      <4> QED BY <2>2, <2>6, <3>1
    <3> QED BY <2>5, <3>1, <3>2, <3>3, NIsNat
  <2>10. TypeOK'
    <3>1. work' \in [at : {"idle", "begin", "reading", "ingested"}, of : Object,
                     window : Window, began : 0 .. D2]
      BY <2>1 DEF WindowInv, TypeOK
    <3> QED BY <2>1, <2>6, <3>1 DEF WindowInv, TypeOK, settings
  <2> QED BY <2>1, <2>7, <2>8, <2>9, <2>10 DEF WindowInv, Grown, Covered
<1>2. CASE ~ InScope BY <1>2, CancelledKeeps DEF Ingest
<1> QED BY <1>1, <1>2

\* Rows that differ from the object's own at one window only in what is known of
\* its gaps, and there in that it was read as of a moment up to which it is stored.
LEMMA ReadIsBetter ==
    ASSUME WindowInv, work.at = "ingested"
    PROVE  Better(rows[work.of], ReadAt(work.began), seen[work.of])
<1> DEFINE own == rows[work.of]
           s == seen[work.of]
           b == ReadAt(work.began)
           done == [Own EXCEPT !.status = "done", !.success = work.began]
<1>1. /\ own \in Rows /\ Sound(own, s) /\ work.window \in Window
      /\ work.began \in 0 .. D2 /\ work.began >= 1
      /\ \A c \in Cells(work.window) : work.began <= s[c]
  BY DEF WindowInv, TypeOK, Rows, RowsAreSound, WorkIsSound
<1>2. done \in Row /\ done.success = work.began /\ done.status = "done"
  <2> DEFINE r1 == [Own EXCEPT !.status = "done"]
             r2 == [r1 EXCEPT !.success = work.began]
  <2>1. r1 \in Row /\ r1.status = "done" BY OwnIsRow, StatusOnly DEF Status
  <2> HIDE DEF r1
  <2>2. r2 \in Row /\ r2.success = work.began /\ r2.status = "done"
    BY <1>1, <2>1 DEF Row
  <2>3. done = r2 BY Zenon DEF r1, r2
  <2> HIDE DEF r2, done
  <2> QED BY <2>2, <2>3
<1> HIDE DEF done
<1>3. \A w \in Window : b[w] = IF w = work.window THEN done
          ELSE IF own[w].status \in Gap /\ Cells(w) \cap Cells(work.window) # {}
          THEN [own[w] EXCEPT !.proof = @ \cup {work.window}] ELSE own[w]
  BY DEF ReadAt, done
<1>4. \A w \in Window : w # work.window =>
          b[w] \in Row /\ b[w].success = own[w].success /\ b[w].status = own[w].status
  <2> SUFFICES ASSUME NEW w \in Window, w # work.window
               PROVE  b[w] \in Row /\ b[w].success = own[w].success
                      /\ b[w].status = own[w].status
    OBVIOUS
  <2>1. own[w] \in Row BY <1>1 DEF Rows
  <2>2. LET g == [own[w] EXCEPT !.proof = @ \cup {work.window}]
        IN  g \in Row /\ g.success = own[w].success /\ g.status = own[w].status
    BY <1>1, <2>1 DEF Row
  <2> HIDE DEF own, b
  <2> QED BY <1>3, <2>1, <2>2
<1>5. b = [w \in Window |-> b[w]] BY DEF ReadAt
<1>6. b[work.window] = done BY <1>1, <1>3
<1> HIDE DEF own, s, b
<1>7. b \in Rows BY <1>2, <1>4, <1>5, <1>6 DEF Rows
<1>8. DoneIsRead(b) BY <1>1, <1>2, <1>4, <1>6 DEF Sound, DoneIsRead
<1>9. Fits(b, s) BY <1>1, <1>2, <1>4, <1>6 DEF Sound, Fits
<1>10. ReadSince(own, 1) \subseteq ReadSince(b, 1)
  BY <1>1, <1>2, <1>4, <1>6, ReadOf
<1> QED BY <1>7, <1>8, <1>9, <1>10 DEF Better, Sound, own, s, b

LEMMA SucceedKeeps ==
    ASSUME WindowInv, Succeed
    PROVE  WindowInv' /\ Grown
BY ReadIsBetter, FinishKeeps DEF Succeed

LEMMA BackOffKeeps ==
    ASSUME WindowInv, BackOff
    PROVE  WindowInv' /\ Grown
<1> DEFINE row == [Own EXCEPT !.status = "backoff",
                              !.kind = IF @ = "incremental" THEN "repair" ELSE @]
           r1 == [Own EXCEPT !.status = "backoff"]
           kind == IF Own.kind = "incremental" THEN "repair" ELSE Own.kind
           r2 == [r1 EXCEPT !.kind = kind]
<1>1. r1 \in Row /\ r1.success = Own.success /\ r1.status = "backoff" /\ r1.kind = Own.kind
  <2>1. r1 \in Row /\ r1.success = Own.success /\ r1.status = "backoff"
    BY OwnIsRow, StatusOnly DEF Status, Active
  <2>2. r1.kind = Own.kind BY OwnIsRow DEF Row
  <2> QED BY <2>1, <2>2
<1>2. kind \in Kind BY OwnIsRow DEF Row, Kind
<1>3. row = r2
  BY Zenon, OwnIsRow, <1>1 DEF r1, r2, kind
<1> HIDE DEF r1, kind
<1>4. r2 \in Row /\ r2.success = Own.success /\ r2.status = "backoff"
  BY <1>1, <1>2 DEF Row
<1> HIDE DEF r2
<1>5. Finish(Ended(row), 1) /\ seen' = seen BY DEF BackOff
<1> HIDE DEF row
<1>6. Better(rows[work.of], Ended(row), seen[work.of]) BY <1>3, <1>4, EndedIsBetter
<1> QED BY <1>5, <1>6, FinishKeeps

LEMMA FailedIsBetter ==
    ASSUME WindowInv, NEW error \in {"incomplete", "other"}
    PROVE  Better(rows[work.of], Ended(Failed(error)), seen[work.of])
<1> DEFINE r1 == [Own EXCEPT !.status = "failed"]
           r2 == [r1 EXCEPT !.ended = Phase(now)]
           r3 == [r2 EXCEPT !.error = error]
<1>1. r1 \in Row /\ r1.success = Own.success /\ r1.status = "failed"
  BY OwnIsRow, StatusOnly DEF Status
<1> HIDE DEF r1
<1>2. r2 \in Row /\ r2.success = Own.success /\ r2.status = "failed"
  BY <1>1, PhaseIsMoment DEF Row, WindowInv, TypeOK
<1> HIDE DEF r2
<1>3. r3 \in Row /\ r3.success = Own.success /\ r3.status = "failed"
  BY <1>2 DEF Row
<1>4. Failed(error) = r3 BY Zenon DEF Failed, r1, r2, r3
<1> HIDE DEF r3
<1> QED BY <1>3, <1>4, EndedIsBetter

LEMMA FailKeeps ==
    ASSUME WindowInv, Fail
    PROVE  WindowInv' /\ Grown
BY FailedIsBetter, FinishKeeps DEF Fail

LEMMA FailIncompleteKeeps ==
    ASSUME WindowInv, FailIncomplete
    PROVE  WindowInv' /\ Grown
<1>1. Better(rows[work.of], Split(rows[work.of], {work.window}), seen[work.of])
  BY OwnIsRow, SplitIsBetter DEF WindowInv, RowsAreSound
<1> QED BY <1>1, FailedIsBetter, FinishKeeps DEF FailIncomplete

LEMMA SweptIsBetter ==
    ASSUME WindowInv
    PROVE  /\ RowsAreBetter(Swept)
           /\ \A o \in Object, w \in Window :
                  Swept[o][w] \in Row /\ Swept[o][w].success = rows[o][w].success
<1>1. \A o \in Object, w \in Window :
         /\ Swept[o][w] \in Row /\ Swept[o][w].success = rows[o][w].success
         /\ Swept[o][w].status = "done" => rows[o][w].status = "done"
  <2> SUFFICES ASSUME NEW o \in Object, NEW w \in Window
               PROVE  /\ Swept[o][w] \in Row /\ Swept[o][w].success = rows[o][w].success
                      /\ Swept[o][w].status = "done" => rows[o][w].status = "done"
    OBVIOUS
  <2>1. rows[o][w] \in Row BY DEF WindowInv, TypeOK
  <2>2. Swept[o][w] = IF rows[o][w].status = "running"
                      THEN [rows[o][w] EXCEPT !.status = "queued"] ELSE rows[o][w]
    BY DEF Swept
  <2>3. "queued" \in Status BY DEF Status, Active
  <2> QED BY <2>1, <2>2, <2>3, StatusOnly
<1>2. Swept \in [Object -> Rows] BY <1>1 DEF Swept, Rows
<1> QED BY <1>1, <1>2, StatusesAreBetter

LEMMA ClaimKeeps ==
    ASSUME WindowInv, NEW o \in Object, NEW w \in Window, Claim(o, w)
    PROVE  WindowInv' /\ Grown
<1> DEFINE all == [Swept EXCEPT ![o][w].status = "running"]
           row == [Swept[o][w] EXCEPT !.status = "running"]
<1>1. Swept \in [Object -> Rows] BY SweptIsBetter DEF RowsAreBetter
<1>2. row \in Row /\ row.success = rows[o][w].success /\ row.status = "running"
  <2>1. Swept[o][w] \in Row /\ Swept[o][w].success = rows[o][w].success BY SweptIsBetter
  <2>2. "running" \in Status BY DEF Status, Active
  <2> QED BY <2>1, <2>2, StatusOnly
<1>3. all = [Swept EXCEPT ![o] = [Swept[o] EXCEPT ![w] = row]]
  BY <1>1 DEF Rows
<1> HIDE DEF row
<1>4. all \in [Object -> Rows] BY <1>1, <1>2, <1>3 DEF Rows
<1>5. \A p \in Object, v \in Window :
         all[p][v] = IF p = o /\ v = w THEN row ELSE Swept[p][v]
  BY <1>1, <1>3 DEF Rows
<1>6. \A p \in Object, v \in Window : /\ all[p][v].success = rows[p][v].success
                                      /\ all[p][v].status = "done" => rows[p][v].status = "done"
  <2>1. \A p \in Object, v \in Window : Swept[p][v].status = "done" => rows[p][v].status = "done"
    <3> SUFFICES ASSUME NEW p \in Object, NEW v \in Window, Swept[p][v].status = "done"
                 PROVE  rows[p][v].status = "done"
      OBVIOUS
    <3>1. rows[p][v] \in Row BY DEF WindowInv, TypeOK
    <3> QED BY <3>1, StatusOnly DEF Swept, Status, Active
  <2> HIDE DEF all
  <2> QED BY <1>2, <1>5, <2>1, SweptIsBetter
<1>7. Refreshed(all) /\ work' = [at |-> "begin", of |-> o, window |-> w, began |-> 0]
      /\ UNCHANGED <<settings, now, seen, trouble>>
  BY DEF Claim
<1> HIDE DEF all
<1>8. RowsAreBetter(all) BY <1>4, <1>6, StatusesAreBetter
<1>9. ShownIsSound BY <1>7, <1>8, RefreshedRows
<1>10. TypeOK' BY <1>7, <1>9, NIsNat DEF WindowInv, TypeOK, ShownIsSound, settings, Rows
<1>11. WorkIsSound' BY <1>7 DEF WorkIsSound
<1> QED BY <1>9, <1>10, <1>11 DEF WindowInv, ShownIsSound, Grown

\* Steps of the rows that leave worker and store alone.
LEMMA RowsStep ==
    ASSUME WindowInv, ShownIsSound, UNCHANGED <<now, work, seen>>,
           enabled' \in BOOLEAN, watched' \subseteq Plan, trouble' \in 0 .. MaxTrouble
    PROVE  WindowInv' /\ Grown
<1>1. TypeOK' BY DEF WindowInv, TypeOK, ShownIsSound, Rows
<1>2. WorkIsSound' BY DEF WindowInv, WorkIsSound
<1> QED BY <1>1, <1>2 DEF WindowInv, ShownIsSound, Grown

LEMMA SweepOnlyKeeps ==
    ASSUME WindowInv, SweepOnly
    PROVE  WindowInv' /\ Grown
BY SweptIsBetter, KeptRows, RowsStep DEF SweepOnly, settings, WindowInv, TypeOK

LEMMA ScheduleKeeps ==
    ASSUME WindowInv, Schedule
    PROVE  WindowInv' /\ Grown
<1> DEFINE all == [o \in Object |-> IF o \in Required THEN Scheduled(rows[o]) ELSE rows[o]]
<1>1. ASSUME NEW o \in Object PROVE Better(rows[o], all[o], seen[o])
  <2>1. Sound(rows[o], seen[o]) BY DEF WindowInv, RowsAreSound
  <2>2. seen[o] \in [Cell -> Nat]
    <3>1. seen \in [Object -> [Cell -> 0 .. D2]] BY DEF WindowInv, TypeOK
    <3>2. 0 .. D2 \subseteq Nat BY NIsNat
    <3> HIDE DEF Object, Cell
    <3> QED BY <3>1, <3>2
  <2>3. now \in Moment BY DEF WindowInv, TypeOK
  <2>4. Better(rows[o], Scheduled(rows[o]), seen[o]) BY <2>1, <2>2, <2>3, ScheduledIsBetter
  <2> QED BY <2>1, <2>4, SoundIsBetter
<1>2. all \in [Object -> Rows]
  <2> SUFFICES ASSUME NEW o \in Object PROVE all[o] \in Rows OBVIOUS
  <2> HIDE DEF all
  <2> QED BY <1>1 DEF Better, Sound
<1>3. Refreshed(all) /\ UNCHANGED <<settings, now, work, seen, trouble>> BY DEF Schedule
<1> HIDE DEF all
<1>4. RowsAreBetter(all) BY <1>1, <1>2 DEF RowsAreBetter
<1> QED BY <1>3, <1>4, RefreshedRows, RowsStep DEF settings, WindowInv, TypeOK

LEMMA AskedIsBetter ==
    ASSUME NEW own, NEW s, Sound(own, s)
    PROVE  Better(own, Asked(own), s)
<1>1. CASE own[Day].status \in {"queued", "running", "backoff"}
  <2> DEFINE row == [own[Day] EXCEPT !.kind = "manual"]
             b == [own EXCEPT ![Day] = row]
  <2>1. own \in Rows /\ own[Day] \in Row BY Kinds DEF Sound, Rows
  <2>2. row \in Row /\ row.success = own[Day].success /\ row.status = own[Day].status
    BY <2>1 DEF Row, Kind
  <2>3. Asked(own) = b BY <1>1, <2>1, Kinds DEF Asked, Rows
  <2> HIDE DEF row
  <2>4. b \in Rows /\ \A w \in Window : b[w] = IF w = Day THEN row ELSE own[w]
    BY <2>1, <2>2 DEF Rows
  <2> HIDE DEF b
  <2> QED BY <2>2, <2>3, <2>4, KeepingIsBetter
<1>2. CASE own[Day].status \notin {"queued", "running", "backoff"}
  <2>1. Asked(own) = [own EXCEPT ![Day] = Queued(@, "manual")]
    BY <1>2, Kinds DEF Asked, Sound, Rows
  <2> QED BY <2>1, DayQueuedIsBetter DEF Kind
<1> QED BY <1>1, <1>2

LEMMA AskKeeps ==
    ASSUME WindowInv, Ask
    PROVE  WindowInv' /\ Grown
<1> DEFINE all == [o \in Object |-> IF o \in Required THEN Asked(rows[o]) ELSE rows[o]]
<1>1. ASSUME NEW o \in Object PROVE Better(rows[o], all[o], seen[o])
  BY AskedIsBetter, SoundIsBetter DEF WindowInv, RowsAreSound
<1>2. all \in [Object -> Rows]
  <2> SUFFICES ASSUME NEW o \in Object PROVE all[o] \in Rows OBVIOUS
  <2> HIDE DEF all
  <2> QED BY <1>1 DEF Better, Sound
<1>3. Refreshed(all) /\ UNCHANGED <<settings, now, work, seen>> BY DEF Ask
<1> HIDE DEF all
<1>4. RowsAreBetter(all) BY <1>1, <1>2 DEF RowsAreBetter
<1>5. trouble' \in 0 .. MaxTrouble BY NIsNat DEF Ask, Trouble, WindowInv, TypeOK
<1> QED BY <1>3, <1>4, <1>5, RefreshedRows, RowsStep DEF settings, WindowInv, TypeOK

LEMMA SaveSettingsKeeps ==
    ASSUME WindowInv, NEW on \in BOOLEAN, NEW plans \in SUBSET Plan, SaveSettings(on, plans)
    PROVE  WindowInv' /\ Grown
<1> DEFINE objects == IF on THEN Plan \ plans ELSE Object
           all == TakenBack(objects)
<1>1. ASSUME NEW o \in Object, NEW w \in Window
      PROVE  /\ all[o][w] \in Row /\ all[o][w].success = rows[o][w].success
             /\ all[o][w].status = "done" => rows[o][w].status = "done"
  <2>1. rows[o][w] \in Row BY DEF WindowInv, TypeOK
  <2>2. all[o][w] = [rows[o][w] EXCEPT !.status = "cancelled"] \/ all[o][w] = rows[o][w]
    BY DEF TakenBack
  <2>3. "cancelled" \in Status BY DEF Status
  <2>4. LET r == [rows[o][w] EXCEPT !.status = "cancelled"]
        IN  r \in Row /\ r.success = rows[o][w].success /\ r.status = "cancelled"
    BY <2>1, <2>3, StatusOnly
  <2> HIDE DEF all
  <2> QED BY <2>1, <2>2, <2>4
<1>2. all \in [Object -> Rows] BY <1>1 DEF TakenBack, Rows
<1>3. rows' = all /\ shown' = shown /\ UNCHANGED <<now, work, seen>> BY DEF SaveSettings
<1> HIDE DEF all
<1>4. RowsAreBetter(rows') BY <1>1, <1>2, <1>3, StatusesAreBetter
<1>5. trouble' \in 0 .. MaxTrouble BY NIsNat DEF SaveSettings, Trouble, WindowInv, TypeOK
<1>6. enabled' \in BOOLEAN /\ watched' \subseteq Plan BY DEF SaveSettings
<1> QED BY <1>3, <1>4, <1>5, <1>6, KeptRows, RowsStep

LEMMA TickKeeps ==
    ASSUME WindowInv, Tick
    PROVE  WindowInv' /\ Grown
<1>1. now' \in Moment BY NIsNat DEF Tick, Moment, WindowInv, TypeOK
<1>2. UNCHANGED <<rows, enabled, watched, work, shown, seen, trouble>>
  BY DEF Tick, settings
<1>3. TypeOK' BY <1>1, <1>2 DEF WindowInv, TypeOK
<1> QED BY <1>2, <1>3
    DEF WindowInv, RowsAreSound, WorkIsSound, CoverageIsRead, Grown, Covered

LEMMA CrashKeeps ==
    ASSUME WindowInv, Crash
    PROVE  WindowInv' /\ Grown
<1>1. work' = Idle /\ UNCHANGED <<rows, enabled, watched, now, shown, seen>>
  BY DEF Crash, settings
<1>2. trouble' \in 0 .. MaxTrouble BY NIsNat DEF Crash, Trouble, WindowInv, TypeOK
<1>3. TypeOK' BY <1>1, <1>2, IdleIsTyped DEF WindowInv, TypeOK
<1>4. WorkIsSound' BY <1>1 DEF WorkIsSound, Idle
<1> QED BY <1>1, <1>3, <1>4
    DEF WindowInv, RowsAreSound, CoverageIsRead, Grown, Covered

LEMMA StutterKeeps ==
    ASSUME WindowInv, UNCHANGED vars
    PROVE  WindowInv' /\ Grown
BY DEF vars, WindowInv, TypeOK, RowsAreSound, WorkIsSound, CoverageIsRead, Grown, Covered

LEMMA StepKeeps ==
    ASSUME WindowInv, [Next]_vars
    PROVE  WindowInv' /\ Grown
<1>1. CASE \E o \in Object, w \in Window : Claim(o, w) BY <1>1, ClaimKeeps
<1>2. CASE SweepOnly BY <1>2, SweepOnlyKeeps
<1>3. CASE Work
  <2>1. CASE BeginRead BY <2>1, BeginReadKeeps
  <2>2. CASE Ingest BY <2>2, IngestKeeps
  <2>3. CASE Succeed BY <2>3, SucceedKeeps
  <2>4. CASE BackOff BY <2>4, BackOffKeeps
  <2>5. CASE Fail BY <2>5, FailKeeps
  <2>6. CASE FailIncomplete BY <2>6, FailIncompleteKeeps
  <2> QED BY <1>3, <2>1, <2>2, <2>3, <2>4, <2>5, <2>6 DEF Work
<1>4. CASE Schedule BY <1>4, ScheduleKeeps
<1>5. CASE Ask BY <1>5, AskKeeps
<1>6. CASE \E on \in BOOLEAN, plans \in SUBSET Plan : SaveSettings(on, plans)
  BY <1>6, SaveSettingsKeeps
<1>7. CASE Tick BY <1>7, TickKeeps
<1>8. CASE Crash BY <1>8, CrashKeeps
<1>9. CASE UNCHANGED vars BY <1>9, StutterKeeps
<1> QED BY <1>1, <1>2, <1>3, <1>4, <1>5, <1>6, <1>7, <1>8, <1>9 DEF Next

LEMMA InitHolds ==
    ASSUME Init
    PROVE  WindowInv
<1> DEFINE old == [NoRow EXCEPT !.status = "failed", !.ended = NextDay, !.error = "incomplete"]
<1>1. old \in Row /\ old.success = 0 /\ old.status = "failed"
  <2> DEFINE r1 == [NoRow EXCEPT !.status = "failed"]
             r2 == [r1 EXCEPT !.ended = NextDay]
             r3 == [r2 EXCEPT !.error = "incomplete"]
  <2>1. r1 \in Row /\ r1.success = 0 /\ r1.status = "failed"
    BY NoRowIsRow, StatusOnly DEF Status
  <2> HIDE DEF r1
  <2>2. r2 \in Row /\ r2.success = 0 /\ r2.status = "failed" BY <2>1, NIsNat DEF Row
  <2> HIDE DEF r2
  <2>3. r3 \in Row /\ r3.success = 0 /\ r3.status = "failed" BY <2>2 DEF Row
  <2>4. old = r3 BY Zenon DEF r1, r2, r3
  <2> HIDE DEF r3, old
  <2> QED BY <2>3, <2>4
<1>2. \A o \in Object, w \in Window : rows[o][w] = NoRow \/ rows[o][w] = old
  BY DEF Init
<1>3. rows = [o \in Object |-> [w \in Window |-> rows[o][w]]]
  BY DEF Init
<1>4. seen = [o \in Object |-> [c \in Cell |-> 0]] /\ work = Idle /\ trouble = 0
      /\ shown = [cells |-> {}, of |-> {}] /\ enabled = TRUE /\ watched = Plan
      /\ now \in {1, NextDay}
  BY DEF Init
<1> HIDE DEF old
<1>5. \A o \in Object, w \in Window : /\ rows[o][w] \in Row /\ rows[o][w].success = 0
                                      /\ rows[o][w].status # "done"
  BY <1>1, <1>2, NoRowIsRow
<1>6. \A o \in Object : rows[o] \in Rows BY <1>3, <1>5 DEF Rows
<1>7. rows \in [Object -> Rows] BY <1>3, <1>6
<1>8. TypeOK
  <2>1. now \in Moment BY <1>4, NIsNat DEF Moment
  <2>2. seen \in [Object -> [Cell -> 0 .. D2]] BY <1>4, NIsNat
  <2>3. trouble \in 0 .. MaxTrouble BY <1>4, NIsNat
  <2> QED BY <1>4, <1>7, <2>1, <2>2, <2>3, IdleIsTyped DEF TypeOK, Rows
<1>9. RowsAreSound
  <2> SUFFICES ASSUME NEW o \in Object PROVE Sound(rows[o], seen[o]) BY DEF RowsAreSound
  <2>1. DoneIsRead(rows[o]) BY <1>5 DEF DoneIsRead
  <2>2. Fits(rows[o], seen[o])
    <3> SUFFICES ASSUME NEW w \in Window, NEW c \in Cells(w)
                 PROVE  rows[o][w].success <= seen[o][c]
      BY DEF Fits
    <3>1. c \in Cell BY WindowParts
    <3>2. seen[o][c] = 0 BY <1>4, <3>1
    <3> QED BY <1>5, <3>2
  <2> QED BY <1>6, <2>1, <2>2 DEF Sound
<1> QED BY <1>4, <1>8, <1>9 DEF WindowInv, WorkIsSound, CoverageIsRead, Idle

-----------------------------------------------------------------------------
(* The theorems *)

LEMMA Invariance == Spec => []WindowInv
<1>1. Init => WindowInv BY InitHolds
<1>2. WindowInv /\ [Next]_vars => WindowInv' BY StepKeeps
<1> QED BY <1>1, <1>2, PTL DEF Spec

\* Every row, the worker and what is shown keep their type (TypeOK), for any number
\* of plans, half hours and troubles.
THEOREM Typed == Spec => []TypeOK
<1>1. WindowInv => TypeOK BY DEF WindowInv
<1> QED BY <1>1, Invariance, PTL

\* Coverage that _refresh_batch_state shows was read, and its events are stored,
\* for every object that was required (CoverageIsRead).
THEOREM ShownWasRead == Spec => []CoverageIsRead
<1>1. WindowInv => CoverageIsRead BY DEF WindowInv
<1> QED BY <1>1, Invariance, PTL

\* No request, failure, loss of a worker, split or pruning takes back what an object
\* covers (CoverageOnlyGrows).
THEOREM NothingIsForgotten == Spec => CoverageOnlyGrows
<1>1. WindowInv /\ [Next]_vars =>
          [\A o \in Object : Covered(o) \subseteq Covered(o)']_vars
  BY StepKeeps DEF Grown
<1> QED BY <1>1, Invariance, PTL DEF Spec, CoverageOnlyGrows

-----------------------------------------------------------------------------
(* A day in repair.  PhasesAreKept rests on what the rows of an object say of *)
(* a day whose repair is on its way: each of its pieces is waited for, was    *)
(* read, failed, or was cancelled (Mended).  It takes that a proof names       *)
(* every read that counts, and that pruning takes no read away that a proof    *)
(* still needs: increments do not overlap (Apart), the day and the pieces are  *)
(* no increments (Shaped).                                                     *)

OnItsWay == {"queued", "running", "backoff"}

\* An increment keeps its kind until it backs off.
Shaped(own) ==
    /\ own[Day].kind # "incremental"
    /\ \A c \in Cell : own[Piece(c)].kind # "incremental" /\ own[Piece(c)].status # "repairing"
    /\ \A w \in Window : w.of = "increment" /\ own[w].status # "none" =>
           own[w].kind \in {"incremental", "repair"}

Present(own) == {w \in Window : w.of = "increment" /\ own[w].status # "none"}

Apart(own) ==
    \A v, w \in Present(own) : v = w \/ Cells(v) \cap Cells(w) = {}

NoStaleProof(own) == \A w \in Window : own[w].status \notin Gap => own[w].proof = {}

\* What has been read since the day failed.
ReadFor(own) == UNION {Cells(p) : p \in {p \in own[Day].proof : own[p].status # "none"}}

PieceIsMended(own, c) ==
    LET piece == own[Piece(c)] IN
    /\ piece.status # "none"
    /\ piece.status = "done" => Piece(c) \in own[Day].proof
    /\ piece.status = "superseded" => c \in ReadFor(own)
    /\ piece.status = "failed" =>
           \A p \in piece.proof : c \in Cells(p) => p \in own[Day].proof

Mended(own) == own[Day].status = "repairing" => \A c \in Cell : PieceIsMended(own, c)

Repair(own) == Shaped(own) /\ Apart(own) /\ NoStaleProof(own) /\ Mended(own)

RowsMend == \A o \in Object : Repair(rows[o])

\* What a change from the rows a to the rows b may do to each of them, and to the
\* day in repair; no new increment.
Gentle(a, b) ==
    \A w \in Window :
        /\ b[w].kind = "incremental" => a[w].kind = "incremental"
        /\ b[w].status = "repairing" => a[w].status = "repairing" \/ Splittable(w)
        /\ b[w].status \notin Gap => b[w].proof = {}
        /\ w.of = "increment" /\ b[w].status # "none" =>
               /\ a[w].status # "none"
               /\ a[w].kind \in {"incremental", "repair"} => b[w].kind \in {"incremental", "repair"}

PieceMoves(a, b, c) ==
    LET p == a[Piece(c)]  q == b[Piece(c)] IN
    \/ q.status = p.status /\ q.proof \subseteq p.proof \cup b[Day].proof
    \/ q.status \in OnItsWay \cup {"cancelled"}
    \/ q.status = "failed" /\ q.proof = {}
    \/ q.status = "done" /\ Piece(c) \in b[Day].proof
    \/ q.status = "superseded" /\ c \in ReadFor(b)

RepairMoves(a, b) ==
    b[Day].status = "repairing" =>
        \/ \A c \in Cell : b[Piece(c)].status \in OnItsWay
        \/ /\ a[Day].status = "repairing" /\ a[Day].proof \subseteq b[Day].proof
           /\ ReadFor(a) \subseteq ReadFor(b)
           /\ \A c \in Cell : PieceMoves(a, b, c)

LEMMA Names ==
    /\ Day \in Window /\ Day.of = "day" /\ Cells(Day) = Cell
    /\ \A c \in Cell : /\ Piece(c) \in Window /\ Piece(c).of = "piece"
                       /\ Cells(Piece(c)) = {c} /\ ~Splittable(Piece(c))
    /\ \A c, d \in Cell : Piece(c) = Piece(d) => c = d
    /\ \A w \in Window : w = Day \/ (\E c \in Cell : w = Piece(c)) \/ w.of = "increment"
    /\ \A w \in Window : w.of = "increment" => w = Increment(w.from, w.to) /\ w.from <= w.to
<1>1. Day \in Window /\ Day.of = "day" /\ Cells(Day) = Cell
  BY DEF Window, Day, Cells
<1>2. ASSUME NEW c \in Cell
      PROVE  /\ Piece(c) \in Window /\ Piece(c).of = "piece"
             /\ Cells(Piece(c)) = {c} /\ ~Splittable(Piece(c))
  <2>1. Piece(c) \in Window BY DEF Window
  <2>2. Piece(c).of = "piece" /\ Piece(c).from = c /\ Piece(c).to = c BY DEF Piece
  <2>3. c .. c = {c} BY NIsNat
  <2> QED BY <2>1, <2>2, <2>3, NIsNat DEF Cells, Splittable
<1>3. \A c, d \in Cell : Piece(c) = Piece(d) => c = d BY DEF Piece
<1>4. ASSUME NEW w \in Window
      PROVE  /\ w = Day \/ (\E c \in Cell : w = Piece(c)) \/ w.of = "increment"
             /\ w.of = "increment" => w = Increment(w.from, w.to) /\ w.from <= w.to
  <2>1. CASE w = Day BY <2>1 DEF Day
  <2>2. CASE \E c \in Cell : w = Piece(c) BY <2>2 DEF Piece
  <2>3. CASE w \in {v \in {Increment(a, b) : a, b \in Cell} : v.from <= v.to}
    <3>1. PICK a \in Cell, b \in Cell : w = Increment(a, b) BY <2>3
    <3>2. w.of = "increment" /\ w.from = a /\ w.to = b BY <3>1 DEF Increment
    <3> QED BY <2>3, <3>1, <3>2
  <2> QED BY <2>1, <2>2, <2>3 DEF Window
<1> QED BY <1>1, <1>2, <1>3, <1>4

\* What has been read for the day, cell by cell.
LEMMA ReadForOf ==
    ASSUME NEW own, NEW c
    PROVE  c \in ReadFor(own) <=>
               \E p \in own[Day].proof : own[p].status # "none" /\ c \in Cells(p)
BY DEF ReadFor

LEMMA MendedMoves ==
    ASSUME NEW a, NEW b, Mended(a), RepairMoves(a, b)
    PROVE  Mended(b)
<1> SUFFICES ASSUME b[Day].status = "repairing", NEW c \in Cell PROVE PieceIsMended(b, c)
  BY DEF Mended
<1>1. CASE b[Piece(c)].status \in OnItsWay BY <1>1 DEF PieceIsMended, OnItsWay
<1>2. CASE /\ a[Day].status = "repairing" /\ a[Day].proof \subseteq b[Day].proof
           /\ ReadFor(a) \subseteq ReadFor(b) /\ PieceMoves(a, b, c)
  <2>1. PieceIsMended(a, c) BY <1>2 DEF Mended
  <2>2. CASE /\ b[Piece(c)].status = a[Piece(c)].status
             /\ b[Piece(c)].proof \subseteq a[Piece(c)].proof \cup b[Day].proof
    BY <1>2, <2>1, <2>2 DEF PieceIsMended
  <2>3. CASE b[Piece(c)].status \in OnItsWay \cup {"cancelled"}
    BY <2>3 DEF PieceIsMended, OnItsWay
  <2>4. CASE b[Piece(c)].status = "failed" /\ b[Piece(c)].proof = {}
    BY <2>4 DEF PieceIsMended
  <2>5. CASE b[Piece(c)].status = "done" /\ Piece(c) \in b[Day].proof
    BY <2>5 DEF PieceIsMended
  <2>6. CASE b[Piece(c)].status = "superseded" /\ c \in ReadFor(b)
    BY <2>6 DEF PieceIsMended
  <2> QED BY <1>2, <2>2, <2>3, <2>4, <2>5, <2>6 DEF PieceMoves
<1> QED BY <1>1, <1>2 DEF RepairMoves

LEMMA GentleKeeps ==
    ASSUME NEW a, NEW b, Repair(a), Gentle(a, b), RepairMoves(a, b)
    PROVE  Repair(b)
<1>1. Mended(b) BY MendedMoves DEF Repair
<1>2. NoStaleProof(b) BY DEF Gentle, NoStaleProof
<1>3. Apart(b)
  <2>1. Present(b) \subseteq Present(a) BY DEF Gentle, Present
  <2> QED BY <2>1 DEF Repair, Apart
<1>4. Shaped(b) BY Names DEF Gentle, Repair, Shaped
<1> QED BY <1>1, <1>2, <1>3, <1>4 DEF Repair

LEMMA UnchangedMoves ==
    ASSUME NEW a, Repair(a)
    PROVE  Gentle(a, a) /\ RepairMoves(a, a)
BY DEF Repair, NoStaleProof, Gentle, RepairMoves, PieceMoves

\* Rows that were on their way and still are, or ended without a read.
LEMMA LightKeeps ==
    ASSUME NEW a \in Rows, NEW b, Repair(a),
           \A w \in Window :
               \/ b[w] = a[w]
               \/ /\ a[w].status \in OnItsWay
                  /\ b[w].status \in OnItsWay \cup {"cancelled", "failed"}
                  /\ b[w].proof = a[w].proof
                  /\ \/ b[w].kind = a[w].kind
                     \/ a[w].kind = "incremental" /\ b[w].kind = "repair"
    PROVE  Repair(b)
<1>1. \A w \in Window : a[w].status \in OnItsWay => a[w].proof = {}
  BY DEF Repair, NoStaleProof, OnItsWay, Gap
<1>2. Gentle(a, b)
  BY <1>1 DEF Gentle, OnItsWay, Repair, NoStaleProof, Gap
<1>3. RepairMoves(a, b)
  <2> SUFFICES ASSUME b[Day].status = "repairing"
               PROVE  /\ b[Day] = a[Day] /\ ReadFor(a) \subseteq ReadFor(b)
                      /\ \A c \in Cell : PieceMoves(a, b, c)
    BY DEF RepairMoves
  <2>1. b[Day] = a[Day] BY Names DEF OnItsWay
  <2>2. ReadFor(a) \subseteq ReadFor(b)
    <3>1. a[Day].proof \subseteq Window BY Names DEF Rows, Row
    <3> QED BY <2>1, <3>1, ReadForOf DEF OnItsWay
  <2>3. ASSUME NEW c \in Cell PROVE PieceMoves(a, b, c)
    <3>1. Piece(c) \in Window BY Names
    <3> QED BY <1>1, <3>1 DEF PieceMoves, OnItsWay
  <2> QED BY <2>1, <2>2, <2>3
<1> QED BY <1>2, <1>3, GentleKeeps

-----------------------------------------------------------------------------
(* What the operations make of a day in repair                               *)

LEMMA TurnedKeepsRow ==
    ASSUME NEW row \in Row, NEW status \in Status
    PROVE  /\ Turned(row, status).status = status
           /\ Turned(row, status).kind = row.kind
           /\ Turned(row, status).proof = row.proof
<1> DEFINE r1 == [row EXCEPT !.status = status]
           r2 == [r1 EXCEPT !.ended = 0]
           r3 == [r2 EXCEPT !.error = "none"]
<1>1. r1 \in Row /\ r1.kind = row.kind /\ r1.proof = row.proof BY DEF Row
<1> HIDE DEF r1
<1>2. r2 \in Row /\ r2.kind = row.kind /\ r2.proof = row.proof BY <1>1, NIsNat DEF Row
<1> HIDE DEF r2
<1>3. r3 \in Row /\ r3.kind = row.kind /\ r3.proof = row.proof BY <1>2 DEF Row
<1>4. Turned(row, status) = r3 BY Zenon DEF Turned, r1, r2, r3
<1> HIDE DEF r3
<1> QED BY <1>3, <1>4, TurnedRow

LEMMA QueuedKeepsRow ==
    ASSUME NEW row \in Row, NEW kind \in Kind
    PROVE  /\ Queued(row, kind).status = "queued"
           /\ Queued(row, kind).kind = kind
           /\ Queued(row, kind).proof = {}
<1> DEFINE r1 == Turned(row, "queued")
           r2 == [r1 EXCEPT !.kind = kind]
           r3 == [r2 EXCEPT !.proof = {}]
<1>1. r1 \in Row BY TurnedRow DEF Status, Active
<1> HIDE DEF r1
<1>2. r2 \in Row /\ r2.kind = kind BY <1>1 DEF Row
<1> HIDE DEF r2
<1>3. r3 \in Row /\ r3.kind = kind /\ r3.proof = {} BY <1>2 DEF Row
<1>4. Queued(row, kind) = r3 BY Zenon DEF Queued, r1, r2, r3
<1> HIDE DEF r3
<1> QED BY <1>3, <1>4, QueuedRow

\* A row with another status.
LEMMA StatusKeepsRow ==
    ASSUME NEW row \in Row, NEW status
    PROVE  LET r == [row EXCEPT !.status = status]
           IN  r.status = status /\ r.kind = row.kind /\ r.proof = row.proof
BY DEF Row

\* Queueing the day ends its repair.
LEMMA DayQueuedMends ==
    ASSUME NEW own \in Rows, Repair(own), NEW kind \in Kind, kind # "incremental"
    PROVE  Repair([own EXCEPT ![Day] = Queued(@, kind)])
<1> DEFINE b == [own EXCEPT ![Day] = Queued(@, kind)]
           row == Queued(own[Day], kind)
<1>1. row.status = "queued" /\ row.kind = kind /\ row.proof = {}
  BY Names, QueuedKeepsRow DEF Rows
<1>2. \A w \in Window : b[w] = IF w = Day THEN row ELSE own[w]
  BY Names DEF Rows
<1> HIDE DEF b, row
<1>3. Gentle(own, b) BY <1>1, <1>2, Names DEF Gentle, Repair, NoStaleProof
<1>4. RepairMoves(own, b) BY <1>1, <1>2, Names DEF RepairMoves
<1>5. Repair(b) BY <1>3, <1>4, GentleKeeps
<1> QED BY <1>5 DEF b

LEMMA HistoryMends ==
    ASSUME NEW own \in Rows, Repair(own)
    PROVE  Repair(WithHistory(own))
BY DayQueuedMends DEF WithHistory, Kind

LEMMA VerifiedMends ==
    ASSUME NEW own \in Rows, Repair(own)
    PROVE  Repair(Verified(own))
BY DayQueuedMends DEF Verified, Kind

LEMMA AskedMends ==
    ASSUME NEW own \in Rows, Repair(own)
    PROVE  Repair(Asked(own))
<1>1. CASE own[Day].status \in OnItsWay
  <2> DEFINE row == [own[Day] EXCEPT !.kind = "manual"]
             b == [own EXCEPT ![Day] = row]
  <2>1. own[Day] \in Row BY Names DEF Rows
  <2>2. row.kind = "manual" /\ row.status = own[Day].status /\ row.proof = own[Day].proof
    BY <2>1 DEF Row
  <2>3. Asked(own) = b BY <1>1, <2>1, Names DEF Asked, Rows, OnItsWay
  <2>4. \A w \in Window : b[w] = IF w = Day THEN row ELSE own[w] BY Names DEF Rows
  <2> HIDE DEF row, b
  <2>5. Gentle(own, b) BY <2>2, <2>4, Names DEF Gentle, Repair, NoStaleProof
  <2>6. RepairMoves(own, b) BY <1>1, <2>2, <2>4, Names DEF RepairMoves, OnItsWay
  <2> QED BY <2>3, <2>5, <2>6, GentleKeeps
<1>2. CASE own[Day].status \notin OnItsWay
  <2>1. Asked(own) = [own EXCEPT ![Day] = Queued(@, "manual")]
    BY <1>2, Names DEF Asked, Rows, OnItsWay
  <2> QED BY <2>1, DayQueuedMends DEF Kind
<1> QED BY <1>1, <1>2

\* The rows that a split leaves, one by one.
LEMMA SplitRows ==
    ASSUME NEW own \in Rows, NEW windows \in SUBSET Window
    PROVE  LET pieces == {c \in UNION {Pieces(w) : w \in windows} : own[c].status \notin Active}
           IN  \A w \in Window : Split(own, windows)[w] =
                   IF w \in windows THEN Turned(own[w], "repairing")
                   ELSE IF w \in pieces THEN Queued(own[w], "repair") ELSE own[w]
<1> DEFINE pieces == {c \in UNION {Pieces(w) : w \in windows} : own[c].status \notin Active}
           f == [c \in pieces |-> Queued(own[c], "repair")]
           mid == Changed(own, f)
           g == [w \in windows |-> Turned(own[w], "repairing")]
<1>1. pieces \subseteq Window BY Kinds
<1>2. \A c \in pieces : f[c] \in Row /\ f[c] = Queued(own[c], "repair")
  BY <1>1, QueuedRow DEF Rows, Kind
<1>3. DOMAIN f = pieces OBVIOUS
<1>4. \A w \in windows : g[w] \in Row /\ g[w] = Turned(own[w], "repairing")
  <2>1. "repairing" \in Status BY DEF Status, Active
  <2> QED BY <2>1, TurnedRow DEF Rows
<1>5. DOMAIN g = windows OBVIOUS
<1>6. Split(own, windows) = Changed(mid, g) BY DEF Split
<1> HIDE DEF f, g
<1>7. mid \in Rows /\ \A w \in Window : mid[w] = IF w \in pieces THEN f[w] ELSE own[w]
  <2> HIDE DEF pieces
  <2> QED BY <1>1, <1>2, <1>3, ChangedRows
<1> HIDE DEF mid, pieces
<1>8. \A w \in Window : Changed(mid, g)[w] = IF w \in windows THEN g[w] ELSE mid[w]
  <2>1. mid \in Rows /\ \A w \in windows : g[w] \in Row BY <1>4, <1>7
  <2> QED BY <1>5, <2>1, ChangedRows
<1>9. \A w \in Window : Split(own, windows)[w] =
          IF w \in windows THEN Turned(own[w], "repairing")
          ELSE IF w \in pieces THEN Queued(own[w], "repair") ELSE own[w]
  BY <1>2, <1>4, <1>6, <1>7, <1>8
<1> QED BY <1>9 DEF pieces

\* A day that is split has all of its pieces on their way; one that was in repair
\* loses none.
LEMMA SplitMends ==
    ASSUME NEW own \in Rows, Repair(own), NEW windows \in SUBSET Window,
           \A w \in windows : Splittable(w) /\ own[w].status \in {"running", "failed"}
    PROVE  Repair(Split(own, windows))
<1> DEFINE pieces == {c \in UNION {Pieces(w) : w \in windows} : own[c].status \notin Active}
           b == Split(own, windows)
<1>1. \A w \in Window : b[w] = IF w \in windows THEN Turned(own[w], "repairing")
          ELSE IF w \in pieces THEN Queued(own[w], "repair") ELSE own[w]
  BY SplitRows
<1>2. \A w \in Window : /\ Turned(own[w], "repairing").status = "repairing"
                        /\ Turned(own[w], "repairing").kind = own[w].kind
                        /\ Turned(own[w], "repairing").proof = own[w].proof
  <2>1. "repairing" \in Status BY DEF Status, Active
  <2> QED BY <2>1, TurnedKeepsRow DEF Rows
<1>3. \A w \in Window : /\ Queued(own[w], "repair").status = "queued"
                        /\ Queued(own[w], "repair").kind = "repair"
                        /\ Queued(own[w], "repair").proof = {}
  BY QueuedKeepsRow DEF Rows, Kind
<1>4. \A w \in pieces : w.of = "piece" /\ w \in Window
  <2> SUFFICES ASSUME NEW w \in windows, NEW p \in Pieces(w)
               PROVE  p.of = "piece" /\ p \in Window
    OBVIOUS
  <2> QED BY Kinds DEF Pieces, Piece
<1>5. \A c \in Cell : Piece(c) \notin windows BY Names
<1> HIDE DEF b
<1>6. Gentle(own, b)
  <2> HIDE DEF pieces
  <2> QED BY <1>1, <1>2, <1>3, <1>4 DEF Gentle, Repair, NoStaleProof, Gap
<1>7. RepairMoves(own, b)
  <2>1. CASE Day \in windows
    <3>1. ASSUME NEW c \in Cell PROVE b[Piece(c)].status \in OnItsWay
      <4>1. Piece(c) \in Window /\ Piece(c) \in Pieces(Day) BY Names DEF Pieces
      <4>2. CASE own[Piece(c)].status \in Active
        <5>1. Piece(c) \notin pieces /\ own[Piece(c)].status # "repairing"
          BY <4>2 DEF Repair, Shaped
        <5> QED BY <1>1, <1>5, <4>1, <4>2, <5>1 DEF Active, OnItsWay
      <4>3. CASE own[Piece(c)].status \notin Active
        <5>1. Piece(c) \in pieces BY <2>1, <4>1, <4>3
        <5> HIDE DEF pieces
        <5> QED BY <1>1, <1>3, <1>5, <4>1, <5>1 DEF OnItsWay
      <4> QED BY <4>2, <4>3
    <3> QED BY <3>1 DEF RepairMoves
  <2>2. CASE Day \notin windows
    <3> SUFFICES ASSUME b[Day].status = "repairing"
                 PROVE  /\ b[Day] = own[Day] /\ ReadFor(own) \subseteq ReadFor(b)
                        /\ \A c \in Cell : PieceMoves(own, b, c)
      BY DEF RepairMoves
    <3>1. b[Day] = own[Day] BY <1>1, <1>3, <2>2, <1>4, Names
    <3>2. ReadFor(own) \subseteq ReadFor(b)
      <4>1. own[Day].proof \subseteq Window BY Names DEF Rows, Row
      <4>2. \A w \in Window : own[w].status # "none" => b[w].status # "none"
        <5> HIDE DEF pieces
        <5> QED BY <1>1, <1>2, <1>3
      <4> QED BY <3>1, <4>1, <4>2, ReadForOf
    <3>3. ASSUME NEW c \in Cell PROVE PieceMoves(own, b, c)
      <4>1. Piece(c) \in Window BY Names
      <4>2. b[Piece(c)] = own[Piece(c)] \/ b[Piece(c)].status = "queued"
        <5> HIDE DEF pieces
        <5> QED BY <1>1, <1>3, <1>5, <4>1
      <4> QED BY <4>2 DEF PieceMoves, OnItsWay
    <3> QED BY <3>1, <3>2, <3>3
  <2> QED BY <2>1, <2>2
<1>8. Repair(b) BY <1>6, <1>7, GentleKeeps
<1> QED BY <1>8 DEF b

LEMMA RepairedMends ==
    ASSUME NEW own \in Rows, Repair(own)
    PROVE  Repair(Repaired(own))
BY SplitMends DEF Repaired

\* What was resolved is not in repair any more; a piece that was resolved had been
\* read since it failed, hence since the day failed.
LEMMA ResolvedRows ==
    ASSUME NEW own \in Rows
    PROVE  LET read(w)  == UNION {Cells(p) : p \in {p \in own[w].proof : own[p].status # "none"}}
               resolved == {w \in Window : own[w].status \in Gap /\ Cells(w) \subseteq read(w)}
           IN  \A w \in Window :
                   IF w \in resolved
                   THEN /\ Resolved(own)[w].status = "superseded"
                        /\ Resolved(own)[w].kind = own[w].kind
                        /\ Resolved(own)[w].proof = {}
                   ELSE Resolved(own)[w] = own[w]
<1> DEFINE read(w) == UNION {Cells(p) : p \in {p \in own[w].proof : own[p].status # "none"}}
           resolved == {w \in Window : own[w].status \in Gap /\ Cells(w) \subseteq read(w)}
           row(w) == [Turned(own[w], "superseded") EXCEPT !.proof = {}]
           f == [w \in resolved |-> row(w)]
<1>1. ASSUME NEW w \in Window
      PROVE  /\ row(w) \in Row /\ row(w).status = "superseded"
             /\ row(w).kind = own[w].kind /\ row(w).proof = {}
  <2> DEFINE r == Turned(own[w], "superseded")
  <2>1. own[w] \in Row /\ "superseded" \in Status BY DEF Rows, Status
  <2>2. r \in Row /\ r.status = "superseded" /\ r.kind = own[w].kind
    BY <2>1, TurnedRow, TurnedKeepsRow
  <2> HIDE DEF r
  <2>3. LET q == [r EXCEPT !.proof = {}]
        IN  q \in Row /\ q.status = r.status /\ q.kind = r.kind /\ q.proof = {}
    BY <2>2 DEF Row
  <2> QED BY <2>2, <2>3 DEF r
<1>2. DOMAIN f = resolved /\ resolved \in SUBSET Window OBVIOUS
<1>3. \A w \in resolved : f[w] = row(w) OBVIOUS
<1>4. Resolved(own) = Changed(own, f) BY DEF Resolved
<1> HIDE DEF f, row, resolved
<1>5. \A w \in resolved : f[w] \in Row BY <1>1, <1>2, <1>3
<1>6. \A w \in Window : Resolved(own)[w] = IF w \in resolved THEN f[w] ELSE own[w]
  BY <1>2, <1>4, <1>5, ChangedRows
<1>7. \A w \in Window :
          IF w \in resolved
          THEN /\ Resolved(own)[w].status = "superseded"
               /\ Resolved(own)[w].kind = own[w].kind
               /\ Resolved(own)[w].proof = {}
          ELSE Resolved(own)[w] = own[w]
  BY <1>1, <1>3, <1>6
<1> QED BY <1>7 DEF resolved

LEMMA ResolvedMends ==
    ASSUME NEW own \in Rows, Repair(own)
    PROVE  Repair(Resolved(own))
<1> DEFINE read(w) == UNION {Cells(p) : p \in {p \in own[w].proof : own[p].status # "none"}}
           resolved == {w \in Window : own[w].status \in Gap /\ Cells(w) \subseteq read(w)}
           b == Resolved(own)
<1>1. \A w \in Window :
          IF w \in resolved
          THEN b[w].status = "superseded" /\ b[w].kind = own[w].kind /\ b[w].proof = {}
          ELSE b[w] = own[w]
  BY ResolvedRows
<1>2. \A w \in resolved : /\ w \in Window /\ own[w].status \in Gap
                          /\ \A c \in Cells(w) : \E p \in own[w].proof :
                                 own[p].status # "none" /\ c \in Cells(p)
  OBVIOUS
<1> HIDE DEF b, resolved
<1>3. Gentle(own, b)
  BY <1>1, <1>2 DEF Gentle, Repair, NoStaleProof, Gap
<1>4. RepairMoves(own, b)
  <2> SUFFICES ASSUME b[Day].status = "repairing"
               PROVE  /\ b[Day] = own[Day] /\ ReadFor(own) \subseteq ReadFor(b)
                      /\ \A c \in Cell : PieceMoves(own, b, c)
    BY DEF RepairMoves
  <2>1. b[Day] = own[Day] BY <1>1, Names
  <2>2. ReadFor(own) \subseteq ReadFor(b)
    <3>1. own[Day].proof \subseteq Window BY Names DEF Rows, Row
    <3>2. \A w \in Window : own[w].status # "none" => b[w].status # "none" BY <1>1
    <3> QED BY <2>1, <3>1, <3>2, ReadForOf
  <2>3. ASSUME NEW c \in Cell PROVE PieceMoves(own, b, c)
    <3>1. Piece(c) \in Window /\ Cells(Piece(c)) = {c} BY Names
    <3>2. CASE Piece(c) \notin resolved BY <1>1, <3>1, <3>2 DEF PieceMoves
    <3>3. CASE Piece(c) \in resolved
      <4>1. own[Piece(c)].status = "failed"
        BY <1>2, <3>3 DEF Gap, Repair, Shaped
      <4>2. PICK p \in own[Piece(c)].proof : own[p].status # "none" /\ c \in Cells(p)
        BY <1>2, <3>1, <3>3
      <4>3. PieceIsMended(own, c) BY <2>1 DEF Repair, Mended
      <4>4. p \in own[Day].proof BY <4>1, <4>2, <4>3 DEF PieceIsMended
      <4>5. c \in ReadFor(b) BY <2>2, <4>2, <4>4, ReadForOf
      <4> QED BY <1>1, <3>1, <3>3, <4>5 DEF PieceMoves
    <3> QED BY <3>2, <3>3
  <2> QED BY <2>1, <2>2, <2>3
<1>5. Repair(b) BY <1>3, <1>4, GentleKeeps
<1> QED BY <1>5 DEF b

\* Pruning an increment takes no read away that a day in repair needs: the whole
\* that covers it is a piece, which the proof names as well.
LEMMA PrunedMends ==
    ASSUME NEW own \in Rows, Repair(own)
    PROVE  Repair(Pruned(own))
<1> DEFINE whole  == {v \in Window : own[v].kind # "incremental" /\ own[v].status = "done"}
           pruned == {w \in Window : /\ now >= NextDay
                                     /\ own[w].kind = "incremental" /\ own[w].status = "done"
                                     /\ \E v \in whole : Cells(w) \subseteq Cells(v)}
           f == [w \in pruned |-> NoRow]
           b == Pruned(own)
<1>1. \A w \in Window : b[w] = IF w \in pruned THEN NoRow ELSE own[w]
  <2>1. b = Changed(own, f) BY DEF Pruned
  <2>2. \A w \in pruned : f[w] \in Row BY NoRowIsRow
  <2>3. DOMAIN f = pruned /\ pruned \in SUBSET Window OBVIOUS
  <2>4. \A w \in pruned : f[w] = NoRow OBVIOUS
  <2> HIDE DEF f, pruned, b
  <2> QED BY <2>1, <2>2, <2>3, <2>4, ChangedRows
<1>2. NoRow.status = "none" /\ NoRow.kind = "planned" /\ NoRow.proof = {} BY DEF NoRow
<1>3. \A w \in pruned : /\ w \in Window /\ w.of = "increment" /\ own[w].kind = "incremental"
                        /\ \E v \in Window : /\ own[v].kind # "incremental"
                                             /\ own[v].status = "done"
                                             /\ Cells(w) \subseteq Cells(v)
  BY Names DEF Repair, Shaped
<1>4. \A w \in pruned : own[w].status = "done" OBVIOUS
<1> HIDE DEF b, pruned
<1>5. Gentle(own, b) BY <1>1, <1>2 DEF Gentle, Repair, NoStaleProof
<1>6. RepairMoves(own, b)
  <2> SUFFICES ASSUME b[Day].status = "repairing"
               PROVE  /\ b[Day] = own[Day] /\ ReadFor(own) \subseteq ReadFor(b)
                      /\ \A c \in Cell : PieceMoves(own, b, c)
    BY DEF RepairMoves
  <2>1. b[Day] = own[Day] BY <1>1, <1>2, Names
  <2>2. \A c \in Cell : b[Piece(c)] = own[Piece(c)] BY <1>1, <1>3, Names
  <2>3. ASSUME NEW c \in ReadFor(own) PROVE c \in ReadFor(b)
    <3>1. PICK p \in own[Day].proof : own[p].status # "none" /\ c \in Cells(p) BY ReadForOf
    <3>2. p \in Window BY Names DEF Rows, Row
    <3>3. CASE p \notin pruned BY <1>1, <2>1, <3>1, <3>2, <3>3, ReadForOf
    <3>4. CASE p \in pruned
      <4>1. PICK v \in Window : /\ own[v].kind # "incremental" /\ own[v].status = "done"
                                /\ Cells(p) \subseteq Cells(v)
        BY <1>3, <3>4
      <4>2. v # Day BY <2>1, <4>1
      <4>3. v.of # "increment"
        <5> SUFFICES ASSUME v.of = "increment" PROVE FALSE OBVIOUS
        <5>1. v \in Present(own) BY <4>1 DEF Present
        <5>2. p \in Present(own) BY <1>3, <3>1, <3>4 DEF Present
        <5>3. v # p BY <1>3, <3>4, <4>1
        <5>4. Cells(p) \cap Cells(v) = {} BY <5>1, <5>2, <5>3 DEF Repair, Apart
        <5> QED BY <3>1, <4>1, <5>4
      <4>4. PICK d \in Cell : v = Piece(d) BY <4>2, <4>3, Names
      <4>5. c = d BY <3>1, <4>1, <4>4, Names
      <4>6. PieceIsMended(own, d) BY <2>1 DEF Repair, Mended
      <4>7. Piece(d) \in own[Day].proof BY <4>1, <4>4, <4>6 DEF PieceIsMended
      <4>8. b[Piece(d)].status = "done" BY <2>2, <4>1, <4>4
      <4> QED BY <2>1, <3>1, <4>1, <4>4, <4>7, <4>8, ReadForOf
    <3> QED BY <3>3, <3>4
  <2>4. ASSUME NEW c \in Cell PROVE PieceMoves(own, b, c) BY <2>2 DEF PieceMoves
  <2> QED BY <2>1, <2>3, <2>4
<1>7. Repair(b) BY <1>5, <1>6, GentleKeeps
<1> QED BY <1>7 DEF b

\* A pass begins one increment at most, after all others.
LEMMA OneStart ==
    ASSUME NEW own \in Rows, now \in Moment, NEW a \in Starts(own), NEW b \in Starts(own)
    PROVE  a = b
<1> DEFINE ends == {w.to : w \in {w \in Window : /\ own[w].status # "none"
                                                 /\ own[w].kind \in {"incremental", "repair"}}}
<1>1. /\ a \in 1 .. now /\ b \in 1 .. now
      /\ a = 1 \/ a - 1 \in ends
      /\ b = 1 \/ b - 1 \in ends
      /\ \A e \in ends : e < a /\ e < b
  BY DEF Starts
<1>2. now \in Nat BY NIsNat DEF Moment
<1> HIDE DEF ends
<1>3. ~ a < b
  <2> SUFFICES ASSUME a < b PROVE FALSE OBVIOUS
  <2>1. b # 1 BY <1>1, <1>2
  <2>2. b - 1 < a BY <1>1, <2>1
  <2> QED BY <1>1, <1>2, <2>2
<1>4. ~ b < a
  <2> SUFFICES ASSUME b < a PROVE FALSE OBVIOUS
  <2>1. a # 1 BY <1>1, <1>2
  <2>2. a - 1 < b BY <1>1, <2>1
  <2> QED BY <1>1, <1>2, <2>2
<1> QED BY <1>1, <1>2, <1>3, <1>4

LEMMA IncrementedMends ==
    ASSUME NEW own \in Rows, Repair(own), now \in Moment
    PROVE  Repair(Incremented(own))
<1> DEFINE next == IF \/ now > N
                      \/ \E w \in Window : /\ own[w].kind = "incremental"
                                           /\ own[w].status \in {"queued", "running"}
                   THEN {} ELSE {Increment(a, now) : a \in Starts(own)}
           f == [w \in next |-> Queued(own[w], "incremental")]
           b == Incremented(own)
<1>1. now \in Nat BY NIsNat DEF Moment
<1>2. ASSUME NEW w \in next
      PROVE  /\ w \in Window /\ w.of = "increment" /\ w.from \in 1 .. now /\ w.to = now
             /\ \A v \in next : v = w
             /\ \A v \in Present(own) : v.to < w.from
  <2>1. PICK a \in Starts(own) : w = Increment(a, now) BY <1>2
  <2>2. now <= N BY <1>1, <1>2, NIsNat
  <2>3. a \in 1 .. now BY <2>1 DEF Starts
  <2>4. w \in Window BY <1>1, <2>1, <2>2, <2>3, Kinds, NIsNat
  <2>5. w.of = "increment" /\ w.from = a /\ w.to = now BY <2>1 DEF Increment
  <2>6. \A v \in next : v = w
    <3> SUFFICES ASSUME NEW v \in next PROVE v = w OBVIOUS
    <3>1. PICK c \in Starts(own) : v = Increment(c, now) OBVIOUS
    <3>2. c = a BY OneStart
    <3> QED BY <2>1, <3>1, <3>2
  <2>7. ASSUME NEW v \in Present(own) PROVE v.to < a
    <3>1. /\ v \in Window /\ own[v].status # "none"
          /\ own[v].kind \in {"incremental", "repair"}
      BY DEF Present, Repair, Shaped
    <3> QED BY <2>1, <3>1 DEF Starts
  <2> QED BY <2>3, <2>4, <2>5, <2>6, <2>7
<1>3. \A w \in next : f[w] \in Row /\ f[w] = Queued(own[w], "incremental")
  BY <1>2, QueuedRow DEF Rows, Kind
<1>4. \A w \in next : /\ f[w].status = "queued" /\ f[w].kind = "incremental"
                      /\ f[w].proof = {}
  <2>1. \A w \in next : own[w] \in Row BY <1>2 DEF Rows
  <2>2. "incremental" \in Kind BY DEF Kind
  <2> HIDE DEF f, next
  <2> QED BY <1>3, <2>1, <2>2, QueuedKeepsRow
<1>5. b = Changed(own, f) BY DEF Incremented
<1>6. DOMAIN f = next /\ next \in SUBSET Window BY <1>2
<1> HIDE DEF f, next, b
<1>7. \A w \in Window : b[w] = IF w \in next THEN f[w] ELSE own[w]
  BY <1>3, <1>5, <1>6, ChangedRows
<1>8. Day \notin next /\ \A c \in Cell : Piece(c) \notin next BY <1>2, Names
<1>9. Shaped(b) BY <1>4, <1>7, <1>8, Names DEF Repair, Shaped
<1>10. NoStaleProof(b) BY <1>4, <1>7 DEF Repair, NoStaleProof
<1>11. Apart(b)
  <2> SUFFICES ASSUME NEW v \in Present(b), NEW w \in Present(b), v # w
               PROVE  Cells(v) \cap Cells(w) = {}
    BY DEF Apart
  <2>1. v \in Window /\ w \in Window BY DEF Present
  <2>2. /\ v.from \in Nat /\ v.to \in Nat /\ w.from \in Nat /\ w.to \in Nat
    BY <2>1, WindowParts, NIsNat
  <2>3. CASE v \in next
    <3>1. w \notin next BY <1>2, <2>3
    <3>2. w \in Present(own) BY <1>7, <2>1, <3>1 DEF Present
    <3>3. w.to < v.from BY <1>2, <2>3, <3>2
    <3> QED BY <2>2, <3>3 DEF Cells
  <2>4. CASE w \in next
    <3>1. v \notin next BY <1>2, <2>4
    <3>2. v \in Present(own) BY <1>7, <2>1, <3>1 DEF Present
    <3>3. v.to < w.from BY <1>2, <2>4, <3>2
    <3> QED BY <2>2, <3>3 DEF Cells
  <2>5. CASE v \notin next /\ w \notin next
    <3>1. v \in Present(own) /\ w \in Present(own) BY <1>7, <2>1, <2>5 DEF Present
    <3> QED BY <3>1 DEF Repair, Apart
  <2> QED BY <2>3, <2>4, <2>5
<1>12. RepairMoves(own, b)
  <2>1. b[Day] = own[Day] /\ \A c \in Cell : b[Piece(c)] = own[Piece(c)]
    BY <1>7, <1>8, Names
  <2>2. ReadFor(own) \subseteq ReadFor(b)
    <3>1. own[Day].proof \subseteq Window BY Names DEF Rows, Row
    <3>2. \A w \in Window : own[w].status # "none" => b[w].status # "none" BY <1>4, <1>7
    <3> QED BY <2>1, <3>1, <3>2, ReadForOf
  <2> QED BY <2>1, <2>2 DEF RepairMoves, PieceMoves
<1>13. Repair(b) BY <1>9, <1>10, <1>11, <1>12, MendedMoves DEF Repair
<1> QED BY <1>13 DEF b

LEMMA ScheduledMends ==
    ASSUME NEW own, NEW s, Sound(own, s), Repair(own), now \in Moment
    PROVE  Repair(Scheduled(own))
<1> DEFINE a == Incremented(own)
           b == WithHistory(a)
           c == Resolved(b)
           d == Repaired(c)
           e == Verified(d)
<1>1. Sound(a, s) /\ a \in Rows /\ Repair(a)
  BY IncrementedIsBetter, IncrementedMends DEF Better, Sound
<1> HIDE DEF a
<1>2. Sound(b, s) /\ b \in Rows /\ Repair(b)
  BY <1>1, HistoryIsBetter, HistoryMends DEF Better, Sound
<1> HIDE DEF b
<1>3. Sound(c, s) /\ c \in Rows /\ Repair(c)
  BY <1>2, ResolvedIsBetter, ResolvedMends DEF Better, Sound
<1> HIDE DEF c
<1>4. Sound(d, s) /\ d \in Rows /\ Repair(d)
  BY <1>3, RepairedIsBetter, RepairedMends DEF Better, Sound
<1> HIDE DEF d
<1>5. Sound(e, s) /\ e \in Rows /\ Repair(e)
  BY <1>4, VerifiedIsBetter, VerifiedMends DEF Better, Sound
<1>6. Scheduled(own) = Pruned(e) BY DEF Scheduled, a, b, c, d
<1> HIDE DEF e
<1> QED BY <1>5, <1>6, PrunedMends

\* A read adds to what the day and its pieces are known to have been read by.
LEMMA ReadMends ==
    ASSUME TypeOK, Repair(rows[work.of]), Held, NEW t
    PROVE  Repair(ReadAt(t))
<1> DEFINE own == rows[work.of]
           read == work.window
           b == ReadAt(t)
<1>1. own \in Rows /\ read \in Window /\ own[read] \in Row BY DEF TypeOK, Rows
<1>2. own[read].status = "running" /\ Own = own[read] BY DEF Held, Own
<1>3. b[read].status = "done" /\ b[read].kind = own[read].kind /\ b[read].proof = own[read].proof
  <2> DEFINE r1 == [own[read] EXCEPT !.status = "done"]
             r2 == [r1 EXCEPT !.success = t]
  <2>1. DOMAIN r1 = DOMAIN own[read] /\ r1.status = "done" /\ r1.kind = own[read].kind
        /\ r1.proof = own[read].proof
    BY <1>1 DEF Row
  <2>2. r2.status = r1.status /\ r2.kind = r1.kind /\ r2.proof = r1.proof BY <1>1 DEF Row
  <2>3. b[read] = r2
    <3>1. b[read] = [Own EXCEPT !.status = "done", !.success = t] BY <1>1 DEF ReadAt
    <3> HIDE DEF own, b
    <3> QED BY Zenon, <1>2, <3>1 DEF r1, r2
  <2> HIDE DEF r1, r2, own, b
  <2> QED BY <2>1, <2>2, <2>3
<1>4. ASSUME NEW w \in Window, w # read
      PROVE  /\ b[w].status = own[w].status /\ b[w].kind = own[w].kind
             /\ b[w].proof = IF own[w].status \in Gap /\ Cells(w) \cap Cells(read) # {}
                             THEN own[w].proof \cup {read} ELSE own[w].proof
  <2>1. own[w] \in Row BY <1>1 DEF Rows
  <2>2. b[w] = IF own[w].status \in Gap /\ Cells(w) \cap Cells(read) # {}
               THEN [own[w] EXCEPT !.proof = @ \cup {read}] ELSE own[w]
    BY <1>4 DEF ReadAt
  <2>3. LET g == [own[w] EXCEPT !.proof = @ \cup {read}]
        IN  g.status = own[w].status /\ g.kind = own[w].kind /\ g.proof = own[w].proof \cup {read}
    BY <2>1 DEF Row
  <2> HIDE DEF own, read, b
  <2> QED BY <2>2, <2>3
<1>5. Repair(own) OBVIOUS
<1> HIDE DEF own, read, b
<1>6. own[read].proof = {} BY <1>1, <1>2, <1>5 DEF Repair, NoStaleProof, Gap
<1>7. Gentle(own, b)
  <2> SUFFICES ASSUME NEW w \in Window
               PROVE  /\ b[w].kind = own[w].kind
                      /\ \/ b[w].status = own[w].status
                         \/ own[w].status = "running" /\ b[w].status = "done"
                      /\ b[w].status \notin Gap => b[w].proof = {}
    BY DEF Gentle
  <2>1. own[w].status \notin Gap => own[w].proof = {} BY <1>5 DEF Repair, NoStaleProof
  <2>2. CASE w = read BY <1>2, <1>3, <1>6, <2>2
  <2>3. CASE w # read BY <1>4, <2>1, <2>3
  <2> QED BY <2>2, <2>3
<1>8. RepairMoves(own, b)
  <2> SUFFICES ASSUME b[Day].status = "repairing"
               PROVE  /\ own[Day].status = "repairing" /\ own[Day].proof \subseteq b[Day].proof
                      /\ ReadFor(own) \subseteq ReadFor(b)
                      /\ \A c \in Cell : PieceMoves(own, b, c)
    BY DEF RepairMoves
  <2>1. Day # read BY <1>3
  <2>2. own[Day].status = "repairing" BY <1>4, <2>1, Names
  <2>3. b[Day].proof = own[Day].proof \cup {read}
    <3>1. Cells(Day) \cap Cells(read) # {}
      <4>1. read.from \in Cells(read)
        <5>1. read.from \in 1 .. N /\ read.to \in 1 .. N BY <1>1, WindowParts
        <5>2. read.from <= read.to
          <6>1. CASE \E c \in Cell : read = Piece(c) BY <6>1, NIsNat DEF Piece
          <6>2. CASE read.of = "increment" BY <1>1, <6>2, Names
          <6> QED BY <1>1, <2>1, <6>1, <6>2, Names
        <5> QED BY <5>1, <5>2, NIsNat DEF Cells
      <4>2. read.from \in Cells(Day) BY <1>1, WindowParts, Names
      <4> QED BY <4>1, <4>2
    <3> QED BY <1>4, <2>1, <2>2, <3>1, Names DEF Gap
  <2>4. ReadFor(own) \subseteq ReadFor(b)
    <3>1. own[Day].proof \subseteq Window BY <1>1, Names DEF Rows, Row
    <3>2. \A w \in Window : own[w].status # "none" => b[w].status # "none" BY <1>3, <1>4
    <3> QED BY <2>3, <3>1, <3>2, ReadForOf
  <2>5. ASSUME NEW c \in Cell PROVE PieceMoves(own, b, c)
    <3>1. Piece(c) \in Window BY Names
    <3>2. CASE Piece(c) = read BY <1>3, <2>3, <3>2 DEF PieceMoves
    <3>3. CASE Piece(c) # read
      <4>1. /\ b[Piece(c)].status = own[Piece(c)].status
            /\ b[Piece(c)].proof \subseteq own[Piece(c)].proof \cup b[Day].proof
        BY <1>4, <2>3, <3>1, <3>3
      <4> QED BY <4>1 DEF PieceMoves
    <3> QED BY <3>2, <3>3
  <2> QED BY <2>2, <2>3, <2>4, <2>5
<1>9. Repair(b) BY <1>5, <1>7, <1>8, GentleKeeps
<1> QED BY <1>9 DEF b

-----------------------------------------------------------------------------
(* The steps keep it *)

LEMMA RefreshedMends ==
    ASSUME NEW all \in [Object -> Rows], \A o \in Object : Repair(all[o]), Refreshed(all)
    PROVE  RowsMend'
<1> SUFFICES ASSUME NEW o \in Object PROVE Repair(rows'[o])
  BY DEF RowsMend, Repair, Shaped, Apart, Present, NoStaleProof, Mended, PieceIsMended, ReadFor
<1>1. rows'[o] = Resolved(all[o]) BY DEF Refreshed
<1> QED BY <1>1, ResolvedMends

LEMMA KeptMends ==
    ASSUME NEW all, \A o \in Object : Repair(all[o]), rows' = all
    PROVE  RowsMend'
<1> SUFFICES ASSUME NEW o \in Object PROVE Repair(rows'[o])
  BY DEF RowsMend, Repair, Shaped, Apart, Present, NoStaleProof, Mended, PieceIsMended, ReadFor
<1> QED OBVIOUS

LEMMA FinishMends ==
    ASSUME TypeOK, RowsMend, NEW own \in Rows, Held => Repair(own),
           NEW cost, Finish(own, cost)
    PROVE  RowsMend'
<1> DEFINE all == IF Held THEN [rows EXCEPT ![work.of] = own] ELSE rows
<1>1. rows \in [Object -> Rows] /\ work.of \in Object BY DEF TypeOK, Rows
<1>2. all \in [Object -> Rows] BY <1>1
<1>3. \A o \in Object : Repair(all[o]) BY <1>1 DEF RowsMend
<1>4. Refreshed(all) \/ rows' = all BY DEF Finish
<1> HIDE DEF all
<1> QED BY <1>2, <1>3, <1>4, RefreshedMends, KeptMends

\* A claim that ends without a read.
LEMMA EndedMends ==
    ASSUME TypeOK, RowsMend, NEW row \in Row, row.proof = Own.proof,
           row.status \in OnItsWay \cup {"cancelled", "failed"},
           \/ row.kind = Own.kind
           \/ Own.kind = "incremental" /\ row.kind = "repair"
    PROVE  Ended(row) \in Rows /\ (Held => Repair(Ended(row)))
<1> DEFINE own == rows[work.of]
           b == Ended(row)
<1>1. /\ own \in Rows /\ work.window \in Window /\ Repair(own) /\ Own = own[work.window]
  BY DEF TypeOK, Rows, RowsMend, Own
<1>2. b \in Rows BY <1>1 DEF Ended, Rows
<1>3. \A w \in Window : b[w] = IF w = work.window THEN row ELSE own[w]
  BY <1>1 DEF Ended, Rows
<1> HIDE DEF own, b
<1>4. ASSUME Held PROVE Repair(b)
  <2>1. own[work.window].status \in OnItsWay BY <1>1, <1>4 DEF Held, OnItsWay
  <2>2. ASSUME NEW w \in Window, b[w] # own[w]
        PROVE  /\ own[w].status \in OnItsWay
               /\ b[w].status \in OnItsWay \cup {"cancelled", "failed"}
               /\ b[w].proof = own[w].proof
               /\ b[w].kind = own[w].kind \/ (own[w].kind = "incremental" /\ b[w].kind = "repair")
    BY <1>1, <1>3, <2>1, <2>2
  <2> QED BY <1>1, <2>2, LightKeeps
<1> QED BY <1>2, <1>4 DEF b

LEMMA CancelledMends ==
    ASSUME WindowInv, RowsMend, Cancelled
    PROVE  RowsMend'
<1> DEFINE row == [Own EXCEPT !.status = "cancelled"]
<1>1. row \in Row BY OwnIsRow, StatusOnly DEF Status
<1>2. row.status = "cancelled" /\ row.kind = Own.kind /\ row.proof = Own.proof
  BY OwnIsRow, StatusKeepsRow
<1>3. Finish(Ended(row), 0) BY DEF Cancelled
<1> HIDE DEF row
<1>4. Ended(row) \in Rows /\ (Held => Repair(Ended(row)))
  BY <1>1, <1>2, EndedMends DEF WindowInv
<1> QED BY <1>3, <1>4, FinishMends DEF WindowInv

LEMMA BackOffMends ==
    ASSUME WindowInv, RowsMend, BackOff
    PROVE  RowsMend'
<1> DEFINE row == [Own EXCEPT !.status = "backoff",
                              !.kind = IF @ = "incremental" THEN "repair" ELSE @]
           r1 == [Own EXCEPT !.status = "backoff"]
           kind == IF Own.kind = "incremental" THEN "repair" ELSE Own.kind
           r2 == [r1 EXCEPT !.kind = kind]
<1>1. /\ r1 \in Row /\ r1.status = "backoff" /\ r1.kind = Own.kind /\ r1.proof = Own.proof
  <2>1. "backoff" \in Status BY DEF Status, Active
  <2>2. r1 \in Row BY <2>1, OwnIsRow, StatusOnly
  <2>3. r1.status = "backoff" /\ r1.kind = Own.kind /\ r1.proof = Own.proof
    BY OwnIsRow, StatusKeepsRow
  <2> QED BY <2>2, <2>3
<1>2. kind \in Kind BY OwnIsRow DEF Row, Kind
<1>3. row = r2 BY Zenon, OwnIsRow, <1>1 DEF r1, r2, kind
<1> HIDE DEF r1
<1>4. /\ r2 \in Row /\ r2.status = "backoff" /\ r2.proof = Own.proof
      /\ r2.kind = Own.kind \/ (Own.kind = "incremental" /\ r2.kind = "repair")
  BY <1>1, <1>2 DEF Row
<1> HIDE DEF r2
<1>5. Finish(Ended(row), 1) BY DEF BackOff
<1> HIDE DEF row
<1>6. Ended(row) \in Rows /\ (Held => Repair(Ended(row)))
  BY <1>3, <1>4, EndedMends DEF WindowInv, OnItsWay
<1> QED BY <1>5, <1>6, FinishMends DEF WindowInv

LEMMA FailedMends ==
    ASSUME WindowInv, RowsMend, NEW error \in {"incomplete", "other"}
    PROVE  Ended(Failed(error)) \in Rows /\ (Held => Repair(Ended(Failed(error))))
<1> DEFINE r1 == [Own EXCEPT !.status = "failed"]
           r2 == [r1 EXCEPT !.ended = Phase(now)]
           r3 == [r2 EXCEPT !.error = error]
<1>1. r1 \in Row /\ r1.status = "failed" /\ r1.kind = Own.kind /\ r1.proof = Own.proof
  <2>1. r1 \in Row BY OwnIsRow, StatusOnly DEF Status
  <2> QED BY <2>1, OwnIsRow, StatusKeepsRow
<1> HIDE DEF r1
<1>2. r2 \in Row /\ r2.status = "failed" /\ r2.kind = Own.kind /\ r2.proof = Own.proof
  BY <1>1, PhaseIsMoment DEF Row, WindowInv, TypeOK
<1> HIDE DEF r2
<1>3. r3 \in Row /\ r3.status = "failed" /\ r3.kind = Own.kind /\ r3.proof = Own.proof
  BY <1>2 DEF Row
<1>4. Failed(error) = r3 BY Zenon DEF Failed, r1, r2, r3
<1> HIDE DEF r3
<1> QED BY <1>3, <1>4, EndedMends DEF WindowInv

LEMMA FailIncompleteMends ==
    ASSUME WindowInv, RowsMend, FailIncomplete
    PROVE  RowsMend'
<1>1. rows[work.of] \in Rows /\ work.window \in Window /\ Repair(rows[work.of])
      /\ Sound(rows[work.of], seen[work.of])
  BY DEF WindowInv, TypeOK, Rows, RowsMend, RowsAreSound
<1>2. CASE Splittable(work.window)
  <2> DEFINE own == Split(rows[work.of], {work.window})
  <2>1. own \in Rows BY <1>1, SplitIsBetter DEF Better, Sound
  <2>2. Held => Repair(own) BY <1>1, <1>2, SplitMends DEF Held, Own
  <2>3. Finish(own, 1) BY <1>2 DEF FailIncomplete
  <2> HIDE DEF own
  <2> QED BY <2>1, <2>2, <2>3, FinishMends DEF WindowInv
<1>3. CASE ~ Splittable(work.window)
  <2>1. Finish(Ended(Failed("incomplete")), 1) BY <1>3 DEF FailIncomplete
  <2> QED BY <2>1, FailedMends, FinishMends DEF WindowInv
<1> QED BY <1>2, <1>3

LEMMA SweptMends ==
    ASSUME WindowInv, RowsMend
    PROVE  \A o \in Object : Repair(Swept[o])
<1> SUFFICES ASSUME NEW o \in Object PROVE Repair(Swept[o]) OBVIOUS
<1>1. rows[o] \in Rows /\ Repair(rows[o]) BY DEF WindowInv, TypeOK, Rows, RowsMend
<1>2. ASSUME NEW w \in Window, Swept[o][w] # rows[o][w]
      PROVE  /\ rows[o][w].status \in OnItsWay /\ Swept[o][w].status \in OnItsWay
             /\ Swept[o][w].proof = rows[o][w].proof /\ Swept[o][w].kind = rows[o][w].kind
  <2>1. Swept[o][w] = IF rows[o][w].status = "running"
                      THEN [rows[o][w] EXCEPT !.status = "queued"] ELSE rows[o][w]
    BY DEF Swept
  <2>2. rows[o][w] \in Row BY <1>1 DEF Rows
  <2> QED BY <1>2, <2>1, <2>2, StatusKeepsRow DEF OnItsWay
<1> QED BY <1>1, <1>2, LightKeeps

LEMMA ClaimMends ==
    ASSUME WindowInv, RowsMend, NEW o \in Object, NEW w \in Window, Claim(o, w)
    PROVE  RowsMend'
<1> DEFINE all == [Swept EXCEPT ![o][w].status = "running"]
           row == [Swept[o][w] EXCEPT !.status = "running"]
<1>1. Swept \in [Object -> Rows] BY SweptIsBetter DEF RowsAreBetter
<1>2. row \in Row /\ row.status = "running" /\ row.kind = Swept[o][w].kind
      /\ row.proof = Swept[o][w].proof
  <2>1. Swept[o][w] \in Row BY SweptIsBetter
  <2>2. "running" \in Status BY DEF Status, Active
  <2> QED BY <2>1, <2>2, StatusOnly, StatusKeepsRow
<1>3. Swept[o][w].status \in OnItsWay
  <2>1. rows[o][w] \in Row BY DEF WindowInv, TypeOK
  <2>2. rows[o][w].status \in OnItsWay BY DEF Claim, Claimable, Waiting, OnItsWay
  <2> QED BY <2>1, <2>2, StatusKeepsRow DEF Swept, OnItsWay
<1>4. all = [Swept EXCEPT ![o] = [Swept[o] EXCEPT ![w] = row]]
  BY <1>1 DEF Rows
<1> HIDE DEF row
<1>5. all \in [Object -> Rows] BY <1>1, <1>2, <1>4 DEF Rows
<1>6. \A p \in Object, v \in Window :
         all[p][v] = IF p = o /\ v = w THEN row ELSE Swept[p][v]
  BY <1>1, <1>4 DEF Rows
<1>7. Refreshed(all) BY DEF Claim
<1> HIDE DEF all
<1>8. ASSUME NEW p \in Object PROVE Repair(all[p])
  <2>1. Swept[p] \in Rows /\ Repair(Swept[p]) BY <1>1, SweptMends
  <2>2. ASSUME NEW v \in Window, all[p][v] # Swept[p][v]
        PROVE  /\ Swept[p][v].status \in OnItsWay /\ all[p][v].status \in OnItsWay
               /\ all[p][v].proof = Swept[p][v].proof /\ all[p][v].kind = Swept[p][v].kind
    BY <1>2, <1>3, <1>6, <2>2 DEF OnItsWay
  <2> QED BY <2>1, <2>2, LightKeeps
<1> QED BY <1>5, <1>7, <1>8, RefreshedMends

LEMMA ScheduleMends ==
    ASSUME WindowInv, RowsMend, Schedule
    PROVE  RowsMend'
<1> DEFINE all == [o \in Object |-> IF o \in Required THEN Scheduled(rows[o]) ELSE rows[o]]
<1>1. ASSUME NEW o \in Object PROVE all[o] \in Rows /\ Repair(all[o])
  <2>1. Sound(rows[o], seen[o]) /\ rows[o] \in Rows /\ Repair(rows[o])
    BY DEF WindowInv, RowsAreSound, Sound, RowsMend
  <2>2. seen[o] \in [Cell -> Nat]
    <3>1. seen \in [Object -> [Cell -> 0 .. D2]] BY DEF WindowInv, TypeOK
    <3>2. 0 .. D2 \subseteq Nat BY NIsNat
    <3> HIDE DEF Object, Cell
    <3> QED BY <3>1, <3>2
  <2>3. now \in Moment BY DEF WindowInv, TypeOK
  <2>4. Scheduled(rows[o]) \in Rows /\ Repair(Scheduled(rows[o]))
    BY <2>1, <2>2, <2>3, ScheduledIsBetter, ScheduledMends DEF Better, Sound
  <2> QED BY <2>1, <2>4
<1>2. all = [o \in Object |-> all[o]] OBVIOUS
<1>3. Refreshed(all) BY DEF Schedule
<1> HIDE DEF all
<1>4. all \in [Object -> Rows] BY <1>1, <1>2
<1> QED BY <1>1, <1>3, <1>4, RefreshedMends

LEMMA AskMends ==
    ASSUME WindowInv, RowsMend, Ask
    PROVE  RowsMend'
<1> DEFINE all == [o \in Object |-> IF o \in Required THEN Asked(rows[o]) ELSE rows[o]]
<1>1. ASSUME NEW o \in Object PROVE all[o] \in Rows /\ Repair(all[o])
  <2>1. Sound(rows[o], seen[o]) /\ rows[o] \in Rows /\ Repair(rows[o])
    BY DEF WindowInv, RowsAreSound, Sound, RowsMend
  <2>2. Asked(rows[o]) \in Rows /\ Repair(Asked(rows[o]))
    BY <2>1, AskedIsBetter, AskedMends DEF Better, Sound
  <2> QED BY <2>1, <2>2
<1>2. all = [o \in Object |-> all[o]] OBVIOUS
<1>3. Refreshed(all) BY DEF Ask
<1> HIDE DEF all
<1>4. all \in [Object -> Rows] BY <1>1, <1>2
<1> QED BY <1>1, <1>3, <1>4, RefreshedMends

LEMMA SaveSettingsMends ==
    ASSUME WindowInv, RowsMend, NEW on, NEW plans, SaveSettings(on, plans)
    PROVE  RowsMend'
<1> DEFINE objects == IF on THEN Plan \ plans ELSE Object
           all == TakenBack(objects)
<1>1. ASSUME NEW o \in Object PROVE Repair(all[o])
  <2>1. rows[o] \in Rows /\ Repair(rows[o]) BY DEF WindowInv, TypeOK, Rows, RowsMend
  <2>2. ASSUME NEW w \in Window, all[o][w] # rows[o][w]
        PROVE  /\ rows[o][w].status \in OnItsWay /\ all[o][w].status = "cancelled"
               /\ all[o][w].proof = rows[o][w].proof /\ all[o][w].kind = rows[o][w].kind
    <3>1. /\ all[o][w] = [rows[o][w] EXCEPT !.status = "cancelled"]
          /\ rows[o][w].status \in OnItsWay
      BY <2>2 DEF TakenBack, OnItsWay
    <3>2. rows[o][w] \in Row BY <2>1 DEF Rows
    <3> HIDE DEF all
    <3> QED BY <3>1, <3>2, StatusKeepsRow
  <2> HIDE DEF all
  <2> QED BY <2>1, <2>2, LightKeeps
<1>2. rows' = all BY DEF SaveSettings
<1> HIDE DEF all
<1> QED BY <1>1, <1>2, KeptMends

LEMMA StepMends ==
    ASSUME WindowInv, RowsMend, [Next]_vars
    PROVE  RowsMend'
<1>1. CASE \E o \in Object, w \in Window : Claim(o, w) BY <1>1, ClaimMends
<1>2. CASE SweepOnly BY <1>2, SweptMends, KeptMends DEF SweepOnly
<1>3. ASSUME rows' = rows PROVE RowsMend'
  BY <1>3, KeptMends DEF RowsMend
<1>4. CASE BeginRead
  BY <1>3, <1>4, CancelledMends DEF BeginRead
<1>5. CASE Ingest
  BY <1>3, <1>5, CancelledMends DEF Ingest
<1>6. CASE Succeed
  <2>1. ReadAt(work.began) \in Rows BY <1>6, ReadIsBetter DEF Succeed, Better, Sound
  <2>2. Held => Repair(ReadAt(work.began))
    BY OwnIsRow, ReadMends DEF WindowInv, RowsMend
  <2>3. Finish(ReadAt(work.began), 0) BY <1>6 DEF Succeed
  <2> QED BY <2>1, <2>2, <2>3, FinishMends DEF WindowInv
<1>7. CASE BackOff BY <1>7, BackOffMends
<1>8. CASE Fail
  <2>1. Finish(Ended(Failed("other")), 1) BY <1>8 DEF Fail
  <2> QED BY <2>1, FailedMends, FinishMends DEF WindowInv
<1>9. CASE FailIncomplete BY <1>9, FailIncompleteMends
<1>10. CASE Schedule BY <1>10, ScheduleMends
<1>11. CASE Ask BY <1>11, AskMends
<1>12. CASE \E on \in BOOLEAN, plans \in SUBSET Plan : SaveSettings(on, plans)
  BY <1>12, SaveSettingsMends
<1>13. CASE Tick \/ Crash \/ UNCHANGED vars BY <1>3, <1>13 DEF Tick, Crash, vars
<1> QED BY <1>1, <1>2, <1>4, <1>5, <1>6, <1>7, <1>8, <1>9, <1>10, <1>11, <1>12, <1>13
        DEF Next, Work

LEMMA InitMends ==
    ASSUME Init
    PROVE  RowsMend
<1> DEFINE old == [NoRow EXCEPT !.status = "failed", !.ended = NextDay, !.error = "incomplete"]
<1> SUFFICES ASSUME NEW o \in Object PROVE Repair(rows[o]) BY DEF RowsMend
<1>1. NoRow.status = "none" /\ NoRow.kind = "planned" /\ NoRow.proof = {} BY DEF NoRow
<1>2. old.status = "failed" /\ old.kind = "planned" /\ old.proof = {} BY DEF NoRow
<1>3. \A w \in Window : rows[o][w] = NoRow \/ (w = Day /\ rows[o][w] = old) BY DEF Init
<1> HIDE DEF old
<1>4. Shaped(rows[o]) BY <1>1, <1>2, <1>3, Names DEF Shaped
<1>5. Present(rows[o]) = {} BY <1>1, <1>3, Names DEF Present
<1>6. NoStaleProof(rows[o]) BY <1>1, <1>2, <1>3 DEF NoStaleProof
<1>7. Mended(rows[o]) BY <1>1, <1>2, <1>3, Names DEF Mended
<1> QED BY <1>4, <1>5, <1>6, <1>7 DEF Repair, Apart

LEMMA MendingInvariance == Spec => [](WindowInv /\ RowsMend)
<1>1. Init => RowsMend BY InitMends
<1>2. WindowInv /\ RowsMend /\ [Next]_vars => RowsMend' BY StepMends
<1> QED BY <1>1, <1>2, Invariance, PTL DEF Spec

-----------------------------------------------------------------------------
(* A pass that changes nothing, part by part: what it makes of the day *)

\* From the second part of the pass on, the day is only queued, split or resolved.
LEMMA DayResolved ==
    ASSUME NEW own \in Rows
    PROVE  /\ own[Day].status \notin Gap => Resolved(own)[Day] = own[Day]
           /\ \/ Resolved(own)[Day] = own[Day]
              \/ Resolved(own)[Day].status = "superseded" /\ Cell \subseteq ReadFor(own)
BY ResolvedRows, Names DEF ReadFor

LEMMA DayRepaired ==
    ASSUME NEW own \in Rows, own[Day].status # "failed"
    PROVE  Repaired(own)[Day] = own[Day]
<1> DEFINE windows == {w \in Window : /\ own[w].status = "failed"
                                      /\ own[w].error = "incomplete" /\ Splittable(w)}
<1>1. windows \in SUBSET Window /\ Day \notin windows OBVIOUS
<1>2. \A w \in windows : \A p \in Pieces(w) : p # Day BY Names DEF Pieces, Piece, Day
<1>3. Repaired(own) = Split(own, windows) BY DEF Repaired
<1> HIDE DEF windows
<1> QED BY <1>1, <1>2, <1>3, SplitRows, Names

LEMMA DayPruned ==
    ASSUME NEW own \in Rows, own[Day].kind # "incremental"
    PROVE  Pruned(own)[Day] = own[Day]
<1> DEFINE whole  == {v \in Window : own[v].kind # "incremental" /\ own[v].status = "done"}
           pruned == {w \in Window : /\ now >= NextDay
                                     /\ own[w].kind = "incremental" /\ own[w].status = "done"
                                     /\ \E v \in whole : Cells(w) \subseteq Cells(v)}
           f == [w \in pruned |-> NoRow]
<1>1. Pruned(own) = Changed(own, f) BY DEF Pruned
<1>2. \A w \in pruned : f[w] \in Row BY NoRowIsRow
<1>3. DOMAIN f = pruned /\ pruned \in SUBSET Window /\ Day \notin pruned OBVIOUS
<1> HIDE DEF f, pruned
<1> QED BY <1>1, <1>2, <1>3, ChangedRows, Names

\* The last parts of a pass, from rows whose day neither failed nor is on its way
\* back to the worker: the day is as it was, and was read since, or it is queued.
LEMMA LastParts ==
    ASSUME NEW own, NEW s, Sound(own, s), Repair(own), s \in [Cell -> Nat], now = D2,
           own[Day].status \notin Active \cup {"failed"}
    PROVE  LET end == Resolved(Pruned(Verified(Repaired(own)))) IN
           \/ end[Day].status = "queued"
           \/ end[Day].status = own[Day].status /\ \A c \in Cell : s[c] >= D2
<1> DEFINE a == Repaired(own)
           b == Verified(a)
           c == Pruned(b)
           end == Resolved(c)
<1>1. own \in Rows BY DEF Sound
<1>2. a[Day] = own[Day] /\ Sound(a, s) /\ a \in Rows /\ Repair(a)
  BY <1>1, DayRepaired, RepairedIsBetter, RepairedMends DEF Better, Sound
<1> HIDE DEF a
<1>3. Sound(b, s) /\ b \in Rows /\ Repair(b)
  BY <1>2, VerifiedIsBetter, VerifiedMends DEF Better, Sound
<1>4. \/ b[Day].status = "queued"
      \/ b = a /\ \A d \in Cell : s[d] >= D2
  <2>1. ASSUME Cell \subseteq ReadSince(a, D2) PROVE \A d \in Cell : s[d] >= D2
    <3> SUFFICES ASSUME NEW d \in Cell PROVE s[d] >= D2 OBVIOUS
    <3>1. PICK w \in Window : a[w].success >= D2 /\ d \in Cells(w) BY <2>1, ReadOf
    <3>2. a[w].success <= s[d] BY <1>2, <3>1 DEF Sound, Fits
    <3>3. a[w].success \in 0 .. D2 BY <1>2 DEF Rows, Row
    <3>4. s[d] \in Nat
      <4> HIDE DEF Cell
      <4> QED OBVIOUS
    <3> QED BY <3>1, <3>2, <3>3, <3>4, NIsNat
  <2>2. ASSUME a[Day].success >= D2 PROVE Cell \subseteq ReadSince(a, D2)
    BY <2>2, ReadOf, Names
  <2>3. ~ (now < D1) BY NIsNat
  <2>4. a[Day].status \notin Active /\ a[Day].status # "failed" BY <1>2
  <2>5. CASE a[Day].success >= D2 \/ Cell \subseteq ReadSince(a, D2)
    <3>1. b = a BY <2>5 DEF Verified
    <3> QED BY <2>1, <2>2, <2>5, <3>1
  <2>6. CASE ~ (a[Day].success >= D2) /\ ~ (Cell \subseteq ReadSince(a, D2))
    <3>1. b = [a EXCEPT ![Day] = Queued(@, "planned")]
      BY <2>3, <2>4, <2>6 DEF Verified
    <3>2. b[Day] = Queued(a[Day], "planned") BY <1>2, <3>1, Names DEF Rows
    <3>3. a[Day] \in Row BY <1>2, Names DEF Rows
    <3> QED BY <3>2, <3>3, QueuedKeepsRow DEF Kind
  <2> QED BY <2>5, <2>6
<1> HIDE DEF b
<1>5. c[Day] = b[Day] /\ c \in Rows
  BY <1>3, DayPruned, PrunedIsBetter DEF Repair, Shaped, Better, Sound
<1> HIDE DEF c
<1>6. b[Day].status \notin Gap BY <1>2, <1>4 DEF Gap, Active
<1>7. end[Day] = c[Day] BY <1>5, <1>6, DayResolved
<1>8. \/ end[Day].status = "queued"
      \/ end[Day].status = own[Day].status /\ \A d \in Cell : s[d] >= D2
  BY <1>2, <1>4, <1>5, <1>7
<1> QED BY <1>8 DEF a, b, c

\* The first parts, when they leave no increment to the worker.
LEMMA FirstParts ==
    ASSUME NEW own \in Rows, now = D2
    PROVE  Incremented(own) = own
<1>1. now > N BY NIsNat
<1>2. DOMAIN [w \in {} |-> Queued(own[w], "incremental")] = {} OBVIOUS
<1> QED BY <1>1, <1>2 DEF Incremented, Changed

\* Once the last phase is due, worker and scheduler do not come to rest before every
\* required object is read again or its failure is visible (PhasesAreKept), except
\* for a day that waits for a piece which the settings have cancelled.
LEMMA SettledIsKept ==
    ASSUME WindowInv, RowsMend
    PROVE  PhasesAreKept
<1> SUFFICES ASSUME NEW o \in Required, enabled, now = D2, Settled(o),
                    \A w \in {Day} \cup Pieces(Day) : rows[o][w].status # "failed",
                    ~ Stuck(o)
             PROVE  \A c \in Cell : seen[o][c] >= D2
  BY DEF PhasesAreKept
<1> DEFINE own == rows[o]
           s == seen[o]
           mid == WithHistory(own)
           res == Resolved(mid)
           end == Resolved(Pruned(Verified(Repaired(res))))
<1>1. o \in Object BY DEF Required, WindowInv, TypeOK
<1>2. Sound(own, s) /\ own \in Rows /\ Repair(own) /\ own[Day] \in Row
  BY <1>1, Names DEF WindowInv, RowsAreSound, Sound, RowsMend, Rows
<1>3. s \in [Cell -> Nat]
  <2>1. seen \in [Object -> [Cell -> 0 .. D2]] BY DEF WindowInv, TypeOK
  <2>2. 0 .. D2 \subseteq Nat BY NIsNat
  <2> HIDE DEF Object, Cell
  <2> QED BY <1>1, <2>1, <2>2
<1>4. end = own /\ \A w \in Window : own[w].status \notin OnItsWay
  BY <1>2, FirstParts DEF Settled, Scheduled, OnItsWay
<1>5. own[Day].status # "failed" OBVIOUS
<1> HIDE DEF own, s, res
<1>6. CASE own[Day].status = "none"
  <2>1. mid = [own EXCEPT ![Day] = Queued(@, "planned")]
    BY <1>6, NIsNat DEF WithHistory
  <2>2. mid[Day].status = "queued"
    <3>1. mid[Day] = Queued(own[Day], "planned") BY <1>2, <2>1, Names DEF Rows
    <3> QED BY <1>2, <3>1, QueuedKeepsRow DEF Kind
  <2>3. Sound(mid, s) /\ mid \in Rows /\ Repair(mid)
    BY <1>2, HistoryIsBetter, HistoryMends DEF Better, Sound
  <2> HIDE DEF mid
  <2>4. res[Day].status = "queued" BY <2>2, <2>3, DayResolved DEF res, Gap
  <2>5. Sound(res, s) /\ Repair(res) /\ res \in Rows
    BY <2>3, ResolvedIsBetter, ResolvedMends DEF res, Better, Sound
  <2>6. Repaired(res)[Day] = res[Day] /\ Repaired(res) \in Rows
    BY <2>4, <2>5, DayRepaired, RepairedIsBetter DEF Better, Sound
  <2>7. Verified(Repaired(res)) = Repaired(res)
    BY <2>4, <2>6 DEF Verified, Active
  <2>8. Repair(Repaired(res)) /\ Sound(Repaired(res), s)
    BY <2>5, RepairedMends, RepairedIsBetter DEF Better
  <2>9. Pruned(Repaired(res))[Day] = res[Day] /\ Pruned(Repaired(res)) \in Rows
    BY <1>3, <2>6, <2>8, DayPruned, PrunedIsBetter DEF Repair, Shaped, Better, Sound
  <2>10. end[Day].status = "queued"
    BY <2>4, <2>7, <2>9, DayResolved DEF Gap
  <2> QED BY <1>4, <2>10, Names DEF OnItsWay
<1>7. CASE own[Day].status = "repairing"
  <2>1. mid = own BY <1>7 DEF WithHistory
  <2>2. Sound(res, s) /\ Repair(res) /\ res \in Rows
    BY <1>2, <2>1, ResolvedIsBetter, ResolvedMends DEF res, Better, Sound
  <2>3. \E c \in Cell : c \notin ReadFor(own)
    <3> SUFFICES ASSUME Cell \subseteq ReadFor(own) PROVE FALSE OBVIOUS
    <3>1. res[Day].status = "superseded"
      BY <1>2, <1>7, <2>1, ResolvedRows, Names DEF res, ReadFor, Gap
    <3>2. end[Day].status \in {"queued", "superseded"}
      BY <1>3, <2>2, <3>1, LastParts DEF Active
    <3> QED BY <1>4, <1>7, <3>2
  <2>4. PICK c \in Cell : c \notin ReadFor(own) BY <2>3
  <2>5. PieceIsMended(own, c) BY <1>2, <1>7 DEF Repair, Mended
  <2>6. Piece(c) \in Window /\ Piece(c) \in Pieces(Day) /\ Cells(Piece(c)) = {c}
    BY Names DEF Pieces
  <2>7. own[Piece(c)].status \notin {"none", "done", "superseded"}
    BY <2>4, <2>5, <2>6, ReadForOf DEF PieceIsMended
  <2>8. own[Piece(c)].status \notin {"repairing", "failed"}
    BY <1>2, <2>6 DEF Repair, Shaped, own
  <2>9. own[Piece(c)].status \notin OnItsWay BY <1>4, <2>6
  <2>10. own[Piece(c)].status # "cancelled" BY <1>7 DEF Stuck, own
  <2>11. own[Piece(c)].status \in Status BY <1>2, <2>6 DEF Rows, Row
  <2> QED BY <2>7, <2>8, <2>9, <2>10, <2>11 DEF Status, Active, OnItsWay
<1>8. CASE own[Day].status \in {"done", "superseded", "cancelled"}
  <2>1. mid = own BY <1>8 DEF WithHistory
  <2>2. Sound(res, s) /\ Repair(res) /\ res \in Rows
    BY <1>2, <2>1, ResolvedIsBetter, ResolvedMends DEF res, Better, Sound
  <2>3. res[Day] = own[Day] BY <1>2, <1>8, <2>1, DayResolved DEF res, Gap
  <2>4. end[Day].status = "queued" \/ \A c \in Cell : s[c] >= D2
    BY <1>3, <1>8, <2>2, <2>3, LastParts DEF Active
  <2>5. end[Day].status # "queued" BY <1>4, <1>8
  <2> QED BY <2>4, <2>5 DEF s
<1>9. own[Day].status \in Status /\ own[Day].status \notin OnItsWay
  BY <1>2, <1>4, Names DEF Row
<1> QED BY <1>5, <1>6, <1>7, <1>8, <1>9 DEF Status, Active, OnItsWay

\* "Catch up missed phases after downtime" (PhasesAreKept), for any number of plans,
\* half hours and troubles: worker and scheduler do not come to rest after the last
\* phase before every required object is read again or its failure is visible,
\* unless the settings have cancelled a piece of a day in repair.
THEOREM PhasesCatchUp == Spec => []PhasesAreKept
<1>1. WindowInv /\ RowsMend => PhasesAreKept BY SettledIsKept
<1> QED BY <1>1, MendingInvariance, PTL

=============================================================================
