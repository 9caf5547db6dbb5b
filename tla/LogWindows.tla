----------------------------- MODULE LogWindows -----------------------------
(***************************************************************************)
(* The windows of the operation log (official_api_operation_logs.py): one  *)
(* day of one account, for the account itself and each monitored plan.     *)
(* The day is read in increments while it runs, as a whole afterwards, and *)
(* again when the phases d1 and d2 are due; a whole that cannot be read is *)
(* split into pieces.  What was read makes the coverage that is shown and  *)
(* that the daily report relies on.                                        *)
(*                                                                         *)
(* A cell is half an hour.  Moment t <= N is the end of cell t; then come  *)
(* the next day and the two phases.  Overlaps of increments, which cover   *)
(* no whole cell, and counts of rows are left out.                         *)
(***************************************************************************)
EXTENDS Naturals, FiniteSets, FiniteSetsExt

CONSTANTS Account,    \* the object ACCOUNT
          Plan,       \* the objects AD
          N,          \* the cells of the day
          MaxTrouble  \* reads that fail, crashes, refreshes missed, changes of
                      \* the settings and requests of the user, together

ASSUME WindowAssumption ==
    /\ N \in Nat \ {0}
    /\ MaxTrouble \in Nat
    /\ Account \notin Plan /\ IsFiniteSet(Plan)

Object  == Plan \cup {Account}
Cell    == 1 .. N
NextDay == N + 1
D1      == N + 2
D2      == N + 3
Moment  == 1 .. D2

\* The rows tell a moment before the first phase, the first and the last apart.
Phase(t) == IF t < NextDay THEN NextDay ELSE t

\* Rows of operation_log_sync_window.  Two windows of one object are the same
\* row when they begin and end alike; an increment ends between the cells.
Day             == [of |-> "day", from |-> 1, to |-> N]
Piece(c)        == [of |-> "piece", from |-> c, to |-> c]
Increment(a, b) == [of |-> "increment", from |-> a, to |-> b]
Window == {Day} \cup {Piece(c) : c \in Cell}
                \cup {w \in {Increment(a, b) : a, b \in Cell} : w.from <= w.to}

Cells(w)      == w.from .. w.to
Splittable(w) == w.from < w.to
Pieces(w)     == {Piece(c) : c \in Cells(w)}

\* "done" stands for succeeded and empty.
Active == {"queued", "running", "backoff", "repairing"}
Gap    == {"failed", "repairing"}
Status == Active \cup {"none", "done", "failed", "superseded", "cancelled"}

VARIABLES
    rows,      \* Object -> Window -> the row
    enabled,   \* the account is enabled
    watched,   \* the monitored plans
    now,
    work,      \* [at, of, window, began]: the worker; the moment its read began
    shown,     \* [cells, of]: coverage of platform_log_sync_state
    seen,      \* Object -> Cell -> the last moment up to which the events are stored
    trouble

vars == <<rows, enabled, watched, now, work, shown, seen, trouble>>
settings == <<enabled, watched>>

Idle == [at |-> "idle", of |-> Account, window |-> Day, began |-> 0]
NoRow == [status |-> "none", kind |-> "planned", success |-> 0, ended |-> 0,
          error |-> "none", proof |-> {}]

Kind == {"planned", "incremental", "repair", "manual"}
Row  == [status : Status, kind : Kind, success : 0 .. D2, ended : 0 .. D2,
         error : {"none", "incomplete", "other"}, proof : SUBSET Window]

\* Every window of every object has a row of its shape, and the worker, what is
\* shown and what is stored name objects, windows and moments of this day.
TypeOK ==
    /\ rows \in [Object -> [Window -> Row]]
    /\ enabled \in BOOLEAN /\ watched \subseteq Plan /\ now \in Moment
    /\ work \in [at : {"idle", "begin", "reading", "ingested"}, of : Object,
                 window : Window, began : 0 .. D2]
    /\ shown \in [cells : SUBSET Cell, of : SUBSET Object]
    /\ seen \in [Object -> [Cell -> 0 .. D2]]
    /\ trouble \in 0 .. MaxTrouble

\* The day begins without rows; or it is over, and an older version, which did
\* not split, has left it failed.
Init ==
    /\ \/ now = 1 /\ rows = [o \in Object |-> [w \in Window |-> NoRow]]
       \/ now = NextDay /\ rows = [o \in Object |-> [w \in Window |->
              IF w = Day
              THEN [NoRow EXCEPT !.status = "failed", !.ended = NextDay, !.error = "incomplete"]
              ELSE NoRow]]
    /\ enabled = TRUE /\ watched = Plan
    /\ work = Idle /\ shown = [cells |-> {}, of |-> {}]
    /\ seen = [o \in Object |-> [c \in Cell |-> 0]]
    /\ trouble = 0

Trouble == trouble < MaxTrouble /\ trouble' = trouble + 1

-----------------------------------------------------------------------------
(* Rows *)

\* _sync_objects, whether the account is enabled or not
Required == IF watched # {} THEN watched \cup {Account} ELSE {}

\* The account has the attention of the scheduler and the worker.
Served == enabled /\ watched # {}

\* The rows of an object with some of them changed.
Changed(own, f) == IF DOMAIN f = {} THEN own
                   ELSE [w \in Window |-> IF w \in DOMAIN f THEN f[w] ELSE own[w]]

\* The row turns to another status; what was said of its failure goes.
Turned(row, status) == [row EXCEPT !.status = status, !.ended = 0, !.error = "none"]

\* The row waits for the worker again; its last success stays.
Queued(row, kind) == [Turned(row, "queued") EXCEPT !.kind = kind, !.proof = {}]

\* _merge_intervals: the cells in windows that were read at moment t or later.
ReadSince(own, t) == UNION {Cells(w) : w \in {w \in Window : own[w].success >= t}}
Covered(o)        == ReadSince(rows[o], 1)

\* _split_failed_window: the window is repairing, its pieces wait unless they
\* are active already.
Split(own, windows) ==
    LET pieces == {c \in UNION {Pieces(w) : w \in windows} : own[c].status \notin Active}
    IN  Changed(Changed(own, [c \in pieces |-> Queued(own[c], "repair")]),
                [w \in windows |-> Turned(own[w], "repairing")])

\* _resolve_covered_failures: a gap is superseded when windows whose reads began
\* after it failed cover it.  The proof of a gap names the windows that have
\* succeeded since: the only worker had finished it before it began their reads.
Resolved(own) ==
    LET read(w)  == UNION {Cells(p) : p \in {p \in own[w].proof : own[p].status # "none"}}
        resolved == {w \in Window : own[w].status \in Gap /\ Cells(w) \subseteq read(w)}
    IN  Changed(own, [w \in resolved |->
            [Turned(own[w], "superseded") EXCEPT !.proof = {}]])

-----------------------------------------------------------------------------
(* _refresh_batch_state, the end of every operation below.  Its reads and    *)
(* its write are several transactions, here they are one: what it writes     *)
(* could only be older, and coverage only grows (CoverageOnlyGrows).         *)

LastSegment(S) == {c \in S : \A d \in c .. Max(S) : d \in S}

\* _completed_coverage: what every required object covers, the newest segment.
Coverage(all) == [of |-> Required,
    cells |-> IF Required = {} THEN {}
              ELSE LastSegment({c \in Cell : \A o \in Required : c \in ReadSince(all[o], 1)})]

Refreshed(all) ==
    /\ rows' = [o \in Object |-> Resolved(all[o])]
    /\ shown' = Coverage(rows')

-----------------------------------------------------------------------------
(* The worker *)

\* While the only worker is free, a running row is one it has lost; it is queued
\* again when its lease has passed.
Waiting == {"queued", "running"}
Swept == [o \in Object |-> [w \in Window |->
    IF rows[o][w].status = "running" THEN [rows[o][w] EXCEPT !.status = "queued"] ELSE rows[o][w]]]

Claimable(o, w) ==
    /\ rows[o][w].status \in Waiting \cup {"backoff"}
    /\ rows[o][w].kind = "manual" \/ Served
    /\ o \in watched \cup {Account}

\* ORDER BY priority DESC, window_start DESC; of rows that backed off, which are
\* due is left open.
Priority == [manual |-> 4, incremental |-> 3, repair |-> 2, planned |-> 1]
Before(p, v, o, w) ==
    LET first == Priority[rows[p][v].kind]  second == Priority[rows[o][w].kind]
    IN  first > second \/ (first = second /\ v.from > w.from)

\* _claim_window
Claim(o, w) ==
    /\ work.at = "idle" /\ Claimable(o, w)
    /\ ~ \E p \in Object, v \in Window :
         Claimable(p, v) /\ rows[p][v].status \in Waiting /\ Before(p, v, o, w)
    /\ Refreshed([Swept EXCEPT ![o][w].status = "running"])
    /\ work' = [at |-> "begin", of |-> o, window |-> w, began |-> 0]
    /\ UNCHANGED <<settings, now, seen, trouble>>

SweepOnly ==
    /\ work.at = "idle" /\ Swept # rows /\ \A o \in Object, w \in Window : ~Claimable(o, w)
    /\ rows' = Swept
    /\ UNCHANGED <<settings, now, work, shown, seen, trouble>>

Own  == rows[work.of][work.window]
Held == Own.status = "running"   \* a row that was cancelled has no lease_owner

\* _finish_task with the rows of the object that it leaves.  The refresh of the
\* finally block is missed when the process ends before it or the database refuses.
Finish(own, cost) ==
    LET all == IF Held THEN [rows EXCEPT ![work.of] = own] ELSE rows
    IN  /\ \/ Refreshed(all) /\ trouble' = trouble + cost
           \/ rows' = all /\ trouble' = trouble + cost + 1 /\ UNCHANGED shown
        /\ trouble' <= MaxTrouble
        /\ work' = Idle
        /\ UNCHANGED <<settings, now>>

Ended(row) == [rows[work.of] EXCEPT ![work.window] = row]

\* _window_scope_is_current
InScope == enabled /\ work.of \in watched \cup {Account}

Cancelled == Finish(Ended([Own EXCEPT !.status = "cancelled"]), 0) /\ UNCHANGED seen

BeginRead ==
    /\ work.at = "begin"
    /\ IF InScope
       THEN /\ work' = [work EXCEPT !.at = "reading", !.began = Phase(now)]
            /\ UNCHANGED <<rows, settings, now, shown, seen, trouble>>
       ELSE Cancelled

\* The logs are there, as they were when the read began; they are stored unless
\* account or plan were given up meanwhile.
Ingest ==
    /\ work.at = "reading"
    /\ IF InScope
       THEN /\ seen' = [seen EXCEPT ![work.of] = [c \in Cell |->
                  IF c \in Cells(work.window) /\ @[c] < work.began THEN work.began ELSE @[c]]]
            /\ work' = [work EXCEPT !.at = "ingested"]
            /\ UNCHANGED <<rows, settings, now, shown, trouble>>
       ELSE Cancelled

\* The rows of the object when the window was read as of moment t.
ReadAt(t) == [w \in Window |->
    IF w = work.window
    THEN [Own EXCEPT !.status = "done", !.success = t]
    ELSE IF rows[work.of][w].status \in Gap /\ Cells(w) \cap Cells(work.window) # {}
    THEN [rows[work.of][w] EXCEPT !.proof = @ \cup {work.window}]
    ELSE rows[work.of][w]]

\* A plausible slip: the moment at which the read ended.
SucceedNow ==
    /\ work.at = "ingested"
    /\ Finish(ReadAt(Phase(now)), 0)
    /\ UNCHANGED seen

\* last_success_at is the moment at which the read began.
Succeed ==
    /\ work.at = "ingested"
    /\ Finish(ReadAt(work.began), 0)
    /\ UNCHANGED seen

\* A rate limit, or an error of the request or the network with tries left.
BackOff ==
    /\ work.at = "reading"
    /\ Finish(Ended([Own EXCEPT !.status = "backoff",
                                !.kind = IF @ = "incremental" THEN "repair" ELSE @]), 1)
    /\ UNCHANGED seen

\* A plausible slip: a failure is dated like a success.
FailedAsRead(error) ==
    [Own EXCEPT !.status = "failed", !.success = work.began, !.ended = Phase(now), !.error = error]

Failed(error) == [Own EXCEPT !.status = "failed", !.ended = Phase(now), !.error = error]

\* A missing permission, no tries left, or any other error, in storing too.
Fail ==
    /\ work.at \in {"reading", "ingested"}
    /\ Finish(Ended(Failed("other")), 1)
    /\ UNCHANGED seen

\* The pages of the answer do not fit together, and no try is left; how many there
\* were is left out.
FailIncomplete ==
    /\ work.at = "reading"
    /\ Finish(IF Splittable(work.window) THEN Split(rows[work.of], {work.window})
              ELSE Ended(Failed("incomplete")), 1)
    /\ UNCHANGED seen

-----------------------------------------------------------------------------
(* The scheduler: every five minutes it goes through these parts, in this    *)
(* order, for every required object.  A part is a transaction of its own in   *)
(* the code; here a pass is one step.  own are the rows of the object.        *)

\* An increment begins after the last one, whatever became of that; one is left to
\* be read while the day runs.
Starts(own) ==
    LET ends == {w.to : w \in {w \in Window : /\ own[w].status # "none"
                                              /\ own[w].kind \in {"incremental", "repair"}}}
    IN  {a \in 1 .. now : (a = 1 \/ a - 1 \in ends) /\ \A e \in ends : e < a}

\* _enqueue_incremental_range: one at a time
Incremented(own) ==
    LET next == IF \/ now > N
                   \/ \E w \in Window : /\ own[w].kind = "incremental"
                                        /\ own[w].status \in {"queued", "running"}
                THEN {} ELSE {Increment(a, now) : a \in Starts(own)}
    IN  Changed(own, [w \in next |-> Queued(own[w], "incremental")])

\* _enqueue_range for the days before today: existing rows are not touched.
WithHistory(own) ==
    IF now >= NextDay /\ own[Day].status = "none"
    THEN [own EXCEPT ![Day] = Queued(@, "planned")] ELSE own

\* _schedule_failed_repairs
Repaired(own) == Split(own, {w \in Window : /\ own[w].status = "failed"
                                            /\ own[w].error = "incomplete" /\ Splittable(w)})

\* _schedule_verifications: the last phase that is due, unless the day or a
\* union of windows was read since, or it is on its way, or has failed since.
Verified(own) ==
    LET due == IF now = D2 THEN D2 ELSE D1
    IN  IF \/ now < D1 \/ own[Day].success >= due \/ own[Day].status \in Active
           \/ own[Day].status = "failed" /\ own[Day].ended >= due
           \/ Cell \subseteq ReadSince(own, due)
        THEN own
        ELSE [own EXCEPT ![Day] = Queued(@, "planned")]

\* A plausible slip: a whole that was read need only touch the increment.
PrunedByTouch(own) ==
    LET whole  == {v \in Window : own[v].kind # "incremental" /\ own[v].status = "done"}
        pruned == {w \in Window : /\ now >= NextDay
                                  /\ own[w].kind = "incremental" /\ own[w].status = "done"
                                  /\ \E v \in whole : Cells(w) \cap Cells(v) # {}}
    IN  Changed(own, [w \in pruned |-> NoRow])

\* _prune_completed_windows: increments of a day that was read as a whole.
Pruned(own) ==
    LET whole  == {v \in Window : own[v].kind # "incremental" /\ own[v].status = "done"}
        pruned == {w \in Window : /\ now >= NextDay
                                  /\ own[w].kind = "incremental" /\ own[w].status = "done"
                                  /\ \E v \in whole : Cells(w) \subseteq Cells(v)}
    IN  Changed(own, [w \in pruned |-> NoRow])

Scheduled(own) ==
    Pruned(Verified(Repaired(Resolved(WithHistory(Incremented(own))))))

Schedule ==
    /\ Served
    /\ Refreshed([o \in Object |-> IF o \in Required THEN Scheduled(rows[o]) ELSE rows[o]])
    /\ UNCHANGED <<settings, now, work, seen, trouble>>

-----------------------------------------------------------------------------
(* The user, time and the process *)

\* request_official_operation_log_sync for this day: what has ended is queued
\* again, what is repairing too; what is on its way becomes manual.
Asked(own) ==
    [own EXCEPT ![Day] = IF @.status \in {"queued", "running", "backoff"}
                         THEN [@ EXCEPT !.kind = "manual"] ELSE Queued(@, "manual")]

Ask ==
    /\ Served /\ now >= NextDay /\ Trouble
    /\ Refreshed([o \in Object |-> IF o \in Required THEN Asked(rows[o]) ELSE rows[o]])
    /\ UNCHANGED <<settings, now, work, seen>>

\* The settings of the account take back what is on its way for objects.
TakenBack(objects) == [o \in Object |-> [w \in Window |->
    IF o \in objects /\ rows[o][w].status \in {"queued", "running", "backoff"}
       /\ rows[o][w].kind # "manual"
    THEN [rows[o][w] EXCEPT !.status = "cancelled"] ELSE rows[o][w]]]

SaveSettings(on, plans) ==
    /\ <<on, plans>> # <<enabled, watched>> /\ Trouble
    /\ enabled' = on /\ watched' = plans
    /\ rows' = TakenBack(IF on THEN Plan \ plans ELSE Object)
    /\ UNCHANGED <<now, work, shown, seen>>

Tick ==
    /\ now < D2 /\ now' = now + 1
    /\ UNCHANGED <<rows, settings, work, shown, seen, trouble>>

\* The process ends, or the database refuses the write that would end the claim:
\* the row stays running.
Crash ==
    /\ work.at # "idle" /\ Trouble
    /\ work' = Idle
    /\ UNCHANGED <<rows, settings, now, shown, seen>>

-----------------------------------------------------------------------------
Work == BeginRead \/ Ingest \/ Succeed \/ BackOff \/ Fail \/ FailIncomplete

Next ==
    \/ \E o \in Object, w \in Window : Claim(o, w)
    \/ SweepOnly \/ Work \/ Schedule
    \/ Ask \/ (\E on \in BOOLEAN, plans \in SUBSET Plan : SaveSettings(on, plans))
    \/ Tick \/ Crash

Spec == Init /\ [][Next]_vars

-----------------------------------------------------------------------------
(* Properties *)

\* What is shown as covered was read, and its events are stored, for every
\* object that was required: a split, cancelled, failed or interrupted window
\* never shows as covered, and no gap between windows does.
CoverageIsRead == \A c \in shown.cells, o \in shown.of : seen[o][c] > 0

\* "A prior successful read remains evidence during a recheck": neither a new
\* request, a failed or lost re-read, a split nor the pruning of increments
\* takes back what an object covers.
CoverageOnlyGrows == [][\A o \in Object : Covered(o) \subseteq Covered(o)']_vars

\* The day of o waits for a piece that was cancelled.
Stuck(o) == /\ rows[o][Day].status = "repairing"
            /\ \E c \in Cell : rows[o][Piece(c)].status = "cancelled"

\* Nothing of o is on its way, and a pass of the scheduler changes nothing.
Settled(o) == /\ \A w \in Window : rows[o][w].status \notin {"queued", "running", "backoff"}
              /\ Resolved(Scheduled(rows[o])) = rows[o]

\* "Catch up missed phases after downtime": once the last phase is due, worker
\* and scheduler do not come to rest before every required object is read again
\* or its failure is visible, unless the settings have cancelled a piece of a
\* day in repair.
PhasesAreKept ==
    \A o \in Required :
        enabled /\ now = D2 /\ Settled(o) =>
            \/ \A c \in Cell : seen[o][c] >= D2
            \/ \E w \in {Day} \cup Pieces(Day) : rows[o][w].status = "failed"
            \/ Stuck(o)
=============================================================================
