--------------------------- MODULE RuleLoop_proofs ---------------------------
(***************************************************************************)
(* Proofs about the two things a rule loop waits for: the browser          *)
(* operation lock (BrowserLock) and the requests that wake it (RuleWakeup).*)
(* They share no variable.                                                 *)
(*                                                                         *)
(* The lock, for every set of clients, every priority and every choice of  *)
(* those that may be cancelled: one operation holds the lock at a time,    *)
(* the lock is never taken without a holder, the queue holds live tickets  *)
(* only, nobody sleeps beside a free lock as long as no ticket starves,    *)
(* and a starved ticket is not passed by later ones.  Two invariants: IInv *)
(* relates lock, threads and coroutines; QueueInv relates queue and        *)
(* threads.  That notifications suffice needs to name the thread that is   *)
(* awake: the one that is next (HeadIsAwake), which a later ticket         *)
(* replaces only by being next itself (NextIsKept).                        *)
(*                                                                         *)
(* The wake-up, for every set of targets and of callers: no request is     *)
(* lost and no batch is left without a token.  Its invariant is WakeInv.   *)
(***************************************************************************)
EXTENDS BrowserLock, RuleWakeup, FiniteSetTheorems, WellFoundedInduction, TLAPS

\* A coroutine that is inside, or gone, has no thread left that could still win
\* or give back the lock for it.
Paired ==
    /\ active \in BOOLEAN
    /\ thread \in [Client -> ThreadPC]
    /\ coro \in [Client -> CoroPC]
    /\ \A p \in Client : coro[p] \in {"idle", "hold"} => thread[p] = "none"

IInv == Paired /\ OneHolder /\ NoGhostHolder

USE DEF ThreadPC, CoroPC

\* notify_all moves sleepers only.
LEMMA NotifiedMoves ==
    ASSUME Paired, NEW p \in Client, NEW pc \in ThreadPC
    PROVE  /\ Notified(p, pc) \in [Client -> ThreadPC]
           /\ Notified(p, pc)[p] = pc
           /\ \A r \in Client \ {p} :
                 /\ Notified(p, pc)[r] = "got" <=> thread[r] = "got"
                 /\ Notified(p, pc)[r] = "none" <=> thread[r] = "none"
BY DEF Notified, Paired

\* The three ways a step can treat the lock: leave it, take it, give it back.
LEMMA HoldersKept ==
    ASSUME OneHolder, NoGhostHolder, active' = active,
           \A r \in Client : Holds(r)' <=> Holds(r)
    PROVE  OneHolder' /\ NoGhostHolder'
BY DEF OneHolder, NoGhostHolder

LEMMA LockTaken ==
    ASSUME NoGhostHolder, ~active, active', NEW p \in Client, Holds(p)',
           \A r \in Client \ {p} : Holds(r)' <=> Holds(r)
    PROVE  OneHolder' /\ NoGhostHolder'
BY DEF OneHolder, NoGhostHolder

LEMMA LockGivenBack ==
    ASSUME OneHolder, ~active', NEW p \in Client, Holds(p), ~Holds(p)',
           \A r \in Client \ {p} : Holds(r)' <=> Holds(r)
    PROVE  OneHolder' /\ NoGhostHolder'
BY DEF OneHolder, NoGhostHolder

\* _release by a client that has the lock.
LEMMA FreeInv ==
    ASSUME IInv, NEW p \in Client, Free(p, "none"), Holds(p),
           coro' = [coro EXCEPT ![p] = "idle"]
    PROVE  IInv'
<1>0. /\ thread' \in [Client -> ThreadPC] /\ thread'[p] = "none"
      /\ \A r \in Client \ {p} : /\ thread'[r] = "got" <=> thread[r] = "got"
                                 /\ thread'[r] = "none" <=> thread[r] = "none"
  <2>1. thread' = Notified(p, "none") /\ "none" \in ThreadPC /\ Paired
    BY DEF Free, IInv
  <2>. QED
    BY <2>1, NotifiedMoves
<1>1. Paired'
  <2>1. active' \in BOOLEAN
    BY DEF Free
  <2>2. coro' \in [Client -> CoroPC]
    BY DEF IInv, Paired
  <2>3. \A r \in Client : coro'[r] \in {"idle", "hold"} => thread'[r] = "none"
    BY <1>0 DEF IInv, Paired
  <2>. QED
    BY <1>0, <2>1, <2>2, <2>3 DEF Paired
<1>2. ~Holds(p)' /\ \A r \in Client \ {p} : Holds(r)' <=> Holds(r)
  <2>1. coro'[p] = "idle" /\ \A r \in Client \ {p} : coro'[r] = coro[r]
    BY DEF IInv, Paired
  <2>. QED
    BY <1>0, <2>1 DEF Holds
<1>3. ~active'
  BY DEF Free
<1>. QED
  BY <1>1, <1>2, <1>3, LockGivenBack DEF IInv

\* One turn of the loop in _acquire.
LEMMA LookInv ==
    ASSUME IInv, NEW p \in Client, NEW q, thread[p] \in {"queued", "awake"},
           Look(p, q), UNCHANGED coro
    PROVE  IInv'
<1>1. coro[p] \notin {"idle", "hold"} /\ ~Holds(p)
  BY DEF IInv, Paired, Holds
<1>2. CASE Withdraw(p, q)
  <2>1. Paired'
    BY <1>1, <1>2, NotifiedMoves DEF IInv, Paired, Withdraw
  <2>2. \A r \in Client : Holds(r)' <=> Holds(r)
    BY <1>1, <1>2, NotifiedMoves DEF IInv, Paired, Withdraw, Holds
  <2>3. active' = active
    BY <1>2 DEF Withdraw
  <2>. QED
    BY <2>1, <2>2, <2>3, HoldersKept DEF IInv
<1>3. CASE ~active /\ active' /\ thread' = [thread EXCEPT ![p] = "got"]
  <2>1. Paired'
    BY <1>1, <1>3 DEF IInv, Paired
  <2>2. Holds(p)' /\ \A r \in Client \ {p} : Holds(r)' <=> Holds(r)
    BY <1>3 DEF IInv, Paired, Holds
  <2>. QED
    BY <1>3, <2>1, <2>2, LockTaken DEF IInv
<1>4. CASE active' = active /\ thread' = [thread EXCEPT ![p] = "asleep"]
  <2>1. Paired'
    BY <1>1, <1>4 DEF IInv, Paired
  <2>2. \A r \in Client : Holds(r)' <=> Holds(r)
    BY <1>1, <1>4 DEF IInv, Paired, Holds
  <2>. QED
    BY <1>4, <2>1, <2>2, HoldersKept DEF IInv
<1>. QED
  BY <1>2, <1>3, <1>4 DEF Look

\* The executor thread, its clock and the tickets.
LEMMA ThreadInv ==
    ASSUME IInv, NEW p \in Client, ThreadStep(p) \/ DeadlinePasses(p) \/ Starve(p)
    PROVE  IInv'
<1>1. CASE ThreadStep(p)
  BY <1>1, LookInv DEF ThreadStep, Enter, LookAgain
<1>2. CASE DeadlinePasses(p)
  <2>1. Paired'
    BY <1>2 DEF DeadlinePasses, IInv, Paired
  <2>2. \A r \in Client : Holds(r)' <=> Holds(r)
    BY <1>2 DEF DeadlinePasses, IInv, Paired, Holds
  <2>3. active' = active
    BY <1>2 DEF DeadlinePasses
  <2>. QED
    BY <2>1, <2>2, <2>3, HoldersKept DEF IInv
<1>3. CASE Starve(p)
  BY <1>3 DEF Starve, IInv, Paired, OneHolder, NoGhostHolder, Holds
<1>. QED
  BY <1>1, <1>2, <1>3

\* The coroutine asks, is let in, or hears that it is not.
LEMMA AnswerInv ==
    ASSUME IInv, NEW p \in Client, Ask(p) \/ Begin(p) \/ FailToBegin(p)
    PROVE  IInv'
<1>1. Paired'
  BY DEF Ask, Begin, FailToBegin, IInv, Paired
<1>2. \A r \in Client : Holds(r)' <=> Holds(r)
  BY DEF Ask, Begin, FailToBegin, IInv, Paired, Holds
<1>3. active' = active
  BY DEF Ask, Begin, FailToBegin
<1>. QED
  BY <1>1, <1>2, <1>3, HoldersKept DEF IInv

\* CancelledError, once or twice.
LEMMA CancelInv ==
    ASSUME IInv, NEW p \in Client, Cancel(p) \/ NotifyCancel(p) \/ CancelAgain(p)
    PROVE  IInv'
<1>1. CASE Cancel(p) \/ CancelAgain(p)
  <2>1. Paired'
    BY <1>1 DEF Cancel, CancelAgain, IInv, Paired
  <2>2. \A r \in Client : Holds(r)' <=> Holds(r)
    BY <1>1 DEF Cancel, CancelAgain, IInv, Paired, Holds
  <2>3. active' = active
    BY <1>1 DEF Cancel, CancelAgain
  <2>. QED
    BY <2>1, <2>2, <2>3, HoldersKept DEF IInv
<1>2. CASE NotifyCancel(p)
  <2> DEFINE pc == IF thread[p] = "asleep" THEN "awake" ELSE thread[p]
  <2>1. pc \in ThreadPC /\ (pc = "got" <=> thread[p] = "got")
    BY DEF IInv, Paired
  <2>2. thread' = Notified(p, pc) /\ coro' = [coro EXCEPT ![p] = "settle"]
        /\ active' = active
    BY <1>2 DEF NotifyCancel
  <2>3. Paired'
    BY <2>1, <2>2, NotifiedMoves DEF IInv, Paired
  <2>4. coro[p] = "cancel"
    BY <1>2 DEF NotifyCancel
  <2>5. \A r \in Client : Holds(r)' <=> Holds(r)
    BY <2>1, <2>2, <2>4, NotifiedMoves DEF IInv, Paired, Holds
  <2>. QED
    BY <2>2, <2>3, <2>5, HoldersKept DEF IInv
<1>. QED
  BY <1>1, <1>2

\* The end of the with block, and the answer that comes after a cancellation.
LEMMA EndInv ==
    ASSUME IInv, NEW p \in Client, End(p) \/ Settle(p)
    PROVE  IInv'
<1>1. CASE End(p)
  BY <1>1, FreeInv DEF End, Holds
<1>2. CASE Settle(p) /\ thread[p] = "got" /\ Free(p, "none")
  BY <1>2, FreeInv DEF Settle, Holds
<1>3. CASE Settle(p) /\ thread[p] = "no" /\ UNCHANGED active
           /\ thread' = [thread EXCEPT ![p] = "none"]
  <2>1. Paired'
    BY <1>3 DEF Settle, IInv, Paired
  <2>2. \A r \in Client : Holds(r)' <=> Holds(r)
    BY <1>3 DEF Settle, IInv, Paired, Holds
  <2>. QED
    BY <1>3, <2>1, <2>2, HoldersKept DEF IInv
<1>. QED
  BY <1>1, <1>2, <1>3 DEF Settle

LEMMA InitInv == Init => IInv
BY DEF Init, IInv, Paired, OneHolder, NoGhostHolder, Holds

LEMMA NextInv == IInv /\ [Next]_vars => IInv'
<1> SUFFICES ASSUME IInv, [Next]_vars PROVE IInv'
  OBVIOUS
<1>1. CASE UNCHANGED vars
  BY <1>1 DEF vars, IInv, Paired, OneHolder, NoGhostHolder, Holds
<1>2. ASSUME NEW p \in Client, CoroStep(p) PROVE IInv'
  BY <1>2, AnswerInv, CancelInv, EndInv DEF CoroStep
<1>. QED
  BY <1>1, <1>2, ThreadInv, AnswerInv, CancelInv DEF Next

\* Lock, coroutines and threads agree in every reachable state: the inductive
\* invariant.
THEOREM InductiveInvariant == Spec => []IInv
BY InitInv, NextInv, PTL DEF Spec

\* Two operations never hold the lock at once (exclusive_browser_operation).
THEOREM MutualExclusion == Spec => []OneHolder
<1>1. IInv => OneHolder
  BY DEF IInv
<1>. QED
  BY <1>1, InductiveInvariant, PTL

\* A taken lock has a holder that will give it back, whatever is cancelled while
\* its thread is winning it (_cleanup_orphan).
THEOREM NoOrphanedLock == Spec => []NoGhostHolder
<1>1. IInv => NoGhostHolder
  BY DEF IInv
<1>. QED
  BY <1>1, InductiveInvariant, PTL

-----------------------------------------------------------------------------
(* The queue                                                               *)

\* A set of natural numbers has a least member.
LEMMA LeastOf ==
    ASSUME NEW S \in SUBSET Nat, S # {}
    PROVE  Min(S) \in S /\ \A y \in S : Min(S) <= y
<1>1. PICK x \in S : \A y \in S : ~(<<y, x>> \in OpToRel(<, Nat))
  BY NatLessThanWellFounded, WFMin
<1>2. \A y \in S : x <= y
  <2> SUFFICES ASSUME NEW y \in S, ~(x <= y) PROVE FALSE
    OBVIOUS
  <2>1. y < x
    OBVIOUS
  <2>2. <<y, x>> \in OpToRel(<, Nat)
    BY <2>1 DEF OpToRel
  <2> QED BY <1>1, <2>2
<1> QED BY <1>2 DEF Min

\* Oldest is the first ticket of the set.
LEMMA FirstOf ==
    ASSUME NEW q \in Seq(Client), NEW S, \E i \in DOMAIN q : q[i] \in S
    PROVE  \E i \in DOMAIN q : /\ Oldest(q, S) = q[i] /\ q[i] \in S
                               /\ \A j \in DOMAIN q : q[j] \in S => i <= j
<1> DEFINE I == {i \in 1..Len(q) : q[i] \in S}
<1>1. I \in SUBSET Nat /\ I # {} /\ DOMAIN q = 1..Len(q)
  OBVIOUS
<1>2. Oldest(q, S) = q[Min(I)]
  BY <1>1 DEF Oldest, SelectInSeq
<1> QED BY <1>1, <1>2, LeastOf

\* A queue of tickets, one for each client in it.
Lined(q) == /\ q \in Seq(Client)
            /\ \A i, j \in DOMAIN q : q[i] = q[j] => i = j

LEMMA Dropped ==
    ASSUME NEW q \in Seq(Client), NEW k \in DOMAIN q
    PROVE  /\ RemoveAt(q, k) \in Seq(Client) /\ Len(RemoveAt(q, k)) = Len(q) - 1
           /\ \A j \in 1..Len(q)-1 : RemoveAt(q, k)[j] = IF j < k THEN q[j] ELSE q[j+1]
<1> DEFINE a == SubSeq(q, 1, k-1)
           b == SubSeq(q, k+1, Len(q))
<1>1. k \in Nat /\ k >= 1 /\ k <= Len(q) /\ Len(q) \in Nat
  OBVIOUS
<1>2. a \in Seq(Client) /\ Len(a) = k-1 /\ \A j \in 1..k-1 : a[j] = q[j]
  BY <1>1
<1>3. b \in Seq(Client) /\ Len(b) = Len(q) - k /\ \A j \in 1..Len(q)-k : b[j] = q[k+j]
  BY <1>1
<1> HIDE DEF a, b
<1>4. /\ a \o b \in Seq(Client) /\ Len(a \o b) = Len(q) - 1
      /\ \A j \in 1..Len(q)-1 : (a \o b)[j] = IF j < k THEN a[j] ELSE b[j-k+1]
  BY <1>1, <1>2, <1>3
<1>5. \A j \in 1..Len(q)-1 : (a \o b)[j] = IF j < k THEN q[j] ELSE q[j+1]
  <2> TAKE j \in 1..Len(q)-1
  <2>1. CASE j < k
    BY <2>1, <1>1, <1>2, <1>4
  <2>2. CASE ~(j < k)
    <3>1. j-k+1 \in 1..Len(q)-k /\ k + (j-k+1) = j+1
      BY <2>2, <1>1
    <3> QED BY <2>2, <3>1, <1>3, <1>4
  <2> QED BY <2>1, <2>2
<1> QED BY <1>4, <1>5 DEF RemoveAt, a, b

\* The ticket that leaves a queue is the client's.
LEMMA Removed ==
    ASSUME NEW q, Lined(q), NEW k \in DOMAIN q
    PROVE  RemoveFirst(q, q[k]) = RemoveAt(q, k)
<1> DEFINE I == {i \in 1..Len(q) : q[i] = q[k]}
<1>1. I = {k} /\ k \in Nat /\ k \in 1..Len(q)
  BY DEF Lined
<1>2. Min(I) = k
  BY <1>1, LeastOf
<1>3. SelectInSeq(q, LAMBDA v : v = q[k]) = k
  BY <1>1, <1>2 DEF SelectInSeq
<1> QED BY <1>1, <1>3 DEF RemoveFirst

LEMMA Dequeued ==
    ASSUME NEW q, Lined(q), NEW p \in Queued(q)
    PROVE  Lined(RemoveFirst(q, p)) /\ Queued(RemoveFirst(q, p)) = Queued(q) \ {p}
<1>1. PICK k \in DOMAIN q : p = q[k]
  BY DEF Queued, Range
<1> DEFINE r == RemoveAt(q, k)
<1>2. /\ r \in Seq(Client) /\ Len(r) = Len(q) - 1 /\ Len(q) \in Nat
      /\ DOMAIN r = 1..Len(q)-1 /\ DOMAIN q = 1..Len(q) /\ k \in 1..Len(q)
      /\ \A j \in 1..Len(q)-1 : r[j] = IF j < k THEN q[j] ELSE q[j+1]
  BY Dropped DEF Lined
<1>3. RemoveFirst(q, p) = r
  BY <1>1, Removed
<1> HIDE DEF r
<1>4. \A i, j \in DOMAIN q : q[i] = q[j] => i = j
  BY DEF Lined
<1>5. Lined(r)
  <2> SUFFICES ASSUME NEW i \in 1..Len(q)-1, NEW j \in 1..Len(q)-1, r[i] = r[j] PROVE i = j
    BY <1>2 DEF Lined
  <2> DEFINE m == IF i < k THEN i ELSE i+1
             n == IF j < k THEN j ELSE j+1
  <2>1. m \in DOMAIN q /\ n \in DOMAIN q /\ r[i] = q[m] /\ r[j] = q[n]
    BY <1>2
  <2>2. m = n
    BY <1>4, <2>1
  <2> QED BY <1>2, <2>2
<1>6. \A x : x \in Queued(r) <=> x \in Queued(q) \ {p}
  <2> TAKE x
  <2>1. ASSUME x \in Queued(r) PROVE x \in Queued(q) \ {p}
    <3>1. PICK j \in 1..Len(q)-1 : x = r[j]
      BY <2>1, <1>2 DEF Queued, Range
    <3> DEFINE n == IF j < k THEN j ELSE j+1
    <3>2. n \in DOMAIN q /\ x = q[n] /\ n # k
      BY <1>2, <3>1
    <3> QED BY <1>1, <1>4, <3>2 DEF Queued, Range
  <2>2. ASSUME x \in Queued(q) \ {p} PROVE x \in Queued(r)
    <3>1. PICK n \in DOMAIN q : x = q[n] /\ n # k
      BY <2>2, <1>1 DEF Queued, Range
    <3> DEFINE j == IF n < k THEN n ELSE n-1
    <3>2. j \in 1..Len(q)-1 /\ r[j] = q[n]
      BY <1>2, <3>1
    <3> QED BY <1>2, <3>1, <3>2 DEF Queued, Range
  <2> QED BY <2>1, <2>2
<1> QED BY <1>3, <1>5, <1>6

LEMMA Enqueued ==
    ASSUME NEW q, Lined(q), NEW p \in Client, p \notin Queued(q)
    PROVE  /\ Lined(Append(q, p)) /\ Queued(Append(q, p)) = Queued(q) \cup {p}
           /\ Len(Append(q, p)) = Len(q) + 1 /\ Append(q, p)[Len(q) + 1] = p
           /\ \A i \in DOMAIN q : i \in 1..Len(q) /\ Append(q, p)[i] = q[i]
<1> DEFINE a == Append(q, p)
<1>1. /\ a \in Seq(Client) /\ Len(a) = Len(q) + 1 /\ a[Len(q)+1] = p /\ Len(q) \in Nat
      /\ DOMAIN q = 1..Len(q) /\ DOMAIN a = 1..Len(q)+1
      /\ \A i \in 1..Len(q) : a[i] = q[i]
  BY DEF Lined
<1>2. \A i \in 1..Len(q) : q[i] # p
  BY <1>1 DEF Queued, Range
<1> HIDE DEF a
<1>3. Lined(a)
  <2> SUFFICES ASSUME NEW i \in 1..Len(q)+1, NEW j \in 1..Len(q)+1, a[i] = a[j] PROVE i = j
    BY <1>1 DEF Lined
  <2>1. CASE i = Len(q)+1 \/ j = Len(q)+1
    BY <1>1, <1>2, <2>1
  <2>2. CASE i \in 1..Len(q) /\ j \in 1..Len(q)
    BY <1>1, <2>2 DEF Lined
  <2> QED BY <1>1, <2>1, <2>2
<1>4. \A x : x \in Queued(a) <=> x \in Queued(q) \cup {p}
  <2> TAKE x
  <2>1. x \in Queued(a) <=> \E i \in 1..Len(q)+1 : x = a[i]
    BY <1>1 DEF Queued, Range
  <2>2. x \in Queued(q) <=> \E i \in 1..Len(q) : x = q[i]
    BY <1>1 DEF Queued, Range
  <2>3. (\E i \in 1..Len(q)+1 : x = a[i]) <=> (\E i \in 1..Len(q) : x = a[i]) \/ x = a[Len(q)+1]
    BY <1>1
  <2> QED BY <1>1, <2>1, <2>2, <2>3
<1>5. Queued(a) = Queued(q) \cup {p}
  BY <1>4
<1> QED BY <1>1, <1>3, <1>5 DEF a

LEMMA Counted ==
    ASSUME NEW q, Lined(q)
    PROVE  Cardinality(Queued(q)) = Len(q)
<1>0. Len(q) \in Nat /\ 1 \in Int /\ Len(q) \in Int
  BY DEF Lined
<1>1. IsFiniteSet(1..Len(q)) /\ Cardinality(1..Len(q)) = Len(q)
  <2>1. Cardinality(1..Len(q)) = IF 1 > Len(q) THEN 0 ELSE Len(q) - 1 + 1
    BY <1>0, FS_Interval
  <2>2. IsFiniteSet(1..Len(q))
    BY <1>0, FS_Interval
  <2>3. (IF 1 > Len(q) THEN 0 ELSE Len(q) - 1 + 1) = Len(q)
    BY <1>0
  <2> QED BY <2>1, <2>2, <2>3
<1>2. q \in Bijection(1..Len(q), Queued(q))
  BY DEF Lined, Bijection, Injection, Surjection, Queued, Range, IsInjective
<1> QED BY <1>1, <1>2, FS_Bijection DEF ExistsBijection

-----------------------------------------------------------------------------
(* Who is next                                                             *)

\* NextWaiter(q) when the tickets of S are starved.
Best(q) == {p \in Queued(q) : \A r \in Queued(q) : Priority[p] <= Priority[r]}
Favoured(q, S) == IF Queued(q) \cap S # {} THEN Queued(q) \cap S ELSE Best(q)
NextOf(q, S) == Oldest(q, Favoured(q, S))

LEMMA NextIs == \A q : NextWaiter(q) = NextOf(q, starved)
BY DEF NextWaiter, NextOf, Favoured, Best

\* Someone is next in a queue that is not empty.
LEMMA NextIsFirst ==
    ASSUME NEW q, Lined(q), NEW S, q # <<>>
    PROVE  \E i \in DOMAIN q : /\ NextOf(q, S) = q[i] /\ q[i] \in Favoured(q, S)
                               /\ \A j \in DOMAIN q : q[j] \in Favoured(q, S) => i <= j
<1>1. Queued(q) # {} /\ Queued(q) \subseteq Client
  BY DEF Lined, Queued, Range
<1>2. Best(q) # {}
  <2> DEFINE ranks == {Priority[p] : p \in Queued(q)}
  <2>1. ranks \in SUBSET Nat /\ ranks # {}
    BY <1>1, ConstantsAssumption
  <2>2. Min(ranks) \in ranks /\ \A y \in ranks : Min(ranks) <= y
    BY <2>1, LeastOf
  <2>3. PICK p \in Queued(q) : Priority[p] = Min(ranks)
    BY <2>2
  <2> QED BY <2>2, <2>3 DEF Best
<1>3. \E p \in Queued(q) : p \in Favoured(q, S)
  BY <1>2 DEF Favoured, Best
<1>4. \E i \in DOMAIN q : q[i] \in Favoured(q, S)
  BY <1>3 DEF Queued, Range
<1> QED BY <1>4, FirstOf DEF Lined, NextOf

LEMMA NextIsQueued ==
    ASSUME NEW q, Lined(q), NEW S, q # <<>>
    PROVE  NextOf(q, S) \in Queued(q) /\ NextOf(q, S) \in Client
BY NextIsFirst DEF Lined, Queued, Range

\* A client that queues up without becoming the next leaves the next one first.
LEMMA NextIsKept ==
    ASSUME NEW q, Lined(q), q # <<>>, NEW p \in Client, p \notin Queued(q),
           NextOf(Append(q, p), {}) # p
    PROVE  NextOf(Append(q, p), {}) = NextOf(q, {})
<1> DEFINE a == Append(q, p)
<1>1. /\ Lined(a) /\ Queued(a) = Queued(q) \cup {p} /\ Len(a) = Len(q) + 1
      /\ a[Len(q) + 1] = p /\ \A i \in DOMAIN q : i \in 1..Len(q) /\ a[i] = q[i]
  BY Enqueued
<1>2. DOMAIN q = 1..Len(q) /\ DOMAIN a = 1..Len(a) /\ Len(q) \in Nat /\ a # <<>>
  BY <1>1 DEF Lined
<1> HIDE DEF a
<1>3. Favoured(q, {}) = Best(q) /\ Favoured(a, {}) = Best(a)
  BY DEF Favoured
<1>4. PICK i \in DOMAIN a : /\ NextOf(a, {}) = a[i] /\ a[i] \in Best(a)
                            /\ \A j \in DOMAIN a : a[j] \in Best(a) => i <= j
  BY <1>1, <1>2, <1>3, NextIsFirst
<1>5. PICK k \in DOMAIN q : /\ NextOf(q, {}) = q[k] /\ q[k] \in Best(q)
                            /\ \A j \in DOMAIN q : q[j] \in Best(q) => k <= j
  BY <1>3, NextIsFirst
<1>6. i \in DOMAIN q /\ a[i] = q[i] /\ a[i] \in Queued(q)
  <2>1. i # Len(q) + 1
    BY <1>1, <1>4 DEF a
  <2> QED BY <1>1, <1>2, <1>4, <2>1 DEF Queued, Range
<1>7. \A x \in Client : Priority[x] \in Nat
  BY ConstantsAssumption
<1>8. Queued(q) \subseteq Client
  BY DEF Lined, Queued, Range
<1>9. q[i] \in Best(q)
  BY <1>1, <1>4, <1>6 DEF Best
<1>10. q[k] \in Best(a)
  <2>1. q[k] \in Queued(a) /\ Priority[q[k]] <= Priority[a[i]]
    BY <1>1, <1>5, <1>6 DEF Best
  <2>2. \A r \in Queued(a) : Priority[a[i]] <= Priority[r]
    BY <1>4 DEF Best
  <2>3. \A r \in Queued(a) : Priority[q[k]] <= Priority[r]
    <3> TAKE r \in Queued(a)
    <3>1. r \in Client /\ q[k] \in Client /\ a[i] \in Client
      BY <1>1, <1>6, <1>8, <1>5 DEF Best
    <3> QED BY <1>7, <2>1, <2>2, <3>1
  <2> QED BY <2>1, <2>3 DEF Best
<1>11. k <= i /\ i <= k
  BY <1>1, <1>2, <1>4, <1>5, <1>6, <1>9, <1>10
<1>12. i = k
  BY <1>2, <1>6, <1>11
<1> QED BY <1>4, <1>5, <1>6, <1>12 DEF a

-----------------------------------------------------------------------------
(* Nobody sleeps beside a free lock                                        *)

Waits(p) == thread[p] \in {"asleep", "awake"}
InLine == \A p \in Client : p \in Queued(waiters) <=> Waits(p)

\* Unless a ticket is starved, the one that may take a free lock is awake.
HeadIsAwake ==
    ~active /\ starved = {} /\ waiters # <<>> => thread[NextOf(waiters, {})] = "awake"

QueueInv == TypeOK /\ Lined(waiters) /\ InLine /\ HeadIsAwake

\* A step that moves no ticket and wakes whoever sleeps.
LEMMA WokenInv ==
    ASSUME QueueInv, NEW p \in Client, NEW pc \in ThreadPC \ {"asleep"},
           thread' = Notified(p, pc), pc = "awake" <=> Waits(p), TypeOK', UNCHANGED waiters
    PROVE  QueueInv'
<1>1. \A r \in Client : thread'[r] \in {"asleep", "awake"} <=> Waits(r)
  BY DEF Notified, QueueInv, TypeOK, Waits
<1>2. \A r \in Client : thread'[r] # "asleep"
  BY DEF Notified, QueueInv, TypeOK
<1>3. Lined(waiters')
  BY DEF QueueInv
<1>4. InLine'
  BY <1>1 DEF QueueInv, InLine, Waits
<1>5. HeadIsAwake'
  <2> SUFFICES ASSUME waiters' # <<>> PROVE thread'[NextOf(waiters', {})] = "awake"
    BY DEF HeadIsAwake
  <2>1. NextOf(waiters', {}) \in Queued(waiters') /\ NextOf(waiters', {}) \in Client
    BY <1>3, NextIsQueued
  <2> QED BY <1>2, <1>4, <2>1 DEF InLine, Waits
<1> QED BY <1>3, <1>4, <1>5 DEF QueueInv

\* A step that moves no ticket and changes only a thread that does not wait.
LEMMA AsideInv ==
    ASSUME QueueInv, NEW p \in Client, NEW pc \in ThreadPC \ {"asleep", "awake"}, ~Waits(p),
           thread' = [thread EXCEPT ![p] = pc], TypeOK', UNCHANGED <<active, waiters, starved>>
    PROVE  QueueInv'
<1>1. \A r \in Client : (thread'[r] \in {"asleep", "awake"} <=> Waits(r))
                        /\ (Waits(r) => thread'[r] = thread[r])
  BY DEF QueueInv, TypeOK, Waits
<1>2. Lined(waiters') /\ Lined(waiters)
  BY DEF QueueInv
<1>3. InLine'
  BY <1>1 DEF QueueInv, InLine, Waits
<1>4. HeadIsAwake'
  <2> SUFFICES ASSUME ~active, starved = {}, waiters # <<>>
               PROVE thread'[NextOf(waiters, {})] = "awake"
    BY DEF HeadIsAwake
  <2>1. thread[NextOf(waiters, {})] = "awake"
    BY DEF QueueInv, HeadIsAwake
  <2>2. NextOf(waiters, {}) \in Client
    BY <1>2, NextIsQueued
  <2> QED BY <1>1, <2>1, <2>2 DEF Waits
<1> QED BY <1>2, <1>3, <1>4 DEF QueueInv

\* One turn of the loop in _acquire, with a queue in which p has a ticket.
LEMMA TurnInv ==
    ASSUME TypeOK, TypeOK', NEW p \in Client, NEW q, Lined(q), Look(p, q),
           \A r \in Client : r \in Queued(q) <=> (Waits(r) \/ r = p),
           ~active /\ starved = {} /\ NextOf(q, {}) # p => thread[NextOf(q, {})] = "awake"
    PROVE  QueueInv'
<1>0. p \in Queued(q) /\ q # <<>>
  BY DEF Queued, Range
<1>1. CASE Withdraw(p, q)
  <2>1. waiters' = RemoveFirst(q, p) /\ thread' = Notified(p, "no")
    BY <1>1 DEF Withdraw
  <2>2. Lined(waiters') /\ Queued(waiters') = Queued(q) \ {p}
    BY <1>0, <2>1, Dequeued
  <2>3. \A r \in Client : /\ thread'[r] # "asleep"
                          /\ thread'[r] = "awake" <=> (Waits(r) /\ r # p)
    BY <2>1 DEF Notified, TypeOK, Waits
  <2>4. InLine'
    BY <2>2, <2>3 DEF InLine, Waits
  <2>5. HeadIsAwake'
    <3> SUFFICES ASSUME waiters' # <<>> PROVE thread'[NextOf(waiters', {})] = "awake"
      BY DEF HeadIsAwake
    <3>1. NextOf(waiters', {}) \in Queued(waiters') /\ NextOf(waiters', {}) \in Client
      BY <2>2, NextIsQueued
    <3> QED BY <2>2, <2>3, <3>1
  <2> QED BY <2>2, <2>4, <2>5 DEF QueueInv
<1>2. CASE waiters' = RemoveFirst(q, p) /\ active' = TRUE /\ thread' = [thread EXCEPT ![p] = "got"]
  <2>1. Lined(waiters') /\ Queued(waiters') = Queued(q) \ {p}
    BY <1>0, <1>2, Dequeued
  <2>2. \A r \in Client : thread'[r] \in {"asleep", "awake"} <=> (Waits(r) /\ r # p)
    BY <1>2 DEF TypeOK, Waits
  <2>3. InLine'
    BY <2>1, <2>2 DEF InLine, Waits
  <2>4. HeadIsAwake'
    BY <1>2 DEF HeadIsAwake
  <2> QED BY <2>1, <2>3, <2>4 DEF QueueInv
<1>3. CASE /\ waiters' = q /\ thread' = [thread EXCEPT ![p] = "asleep"]
           /\ UNCHANGED <<active, starved>> /\ ~(~active /\ NextWaiter(q) = p)
  <2>1. \A r \in Client : thread'[r] \in {"asleep", "awake"} <=> (Waits(r) \/ r = p)
    BY <1>3 DEF TypeOK, Waits
  <2>2. InLine'
    BY <1>3, <2>1 DEF InLine, Waits
  <2>3. HeadIsAwake'
    <3> SUFFICES ASSUME ~active, starved = {} PROVE thread'[NextOf(q, {})] = "awake"
      BY <1>3 DEF HeadIsAwake
    <3>1. NextOf(q, {}) # p
      BY <1>3, NextIs
    <3>2. NextOf(q, {}) \in Client
      BY <1>0, NextIsQueued
    <3> QED BY <1>3, <3>1, <3>2 DEF TypeOK
  <2> QED BY <1>3, <2>2, <2>3 DEF QueueInv
<1> QED BY <1>1, <1>2, <1>3 DEF Look

\* Types: what a turn of the loop leaves.
LEMMA LookTyped ==
    ASSUME TypeOK, NEW p \in Client, NEW q, Lined(q), p \in Queued(q), Look(p, q),
           UNCHANGED <<late, coro, cancelled>>
    PROVE  TypeOK'
<1>1. RemoveFirst(q, p) \in Seq(Client) /\ q \in Seq(Client)
  BY Dequeued DEF Lined
<1>2. Notified(p, "no") \in [Client -> ThreadPC]
  BY DEF Notified, TypeOK
<1>3. waiters' \in Seq(Client)
  BY <1>1 DEF Look, Withdraw
<1>4. thread' \in [Client -> ThreadPC]
  BY <1>2 DEF Look, Withdraw, TypeOK
<1>5. active' \in BOOLEAN /\ starved' \subseteq Client
  BY DEF Look, Withdraw, TypeOK
<1> QED BY <1>3, <1>4, <1>5 DEF TypeOK

LEMMA EnterQueueInv ==
    ASSUME QueueInv, NEW p \in Client, Enter(p)
    PROVE  QueueInv'
<1> DEFINE q == Append(waiters, p)
<1>1. p \notin Queued(waiters) /\ ~Waits(p)
  BY DEF Enter, QueueInv, InLine, Waits
<1>2. Lined(q) /\ Queued(q) = Queued(waiters) \cup {p} /\ Lined(waiters)
  BY <1>1, Enqueued DEF QueueInv
<1>3. Look(p, q) /\ UNCHANGED <<late, coro, cancelled>> /\ TypeOK
  BY DEF Enter, QueueInv
<1>4. ASSUME ~active, starved = {}, NextOf(q, {}) # p
      PROVE  thread[NextOf(q, {})] = "awake"
  <2>1. waiters # <<>>
    <3> SUFFICES ASSUME waiters = <<>> PROVE FALSE
      OBVIOUS
    <3>1. Queued(waiters) = {}
      BY DEF Queued, Range
    <3>2. q # <<>>
      BY <1>2 DEF Queued, Range
    <3>3. NextOf(q, {}) \in Queued(q)
      BY <1>2, <3>2, NextIsQueued
    <3> QED BY <1>2, <1>4, <3>1, <3>3
  <2>2. NextOf(q, {}) = NextOf(waiters, {})
    BY <1>1, <1>2, <1>4, <2>1, NextIsKept
  <2> QED BY <1>4, <2>1, <2>2 DEF QueueInv, HeadIsAwake
<1>5. \A r \in Client : r \in Queued(q) <=> (Waits(r) \/ r = p)
  BY <1>2 DEF QueueInv, InLine
<1> HIDE DEF q
<1>6. TypeOK'
  BY <1>3, <1>2, LookTyped
<1> QED BY <1>2, <1>3, <1>4, <1>5, <1>6, TurnInv

LEMMA LookAgainQueueInv ==
    ASSUME QueueInv, NEW p \in Client, LookAgain(p)
    PROVE  QueueInv'
<1>1. Waits(p) /\ p \in Queued(waiters) /\ Lined(waiters) /\ waiters # <<>> /\ TypeOK
  BY DEF LookAgain, QueueInv, InLine, Waits, Queued, Range
<1>2. Look(p, waiters) /\ UNCHANGED <<late, coro, cancelled>>
  BY DEF LookAgain
<1>3. \A r \in Client : r \in Queued(waiters) <=> (Waits(r) \/ r = p)
  BY <1>1 DEF QueueInv, InLine
<1>4. ~active /\ starved = {} => thread[NextOf(waiters, {})] = "awake"
  BY <1>1 DEF QueueInv, HeadIsAwake
<1>5. TypeOK'
  BY <1>1, <1>2, LookTyped
<1> QED BY <1>1, <1>2, <1>3, <1>4, <1>5, TurnInv

LEMMA ClockQueueInv ==
    ASSUME QueueInv, NEW p \in Client, DeadlinePasses(p) \/ Starve(p)
    PROVE  QueueInv'
<1>1. CASE DeadlinePasses(p)
  <2>1. TypeOK'
    BY <1>1 DEF DeadlinePasses, QueueInv, TypeOK
  <2>2. Lined(waiters') /\ InLine'
    BY <1>1 DEF DeadlinePasses, QueueInv, TypeOK, InLine, Waits
  <2>3. HeadIsAwake'
    BY <1>1 DEF DeadlinePasses, QueueInv, TypeOK, HeadIsAwake
  <2> QED BY <2>1, <2>2, <2>3 DEF QueueInv
<1>2. CASE Starve(p)
  BY <1>2 DEF Starve, QueueInv, TypeOK, InLine, Waits, HeadIsAwake
<1> QED BY <1>1, <1>2

LEMMA CoroQueueInv ==
    ASSUME QueueInv, Paired, NEW p \in Client,
           CoroStep(p) \/ Ask(p) \/ Cancel(p) \/ CancelAgain(p)
    PROVE  QueueInv'
<1>0. TypeOK /\ \A pc \in ThreadPC : Notified(p, pc) \in [Client -> ThreadPC]
  BY DEF QueueInv, TypeOK, Notified
<1>1. CASE Ask(p)
  <2>1. thread[p] = "none"
    BY <1>1 DEF Ask, Paired
  <2>2. TypeOK'
    BY <1>0, <1>1 DEF Ask, TypeOK
  <2> QED BY <1>1, <2>1, <2>2, AsideInv DEF Ask, Waits
<1>2. CASE Begin(p) \/ FailToBegin(p)
  <2>1. TypeOK'
    BY <1>0, <1>2 DEF Begin, FailToBegin, TypeOK
  <2> QED BY <1>2, <2>1, AsideInv DEF Begin, FailToBegin, Waits
<1>3. CASE End(p)
  <2>1. thread[p] = "none" /\ thread' = Notified(p, "none")
    BY <1>3 DEF End, Free, Paired
  <2>2. TypeOK'
    BY <1>0, <1>3, <2>1 DEF End, Free, TypeOK
  <2> QED BY <1>3, <2>1, <2>2, WokenInv DEF End, Waits
<1>4. CASE NotifyCancel(p)
  <2> DEFINE pc == IF thread[p] = "asleep" THEN "awake" ELSE thread[p]
  <2>1. pc \in ThreadPC \ {"asleep"} /\ (pc = "awake" <=> Waits(p))
    BY <1>0 DEF TypeOK, Waits
  <2>2. thread' = Notified(p, pc) /\ UNCHANGED waiters
    BY <1>4 DEF NotifyCancel
  <2> HIDE DEF pc
  <2>3. TypeOK'
    BY <1>0, <1>4, <2>1, <2>2 DEF NotifyCancel, TypeOK
  <2> QED BY <2>1, <2>2, <2>3, WokenInv
<1>5. CASE Settle(p) /\ thread[p] = "got" /\ Free(p, "none")
  <2>1. TypeOK'
    BY <1>0, <1>5 DEF Settle, Free, TypeOK
  <2> QED BY <1>5, <2>1, WokenInv DEF Settle, Free, Waits
<1>6. CASE Settle(p) /\ thread[p] = "no" /\ UNCHANGED active
           /\ thread' = [thread EXCEPT ![p] = "none"]
  <2>1. TypeOK'
    BY <1>0, <1>6 DEF Settle, TypeOK
  <2> QED BY <1>6, <2>1, AsideInv DEF Settle, Waits
<1>7. CASE Cancel(p) \/ CancelAgain(p)
  <2>1. TypeOK'
    BY <1>0, <1>7 DEF Cancel, CancelAgain, TypeOK
  <2> QED BY <1>7, <2>1 DEF Cancel, CancelAgain, QueueInv, InLine, Waits, HeadIsAwake
<1> QED BY <1>1, <1>2, <1>3, <1>4, <1>5, <1>6, <1>7 DEF CoroStep, Settle

LEMMA QueueInit == Init => QueueInv
<1> SUFFICES ASSUME Init PROVE QueueInv
  OBVIOUS
<1>1. waiters \in Seq(Client) /\ DOMAIN waiters = {}
  BY DEF Init
<1>2. TypeOK /\ Lined(waiters)
  BY <1>1 DEF Init, TypeOK, Lined
<1>3. InLine /\ HeadIsAwake
  BY DEF Init, InLine, Waits, HeadIsAwake, Queued, Range
<1> QED BY <1>3, <1>2 DEF QueueInv

LEMMA QueueNext == QueueInv /\ IInv /\ [Next]_vars => QueueInv'
<1> SUFFICES ASSUME QueueInv, Paired, [Next]_vars PROVE QueueInv'
  BY DEF IInv
<1>1. CASE UNCHANGED vars
  BY <1>1 DEF vars, QueueInv, TypeOK, InLine, Waits, HeadIsAwake
<1>2. ASSUME NEW p \in Client, ThreadStep(p) PROVE QueueInv'
  BY <1>2, EnterQueueInv, LookAgainQueueInv DEF ThreadStep
<1> QED BY <1>1, <1>2, ClockQueueInv, CoroQueueInv DEF Next

\* Queue and threads agree in every reachable state.
THEOREM QueueInvariant == Spec => []QueueInv
BY QueueInit, QueueNext, InductiveInvariant, PTL DEF Spec

\* Every variable of the lock keeps its type.
THEOREM Typed == Spec => []TypeOK
<1>1. QueueInv => TypeOK
  BY DEF QueueInv
<1> QED BY <1>1, QueueInvariant, PTL

\* A ticket is in the queue exactly while its thread waits, and once
\* (_remove_waiter on every way out of _acquire).
THEOREM NoDeadTicket == Spec => []TicketsAreLive
<1>1. QueueInv => TicketsAreLive
  BY Counted DEF QueueInv, InLine, Waits, TicketsAreLive
<1> QED BY <1>1, QueueInvariant, PTL

\* As long as no ticket starves, the notifications of _release, of a withdrawal
\* and of a cancellation suffice: they do not all sleep beside a free lock.
THEOREM NobodySleepsBesideAFreeLock == Spec => []NotifyingSuffices
<1>1. QueueInv => NotifyingSuffices
  BY NextIsQueued DEF QueueInv, HeadIsAwake, NotifyingSuffices, FreeLockIsSeen
<1> QED BY <1>1, QueueInvariant, PTL

-----------------------------------------------------------------------------
(* Nobody passes a starved ticket                                          *)

\* The ticket that is next, while p is starved in the queue, was drawn before.
LEMMA PassedByElders ==
    ASSUME NEW q, Lined(q), NEW S, NEW p \in Queued(q) \cap S, NEW r, r # p,
           NextOf(q, S) = r
    PROVE  \E i, j \in DOMAIN q : i < j /\ q[i] = r /\ q[j] = p
<1>1. q # <<>> /\ Favoured(q, S) = Queued(q) \cap S
  BY DEF Favoured, Queued, Range
<1>2. PICK i \in DOMAIN q : /\ r = q[i]
                            /\ \A j \in DOMAIN q : q[j] \in Queued(q) \cap S => i <= j
  BY <1>1, NextIsFirst
<1>3. PICK j \in DOMAIN q : q[j] = p
  BY DEF Queued, Range
<1>4. i <= j /\ i # j /\ i \in Int /\ j \in Int
  BY <1>2, <1>3 DEF Lined
<1>5. i < j
  BY <1>4
<1> QED BY <1>2, <1>3, <1>5

\* Only the thread that looks can win the lock.
LEMMA WinnerLooked ==
    ASSUME QueueInv, Next, NEW r \in Client, thread[r] # "got", thread'[r] = "got"
    PROVE  \/ r \in Queued(waiters) /\ NextWaiter(waiters) = r
           \/ r \notin Queued(waiters) /\ NextWaiter(Append(waiters, r)) = r
<1>1. PICK x \in Client : \/ ThreadStep(x) \/ CoroStep(x)
                          \/ Ask(x) \/ Cancel(x) \/ CancelAgain(x)
                          \/ DeadlinePasses(x) \/ Starve(x)
  BY DEF Next
<1>2. \A pc : pc # "got" => Notified(x, pc)[r] # "got"
  BY DEF Notified, QueueInv, TypeOK
<1>3. CASE ThreadStep(x)
  <2>1. ASSUME NEW q, Look(x, q) PROVE x = r /\ NextWaiter(q) = r
    BY <1>2, <2>1 DEF Look, Withdraw, QueueInv, TypeOK
  <2>2. CASE Enter(x)
    BY <2>1, <2>2 DEF Enter, QueueInv, InLine, Waits
  <2>3. CASE LookAgain(x)
    BY <2>1, <2>3 DEF LookAgain, QueueInv, InLine, Waits
  <2> QED BY <1>3, <2>2, <2>3 DEF ThreadStep
<1>4. CASE NotifyCancel(x)
  <2> DEFINE pc == IF thread[x] = "asleep" THEN "awake" ELSE thread[x]
  <2>1. thread' = Notified(x, pc)
    BY <1>4 DEF NotifyCancel
  <2>2. Notified(x, pc)[r] # "got"
    BY DEF Notified, QueueInv, TypeOK
  <2> QED BY <2>1, <2>2
<1>5. CASE End(x) \/ Settle(x)
  BY <1>2, <1>5 DEF End, Settle, Free, QueueInv, TypeOK
<1>6. CASE \/ Begin(x) \/ FailToBegin(x) \/ Ask(x) \/ Cancel(x) \/ CancelAgain(x)
           \/ DeadlinePasses(x) \/ Starve(x)
  BY <1>6 DEF Begin, FailToBegin, Ask, Cancel, CancelAgain, DeadlinePasses, Starve, QueueInv, TypeOK
<1> QED BY <1>1, <1>3, <1>4, <1>5, <1>6 DEF CoroStep

\* A starved client is passed only by clients that queued up before it
\* (_next_waiter).
THEOREM EldersFirst == Spec => StarvedAreNotPassed
<1> DEFINE Passed(p, r) == /\ Waits(p) /\ p \in starved
                           /\ thread[r] # "got" /\ thread'[r] = "got" /\ r # p
           Elder(p, r) == \E i, j \in DOMAIN waiters : i < j /\ waiters[i] = r /\ waiters[j] = p
           Fair == \A p, r \in Client : Passed(p, r) => Elder(p, r)
<1>1. QueueInv /\ [Next]_vars => [Fair]_vars
  <2> SUFFICES ASSUME QueueInv, Next, NEW p \in Client, NEW r \in Client, Passed(p, r)
               PROVE  Elder(p, r)
    OBVIOUS
  <2>1. p \in Queued(waiters) \cap starved /\ Lined(waiters)
    BY DEF QueueInv, InLine
  <2>2. CASE NextWaiter(waiters) = r
    BY <2>1, <2>2, NextIs, PassedByElders
  <2>3. CASE r \notin Queued(waiters) /\ NextWaiter(Append(waiters, r)) = r
    <3> DEFINE q == Append(waiters, r)
    <3>1. /\ Lined(q) /\ Queued(q) = Queued(waiters) \cup {r} /\ Len(q) = Len(waiters) + 1
          /\ \A i \in DOMAIN waiters : i \in 1..Len(waiters) /\ q[i] = waiters[i]
      BY <2>1, <2>3, Enqueued
    <3>2. p \in Queued(q) \cap starved /\ NextOf(q, starved) = r /\ DOMAIN q = 1..Len(waiters)+1
      BY <2>1, <2>3, <3>1, NextIs DEF Lined
    <3> HIDE DEF q
    <3>3. PICK i, j \in DOMAIN q : i < j /\ q[i] = r /\ q[j] = p
      BY <3>1, <3>2, PassedByElders
    <3>4. i \in DOMAIN waiters
      BY <2>1, <3>2, <3>3 DEF Lined
    <3> QED BY <2>3, <3>1, <3>3, <3>4 DEF Queued, Range
  <2> QED BY <2>2, <2>3, WinnerLooked
<1> QED BY <1>1, QueueInvariant, PTL DEF Spec, StarvedAreNotPassed, Waits

-----------------------------------------------------------------------------
(***************************************************************************)
(* The wake-up of the rule loops                                           *)
(***************************************************************************)
\* Where something that loop l has not seen of target t is waiting.
Waiting(l, t) ==
    \/ t \in ScopeOf(batch[l])
    \/ t \in Taken(l)
    \/ \E c \in Caller : WillAsk(c, l, t)
    \/ l = "stop" /\ In(l, "top") /\ due[l]

\* A batch nobody marked holds nothing, so that take may throw it away.
UnmarkedIsEmpty ==
    \A l \in Loop : ~batch[l].marked => batch[l].targets = {} /\ ~batch[l].full

WakeInv ==
    /\ WakeTypeOK
    /\ UnmarkedIsEmpty
    /\ Lossless
    /\ BatchHasToken

\* The two formulations of Lossless.
LEMMA LosslessWaiting == Lossless <=> \A l \in Loop : \A t \in unseen[l] : Waiting(l, t)
BY DEF Lossless, Waiting

LEMMA LosslessWaitingNext ==
    Lossless' <=> \A l \in Loop : \A t \in unseen'[l] : Waiting(l, t)'
BY DEF Lossless, Waiting

\* request: a batch stays a batch, is marked and covers what it covered and
\* what was asked for.
LEMMA RequestedCovers ==
    ASSUME NEW b \in Batch, NEW S \in SUBSET Target, NEW all \in BOOLEAN
    PROVE  /\ Requested(b, S, all) \in Batch
           /\ Requested(b, S, all).marked
           /\ ScopeOf(b) \subseteq ScopeOf(Requested(b, S, all))
           /\ S \subseteq ScopeOf(Requested(b, S, all))
           /\ all => ScopeOf(Requested(b, S, all)) = Target
BY DEF Requested, ScopeOf, Batch

\* take: the scope is a set of targets.
LEMMA ScopeTyped ==
    ASSUME NEW b \in Batch
    PROVE  ScopeOf(b) \in SUBSET Target
BY DEF ScopeOf, Batch

LEMMA EmptyTyped ==
    /\ Empty \in Batch /\ ~Empty.marked
    /\ Empty.targets = {} /\ ~Empty.full
BY DEF Empty, Batch

\* What a caller may be doing.
Calls == [pc : CallerPC, targets : SUBSET Target, full : BOOLEAN]

LEMMA NextTyped ==
    ASSUME WakeTypeOK, caller' \in [Caller -> Calls], unseen' \in [Loop -> SUBSET Target],
           batch' \in [Loop -> Batch], token' \in BOOLEAN, UNCHANGED <<runner, due>>
    PROVE  WakeTypeOK'
BY DEF WakeTypeOK, Calls

LEMMA CallTyped ==
    ASSUME WakeTypeOK, NEW c \in Caller, NEW pc \in CallerPC
    PROVE  /\ caller \in [Caller -> Calls]
           /\ NoCall \in Calls
           /\ [caller EXCEPT ![c] = NoCall] \in [Caller -> Calls]
           /\ [caller EXCEPT ![c].pc = pc] \in [Caller -> Calls]
<1>1. caller \in [Caller -> Calls] /\ NoCall \in Calls
  BY DEF WakeTypeOK, Calls, NoCall, CallerPC
<1>2. [caller[c] EXCEPT !.pc = pc] \in Calls
  <2>1. caller[c] \in Calls
    BY <1>1
  <2>. QED
    BY <2>1 DEF Calls
<1>. QED
  BY <1>1, <1>2

(***************************************************************************)
(* Callers                                                                 *)
(***************************************************************************)

\* A caller that commits data is about to ask every loop the data concerns.
LEMMA CommitInv ==
    ASSUME WakeInv, NEW c \in Caller, NEW t \in Target,
           CommitSnapshot(c, t) \/ CommitControlMetrics(c, t)
    PROVE  WakeInv'
<1>1. WakeTypeOK'
  <2>1. /\ [pc |-> "retarget", targets |-> {t}, full |-> FALSE] \in Calls
        /\ [pc |-> "stop", targets |-> {t}, full |-> FALSE] \in Calls
    BY DEF Calls, CallerPC
  <2>2. caller' \in [Caller -> Calls]
    BY <2>1 DEF WakeInv, WakeTypeOK, Calls, CommitSnapshot, CommitControlMetrics
  <2>3. unseen' \in [Loop -> SUBSET Target]
    <3>1. CASE CommitSnapshot(c, t)
      BY <3>1 DEF WakeInv, WakeTypeOK, CommitSnapshot
    <3>2. CASE CommitControlMetrics(c, t)
      BY <3>2 DEF WakeInv, WakeTypeOK, CommitControlMetrics, Loop
    <3>. QED
      BY <3>1, <3>2
  <2>. QED
    BY <2>2, <2>3, NextTyped DEF WakeInv, WakeTypeOK, CommitSnapshot,
                                 CommitControlMetrics
<1>2. UnmarkedIsEmpty'
  BY DEF WakeInv, UnmarkedIsEmpty, CommitSnapshot, CommitControlMetrics
<1>3. Lossless'
  <2> SUFFICES ASSUME NEW l \in Loop, NEW u \in unseen'[l] PROVE Waiting(l, u)'
    BY LosslessWaitingNext
  <2>1. CASE u \in unseen[l]
    <3>1. Waiting(l, u)
      BY <2>1, LosslessWaiting DEF WakeInv
    <3>. QED
      BY <3>1 DEF WakeInv, WakeTypeOK, Waiting, WillAsk, Taken, In,
                  CommitSnapshot,
                  CommitControlMetrics
  <2>2. CASE u \notin unseen[l]
    <3>1. u = t /\ (CommitControlMetrics(c, t) => l = "stop")
      BY <2>2 DEF WakeInv, WakeTypeOK, CommitSnapshot, CommitControlMetrics,
                  Loop
    <3>2. WillAsk(c, l, u)'
      BY <3>1 DEF WakeInv, WakeTypeOK, WillAsk, CommitSnapshot,
                  CommitControlMetrics, Loop
    <3>. QED
      BY <3>2 DEF Waiting
  <2>. QED
    BY <2>1, <2>2
<1>4. BatchHasToken'
  BY DEF WakeInv, WakeTypeOK, BatchHasToken, In, CommitSnapshot,
         CommitControlMetrics
<1>. QED
  BY <1>1, <1>2, <1>3, <1>4 DEF WakeInv

LEMMA SaveRulesInv ==
    ASSUME WakeInv, NEW c \in Caller, NEW k \in Loop, SaveRules(c, k)
    PROVE  WakeInv'
<1>1. WakeTypeOK'
  BY DEF WakeInv, WakeTypeOK, SaveRules, Loop, CallerPC
<1>2. UnmarkedIsEmpty'
  BY DEF WakeInv, UnmarkedIsEmpty, SaveRules
<1>3. Lossless'
  <2> SUFFICES ASSUME NEW l \in Loop, NEW u \in unseen'[l] PROVE Waiting(l, u)'
    BY LosslessWaitingNext
  <2>1. CASE l = k
    <3>1. WillAsk(c, l, u)'
      BY <2>1 DEF WakeInv, WakeTypeOK, WillAsk, SaveRules, Loop
    <3>. QED
      BY <3>1 DEF Waiting
  <2>2. CASE l # k
    <3>1. Waiting(l, u)
      BY <2>2, LosslessWaiting DEF WakeInv, WakeTypeOK, SaveRules
    <3>. QED
      BY <3>1 DEF WakeInv, WakeTypeOK, Waiting, WillAsk, Taken, In,
                  SaveRules
  <2>. QED
    BY <2>1, <2>2
<1>4. BatchHasToken'
  BY DEF WakeInv, WakeTypeOK, BatchHasToken, In, SaveRules
<1>. QED
  BY <1>1, <1>2, <1>3, <1>4 DEF WakeInv

\* What the caller would ask for moves into the batch.
LEMMA RequestRetargetInv ==
    ASSUME WakeInv, NEW c \in Caller, RequestRetarget(c)
    PROVE  WakeInv'
<1>1. /\ batch["retarget"] \in Batch /\ caller[c].targets \in SUBSET Target
      /\ caller[c].full \in BOOLEAN
  BY DEF WakeInv, WakeTypeOK, Loop
<1>2. batch' = [batch EXCEPT !["retarget"] =
                   Requested(batch["retarget"], caller[c].targets, caller[c].full)]
  BY DEF RequestRetarget
<1>3. WakeTypeOK'
  <2>1. batch' \in [Loop -> Batch]
    BY <1>1, <1>2, RequestedCovers DEF WakeInv, WakeTypeOK
  <2>2. caller' \in [Caller -> Calls]
    BY CallTyped DEF WakeInv, RequestRetarget, Call, CallerPC
  <2>. QED
    BY <2>1, <2>2, NextTyped DEF WakeInv, WakeTypeOK, RequestRetarget
<1>4. UnmarkedIsEmpty'
  BY <1>1, <1>2, RequestedCovers DEF WakeInv, WakeTypeOK, UnmarkedIsEmpty
<1>5. Lossless'
  <2> SUFFICES ASSUME NEW l \in Loop, NEW u \in unseen'[l] PROVE Waiting(l, u)'
    BY LosslessWaitingNext
  <2>1. Waiting(l, u) /\ u \in Target
    BY LosslessWaiting DEF WakeInv, WakeTypeOK, RequestRetarget
  <2>2. CASE u \in ScopeOf(batch[l])
    <3>1. u \in ScopeOf(batch'[l])
      BY <1>1, <1>2, <2>2, RequestedCovers DEF WakeInv, WakeTypeOK
    <3>. QED
      BY <3>1 DEF Waiting, ScopeOf
  <2>3. CASE WillAsk(c, l, u)
    <3>1. CASE l = "retarget"
      <4>1. u \in ScopeOf(batch'[l])
        BY <1>1, <1>2, <2>1, <2>3, <3>1, RequestedCovers DEF WakeInv, WakeTypeOK, WillAsk
      <4>. QED
        BY <4>1 DEF Waiting, ScopeOf
    <3>2. CASE l # "retarget"
      <4>1. WillAsk(c, l, u)'
        BY <2>3, <3>2 DEF WakeInv, WakeTypeOK, WillAsk, RequestRetarget, Call
      <4>. QED
        BY <4>1 DEF Waiting
    <3>. QED
      BY <3>1, <3>2
  <2>4. CASE \E d \in Caller \ {c} : WillAsk(d, l, u)
    <3>1. \E d \in Caller : WillAsk(d, l, u)'
      BY <2>4 DEF WakeInv, WakeTypeOK, WillAsk, RequestRetarget, Call
    <3>. QED
      BY <3>1 DEF Waiting
  <2>5. CASE u \in Taken(l) \/ (l = "stop" /\ In(l, "top") /\ due[l])
    BY <2>5 DEF Waiting, Taken, In, RequestRetarget
  <2>. QED
    BY <2>1, <2>2, <2>3, <2>4, <2>5 DEF Waiting
<1>6. BatchHasToken'
  BY DEF WakeInv, WakeTypeOK, BatchHasToken, RequestRetarget, Call
<1>. QED
  BY <1>3, <1>4, <1>5, <1>6 DEF WakeInv

LEMMA PutTokenInv ==
    ASSUME WakeInv, NEW c \in Caller, PutToken(c)
    PROVE  WakeInv'
<1>1. WakeTypeOK'
  <2>1. caller' \in [Caller -> Calls]
    BY CallTyped DEF WakeInv, PutToken, AfterToken, Call, CallerPC
  <2>. QED
    BY <2>1, NextTyped DEF WakeInv, WakeTypeOK, PutToken
<1>2. UnmarkedIsEmpty'
  BY DEF WakeInv, UnmarkedIsEmpty, PutToken
<1>3. Lossless'
  <2> SUFFICES ASSUME NEW l \in Loop, NEW u \in unseen'[l] PROVE Waiting(l, u)'
    BY LosslessWaitingNext
  <2>1. Waiting(l, u)
    BY LosslessWaiting DEF WakeInv, PutToken
  <2>2. ASSUME NEW d \in Caller, WillAsk(d, l, u) PROVE WillAsk(d, l, u)'
    <3>1. CASE d = c
      BY <2>2, <3>1 DEF WakeInv, WakeTypeOK, WillAsk, PutToken, AfterToken,
                        Call
    <3>2. CASE d # c
      BY <2>2, <3>2 DEF WakeInv, WakeTypeOK, WillAsk, PutToken, AfterToken,
                        Call
    <3>. QED
      BY <3>1, <3>2
  <2>3. CASE \E d \in Caller : WillAsk(d, l, u)
    BY <2>2, <2>3 DEF Waiting
  <2>4. CASE ~\E d \in Caller : WillAsk(d, l, u)
    BY <2>1, <2>4 DEF Waiting, Taken, In, PutToken
  <2>. QED
    BY <2>3, <2>4
<1>4. BatchHasToken'
  BY DEF BatchHasToken, PutToken
<1>. QED
  BY <1>1, <1>2, <1>3, <1>4 DEF WakeInv

LEMMA RequestStopInv ==
    ASSUME WakeInv, NEW c \in Caller, RequestStop(c)
    PROVE  WakeInv'
<1>1. /\ batch["stop"] \in Batch /\ caller[c].targets \in SUBSET Target
      /\ caller[c].full \in BOOLEAN
  BY DEF WakeInv, WakeTypeOK, Loop
<1>2. batch' = [batch EXCEPT !["stop"] =
                   Requested(batch["stop"], caller[c].targets, caller[c].full)]
  BY DEF RequestStop
<1>3. WakeTypeOK'
  <2>1. batch' \in [Loop -> Batch]
    BY <1>1, <1>2, RequestedCovers DEF WakeInv, WakeTypeOK
  <2>2. caller' \in [Caller -> Calls]
    BY CallTyped DEF WakeInv, RequestStop, CallerPC
  <2>. QED
    BY <2>1, <2>2, NextTyped DEF WakeInv, WakeTypeOK, RequestStop
<1>4. UnmarkedIsEmpty'
  BY <1>1, <1>2, RequestedCovers DEF WakeInv, WakeTypeOK, UnmarkedIsEmpty
<1>5. Lossless'
  <2> SUFFICES ASSUME NEW l \in Loop, NEW u \in unseen'[l] PROVE Waiting(l, u)'
    BY LosslessWaitingNext
  <2>1. Waiting(l, u) /\ u \in Target
    BY LosslessWaiting DEF WakeInv, WakeTypeOK, RequestStop
  <2>2. CASE u \in ScopeOf(batch[l])
    <3>1. u \in ScopeOf(batch'[l])
      BY <1>1, <1>2, <2>2, RequestedCovers DEF WakeInv, WakeTypeOK
    <3>. QED
      BY <3>1 DEF Waiting, ScopeOf
  <2>3. CASE WillAsk(c, l, u)
    <3>1. l = "stop" /\ (caller[c].full \/ u \in caller[c].targets)
      BY <2>3 DEF WillAsk, RequestStop
    <3>2. u \in ScopeOf(batch'[l])
      BY <1>1, <1>2, <2>1, <3>1, RequestedCovers DEF WakeInv, WakeTypeOK
    <3>. QED
      BY <3>2 DEF Waiting, ScopeOf
  <2>4. CASE \E d \in Caller \ {c} : WillAsk(d, l, u)
    <3>1. \E d \in Caller : WillAsk(d, l, u)'
      BY <2>4 DEF WakeInv, WakeTypeOK, WillAsk, RequestStop
    <3>. QED
      BY <3>1 DEF Waiting
  <2>5. CASE u \in Taken(l) \/ (l = "stop" /\ In(l, "top") /\ due[l])
    BY <2>5 DEF Waiting, Taken, In, RequestStop
  <2>. QED
    BY <2>1, <2>2, <2>3, <2>4, <2>5 DEF Waiting
<1>6. BatchHasToken'
  BY DEF WakeInv, WakeTypeOK, BatchHasToken, In, RequestStop, NoCall
<1>. QED
  BY <1>3, <1>4, <1>5, <1>6 DEF WakeInv

(***************************************************************************)
(* The loops                                                               *)
(***************************************************************************)

\* A step of a loop leaves the callers alone; it is enough to look at the
\* targets that still wait for loop k and are not with a caller.
LEMMA LoopLossless ==
    ASSUME WakeInv, NEW k \in Loop, UNCHANGED caller,
           \A l \in Loop : unseen'[l] \subseteq unseen[l],
           \A l \in Loop \ {k} : /\ batch'[l] = batch[l]
                                 /\ runner'[l] = runner[l]
                                 /\ due[l] => due'[l],
           \A t \in unseen'[k] :
               \/ t \in ScopeOf(batch[k])
               \/ t \in Taken(k)
               \/ k = "stop" /\ In(k, "top") /\ due[k]
               => Waiting(k, t)'
    PROVE  Lossless'
<1> SUFFICES ASSUME NEW l \in Loop, NEW t \in unseen'[l] PROVE Waiting(l, t)'
  BY LosslessWaitingNext
<1>1. Waiting(l, t)
  BY LosslessWaiting DEF WakeInv
<1>2. CASE \E c \in Caller : WillAsk(c, l, t)
  BY <1>2 DEF Waiting, WillAsk
<1>3. CASE ~(\E c \in Caller : WillAsk(c, l, t)) /\ l = k
  BY <1>1, <1>3 DEF Waiting
<1>4. CASE ~(\E c \in Caller : WillAsk(c, l, t)) /\ l # k
  BY <1>1, <1>4 DEF Waiting, ScopeOf, Taken, In
<1>. QED
  BY <1>2, <1>3, <1>4

LEMMA LoopTyped ==
    ASSUME WakeTypeOK, NEW k \in Loop, NEW pc \in RunnerPC, NEW S \in SUBSET Target
    PROVE  /\ [runner EXCEPT ![k] = [pc |-> pc, scope |-> S]]
                 \in [Loop -> [pc : RunnerPC, scope : SUBSET Target]]
           /\ [runner EXCEPT ![k].pc = pc]
                 \in [Loop -> [pc : RunnerPC, scope : SUBSET Target]]
           /\ runner[k].scope \in SUBSET Target
<1>1. runner[k] \in [pc : RunnerPC, scope : SUBSET Target]
  BY DEF WakeTypeOK
<1>2. [runner[k] EXCEPT !.pc = pc] \in [pc : RunnerPC, scope : SUBSET Target]
  BY <1>1
<1>. QED
  BY <1>1, <1>2 DEF WakeTypeOK

LEMMA FullScanInv ==
    ASSUME WakeInv, NEW k \in Loop, FullScan(k)
    PROVE  WakeInv'
<1>1. WakeTypeOK'
  <2>1. runner' \in [Loop -> [pc : RunnerPC, scope : SUBSET Target]]
    BY LoopTyped DEF WakeInv, FullScan, RunnerPC
  <2>. QED
    BY <2>1, EmptyTyped DEF WakeInv, WakeTypeOK, FullScan
<1>2. UnmarkedIsEmpty'
  BY EmptyTyped DEF WakeInv, WakeTypeOK, UnmarkedIsEmpty, FullScan
<1>3. Lossless'
  <2>1. ASSUME NEW t \in unseen'[k] PROVE Waiting(k, t)'
    <3>1. t \in Target
      BY DEF WakeInv, WakeTypeOK, FullScan
    <3>2. t \in Taken(k)'
      BY <3>1 DEF WakeInv, WakeTypeOK, Taken, In, FullScan
    <3>. QED
      BY <3>2 DEF Waiting
  <2>. QED
    BY <2>1, LoopLossless DEF WakeInv, WakeTypeOK, FullScan
<1>4. BatchHasToken'
  BY EmptyTyped DEF WakeInv, WakeTypeOK, BatchHasToken, In, FullScan
<1>. QED
  BY <1>1, <1>2, <1>3, <1>4 DEF WakeInv

LEMMA BeginScanInv ==
    ASSUME WakeInv, NEW k \in Loop, BeginScan(k)
    PROVE  WakeInv'
<1>1. WakeTypeOK'
  <2>1. runner' \in [Loop -> [pc : RunnerPC, scope : SUBSET Target]]
    BY LoopTyped DEF WakeInv, BeginScan, Move, RunnerPC
  <2>. QED
    BY <2>1 DEF WakeInv, WakeTypeOK, BeginScan
<1>2. UnmarkedIsEmpty'
  BY DEF WakeInv, UnmarkedIsEmpty, BeginScan
<1>3. Lossless'
  <2>1. ASSUME NEW t \in unseen'[k],
               \/ t \in ScopeOf(batch[k])
               \/ t \in Taken(k)
               \/ k = "stop" /\ In(k, "top") /\ due[k]
        PROVE  Waiting(k, t)'
    <3>1. t \notin Taken(k) /\ ~In(k, "top")
      BY DEF WakeInv, WakeTypeOK, Taken, In, BeginScan
    <3>2. t \in ScopeOf(batch'[k])
      BY <2>1, <3>1 DEF BeginScan
    <3>. QED
      BY <3>2 DEF Waiting, ScopeOf
  <2>. QED
    BY <2>1, LoopLossless DEF WakeInv, WakeTypeOK, BeginScan, Move
<1>4. BatchHasToken'
  BY DEF WakeInv, WakeTypeOK, BatchHasToken, In, BeginScan, Move
<1>. QED
  BY <1>1, <1>2, <1>3, <1>4 DEF WakeInv

\* Steps that move a loop without touching scopes, batches or data.
LEMMA MoveInv ==
    ASSUME WakeInv, NEW k \in Loop, NEW pc \in RunnerPC, Move(k, pc),
           UNCHANGED <<batch, due, caller, unseen>>, token' \in BOOLEAN,
           token' \/ ~token \/ (k = "retarget" /\ pc = "merge"),
           ~In(k, "merge"),
           In(k, "go") => pc = "go",
           k = "retarget" /\ In(k, "top") => pc \in {"top", "go"},
           k = "stop" /\ In(k, "top") /\ due[k] => pc = "top"
    PROVE  WakeInv'
<1>1. WakeTypeOK'
  <2>1. runner' \in [Loop -> [pc : RunnerPC, scope : SUBSET Target]]
    BY LoopTyped DEF WakeInv, Move
  <2>. QED
    BY <2>1 DEF WakeInv, WakeTypeOK
<1>2. UnmarkedIsEmpty'
  BY DEF WakeInv, UnmarkedIsEmpty
<1>3. Lossless'
  <2>1. ASSUME NEW t \in unseen'[k],
               \/ t \in ScopeOf(batch[k])
               \/ t \in Taken(k)
               \/ k = "stop" /\ In(k, "top") /\ due[k]
        PROVE  Waiting(k, t)'
    <3>1. CASE t \in ScopeOf(batch[k])
      BY <3>1 DEF Waiting, ScopeOf
    <3>2. CASE t \in Taken(k)
      <4>1. t \in Taken(k)'
        BY <3>2 DEF WakeInv, WakeTypeOK, Taken, In, Move
      <4>. QED
        BY <4>1 DEF Waiting
    <3>3. CASE k = "stop" /\ In(k, "top") /\ due[k]
      BY <3>3 DEF WakeInv, WakeTypeOK, Waiting, In, Move
    <3>. QED
      BY <2>1, <3>1, <3>2, <3>3
  <2>. QED
    BY <2>1, LoopLossless DEF WakeInv, WakeTypeOK, Move
<1>4. BatchHasToken'
  BY DEF WakeInv, WakeTypeOK, BatchHasToken, In, Move
<1>. QED
  BY <1>1, <1>2, <1>3, <1>4 DEF WakeInv

\* EndScan, ScopedScan, SleepIsOver and Woken are such steps.
LEMMA MovesInv ==
    ASSUME WakeInv, \/ \E k \in Loop : EndScan(k)
                    \/ ScopedScan \/ SleepIsOver \/ Woken
    PROVE  WakeInv'
<1>1. ASSUME NEW k \in Loop, EndScan(k) PROVE WakeInv'
  <2>1. k = "retarget" => Move(k, "sleep")
    BY <1>1 DEF EndScan
  <2>2. k # "retarget" => Move(k, "top")
    BY <1>1 DEF EndScan
  <2>3. /\ "sleep" \in RunnerPC /\ "top" \in RunnerPC
        /\ token' \in BOOLEAN /\ (token' \/ ~token)
    BY <1>1 DEF RunnerPC, EndScan, WakeInv, WakeTypeOK
  <2>4. ~In(k, "merge") /\ ~In(k, "go") /\ ~In(k, "top")
    BY <1>1 DEF EndScan, In
  <2>5. UNCHANGED <<batch, due, caller, unseen>>
    BY <1>1 DEF EndScan
  <2>6. CASE k = "retarget"
    BY <2>1, <2>3, <2>4, <2>5, <2>6, MoveInv
  <2>7. CASE k # "retarget"
    BY <2>2, <2>3, <2>4, <2>5, <2>7, MoveInv
  <2>. QED
    BY <2>6, <2>7
<1>2. CASE ScopedScan
  BY <1>2, MoveInv DEF ScopedScan, In, WakeInv, WakeTypeOK, Loop, RunnerPC
<1>3. CASE SleepIsOver
  BY <1>3, MoveInv DEF SleepIsOver, In, WakeInv, WakeTypeOK, Loop, RunnerPC
<1>4. CASE Woken
  BY <1>4, MoveInv DEF Woken, In, Loop, RunnerPC
<1>. QED
  BY <1>1, <1>2, <1>3, <1>4

\* The stop loop takes its batch: the scope takes over from it.
LEMMA TakeStopInv ==
    ASSUME WakeInv, TakeStop
    PROVE  WakeInv'
<1>1. "stop" \in Loop /\ ScopeOf(batch["stop"]) \in SUBSET Target
  BY ScopeTyped DEF WakeInv, WakeTypeOK, Loop
<1>2. WakeTypeOK'
  <2>1. runner' \in [Loop -> [pc : RunnerPC, scope : SUBSET Target]]
    BY <1>1, LoopTyped DEF WakeInv, TakeStop, RunnerPC
  <2>. QED
    BY <2>1, EmptyTyped DEF WakeInv, WakeTypeOK, TakeStop
<1>3. UnmarkedIsEmpty'
  BY EmptyTyped DEF WakeInv, WakeTypeOK, UnmarkedIsEmpty, TakeStop
<1>4. Lossless'
  <2>1. Taken("stop") = {} /\ ~due["stop"]
    BY DEF TakeStop, Taken, In
  <2>2. Taken("stop")' = ScopeOf(batch["stop"])
    BY <1>1 DEF WakeInv, WakeTypeOK, TakeStop, Taken, In
  <2>3. ASSUME NEW t \in unseen'["stop"], t \in ScopeOf(batch["stop"])
        PROVE  Waiting("stop", t)'
    BY <2>2, <2>3 DEF Waiting
  <2>. QED
    BY <1>1, <2>1, <2>3, LoopLossless DEF WakeInv, WakeTypeOK, TakeStop
<1>5. BatchHasToken'
  BY DEF WakeInv, WakeTypeOK, BatchHasToken, In, TakeStop, Loop
<1>. QED
  BY <1>2, <1>3, <1>4, <1>5 DEF WakeInv

\* The retargeting loop takes its batch; an unmarked one is empty.
LEMMA TakeRetargetInv ==
    ASSUME WakeInv, TakeRetarget
    PROVE  WakeInv'
<1> DEFINE b == batch["retarget"]
<1>1. "retarget" \in Loop /\ b \in Batch /\ ScopeOf(b) \in SUBSET Target
  BY ScopeTyped DEF WakeInv, WakeTypeOK, Loop
<1>2. runner' = [runner EXCEPT !["retarget"] =
                   IF b.marked THEN [pc |-> "top", scope |-> ScopeOf(b)]
                               ELSE [pc |-> "sleep", scope |-> {}]]
  BY DEF TakeRetarget
<1>3. WakeTypeOK'
  <2>1. runner' \in [Loop -> [pc : RunnerPC, scope : SUBSET Target]]
    BY <1>1, <1>2, LoopTyped DEF WakeInv, RunnerPC
  <2>. QED
    BY <2>1, EmptyTyped DEF WakeInv, WakeTypeOK, TakeRetarget
<1>4. UnmarkedIsEmpty'
  BY EmptyTyped DEF WakeInv, WakeTypeOK, UnmarkedIsEmpty, TakeRetarget
<1>5. Lossless'
  <2>1. Taken("retarget") = {}
    BY DEF TakeRetarget, Taken, In
  <2>2. ASSUME NEW t \in ScopeOf(b) PROVE t \in Taken("retarget")'
    <3>1. b.marked
      BY <1>1, <2>2 DEF WakeInv, UnmarkedIsEmpty, ScopeOf
    <3>. QED
      BY <1>1, <1>2, <2>2, <3>1 DEF WakeInv, WakeTypeOK, Taken, In
  <2>3. ASSUME NEW t \in unseen'["retarget"], t \in ScopeOf(b)
        PROVE  Waiting("retarget", t)'
    BY <2>2, <2>3 DEF Waiting
  <2>4. \A l \in Loop \ {"retarget"} : runner'[l] = runner[l]
    BY <1>2 DEF WakeInv, WakeTypeOK
  <2>. QED
    BY <1>1, <2>1, <2>3, <2>4, LoopLossless DEF WakeInv, WakeTypeOK, TakeRetarget
<1>6. BatchHasToken'
  BY <1>1, EmptyTyped DEF WakeInv, WakeTypeOK, BatchHasToken, TakeRetarget
<1>. QED
  BY <1>3, <1>4, <1>5, <1>6 DEF WakeInv

LEMMA DueInv ==
    ASSUME WakeInv, NEW k \in Loop, Due(k)
    PROVE  WakeInv'
<1>1. WakeTypeOK'
  BY DEF WakeInv, WakeTypeOK, Due
<1>2. UnmarkedIsEmpty'
  BY DEF WakeInv, UnmarkedIsEmpty, Due
<1>3. Lossless'
  BY LoopLossless DEF WakeInv, WakeTypeOK, Due, Waiting, ScopeOf, Taken, In
<1>4. BatchHasToken'
  BY DEF WakeInv, BatchHasToken, In, Due
<1>. QED
  BY <1>1, <1>2, <1>3, <1>4 DEF WakeInv

(***************************************************************************)
(* The theorems                                                            *)
(***************************************************************************)
LEMMA WakeStarts == WakeInit => WakeInv
<1> SUFFICES ASSUME WakeInit PROVE WakeInv
  OBVIOUS
<1>1. WakeTypeOK
  BY EmptyTyped DEF WakeInit, WakeTypeOK, NoCall, RunnerPC, CallerPC
<1>2. UnmarkedIsEmpty
  BY EmptyTyped DEF WakeInit, UnmarkedIsEmpty
<1>3. Lossless
  BY DEF WakeInit, Lossless, Taken, In, Loop
<1>4. BatchHasToken
  BY EmptyTyped DEF WakeInit, BatchHasToken, Loop
<1>. QED
  BY <1>1, <1>2, <1>3, <1>4 DEF WakeInv

LEMMA WakePreserved == WakeInv /\ [WakeNext]_wakeVars => WakeInv'
<1> SUFFICES ASSUME WakeInv, [WakeNext]_wakeVars PROVE WakeInv'
  OBVIOUS
<1>1. CASE UNCHANGED wakeVars
  BY <1>1 DEF wakeVars, WakeInv, WakeTypeOK, UnmarkedIsEmpty, Lossless,
              BatchHasToken,
              ScopeOf, Taken, WillAsk, In
<1>2. ASSUME NEW c \in Caller, CallerStep(c) PROVE WakeInv'
  BY <1>2, CommitInv, SaveRulesInv, RequestRetargetInv, PutTokenInv, RequestStopInv
     DEF CallerStep
<1>3. ASSUME NEW l \in Loop, LoopStep(l) PROVE WakeInv'
  BY <1>3, FullScanInv, BeginScanInv, MovesInv, TakeStopInv, TakeRetargetInv
     DEF LoopStep
<1>. QED
  BY <1>1, <1>2, <1>3, DueInv DEF WakeNext

\* Batches, queue, loops and callers agree in every reachable state, for every
\* set of targets and of callers: the inductive invariant.
THEOREM WakeInvariant == WakeSpec => []WakeInv
BY WakeStarts, WakePreserved, PTL DEF WakeSpec

\* Every variable of the wake-up keeps its type.
THEOREM TypeCorrect == WakeSpec => []WakeTypeOK
<1>1. WakeInv => WakeTypeOK
  BY DEF WakeInv
<1>. QED
  BY <1>1, WakeInvariant, PTL

\* No committed snapshot and no saved rule is dropped between the caller and the
\* scan (TargetWakeBatch.request, take).
THEOREM NothingIsLost == WakeSpec => []Lossless
<1>1. WakeInv => Lossless
  BY DEF WakeInv
<1>. QED
  BY <1>1, WakeInvariant, PTL

\* A marked batch of the retargeting loop always has its token in the queue, on
\* its way, or just taken (request_retargeting_rule_evaluation).
THEOREM TokenFollowsBatch == WakeSpec => []BatchHasToken
<1>1. WakeInv => BatchHasToken
  BY DEF WakeInv
<1>. QED
  BY <1>1, WakeInvariant, PTL
=============================================================================
