---------------------------- MODULE StopAttempts ----------------------------
(***************************************************************************)
(* What the submission of stops promises, without ledger, leases, retries  *)
(* and crashes: the attempts of a cycle are made one after another, each   *)
(* sends at most one request, gets at most one verdict, and only the       *)
(* verdict "failed", given to a request the platform refused, lets the     *)
(* next attempt begin.                                                     *)
(***************************************************************************)
EXTENDS Naturals

CONSTANTS Cycle, MaxTry

VARIABLES verdict,   \* what the tool says of an attempt
          request    \* what became of its request

vars == <<verdict, request>>

Try == 1 .. MaxTry
Attempt == Cycle \X Try

Init ==
    /\ verdict = [a \in Attempt |-> "none"]
    /\ request = [a \in Attempt |-> "none"]

Open(a) ==
    /\ verdict[a] = "none"
    /\ \A n \in Try : n < a[2] => verdict[<<a[1], n>>] = "failed"
    /\ verdict' = [verdict EXCEPT ![a] = "open"]
    /\ UNCHANGED request

\* A request may leave late, even after its attempt was given up for review.
Send(a) ==
    /\ request[a] = "none"
    /\ verdict[a] \in {"open", "succeeded", "review"}
    /\ request' = [request EXCEPT ![a] = "flying"]
    /\ UNCHANGED verdict

Resolve(a) ==
    /\ request[a] = "flying"
    /\ \E r \in {"applied", "refused"} : request' = [request EXCEPT ![a] = r]
    /\ UNCHANGED verdict

Settle(a) ==
    /\ verdict[a] = "open"
    /\ \/ verdict' = [verdict EXCEPT ![a] = "succeeded"]
       \/ verdict' = [verdict EXCEPT ![a] = "review"]
       \/ /\ request[a] = "refused"
          /\ verdict' = [verdict EXCEPT ![a] = "failed"]
    /\ UNCHANGED request

Next == \E a \in Attempt : Open(a) \/ Send(a) \/ Resolve(a) \/ Settle(a)

Spec == Init /\ [][Next]_vars
=============================================================================
