------------------------------ MODULE TokenStore ------------------------------
(***************************************************************************)
(* The authorization file of one tool account (token_provider.py): requests *)
(* that ask it for an access token and refresh it, the pages that save      *)
(* credentials, authorize, disconnect and unbind, the announcement of a     *)
(* changed authorization to the collector (configuration.py,                *)
(* official_api_authorization.py), and the catalog reader that proves what  *)
(* may be executed under the current grant (official_api_catalog.py).       *)
(***************************************************************************)
EXTENDS Integers, FiniteSets

CONSTANTS
    Caller,       \* requests of the API client that use the file
    Page,         \* page requests running at the same time
    App,          \* application ids a user may enter
    MaxRev,       \* bound: writes of the file
    MaxFault      \* bound: lost replies, failed announcements, restarts

ASSUMPTION BoundAssumption == MaxRev \in Nat \ {0} /\ MaxFault \in Nat

VARIABLES
    file,         \* the saved bundle, or NoFile
    rev,          \* writes so far: the source of revisions, generations and states
    good,         \* the platform accepts the saved access token
    spent,        \* refresh tokens the platform has exchanged
    pc, force, observed, held, snap,     \* per request: get_token
    page, read, prev, cur, event,        \* per page request
    reader, asOf,                        \* the catalog pass and its identity
    selection, proof,   \* identities the account was added and the plans were verified under
    faults,
    choice, lost, muted \* history: last decision of the user, lost reply, lost announcement

callers == <<pc, force, observed, held, snap>>
pages   == <<page, read, prev, cur, event>>
records == <<reader, asOf, selection, proof>>
vars    == <<file, rev, good, spent, callers, pages, records, faults, choice, lost, muted>>

NoFile == [app |-> "none", gen |-> 0, rev |-> 0, token |-> 0, live |-> FALSE,
           state |-> 0, fresh |-> FALSE]
NoId   == [app |-> "none", gen |-> 0]
Bundle == [app : App \cup {"none"}, gen : Nat, rev : Nat, token : Nat, live : BOOLEAN,
           state : Nat, fresh : BOOLEAN]
Identity == [app : App \cup {"none"}, gen : Nat]

Saved == file.rev # 0
Id == [app |-> file.app, gen |-> file.gen]       \* get_authorization_identity
Pending == file.state # 0 /\ file.fresh
Same(b) == Saved /\ b.rev = file.rev             \* _same_revision
Fault == faults < MaxFault /\ faults' = faults + 1

Init ==
    /\ \E a \in App, live \in BOOLEAN :
          file = [app |-> a, gen |-> 1, rev |-> 1, token |-> 1, live |-> live,
                  state |-> 0, fresh |-> FALSE]
    /\ rev = 1 /\ good \in BOOLEAN /\ spent = {}
    /\ pc = [c \in Caller |-> "idle"] /\ force = [c \in Caller |-> FALSE]
    /\ observed = [c \in Caller |-> 0] /\ held = [c \in Caller |-> 0]
    /\ snap = [c \in Caller |-> NoFile]
    /\ page = [p \in Page |-> "idle"] /\ read = [p \in Page |-> NoFile]
    /\ prev = [p \in Page |-> NoId] /\ cur = [p \in Page |-> NoId]
    /\ event = [p \in Page |-> "saved"]
    /\ reader = "idle" /\ asOf = NoId /\ selection = Id /\ proof = Id
    /\ faults = 0 /\ lost = FALSE /\ muted = FALSE
    /\ choice = [gen |-> 1, state |-> 0, fresh |-> FALSE]

(***************************************************************************)
(* get_token.  A revision, a generation, an oauth state and a refresh token *)
(* are named by the write of the file that first holds them.                *)
(***************************************************************************)
Write(b) == rev' = rev + 1 /\ file' = [b EXCEPT !.rev = rev + 1]

\* Bound: what is under way may still write.
Room == rev + Cardinality({c \in Caller : pc[c] # "idle"})
            + Cardinality({p \in Page : page[p] \in {"begin", "exchange", "wire"}}) < MaxRev

Ask(c) ==
    /\ pc[c] = "idle" /\ held[c] = 0 /\ Room
    /\ pc' = [pc EXCEPT ![c] = "wait"] /\ force' = [force EXCEPT ![c] = FALSE]
    /\ observed' = [observed EXCEPT ![c] = file.rev]
    /\ UNCHANGED <<file, rev, good, spent, held, snap, pages, records, faults, choice, lost, muted>>

\* The platform has refused the token the request was sent with.
Refused(c) ==
    /\ pc[c] = "idle" /\ held[c] # 0 /\ (held[c] # file.rev \/ ~good) /\ Room
    /\ pc' = [pc EXCEPT ![c] = "wait"] /\ force' = [force EXCEPT ![c] = TRUE]
    /\ observed' = [observed EXCEPT ![c] = held[c]]
    /\ held' = [held EXCEPT ![c] = 0]
    /\ UNCHANGED <<file, rev, good, spent, snap, pages, records, faults, choice, lost, muted>>

Answered(c) ==
    /\ pc[c] = "idle" /\ held[c] # 0
    /\ held' = [held EXCEPT ![c] = 0]
    /\ UNCHANGED <<file, rev, good, spent, pc, force, observed, snap, pages, records, faults,
                   choice, lost, muted>>

Refreshing == \E c \in Caller : pc[c] \in {"wire", "replied", "failed"}

Return(c, r) ==      \* the locals of the call are gone
    /\ pc' = [pc EXCEPT ![c] = "idle"] /\ held' = [held EXCEPT ![c] = r]
    /\ force' = [force EXCEPT ![c] = FALSE] /\ observed' = [observed EXCEPT ![c] = 0]
    /\ snap' = [snap EXCEPT ![c] = NoFile]

Reusable(c) == file.live /\ (~force[c] \/ file.rev # observed[c])

EnterIf(c, reusable) ==
    /\ pc[c] = "wait" /\ ~Refreshing
    /\ \/ reusable /\ Return(c, file.rev)
       \/ ~reusable /\ (~Saved \/ Pending) /\ Return(c, 0)
       \/ /\ ~reusable /\ Saved /\ ~Pending
          /\ pc' = [pc EXCEPT ![c] = IF file.token = 0 THEN "failed" ELSE "wire"]
          /\ snap' = [snap EXCEPT ![c] = file]
          /\ force' = [force EXCEPT ![c] = FALSE] /\ observed' = [observed EXCEPT ![c] = 0]
          /\ UNCHANGED held
    /\ UNCHANGED <<file, rev, good, spent, pages, records, faults, choice, lost, muted>>

EnterUncoalesced(c) == EnterIf(c, file.live /\ ~force[c])
Enter(c) == EnterIf(c, Reusable(c))

\* The platform exchanges a refresh token once and answers with the next one.
Exchanged(c) ==
    /\ pc[c] = "wire"
    /\ IF snap[c].token \in spent
       THEN pc' = [pc EXCEPT ![c] = "failed"] /\ UNCHANGED <<spent, faults, lost>>
       ELSE /\ spent' = spent \cup {snap[c].token}
            /\ \/ pc' = [pc EXCEPT ![c] = "replied"] /\ UNCHANGED <<faults, lost>>
               \/ Fault /\ pc' = [pc EXCEPT ![c] = "failed"] /\ lost' = TRUE
    /\ UNCHANGED <<file, rev, good, force, observed, held, snap, pages, records, choice, muted>>

Unsent(c) ==
    /\ pc[c] = "wire" /\ Fault
    /\ pc' = [pc EXCEPT ![c] = "failed"]
    /\ UNCHANGED <<file, rev, good, spent, force, observed, held, snap, pages, records, choice,
                   lost, muted>>

SaveRefreshed(c, same) ==
    /\ pc[c] = "replied"
    /\ IF same
       THEN /\ Write([snap[c] EXCEPT !.token = rev + 1, !.live = TRUE, !.state = 0, !.fresh = FALSE])
            /\ good' = TRUE /\ Return(c, rev + 1)
       ELSE Return(c, IF file.live THEN file.rev ELSE 0) /\ UNCHANGED <<file, rev, good>>
    /\ UNCHANGED <<spent, pages, records, faults, choice, lost, muted>>

SaveBlindly(c) == SaveRefreshed(c, Saved)
SaveIfExpired(c) == SaveRefreshed(c, Same(snap[c]) /\ ~file.live)
Save(c) == SaveRefreshed(c, Same(snap[c]))

Failed(c) ==
    /\ pc[c] = "failed"
    /\ Return(c, IF ~Same(snap[c]) /\ file.live THEN file.rev ELSE 0)
    /\ UNCHANGED <<file, rev, good, spent, pages, records, faults, choice, lost, muted>>

(***************************************************************************)
(* The pages.                                                               *)
(***************************************************************************)
Chosen(gen, state) == choice' = [gen |-> gen, state |-> state, fresh |-> state # 0]
Fresh(a) == [NoFile EXCEPT !.app = a, !.gen = rev + 1]   \* credentials without a grant
Announcing(p, before, after, what) ==
    /\ page' = [page EXCEPT ![p] = "announce"]
    /\ prev' = [prev EXCEPT ![p] = before] /\ cur' = [cur EXCEPT ![p] = after]
    /\ event' = [event EXCEPT ![p] = what] /\ UNCHANGED read
Answer(p) ==
    /\ page' = [page EXCEPT ![p] = "idle"] /\ read' = [read EXCEPT ![p] = NoFile]
    /\ prev' = [prev EXCEPT ![p] = NoId] /\ cur' = [cur EXCEPT ![p] = NoId]
    /\ event' = [event EXCEPT ![p] = "saved"]

Credentials(p, a) ==
    /\ page[p] = "idle" /\ Room
    /\ Write(Fresh(a)) /\ Chosen(rev + 1, 0)
    /\ Announcing(p, Id, [app |-> a, gen |-> rev + 1], "saved")
    /\ UNCHANGED <<good, spent, callers, records, faults, lost, muted>>

Unbind(p) ==      \* clear_api_tokens_keep_credentials: not announced
    /\ page[p] = "idle" /\ Saved /\ Room
    /\ Write(Fresh(file.app)) /\ Chosen(rev + 1, 0)
    /\ UNCHANGED <<good, spent, callers, pages, records, faults, lost, muted>>

Disconnect(p) ==
    /\ page[p] = "idle"
    /\ page' = [page EXCEPT ![p] = "remove"] /\ prev' = [prev EXCEPT ![p] = Id]
    /\ UNCHANGED <<file, rev, good, spent, callers, read, cur, event, records, faults, choice,
                   lost, muted>>

Remove(p) ==
    /\ page[p] = "remove"
    /\ file' = NoFile /\ Chosen(0, 0)
    /\ Announcing(p, prev[p], NoId, "disconnected")
    /\ UNCHANGED <<rev, good, spent, callers, records, faults, lost, muted>>

Begin(p) ==
    /\ page[p] = "idle" /\ Saved /\ Room
    /\ page' = [page EXCEPT ![p] = "begin"] /\ read' = [read EXCEPT ![p] = file]
    /\ UNCHANGED <<file, rev, good, spent, callers, prev, cur, event, records, faults, choice,
                   lost, muted>>

Begun(p) ==
    /\ page[p] = "begin"
    /\ \/ /\ Same(read[p])
          /\ Write([read[p] EXCEPT !.state = rev + 1, !.fresh = TRUE])
          /\ Chosen(read[p].gen, rev + 1)
       \/ ~Same(read[p]) /\ UNCHANGED <<file, rev, choice>>
    /\ Answer(p)
    /\ UNCHANGED <<good, spent, callers, records, faults, lost, muted>>

\* The user has agreed on the platform's page: finish_authorization.
Finish(p) ==
    /\ page[p] = "idle" /\ Pending /\ Room
    /\ page' = [page EXCEPT ![p] = "exchange"]
    /\ prev' = [prev EXCEPT ![p] = Id] /\ read' = [read EXCEPT ![p] = file]
    /\ UNCHANGED <<file, rev, good, spent, callers, cur, event, records, faults, choice, lost, muted>>

Exchange(p) ==
    /\ page[p] = "exchange" /\ \A q \in Page : page[q] # "wire"
    /\ IF Pending /\ file.state = read[p].state
       THEN /\ page' = [page EXCEPT ![p] = "wire"] /\ read' = [read EXCEPT ![p] = file]
            /\ UNCHANGED <<prev, cur, event>>
       ELSE Answer(p)
    /\ UNCHANGED <<file, rev, good, spent, callers, records, faults, choice, lost, muted>>

Denied(p) ==
    /\ page[p] = "wire" /\ Fault /\ Answer(p)
    /\ UNCHANGED <<file, rev, good, spent, callers, records, choice, lost, muted>>

GrantIf(p, same) ==
    /\ page[p] = "wire"
    /\ \/ /\ same
          /\ Write([Fresh(read[p].app) EXCEPT !.token = rev + 1, !.live = TRUE])
          /\ good' = TRUE /\ Chosen(rev + 1, 0)
          /\ page' = [page EXCEPT ![p] = "status"] /\ read' = [read EXCEPT ![p] = NoFile]
          /\ UNCHANGED <<prev, cur, event>>
       \/ ~same /\ Answer(p) /\ UNCHANGED <<file, rev, good, choice>>
    /\ UNCHANGED <<spent, callers, records, faults, lost, muted>>

Grant(p) == GrantIf(p, Same(read[p]))

Status(p) ==      \* the identity announced is read after the file was written
    /\ page[p] = "status"
    /\ IF prev[p] = Id THEN Answer(p) ELSE Announcing(p, prev[p], Id, "authorized")
    /\ UNCHANGED <<file, rev, good, spent, callers, records, faults, choice, lost, muted>>

\* handle_change: evidence is dropped; accounts are detached when the
\* configuration was removed or the application is another one.
Announce(p) ==
    /\ page[p] = "announce" /\ Answer(p)
    /\ LET detach == event[p] = "disconnected" \/ prev[p].app # cur[p].app
           detached == event[p] = "disconnected" \/ selection # cur[p]
       IN  IF Id # cur[p] THEN UNCHANGED <<selection, proof>>      \* superseded
           ELSE /\ proof' = IF detach /\ ~detached THEN proof ELSE NoId
                /\ selection' = IF detach /\ detached THEN NoId ELSE selection
    /\ UNCHANGED <<file, rev, good, spent, callers, reader, asOf, faults, choice, lost, muted>>

AnnounceFails(p) ==      \* _notify_authorization_changed: a warning on the page
    /\ page[p] = "announce" /\ Fault
    /\ Answer(p) /\ muted' = TRUE
    /\ UNCHANGED <<file, rev, good, spent, callers, records, choice, lost>>

(***************************************************************************)
(* The catalog pass and the account picker: the identity is read first, the *)
(* result is saved under authorization_identity_guard.                      *)
(***************************************************************************)
ReadPlans ==
    /\ reader = "idle" /\ file.token # 0
    /\ reader' = "reading" /\ asOf' = Id
    /\ UNCHANGED <<file, rev, good, spent, callers, pages, selection, proof, faults, choice,
                   lost, muted>>

Unguarded == TRUE
Guarded == Id = asOf      \* authorization_identity_guard

Reads ==
    /\ reader = "reading" /\ reader' = "idle" /\ asOf' = NoId
    /\ UNCHANGED <<file, rev, good, spent, callers, pages, faults, choice, lost, muted>>

AddAccount == Reads /\ Guarded /\ selection' = asOf /\ UNCHANGED proof
SavePlans  == Reads /\ Guarded /\ selection # NoId /\ proof' = asOf /\ UNCHANGED selection
Superseded == Reads /\ ~Guarded /\ UNCHANGED <<selection, proof>>

(***************************************************************************)
(* Time, the platform and the process.                                      *)
(***************************************************************************)
Expires ==
    /\ file.live /\ file' = [file EXCEPT !.live = FALSE]
    /\ UNCHANGED <<rev, good, spent, callers, pages, records, faults, choice, lost, muted>>

Withdrawn ==      \* the platform stops accepting the access token
    /\ good /\ good' = FALSE
    /\ UNCHANGED <<file, rev, spent, callers, pages, records, faults, choice, lost, muted>>

PendingExpires ==
    /\ Pending /\ file' = [file EXCEPT !.fresh = FALSE]
    /\ choice' = [choice EXCEPT !.fresh = FALSE]
    /\ UNCHANGED <<rev, good, spent, callers, pages, records, faults, lost, muted>>

Restart ==
    /\ Fault
    /\ pc' = [c \in Caller |-> "idle"] /\ held' = [c \in Caller |-> 0]
    /\ force' = [c \in Caller |-> FALSE] /\ observed' = [c \in Caller |-> 0]
    /\ snap' = [c \in Caller |-> NoFile]
    /\ page' = [p \in Page |-> "idle"] /\ read' = [p \in Page |-> NoFile]
    /\ prev' = [p \in Page |-> NoId] /\ cur' = [p \in Page |-> NoId]
    /\ event' = [p \in Page |-> "saved"] /\ reader' = "idle" /\ asOf' = NoId
    /\ lost' = (lost \/ \E c \in Caller : pc[c] = "replied")
    /\ muted' = (muted \/ \E p \in Page : page[p] \in {"status", "announce"})
    /\ UNCHANGED <<file, rev, good, spent, selection, proof, choice>>

Requests == \E c \in Caller : \/ Ask(c) \/ Refused(c) \/ Answered(c) \/ Enter(c) \/ Exchanged(c)
                              \/ Unsent(c) \/ Save(c) \/ Failed(c)
Pages == \E p \in Page : \/ \E a \in App : Credentials(p, a)
                         \/ Unbind(p) \/ Disconnect(p) \/ Remove(p) \/ Begin(p) \/ Begun(p)
                         \/ Finish(p) \/ Exchange(p) \/ Denied(p) \/ Grant(p) \/ Status(p)
                         \/ Announce(p) \/ AnnounceFails(p)
Next == \/ Requests \/ Pages \/ ReadPlans \/ AddAccount \/ SavePlans \/ Superseded
        \/ Expires \/ Withdrawn \/ PendingExpires \/ Restart

Spec == Init /\ [][Next]_vars

(***************************************************************************)
(* Properties.                                                              *)
(***************************************************************************)
\* Every variable has its type.
TypeOK ==
    /\ file \in Bundle /\ (Saved => file.app \in App) /\ rev \in Nat /\ good \in BOOLEAN /\ spent \subseteq Nat
    /\ pc \in [Caller -> {"idle", "wait", "wire", "replied", "failed"}]
    /\ force \in [Caller -> BOOLEAN] /\ observed \in [Caller -> Nat] /\ held \in [Caller -> Nat]
    /\ snap \in [Caller -> Bundle]
    /\ page \in [Page -> {"idle", "remove", "begin", "exchange", "wire", "status", "announce"}]
    /\ read \in [Page -> Bundle] /\ prev \in [Page -> Identity] /\ cur \in [Page -> Identity]
    /\ event \in [Page -> {"saved", "disconnected", "authorized"}]
    /\ reader \in {"idle", "reading"} /\ asOf \in Identity
    /\ selection \in Identity /\ proof \in Identity
    /\ faults \in 0..MaxFault /\ lost \in BOOLEAN /\ muted \in BOOLEAN
    /\ choice \in [gen : Nat, state : Nat, fresh : BOOLEAN]

\* What the user decided last stands: a refresh or an exchange that was on the
\* wire meanwhile neither revives a removed configuration, nor replaces newer
\* credentials or a newer grant, nor takes back an authorization that is still
\* waiting for its answer (get_token, _exchange_authorization_code_locked).
LatestChoiceStands ==
    /\ file.gen = choice.gen
    /\ choice.fresh => file.state = choice.state
    /\ file.token # 0 => file.token >= file.gen

\* A refresh is sent only for a token that is running out or was refused, also
\* when several requests were refused at once (get_token coalesces refreshes).
WorkingTokenKept ==
    [][\A c \in Caller : pc[c] = "wait" /\ pc'[c] = "wire" => ~file.live \/ ~good]_vars

\* The saved refresh token has been used up only while its successor is about to
\* be saved, when the reply was lost, or when an authorization was begun while
\* the refresh was on the wire (_refresh, get_token, begin_api_authorization).
GrantKept ==
    file.token \in spent =>
        \/ lost \/ file.state # 0
        \/ \E c \in Caller : pc[c] = "replied" /\ Same(snap[c])

\* Plans verified under an earlier grant lose that evidence before the next grant
\* has been announced, whatever the order in which changes are announced
\* (handle_change, _catalog_local_call); unless an announcement failed.
EvidenceFollowsGrant ==
    file.token # 0 /\ proof \notin {NoId, Id} =>
        \/ muted
        \/ \E p \in Page : page[p] = "status" \/ (page[p] = "announce" /\ cur[p] = Id)

\* After the configuration was cleared no account stays added once the clearing
\* has been announced, though the account picker was still answering
\* (disconnect_configuration, add_authorized_account).
ClearedMeansDetached ==
    ~Saved /\ selection # NoId =>
        muted \/ \E p \in Page : page[p] = "announce" /\ event[p] = "disconnected"
=============================================================================
