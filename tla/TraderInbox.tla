----------------------------- MODULE TraderInbox -----------------------------
(***************************************************************************)
(* Traders applying to be listed: the form (ApplyPage.tsx, api.ts of the   *)
(* app), the unauthenticated endpoint behind it (src/src/server/api.ts)    *)
(* and the table it fills (src/src/server/store.ts), one row per address.  *)
(* A submission can be lost on the way, its answer can be lost or come     *)
(* back without a body, and a trader submits again when that happens.      *)
(***************************************************************************)
EXTENDS Integers, FiniteSets

CONSTANTS
    Tabs,               \* browsers with the form open
    Addresses,          \* wallets traders apply with
    Answers,            \* what a trader may say of one wallet
    Complete,           \* the answers that pass every check of the form
    ByHand,             \* the statuses the operator sets
    NoRow,              \* an address nobody applied with
    NoTime,             \* booked_at before a call is on the calendar
    NoId,               \* a tab that was given no id
    APPLICATIONS_PER_HOUR,
    Hour,               \* ticks in an hour
    MaxTime,            \* bound: the clock stops there
    MaxSubmits          \* bound: submissions per behaviour

LeadStatuses == {"new", "booked", "audited", "won", "lost"}

ASSUME InboxAssumption ==
    /\ IsFiniteSet(Addresses)
    /\ Complete \subseteq Answers
    /\ ByHand \subseteq LeadStatuses
    /\ {APPLICATIONS_PER_HOUR, Hour, MaxTime, MaxSubmits} \subseteq Nat
    /\ {NoTime, NoId} \cap Nat = {}
    /\ NoRow \notin [id: Nat, createdAt: Nat, status: LeadStatuses, bookedAt: Nat \cup {NoTime},
                     answers: Answers]

VARIABLES
    now,                \* Date.now()
    rows,               \* table applications, keyed by its unique address
    page,               \* state of ApplyPage in each tab
    requests,           \* POST /apply under way, per tab
    submits             \* submissions so far; each would be given this id

inboxVars == <<now, rows, page, requests, submits>>

FreshPage == [phase |-> "form", busy |-> FALSE, errors |-> FALSE, offline |-> FALSE, id |-> NoId]
NoRequest == [state |-> "none"]

InboxInit ==
    /\ now = 0
    /\ rows = [a \in Addresses |-> NoRow]
    /\ page = [t \in Tabs |-> FreshPage]
    /\ requests = [t \in Tabs |-> NoRequest]
    /\ submits = 0

Applied == {a \in Addresses : rows[a] # NoRow}

----------------------------------------------------------------------------
(* The form *)

Submit(t, a, answers) ==
    /\ page[t].phase = "form" /\ ~page[t].busy
    /\ submits < MaxSubmits
    /\ submits' = submits + 1
    /\ page' = [page EXCEPT ![t].busy = TRUE, ![t].errors = FALSE]
    /\ requests' = [requests EXCEPT ![t] =
            [state |-> "sent", id |-> submits, address |-> a, answers |-> answers]]
    /\ UNCHANGED <<now, rows>>

Settled(t, outcome) ==
    page' = [page EXCEPT ![t] = [outcome EXCEPT !.busy = FALSE]]

AcceptsMutant(answer) == TRUE
Accepts(answer) == answer.code = 201 /\ answer.body

Answered(t) ==
    /\ requests[t].state = "answered"
    /\ IF Accepts(requests[t])
       THEN Settled(t, [page[t] EXCEPT !.phase = "sent", !.offline = FALSE, !.id = requests[t].id])
       ELSE Settled(t, [page[t] EXCEPT !.errors = TRUE])
    /\ requests' = [requests EXCEPT ![t] = NoRequest]
    /\ UNCHANGED <<now, rows, submits>>

\* fetch rejects: the request, or its answer, was lost.
Unreachable(t) ==
    /\ requests[t].state # "none"
    /\ Settled(t, [page[t] EXCEPT !.phase = "sent", !.offline = TRUE, !.errors = TRUE])
    /\ requests' = [requests EXCEPT ![t] = NoRequest]
    /\ UNCHANGED <<now, rows, submits>>

Reload(t) ==
    /\ page[t].phase = "sent"
    /\ page' = [page EXCEPT ![t] = FreshPage]
    /\ UNCHANGED <<now, rows, requests, submits>>

----------------------------------------------------------------------------
(* The server *)

\* Every check of the draft: all of them pass, or the whole draft is refused.
validateApplication(answers) == answers \in Complete

createApplication(r) ==
    [id |-> r.id, createdAt |-> now, status |-> "new", bookedAt |-> NoTime, answers |-> r.answers]

UpsertedMutant(a, app) == app
Upserted(a, app) == IF rows[a] = NoRow THEN app ELSE [rows[a] EXCEPT !.answers = app.answers]

applicationsSinceMutant(since) == Cardinality({a \in Applied : rows[a].createdAt > since})
applicationsSince(since) == Cardinality({a \in Applied : rows[a].createdAt >= since})

\* An answer may arrive without the body it was sent with.
Answer(t, id, code) ==
    \E body \in BOOLEAN :
        requests' = [requests EXCEPT ![t] =
            [state |-> "answered", id |-> id, code |-> code, body |-> body]]

Refuse(t) ==
    /\ requests[t].state = "sent"
    /\ IF ~validateApplication(requests[t].answers) THEN Answer(t, NoId, 400)
       ELSE /\ applicationsSince(now - Hour) >= APPLICATIONS_PER_HOUR
            /\ Answer(t, NoId, 429)
    /\ UNCHANGED <<now, rows, page, submits>>

\* Validated, counted and stored without an await in between.
Store(t) ==
    LET r == requests[t]
        stored == Upserted(r.address, createApplication(r))
    IN  /\ r.state = "sent"
        /\ validateApplication(r.answers)
        /\ applicationsSince(now - Hour) < APPLICATIONS_PER_HOUR
        /\ rows' = [rows EXCEPT ![r.address] = stored]
        /\ Answer(t, stored.id, 201)
        /\ UNCHANGED <<now, page, submits>>

\* The operator, from the inbox: a status by hand; the first booking is kept.
setApplicationStatus(id, status) ==
    /\ \E a \in Applied : rows[a].id = id
    /\ rows' = [a \in Addresses |->
          IF a \notin Applied \/ rows[a].id # id THEN rows[a]
          ELSE [rows[a] EXCEPT !.status = status,
                               !.bookedAt = IF status = "booked" /\ @ = NoTime THEN now ELSE @]]
    /\ UNCHANGED <<now, page, requests, submits>>

InboxTick ==
    /\ now < MaxTime
    /\ now' = now + 1
    /\ UNCHANGED <<rows, page, requests, submits>>

InboxNext ==
    \/ \E t \in Tabs :
          \/ \E a \in Addresses, answers \in Answers : Submit(t, a, answers)
          \/ Answered(t)
          \/ Unreachable(t)
          \/ Reload(t)
          \/ Refuse(t)
          \/ Store(t)
    \/ \E id \in 0..MaxSubmits, status \in ByHand : setApplicationStatus(id, status)
    \/ InboxTick

InboxSpec == InboxInit /\ [][InboxNext]_inboxVars

----------------------------------------------------------------------------
(* Properties *)

InboxTypeOK ==
    /\ now \in 0..MaxTime
    /\ submits \in 0..MaxSubmits
    /\ rows \in [Addresses -> {NoRow} \cup
          [id: 0..MaxSubmits, createdAt: 0..MaxTime, status: LeadStatuses,
           bookedAt: 0..MaxTime \cup {NoTime}, answers: Answers]]
    /\ page \in [Tabs -> [phase: {"form", "sent"}, busy: BOOLEAN, errors: BOOLEAN,
                          offline: BOOLEAN, id: 0..MaxSubmits \cup {NoId}]]
    /\ requests \in [Tabs -> {NoRequest}
          \cup [state: {"sent"}, id: 0..MaxSubmits, address: Addresses, answers: Answers]
          \cup [state: {"answered"}, id: 0..MaxSubmits \cup {NoId}, code: {201, 400, 429},
                body: BOOLEAN]]

\* No hour, wherever it starts, records more than APPLICATIONS_PER_HOUR new
\* traders, whatever is resubmitted meanwhile (api.ts:43-51).
HourlyCeiling ==
    \A start \in 0..MaxTime :
        Cardinality({a \in Applied : rows[a].createdAt \in start..(start + Hour)})
            <= APPLICATIONS_PER_HOUR

\* A page that says an application was received is right: the address it was
\* sent with has a row, under the id the tab was given, even when the row was
\* first written by another tab or before a lost answer (ApplyPage.tsx:99-112,
\* api.ts:118-125 of the server).
ReceivedIsRecorded ==
    \A t \in Tabs :
        page[t].phase = "sent" /\ ~page[t].offline => \E a \in Applied : rows[a].id = page[t].id

\* Applying again corrects the answers and nothing else: a lead that has had
\* a call keeps its place, its id, its booking, and the status set by hand
\* (store.ts:266-273).
LeadsSurvive ==
    [][\A a \in Applied :
          /\ rows'[a].id = rows[a].id
          /\ rows'[a].createdAt = rows[a].createdAt
          /\ rows[a].bookedAt # NoTime => rows'[a].bookedAt = rows[a].bookedAt
          /\ requests' # requests => rows'[a].status = rows[a].status]_inboxVars

==============================================================================
