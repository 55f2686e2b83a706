------------------------------ MODULE Dashboard ------------------------------
(***************************************************************************)
(* The web application in one browser tab (app/src): the route and the one *)
(* file every page reads (App.tsx, router.ts), a trader's page             *)
(* (TraderPage.tsx), signing in and authorising trades through Privy       *)
(* (auth.tsx, SignInButton.tsx, FollowPanel.tsx), and the calendar behind  *)
(* the application form (CalendlyEmbed.tsx).  Requests, Privy's calls and  *)
(* scripts end in any order, some after the page that started them closed. *)
(***************************************************************************)
EXTENDS Integers, FiniteSets

CONSTANTS
    Roster,             \* leaders of app.json
    Strangers,          \* leaders linked to that are not on it
    Audited,            \* leaders with a published profile
    configured,         \* VITE_PRIVY_APP_ID is set
    canDelegate,        \* VITE_PRIVY_SIGNER_ID is set
    NoProfile,
    MaxVisits,          \* bound: changes of the hash
    MaxRuns             \* bound: clicks that call Privy

ASSUME DashboardAssumption ==
    /\ {configured, canDelegate} \subseteq BOOLEAN
    /\ {MaxVisits, MaxRuns} \subseteq Nat
    /\ NoProfile \notin Roster \cup Strangers
    /\ (Roster \cup Strangers) \cap {"roster", "apply", "docs", "not-found"} = {}

VARIABLES
    route,              \* useRoute(); a leader stands for that trader's page
    data,               \* App: app.json
    profiles,           \* App: the profiles it read for all pages
    trader,             \* TraderPage: profile and missing; heard, its own leader's answer is in
    reads,              \* TraderPage: profiles it asked for, unanswered
    session,            \* usePrivy(), and the delegation on its user record
    signIn,             \* the sign-in button is busy; Privy's dialog is open
    granted,            \* what Privy itself has on record
    panel,              \* FollowPanel: busy and error
    runs,               \* calls of delegate() and revoke() that Privy has not ended
    calendar,           \* CalendlyEmbed; stuck: its skeleton is up and no event will take it down
    script,             \* its tag in the document's head; empty: loaded without window.Calendly
    visits, clicks      \* changes of route and calls so far

dashboardVars ==
    <<route, data, profiles, trader, reads, session, signIn, granted, panel, runs,
      calendar, script, visits, clicks>>

parseRoute == {"roster", "apply", "docs", "not-found"} \cup Roster \cup Strangers
Unread == [profile |-> NoProfile, missing |-> FALSE, heard |-> FALSE]
SignedOut == [state |-> "out", wallet |-> FALSE, delegated |-> FALSE]
IdlePanel == [busy |-> "none", error |-> FALSE]

DashboardInit ==
    /\ route \in parseRoute
    /\ data = "loading"
    /\ profiles = {}
    /\ trader = Unread
    /\ reads = {}
    /\ session = [SignedOut EXCEPT !.state = IF configured THEN "connecting" ELSE "out"]
    /\ signIn = {}
    /\ granted = FALSE
    /\ panel = IdlePanel
    /\ runs = {}
    /\ calendar = "closed"
    /\ script = "absent"
    /\ visits = 0
    /\ clicks = 0

----------------------------------------------------------------------------
(* Pages *)

TraderShown(to, got) == got = "loaded" /\ to \in Roster \cup Strangers
PanelShown(to, got) == got = "loaded" /\ to \in Roster

\* What opens, closes and is asked for when `to` is shown with `got`.  A
\* trader's page that follows another is the same component with a new leader.
Show(to, got) ==
    /\ IF TraderShown(to, got)
       THEN /\ trader' = Unread
            /\ reads' = {r \in reads : TraderShown(route, data)}
                            \cup {[leader |-> to, visit |-> visits]}
       ELSE trader' = Unread /\ reads' = {}
    /\ IF PanelShown(to, got) /\ PanelShown(route, data) THEN UNCHANGED <<panel, runs>>
       ELSE panel' = IdlePanel /\ runs' = {[r EXCEPT !.here = FALSE] : r \in runs}

navigate(to) ==
    /\ visits < MaxVisits
    /\ to # route
    /\ route' = to
    /\ visits' = visits + 1
    /\ Show(to, data)
    /\ calendar' = "closed"
    /\ UNCHANGED <<data, profiles, session, signIn, granted, script, clicks>>

DataRead(got) ==
    /\ data = "loading"
    /\ data' = got
    /\ Show(route, got)
    /\ UNCHANGED <<route, profiles, session, signIn, granted, calendar, script, visits, clicks>>

\* A profile that cannot be had is left out; the others are set together.
ProfilesRead(found) ==
    /\ data = "loaded"
    /\ profiles = {}
    /\ profiles' = found
    /\ UNCHANGED <<route, data, trader, reads, session, signIn, granted, panel, runs,
                   calendar, script, visits, clicks>>

TraderRead(r, ok) ==
    /\ ok => r.leader \in Audited
    /\ reads' = reads \ {r}
    /\ trader' = [profile |-> IF ok THEN r.leader ELSE trader.profile,
                  missing |-> trader.missing \/ ~ok,
                  heard |-> trader.heard \/ r.leader = route]
    /\ UNCHANGED <<route, data, profiles, session, signIn, granted, panel, runs,
                   calendar, script, visits, clicks>>

----------------------------------------------------------------------------
(* Signing in *)

OnlySession == UNCHANGED <<route, data, profiles, trader, reads, granted, panel, runs,
                           calendar, script, visits, clicks>>

Ready ==
    /\ session.state = "connecting"
    /\ \E state \in {"out", "in"} : session' = [session EXCEPT !.state = state]
    /\ UNCHANGED signIn /\ OnlySession

login ==
    /\ session.state = "out" /\ configured
    /\ "busy" \notin signIn
    /\ signIn' = {"busy", "modal"}
    /\ UNCHANGED session /\ OnlySession

\* The button is idle again soon, whatever Privy's dialog does.
LoginIdle ==
    /\ "busy" \in signIn
    /\ signIn' = signIn \ {"busy"}
    /\ UNCHANGED session /\ OnlySession

LoginEnds(signedIn) ==
    /\ "modal" \in signIn
    /\ signIn' = signIn \ {"modal"}
    /\ session' = IF signedIn THEN [session EXCEPT !.state = "in"] ELSE session
    /\ OnlySession

\* The wallet is created, or the user record read again.
Refreshed ==
    /\ session.state = "in"
    /\ session' = [session EXCEPT !.wallet = TRUE, !.delegated = granted]
    /\ UNCHANGED signIn /\ OnlySession

logout ==
    /\ session.state = "in"
    /\ session' = SignedOut
    /\ UNCHANGED signIn /\ OnlySession

----------------------------------------------------------------------------
(* Authorising *)

OnlyPanel == UNCHANGED <<route, data, profiles, trader, reads, session, signIn, calendar, script, visits>>

\* The panel offers one of the two buttons, disabled while its own call runs.
Offered(kind) ==
    /\ PanelShown(route, data)
    /\ session.state = "in" /\ session.wallet
    /\ session.delegated <=> kind = "revoke"
    /\ kind = "delegate" => canDelegate
    /\ panel.busy # kind

run(kind) ==
    /\ Offered(kind)
    /\ clicks < MaxRuns
    /\ clicks' = clicks + 1
    /\ panel' = [busy |-> kind, error |-> FALSE]
    /\ runs' = runs \cup {[id |-> clicks, kind |-> kind, here |-> TRUE, waited |-> TRUE]}
    /\ UNCHANGED granted
    /\ OnlyPanel

\* Mutant: busy is cleared by a call that succeeds, not by one that fails.
PanelSettlesMutant(r, error) ==
    panel' = IF r.here /\ r.waited /\ ~error THEN IdlePanel ELSE panel
\* catch and finally, in the panel that made the call if it is still there.
PanelSettles(r, error) ==
    panel' = IF r.here /\ r.waited THEN [busy |-> "none", error |-> error] ELSE panel

\* Privy ends a call: done, dismissed by the user, or failed.
RunEnds(r, outcome) ==
    /\ runs' = runs \ {r}
    /\ granted' = IF outcome = "done" THEN r.kind = "delegate" ELSE granted
    /\ PanelSettles(r, CASE outcome = "done" -> panel.error [] outcome = "dismissed" -> FALSE [] OTHER -> TRUE)
    /\ UNCHANGED clicks
    /\ OnlyPanel

\* The panel stops waiting after 90 seconds; Privy's call goes on.
withTimeout(r) ==
    /\ r.waited
    /\ runs' = (runs \ {r}) \cup {[r EXCEPT !.waited = FALSE]}
    /\ PanelSettles(r, TRUE)
    /\ UNCHANGED <<granted, clicks>>
    /\ OnlyPanel

----------------------------------------------------------------------------
(* The calendar *)

OnlyCalendar == UNCHANGED <<route, data, profiles, trader, reads, session, signIn, granted,
                            panel, runs, visits, clicks>>

\* The form was sent: the embed mounts the widget, or listens to a tag that may
\* have ended already.
OpenCalendar ==
    /\ route = "apply" /\ calendar = "closed"
    /\ CASE script = "loaded" -> calendar' \in {"ready", "failed"}
         [] script \in {"absent", "loading"} -> calendar' = "waiting"
         [] script \in {"empty", "refused"} -> calendar' = "stuck"
    /\ script' = IF script = "absent" THEN "loading" ELSE script
    /\ OnlyCalendar

\* A tag that loaded without defining the widget is neither mounted nor failed.
ScriptEnds ==
    /\ script = "loading"
    /\ \/ script' \in {"loaded", "empty", "refused"} /\ calendar # "waiting" /\ UNCHANGED calendar
       \/ script' = "loaded" /\ calendar = "waiting" /\ calendar' \in {"ready", "failed"}
       \/ script' = "empty" /\ calendar = "waiting" /\ calendar' = "stuck"
       \/ script' = "refused" /\ calendar = "waiting" /\ calendar' = "failed"
    /\ OnlyCalendar

----------------------------------------------------------------------------

DashboardNext ==
    \/ \E to \in parseRoute : navigate(to)
    \/ \E got \in {"loaded", "failed"} : DataRead(got)
    \/ \E found \in SUBSET (Roster \cap Audited) : ProfilesRead(found)
    \/ \E r \in reads, ok \in BOOLEAN : TraderRead(r, ok)
    \/ Ready
    \/ login
    \/ LoginIdle
    \/ \E signedIn \in BOOLEAN : LoginEnds(signedIn)
    \/ Refreshed
    \/ logout
    \/ \E kind \in {"delegate", "revoke"} : run(kind)
    \/ \E r \in runs, outcome \in {"done", "dismissed", "failed"} : RunEnds(r, outcome)
    \/ \E r \in runs : withTimeout(r)
    \/ OpenCalendar
    \/ ScriptEnds

DashboardSpec == DashboardInit /\ [][DashboardNext]_dashboardVars

----------------------------------------------------------------------------
(* Properties *)

\* Nobody waits for what has ended, but for one calendar.  A button that reads
\* "waiting for your approval" has a call of its own kind behind it, with the
\* timer still to go, however delegations and revocations overlapped and pages
\* were left.  A trader's page whose own answer is not in has asked for it, also
\* when another trader's late answer filled it meanwhile; once it is in the page
\* is not empty.  A calendar's skeleton has its script on the way; it stays for
\* good only if the script came without the widget or was refused before, and
\* never once the widget is there (FollowPanel.tsx:65-83, TraderPage.tsx:32-39,
\* CalendlyEmbed.tsx:59-96).
NobodyWaitsInVain ==
    /\ panel.busy # "none" => \E r \in runs : r.here /\ r.waited /\ r.kind = panel.busy
    /\ TraderShown(route, data) =>
          IF trader.heard THEN trader.profile # NoProfile \/ trader.missing
          ELSE \E r \in reads : r.leader = route
    /\ calendar = "waiting" => script = "loading"
    /\ calendar = "stuck" => script \in {"empty", "refused"}

==============================================================================
