---------------------------- MODULE FollowServer ----------------------------
(***************************************************************************)
(* The follow server (src/server, src/follow): one process whose mirror    *)
(* loop copies the trades of leaders into the wallets of subscribers, and  *)
(* whose HTTP handlers run between the awaits of that loop, on the same    *)
(* SQLite database.  The loop hydrates every active subscriber when a      *)
(* cycle starts and writes them back, whole, when their leader's turn      *)
(* ends.  Privy, the chain and the owners of the wallets act on their own. *)
(*                                                                         *)
(* Every await of the loop ends an action, and whatever runs without one   *)
(* is one action or excludes the handlers (see Synchronous); a crash may   *)
(* come between any two statements that touch the disk.                    *)
(*                                                                         *)
(* Abstractions.  One owner per wallet.  Which of the trades offered to a  *)
(* subscriber pass its guardrails and its sizing is left open, but for the *)
(* checks that read this module's state: the idempotency set and the age   *)
(* of a buy.  A fill is charged one unit.  Only MODE=live is modelled.     *)
(***************************************************************************)
EXTENDS Integers, SequencesExt

CONSTANTS
    Subs,           \* wallets that may be subscribed
    Leaders,        \* LAUNCH_ROSTER
    PageLimit,      \* signatures per poll
    MaxTradeAge,    \* policy.execution.maxTradeAgeMs
    Retention,      \* processedRetentionDays
    MaxTrades,      \* bound on the leaders' trades
    MaxNow,         \* bound on the clock
    MaxStops,       \* bound on crashes and shutdowns
    MaxUnconfirmed  \* bound on swaps whose confirmation is lost

ASSUME ConstantAssumption ==
    /\ IsFiniteSet(Subs)
    /\ PageLimit \in Nat \ {0}
    /\ {MaxTradeAge, Retention, MaxTrades, MaxNow, MaxStops, MaxUnconfirmed}
           \subseteq Nat

VARIABLES
    (* the database *)
    row,        \* each wallet's row of `subscribers`
    processed,  \* its rows of `processed`: trade ids and when they were seen
    fees,       \* what the `fees` table says it owes
    (* the loop *)
    pc,         \* the await, or the write, the loop is at
    copy,       \* the subscribers hydrated for this cycle
    groups,     \* leaders whose turn is still to come in this cycle
    todo,       \* subscribers of the current leader not yet mirrored into
    unsaved,    \* subscribers of the current leader to write back at its end
    asOf,       \* nowMs of the current followCycle
    page,       \* trades of the current poll
    plan,       \* intents of Head(todo) still to execute, oldest first
    filled,     \* whether some execution of Head(todo) succeeded
    ledger,     \* feeLedger.owed
    (* the world *)
    feed,       \* the leaders' trades, in chain order
    delegated,  \* wallets that Privy would sign for
    landed,     \* mirror swaps on chain, for each wallet and trade
    now,
    (* the bounds *)
    unconfirmed,\* swaps of each wallet whose confirmation was lost
    stops       \* crashes and shutdowns

dbVars == <<row, processed, fees>>
turnVars == <<todo, unsaved, asOf, page, plan, filled>>
loopVars == <<pc, copy, groups, turnVars>>
chainVars == <<feed, landed, now>>
boundVars == <<unconfirmed, stops>>
vars == <<dbVars, loopVars, ledger, chainVars, delegated, boundVars>>

TradeIds == 1..MaxTrades
NoCursor == 0
Absent == [status |-> "absent", leader |-> "none", cursor |-> NoCursor]

\* no subscriber is hydrated
NoCopies == <<>>

\* Store.hydrate reads only the ids
Seen(s) == {p[1] : p \in processed[s]}

-----------------------------------------------------------------------------
Init ==
    /\ row = [s \in Subs |-> Absent]
    /\ processed = [s \in Subs |-> {}]
    /\ fees = [s \in Subs |-> 0]
    /\ pc = "idle"
    /\ copy = NoCopies
    /\ groups = {}
    /\ todo = <<>>
    /\ unsaved = <<>>
    /\ asOf = 0
    /\ page = {}
    /\ plan = {}
    /\ filled = FALSE
    /\ ledger = [s \in Subs |-> 0]
    /\ feed = <<>>
    /\ delegated = {}
    /\ landed = [s \in Subs |-> [t \in TradeIds |-> 0]]
    /\ now = 0
    /\ unconfirmed = [s \in Subs |-> 0]
    /\ stops = 0

-----------------------------------------------------------------------------
(* HTTP handlers.  Their last await precedes the read of the row. *)

\* No await separates these steps of the loop from the next one.
Synchronous == {"group", "persist", "upsert", "fees"}

Handler == pc \notin Synchronous

Subscribe(s, l) ==
    /\ Handler
    /\ row' = [row EXCEPT ![s] =
                  [status |-> IF @.status \in {"absent", "revoked"} THEN "pending"
                              ELSE @.status,
                   leader |-> l, cursor |-> @.cursor]]
    /\ UNCHANGED <<processed, fees, loopVars, ledger, chainVars, delegated,
                   boundVars>>

Unsubscribe(s) ==
    /\ Handler
    /\ row[s].status # "absent"
    /\ row' = [row EXCEPT ![s].status = "revoked"]
    /\ UNCHANGED <<processed, fees, loopVars, ledger, chainVars, delegated, boundVars>>

\* Nothing under src/ moves a row from pending to active: whoever confirms the
\* delegation does, on the database.
Activate(s) ==
    /\ Handler
    /\ row[s].status = "pending"
    /\ s \in delegated
    /\ row' = [row EXCEPT ![s].status = "active"]
    /\ UNCHANGED <<processed, fees, loopVars, ledger, chainVars, delegated, boundVars>>

-----------------------------------------------------------------------------
(* The mirror loop: runOnce. *)

Active == {s \in Subs : row[s].status = "active"}

LeaderOf(s) == copy[s].leader

\* store.activeByLeader, before the first await
StartCycle ==
    /\ pc = "idle"
    /\ Active # {}
    /\ copy' = [s \in Active |-> [leader |-> row[s].leader, status |-> "active",
                                  cursor |-> row[s].cursor, done |-> Seen(s)]]
    /\ groups' = {row[s].leader : s \in Active}
    /\ pc' = "group"
    /\ UNCHANGED <<dbVars, turnVars, ledger, chainVars, delegated, boundVars>>

\* followCycle fixes nowMs before it polls
StartGroup(l) ==
    /\ pc = "group"
    /\ l \in groups
    /\ groups' = groups \ {l}
    /\ todo' \in SetToSeqs({s \in DOMAIN copy : LeaderOf(s) = l})
    /\ unsaved' = todo'
    /\ asOf' = now
    /\ pc' = "poll"
    /\ UNCHANGED <<dbVars, copy, page, plan, filled, ledger, chainVars,
                   delegated, boundVars>>

\* oldestCursor: the name notwithstanding, that of the first subscriber
OldestCursor ==
    IF \E s \in ToSet(todo) : copy[s].cursor = NoCursor
    THEN NoCursor
    ELSE copy[Head(todo)].cursor

\* getSignaturesForAddress: the newest signatures of the leader, back to the
\* cursor's; a cursor that is not one of the leader's stops nothing.
Newest(l, cursor) ==
    LET of(i) == feed[i].leader = l
        from == IF cursor # NoCursor /\ of(cursor) THEN cursor ELSE 0
        all == {i \in 1..Len(feed) : of(i) /\ i > from}
    IN  {i \in all : Cardinality({j \in all : j > i}) < PageLimit}

\* A transaction that cannot be read or priced now is left out of the page.
Polled ==
    /\ pc = "poll"
    /\ page' \in SUBSET Newest(LeaderOf(Head(todo)), OldestCursor)
    /\ pc' = "serve"
    /\ UNCHANGED <<dbVars, copy, groups, todo, unsaved, asOf, plan, filled,
                   ledger, chainVars, delegated, boundVars>>

\* What was in memory for the cycle; the fee ledger outlives it.
CycleOver ==
    /\ pc' = "idle"
    /\ copy' = NoCopies
    /\ groups' = {}
    /\ todo' = <<>>
    /\ unsaved' = <<>>
    /\ asOf' = 0
    /\ page' = {}
    /\ plan' = {}
    /\ filled' = FALSE

\* A poll, or a read of the leader's book, that throws ends runOnce.
PollFails ==
    /\ pc = "poll"
    /\ CycleOver
    /\ UNCHANGED <<dbVars, ledger, chainVars, delegated, boundVars>>

-----------------------------------------------------------------------------
(* mirrorInto, for the subscriber at the head of todo. *)

Current == Head(todo)

\* The intents of a plan are executed in the order of their trades.
Due == Min(plan)

\* EligibleMutant forgets checkCommon's test for duplicates.
EligibleMutant(s) ==
    {t \in page :
        feed[t].side = "buy" => asOf - feed[t].ts <= MaxTradeAge}

\* checkCommon and checkEntry: never twice, and no buy too old when the cycle
\* began; exits are never too old.
Eligible(s) ==
    {t \in page :
        /\ t \notin copy[s].done
        /\ feed[t].side = "buy" => asOf - feed[t].ts <= MaxTradeAge}

\* The subscriber's book is read, and its whole plan made from it.
Serve ==
    /\ pc = "serve"
    /\ plan' \in SUBSET Eligible(Current)
    /\ pc' = "execute"
    /\ UNCHANGED <<dbVars, copy, groups, todo, unsaved, asOf, page, filled,
                   ledger, chainVars, delegated, boundVars>>

\* NextSubMutant does not leave this one.
NextSubMutant ==
    /\ plan' = {}
    /\ filled' = FALSE
    /\ pc' = "serve"
    /\ UNCHANGED todo

\* On to the next subscriber, or to writing them all back.
NextSub ==
    /\ plan' = {}
    /\ filled' = FALSE
    /\ todo' = Tail(todo)
    /\ pc' = IF Tail(todo) = <<>> THEN "persist" ELSE "serve"

\* An error of any await ends this subscriber's turn, and only its.
Throws ==
    /\ pc \in {"serve", "execute", "send"}
    /\ pc = "execute" => plan # {} \/ filled
    /\ NextSub
    /\ UNCHANGED <<dbVars, copy, groups, unsaved, asOf, page, ledger, chainVars,
                   delegated, boundVars>>

\* No price, no route, too much impact, no swap built; or, once sent, an error
\* on chain: the result is not ok, and the next intent is taken.
NotOk ==
    /\ pc \in {"execute", "send"}
    /\ plan # {}
    /\ plan' = plan \ {Due}
    /\ pc' = "execute"
    /\ UNCHANGED <<dbVars, copy, groups, todo, unsaved, asOf, page, filled,
                   ledger, chainVars, delegated, boundVars>>

\* signer.sign: Privy has the last word.
Sign ==
    /\ pc = "execute"
    /\ plan # {}
    /\ Current \in delegated
    /\ pc' = "send"
    /\ UNCHANGED <<dbVars, copy, groups, turnVars, ledger, chainVars, delegated,
                   boundVars>>

\* DelegationRevokedError: the delegation is gone, or Privy cannot be reached.
Refused ==
    /\ pc = "execute"
    /\ plan # {}
    /\ copy' = [copy EXCEPT ![Current].status = "revoked"]
    /\ NextSub
    /\ UNCHANGED <<dbVars, groups, unsaved, asOf, page, ledger, chainVars,
                   delegated, boundVars>>

\* sendRawTransaction, and the swap lands
Land ==
    /\ pc = "send"
    /\ landed' = [landed EXCEPT ![Current][Due] = @ + 1]
    /\ pc' = "confirm"
    /\ UNCHANGED <<dbVars, copy, groups, turnVars, ledger, feed, now, delegated,
                   boundVars>>

\* The fill is recorded in memory, and the fee accrued.
Confirmed ==
    /\ pc = "confirm"
    /\ copy' = [copy EXCEPT ![Current].done = @ \cup {Due}]
    /\ ledger' = [ledger EXCEPT ![Current] = @ + 1]
    /\ filled' = TRUE
    /\ plan' = plan \ {Due}
    /\ pc' = "execute"
    /\ UNCHANGED <<dbVars, groups, todo, unsaved, asOf, page, chainVars,
                   delegated, boundVars>>

\* confirmTransaction throws although the swap landed
ConfirmThrows ==
    /\ pc = "confirm"
    /\ unconfirmed[Current] < MaxUnconfirmed
    /\ unconfirmed' = [unconfirmed EXCEPT ![Current] = @ + 1]
    /\ NextSub
    /\ UNCHANGED <<dbVars, copy, groups, unsaved, asOf, page, ledger, chainVars,
                   delegated, stops>>

\* newestOf: the first of the trades with the latest time
NewestOf(trades) ==
    CHOOSE t \in trades :
        \A u \in trades :
            \/ feed[u].ts < feed[t].ts
            \/ feed[u].ts = feed[t].ts /\ t <= u

\* Every intent is resolved and the book reread: the cursor advances.
FinishSub ==
    /\ pc = "execute"
    /\ plan = {}
    /\ copy' = [copy EXCEPT ![Current].cursor =
                   IF page = {} THEN @ ELSE NewestOf(page)]
    /\ NextSub
    /\ UNCHANGED <<dbVars, groups, unsaved, asOf, page, ledger, chainVars,
                   delegated, boundVars>>

-----------------------------------------------------------------------------
(* The end of a leader's turn: synchronous, but a crash may interrupt it. *)

\* markProcessed ignores ids it has already
Remembered(s) ==
    processed[s] \cup ((copy[s].done \ Seen(s)) \X {now})

MarkProcessed ==
    /\ pc = "persist"
    /\ LET s == Head(unsaved)
       IN  processed' = [processed EXCEPT ![s] = Remembered(s)]
    /\ pc' = "upsert"
    /\ UNCHANGED <<row, fees, copy, groups, turnVars, ledger, chainVars,
                   delegated, boundVars>>

\* upsertSubscriber: the whole row, as hydrated
Upsert ==
    /\ pc = "upsert"
    /\ LET s == Head(unsaved)
       IN  row' = [row EXCEPT ![s] = [status |-> copy[s].status,
                                      leader |-> copy[s].leader,
                                      cursor |-> copy[s].cursor]]
    /\ unsaved' = Tail(unsaved)
    /\ pc' = IF Tail(unsaved) = <<>> THEN "fees" ELSE "persist"
    /\ UNCHANGED <<processed, fees, copy, groups, todo, asOf, page, plan, filled,
                   ledger, chainVars, delegated, boundVars>>

\* SavedFeesMutant adds the running total to the total it ran from.
SavedFeesMutant == [s \in Subs |-> fees[s] + ledger[s]]

\* saveFeeLedger overwrites
SavedFees == ledger

SaveFees ==
    /\ pc = "fees"
    /\ fees' = SavedFees
    /\ IF groups = {}
       THEN CycleOver
       ELSE /\ pc' = "group"
            /\ page' = {}
            /\ UNCHANGED <<copy, groups, todo, unsaved, asOf, plan, filled>>
    /\ UNCHANGED <<row, processed, ledger, chainVars, delegated, boundVars>>

\* pruneProcessed, between two cycles
Prune ==
    /\ pc = "idle"
    /\ processed' = [s \in Subs |-> {p \in processed[s] : p[2] >= now - Retention}]
    /\ UNCHANGED <<row, fees, loopVars, ledger, chainVars, delegated,
                   boundVars>>

-----------------------------------------------------------------------------
(* The process and the world around it. *)

\* The process dies and is started again: the ledger is loaded from the disk.
Crash ==
    /\ stops < MaxStops
    /\ stops' = stops + 1
    /\ CycleOver
    /\ ledger' = fees
    /\ UNCHANGED <<dbVars, chainVars, delegated, unconfirmed>>

\* SIGTERM: a second later the ledger is saved and the process exits, wherever
\* the cycle in flight is waiting.
Shutdown ==
    /\ stops < MaxStops
    /\ pc \notin Synchronous
    /\ stops' = stops + 1
    /\ CycleOver
    /\ fees' = SavedFees
    /\ UNCHANGED <<row, processed, ledger, chainVars, delegated, unconfirmed>>

Trade(l, side) ==
    /\ Len(feed) < MaxTrades
    /\ feed' = Append(feed, [leader |-> l, side |-> side, ts |-> now])
    /\ UNCHANGED <<dbVars, loopVars, ledger, landed, now, delegated,
                   boundVars>>

Grant(s) ==
    /\ delegated' = delegated \cup {s}
    /\ UNCHANGED <<dbVars, loopVars, ledger, chainVars, boundVars>>

\* Privy is told, the server is not
Withdraw(s) ==
    /\ delegated' = delegated \ {s}
    /\ UNCHANGED <<dbVars, loopVars, ledger, chainVars, boundVars>>

Tick ==
    /\ now < MaxNow
    /\ now' = now + 1
    /\ UNCHANGED <<dbVars, loopVars, ledger, feed, landed, delegated,
                   boundVars>>

Loop ==
    \/ StartCycle
    \/ \E l \in Leaders : StartGroup(l)
    \/ Polled
    \/ PollFails
    \/ Serve
    \/ Throws
    \/ NotOk
    \/ Sign
    \/ Refused
    \/ Land
    \/ Confirmed
    \/ ConfirmThrows
    \/ FinishSub
    \/ MarkProcessed
    \/ Upsert
    \/ SaveFees

Next ==
    \/ Loop
    \/ Prune
    \/ Crash
    \/ Shutdown
    \/ \E s \in Subs :
           \/ \E l \in Leaders : Subscribe(s, l)
           \/ Unsubscribe(s)
           \/ Activate(s)
           \/ Grant(s)
           \/ Withdraw(s)
    \/ \E l \in Leaders, side \in {"buy", "sell"} : Trade(l, side)
    \/ Tick

Spec == Init /\ [][Next]_vars

\* Every await of the loop returns or throws.
FairSpec == Spec /\ WF_vars(Loop)

-----------------------------------------------------------------------------
(* Properties. *)

Statuses == {"absent", "pending", "active", "revoked"}

DatabaseType ==
    /\ row \in [Subs -> [status: Statuses, leader: Leaders \cup {"none"},
                         cursor: {NoCursor} \cup TradeIds]]
    /\ processed \in [Subs -> SUBSET (TradeIds \X (0..MaxNow))]
    /\ fees \in [Subs -> Nat]

CycleType ==
    /\ pc \in {"idle", "group", "poll", "serve", "execute", "send", "confirm",
               "persist", "upsert", "fees"}
    /\ DOMAIN copy \subseteq Subs
    /\ \A s \in DOMAIN copy :
           copy[s] \in [leader: Leaders, status: {"active", "revoked"},
                       cursor: {NoCursor} \cup TradeIds, done: SUBSET TradeIds]
    /\ groups \subseteq Leaders
    /\ {todo, unsaved} \subseteq Seq(DOMAIN copy)
    /\ pc \in {"poll", "serve", "execute", "send", "confirm"} => todo # <<>>
    /\ pc \in {"persist", "upsert"} => unsaved # <<>>

TurnType ==
    /\ asOf \in 0..MaxNow
    /\ page \subseteq TradeIds
    /\ plan \subseteq TradeIds
    /\ pc \in {"send", "confirm"} => plan # {}
    /\ filled \in BOOLEAN
    /\ ledger \in [Subs -> Nat]

WorldType ==
    /\ feed \in Seq([leader: Leaders, side: {"buy", "sell"}, ts: 0..MaxNow])
    /\ Len(feed) <= MaxTrades
    /\ delegated \subseteq Subs
    /\ landed \in [Subs -> [TradeIds -> Nat]]
    /\ now \in 0..MaxNow
    /\ unconfirmed \in [Subs -> 0..MaxUnconfirmed]
    /\ stops \in 0..MaxStops

TypeOK == DatabaseType /\ CycleType /\ TurnType /\ WorldType

\* What the server remembers of a subscriber: while a cycle holds a copy of it,
\* the copy, otherwise the database.
Known(s) == IF s \in DOMAIN copy THEN copy[s].done ELSE Seen(s)

Signed == IF pc = "send" THEN {<<Current, Due>>} ELSE {}

Promise == INSTANCE FollowPromise WITH
    Trades <- TradeIds, done <- [s \in Subs |-> Known(s)], signed <- Signed

\* The server implements FollowPromise: whatever the handlers, Privy, a crash or
\* a shutdown do between the awaits of the loop, it signs only under a standing
\* delegation, broadcasts each signature once, never signs again for a trade it
\* remembers, and remembers only what landed.
KeepsItsPromise == Promise!Spec

SwapsOf(s) == SumFunction(landed[s])

\* "Fees accrue against the filled notional" (runner.ts:182): in memory and on
\* disk a wallet owes for no more swaps than landed in it; and between two
\* cycles of a process that was never stopped, for exactly those it saw
\* confirmed.  The ledger that is written back is a running total that outlives
\* cycles, failed polls and restarts: nothing is charged twice.
FeesAreForFills ==
    \A s \in Subs :
        /\ ledger[s] <= SwapsOf(s)
        /\ fees[s] <= SwapsOf(s)
        /\ pc = "idle" /\ stops = 0 => /\ fees[s] = ledger[s]
                                      /\ ledger[s] = SwapsOf(s) - unconfirmed[s]

\* "One subscriber's failure is their own" (runner.ts:28): whoever waits for its
\* turn in a cycle gets it, whatever goes wrong for the ones before it.
EveryoneIsServed ==
    \A s \in Subs : s \in ToSet(todo) ~> s \notin ToSet(todo)

-----------------------------------------------------------------------------
(* What comments of the code say, and the code does not do. *)

\* "Delegation withdrawn. Terminal until they grant it again" (subscriber.ts:29;
\* the table at subscriber.ts:83 lets revoked become pending and nothing else).
\* The loop writes back the status it hydrated before the owner unsubscribed.
RevokedIsTerminal ==
    [][\A s \in Subs : row[s].status = "revoked" => row'[s].status # "active"]_vars

\* "A crash between broadcasting and persisting cannot leave a trade eligible to
\* be mirrored a second time" (store.ts:204): no trade is mirrored twice into a
\* wallet, a crash or not.
MirroredOnce == \A s \in Subs : \A t \in TradeIds : landed[s][t] <= 1

\* "Failing closed means a subscriber is briefly not followed"
\* (privy-signer.ts:111): the loop revokes a subscriber only if the delegation
\* is gone, not because Privy could not be asked about it.
OnlyTheWithdrawnAreRevoked ==
    [][\A s \in DOMAIN copy \cap DOMAIN copy' :
           copy[s].status = "active" /\ copy'[s].status = "revoked"
               => s \notin delegated]_vars
=============================================================================
