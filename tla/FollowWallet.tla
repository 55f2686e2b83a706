----------------------------- MODULE FollowWallet -----------------------------
(***************************************************************************)
(* The same plan mirrored into a follower's own wallet: mirrorInto and     *)
(* followCycle of src/src/follow/runner.ts over src/src/follow/            *)
(* wallet-state.ts.  The book is read from the chain at the start of each  *)
(* cycle and again at its end; what a balance cannot tell (the day's       *)
(* spending, the last exits) is remembered, and a throw loses what the     *)
(* cycle would have added.  The owner trades the wallet by hand as well.   *)
(***************************************************************************)
EXTENDS MirrorPlan

CONSTANTS
    DUST_USD,           \* a position worth less is not counted
    MaxLost,            \* bound: cycles that throw
    MaxHand             \* bound: moves of the owner

ASSUME FollowWalletAssumption == {DUST_USD, MaxLost, MaxHand} \subseteq Nat

VARIABLES
    terms,              \* the subscriber's policy
    sub,                \* Subscriber: cursor, processed, utcDay
    memory,             \* FollowMemory: deployed, lastExit
    wallet,             \* the wallet on chain: quote and positions
    round,              \* the cycle under way
    spent,              \* history: dollars put into buys this day
    lost,               \* cycles that threw
    hand                \* moves of the owner

followVars == <<terms, sub, memory, wallet, round, spent, lost, hand>>

Waiting == [step |-> "waiting"]
emptyMemory == [deployed |-> 0, lastExit |-> [a \in Assets |-> NoExit]]

Subscriber == [cursor: Nat, processed: SUBSET (0..MaxTrades), day: Nat]
FollowMemory == [deployed: Nat, lastExit: [Assets -> Nat \cup {NoExit}]]
WalletBook == [quote: Nat, pos: [Assets -> Position \cup {NoPos}]]

ReadingRound ==
    [step: {"reading"}, at: 0..MaxTime, trades: Seq(LeaderTrade) \cup {NotRead},
     book: LeaderBook \cup {NotRead}, late: BOOLEAN]
ActingRound ==
    [step: {"executing", "report"}, at: 0..MaxTime, trades: Seq(LeaderTrade), book: LeaderBook,
     late: BOOLEAN, refused: BOOLEAN, seen: SUBSET (0..MaxTrades), before: VaultState,
     deployed: Nat, filled: BOOLEAN, intents: Seq(MirrorIntent)]

FollowTypeOK ==
    /\ terms \in Policies
    /\ sub \in Subscriber
    /\ memory \in FollowMemory
    /\ wallet \in WalletBook
    /\ round \in {Waiting} \cup ReadingRound \cup ActingRound
    /\ spent \in Nat
    /\ lost \in 0..MaxLost
    /\ hand \in 0..MaxHand

FollowInit ==
    /\ terms \in Policies
    /\ sub = [cursor |-> 0, processed |-> {}, day |-> 0]
    /\ memory = emptyMemory
    /\ wallet = [quote |-> Equity, pos |-> [a \in Assets |-> NoPos]]
    /\ round = Waiting
    /\ spent = 0
    /\ lost = 0
    /\ hand = 0

\* The engine's view of the wallet: dust is not a position.
vaultStateFromWallet(mem) ==
    LET counted == {a \in Held(wallet) : wallet.pos[a].usd >= DUST_USD /\ wallet.pos[a].amount > 0}
    IN  [equity |-> wallet.quote + SumFunction([a \in Assets |-> Usd(wallet, a)]),
         quote |-> wallet.quote,
         pos |-> [a \in Assets |-> IF a \in counted THEN wallet.pos[a] ELSE NoPos],
         deployed |-> mem.deployed,
         lastExit |-> mem.lastExit]

----------------------------------------------------------------------------
(* The owner and the market, behind the loop's back *)

OwnerSells(a) ==
    /\ hand < MaxHand /\ a \in Held(wallet)
    /\ wallet' = [wallet EXCEPT !.pos[a] = NoPos, !.quote = @ + Usd(wallet, a)]
    /\ hand' = hand + 1
    /\ UNCHANGED <<leaderVars, terms, sub, memory, round, spent, lost>>

Devalued(a) ==
    /\ hand < MaxHand /\ a \in Held(wallet)
    /\ wallet' = [wallet EXCEPT !.pos[a].usd = 0]
    /\ hand' = hand + 1
    /\ UNCHANGED <<leaderVars, terms, sub, memory, round, spent, lost>>

----------------------------------------------------------------------------
(* followCycle, for one subscriber *)

StartCycle ==
    /\ round = Waiting
    /\ round' = [step |-> "reading", at |-> now, trades |-> NotRead, book |-> NotRead, late |-> FALSE]
    /\ UNCHANGED <<leaderVars, terms, sub, memory, wallet, spent, lost, hand>>

WatcherAnswers ==
    /\ round.step = "reading" /\ round.trades = NotRead
    /\ round' = [round EXCEPT !.trades = poll(sub.cursor).trades, !.late = round.book = NotRead]
    /\ UNCHANGED <<leaderVars, terms, sub, memory, wallet, spent, lost, hand>>

LeaderBookAnswers ==
    /\ round.step = "reading" /\ round.book = NotRead
    /\ round' = [round EXCEPT !.book = leader]
    /\ UNCHANGED <<leaderVars, terms, sub, memory, wallet, spent, lost, hand>>

rollDayFor(mem) == IF sub.day = utcDay(round.at) THEN mem ELSE [mem EXCEPT !.deployed = 0]

\* Every mark is the book just read, so no breaker but the pause can trip.
MarksNow(before) == [highWater |-> before.equity, startOfDay |-> before.equity,
                     leaderStartOfDay |-> round.book.total]

PlanRound ==
    LET mem == rollDayFor(memory)
        before == vaultStateFromWallet(mem)
    IN  /\ round.step = "reading" /\ round.trades # NotRead /\ round.book # NotRead
        /\ memory' = mem
        /\ sub' = [sub EXCEPT !.day = utcDay(round.at)]
        /\ spent' = IF sub.day = utcDay(round.at) THEN spent ELSE 0
        /\ \E markets \in Markets(round.trades) :
              round' = [step |-> "executing", at |-> round.at, trades |-> round.trades,
                        book |-> round.book, late |-> round.late, refused |-> FALSE,
                        seen |-> sub.processed, before |-> before, deployed |-> 0, filled |-> FALSE,
                        intents |-> planCycle(terms, round.trades, round.book, before, markets,
                                              sub.processed, MarksNow(before), round.at)]
        /\ UNCHANGED <<leaderVars, terms, wallet, lost, hand>>

Intent == Head(round.intents)
Executing == round.step = "executing" /\ round.intents # <<>>

\* The amount an exit asks for is a fraction of what was held before the
\* cycle, whatever earlier intents of the batch did.
PositionAmount(a) == Amount(round.before, a)
ToSell == Of(Intent.fraction, PositionAmount(Intent.asset))

\* The chain executes a buy the quote covers and a sale the balance covers.
Executable ==
    IF Intent.kind = "buy" THEN Intent.usd <= wallet.quote
    ELSE ToSell > 0 /\ ToSell <= Amount(wallet, Intent.asset)

Landed ==
    LET a == Intent.asset
        value == (Usd(wallet, a) * ToSell) \div Amount(wallet, a)
    IN  IF Intent.kind = "buy"
        THEN [quote |-> wallet.quote - Intent.usd,
              pos |-> [wallet.pos EXCEPT ![a] = [amount |-> Amount(wallet, a) + Intent.usd,
                                                 usd |-> Usd(wallet, a) + Intent.usd]]]
        ELSE [quote |-> wallet.quote + value,
              pos |-> [wallet.pos EXCEPT ![a] =
                          IF ToSell = Amount(wallet, a) THEN NoPos
                          ELSE [amount |-> @.amount - ToSell, usd |-> @.usd - value]]]

Cost == IF Intent.kind = "buy" THEN Intent.usd ELSE 0

Fills ==
    /\ Executing /\ Executable
    /\ wallet' = Landed
    /\ sub' = [sub EXCEPT !.processed = @ \cup {Intent.id}]
    /\ spent' = spent + Cost
    /\ round' = [round EXCEPT !.intents = Tail(@), !.deployed = @ + Cost, !.filled = TRUE]
    /\ UNCHANGED <<leaderVars, terms, memory, lost, hand>>

\* Not executed: refused by the market (no route, no price, too much impact),
\* or because it asks for nothing or for more than there is.
Refused ==
    /\ Executing
    /\ round' = [round EXCEPT !.intents = Tail(@), !.refused = @ \/ Executable]
    /\ UNCHANGED <<leaderVars, terms, sub, memory, wallet, spent, lost, hand>>

Throws(landed) ==
    /\ Executing
    /\ lost < MaxLost
    /\ landed => Executable
    /\ IF landed THEN wallet' = Landed /\ spent' = spent + Cost ELSE UNCHANGED <<wallet, spent>>
    /\ lost' = lost + 1
    /\ round' = Waiting
    /\ UNCHANGED <<leaderVars, terms, sub, memory, hand>>

DeployedMutant == memory.deployed
Deployed == memory.deployed + round.deployed

rememberCycle(before, after, at) ==
    [deployed |-> Deployed,
     lastExit |-> [a \in Assets |-> IF a \in Held(before) \ Held(after) THEN at
                                    ELSE memory.lastExit[a]]]

\* The newest trade by block time; the first of those that share it.
newestOf(trades) ==
    (CHOOSE t \in Range(trades) : \A u \in Range(trades) :
        t.ts > u.ts \/ (t.ts = u.ts /\ t.id <= u.id)).id

EndRound ==
    /\ round.step = "executing" /\ round.intents = <<>>
    /\ LET after == IF round.filled THEN vaultStateFromWallet(memory) ELSE round.before
       IN  memory' = rememberCycle(round.before, after, round.at)
    /\ sub' = [sub EXCEPT !.cursor = IF round.trades = <<>> THEN @ ELSE newestOf(round.trades)]
    /\ round' = [round EXCEPT !.step = "report"]
    /\ UNCHANGED <<leaderVars, terms, wallet, spent, lost, hand>>

Reported ==
    /\ round.step = "report"
    /\ round' = Waiting
    /\ UNCHANGED <<leaderVars, terms, sub, memory, wallet, spent, lost, hand>>

FollowNext ==
    \/ \E a \in Assets : OwnerSells(a) \/ Devalued(a)
    \/ StartCycle
    \/ WatcherAnswers
    \/ LeaderBookAnswers
    \/ PlanRound
    \/ Fills
    \/ Refused
    \/ \E landed \in BOOLEAN : Throws(landed)
    \/ EndRound
    \/ Reported

FollowWalletSpec ==
    /\ LeaderInit /\ FollowInit
    /\ [][FollowNext \/ (LeaderNext /\ UNCHANGED followVars)]_<<leaderVars, followVars>>

----------------------------------------------------------------------------
(* Properties *)

\* A day spends its budget once, and once more for each cycle that threw and
\* forgot what it had spent (wallet-state.ts:28-36, runner.ts:193-198).
SpendingBounded == spent <= (1 + lost) * pct(terms.dailyDeployPct, Equity)

(* What a cycle reports of an asset, when the market refused nothing and the *)
(* leader's book was read after the trades.                                  *)
Followed == round.step = "report" /\ ~round.refused /\ round.late /\ ~terms.paused

\* The k-th trade of the batch exits a, no other trades it, and it was not seen.
LoneExit(a, k) ==
    /\ round.trades[k].asset = a /\ round.trades[k].side = "sell"
    /\ round.trades[k].id \notin round.seen
    /\ \A i \in DOMAIN round.trades : round.trades[i].asset = a => i = k

\* When an exit of an asset is all of it in a batch, the follower keeps no larger
\* part than the leader did, a token aside, which rounding may leave
\* (sizing.ts:112-120).
ExitKeepsUp ==
    Followed /\ hand = 0 =>
        \A a \in Held(round.before) : \A k \in DOMAIN round.trades :
            LoneExit(a, k) =>
                (Amount(wallet, a) - 1) * (round.book.hold[a] + round.trades[k].amount)
                    <= Amount(round.before, a) * round.book.hold[a]

TradesOf(a) == SelectSeq(round.trades, LAMBDA t : t.asset = a)

\* What types.ts:111-113 says of an exit, "Fraction of the vault's current
\* position to dispose": a leader who left an asset within a batch leaves no
\* follower holding it.
LeavesWithTheLeader ==
    Followed =>
        \A a \in Assets :
            (/\ TradesOf(a) # <<>> /\ Last(TradesOf(a)).side = "sell"
             /\ round.book.hold[a] = 0
             /\ \A t \in Range(TradesOf(a)) : t.id \notin round.seen)
            => a \notin Held(wallet)

==============================================================================
