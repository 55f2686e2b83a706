---------------------------- MODULE TraderProfile ----------------------------
(***************************************************************************)
(* A trader is scored (src/src/platform/shortlist.ts, profile.ts): the     *)
(* fills a history call returned, from some point of the tape on, are      *)
(* graded twice, as someone to copy and as a trader, and the first grade   *)
(* decides whether they are offered a seat.  `held` is what the trader     *)
(* really has, which neither scorer sees.                                  *)
(***************************************************************************)
EXTENDS Ability

CONSTANTS
    Buys, Sells,            \* the [qty, usd] a fill may have
    Gaps,                   \* [sec, early]: seconds after the fill before, and whether
                            \* its id sorts before that one's in the same second
    Markets,                \* [prices, book, candles]: what market data may answer when
                            \* a score is made; book in dollars, or Unmeasured
    Rivals,                 \* scores of the other candidates, in the order given
    judgeLatencySec,
    minComposite, minCapacityUsd, seats,
    NowLag,                 \* seconds from the last fill to the scoring
    NoScore,
    MaxFills                \* bound: the length of the tape

ASSUME ProfileAssumption ==
    /\ Buys \cup Sells \subseteq [qty : Nat \ {0}, usd : Nat \ {0}]
    /\ Gaps \subseteq [sec : Nat, early : BOOLEAN]
    /\ \A view \in Markets : view.prices \in [Tokens -> {Unmeasured} \cup [px : Nat, liq : Nat]]
    /\ \A view \in Markets : view.candles \subseteq
            [token : Tokens, ts : Nat, open : Nat, high : Nat, close : Nat]
    /\ \A view \in Markets : IsFiniteSet(view.candles)
    /\ \A view \in Markets : view.book \in {Unmeasured} \cup (Nat \ {0})
    /\ {minClosedEpisodes, consistencyBucketSec, maxPctOfLiquidity, seats, MaxFills} \subseteq Nat \ {0}
    /\ {minViableVaultUsd, horizonSec, toleranceSec, candleSec, minConsistencyBuckets,
        judgeLatencySec, minComposite, minCapacityUsd, NowLag} \subseteq Nat
    /\ minComposite > 35        \* the most a loser, or one a delay undoes, can score
    /\ Rivals \in Seq([composite : Int \cup {Unmeasured}, capacityUsd : Int \cup {Unmeasured}])
    /\ IsFiniteSet(Tokens)

\* null is neither a number nor an episode.
ASSUME NullAssumption ==
    /\ Unmeasured \notin Int
    /\ Unmeasured \notin Episode

VARIABLES
    tape,           \* the trader's fills in the order of the chain
    held,           \* what the trader holds of each token
    score           \* what the page shows, NoScore until it is computed

profileVars == <<tape, held, score>>

ProfileInit ==
    /\ tape = <<>>
    /\ held = [t \in Tokens |-> 0]
    /\ score = NoScore

\* One more fill.  Two in one second are told apart by the text of their
\* signatures, which says nothing of their order.
trade(asset, side, size, gap) ==
    LET n == Len(tape) + 1
        last == IF tape = <<>> THEN 0 ELSE tape[Len(tape)].ts
    IN  /\ n <= MaxFills
        /\ side = "sell" => held[asset] >= size.qty
        /\ tape' = Append(tape, [ts |-> last + gap.sec, id |-> IF gap.early THEN -n ELSE n,
                                 asset |-> asset, side |-> side, qty |-> size.qty, usd |-> size.usd])
        /\ held' = [held EXCEPT ![asset] = IF side = "buy" THEN @ + size.qty ELSE @ - size.qty]
        /\ score' = NoScore

Buy == \E t \in Tokens, size \in Buys, gap \in Gaps : trade(t, "buy", size, gap)
Sell == \E t \in Tokens, size \in Sells, gap \in Gaps : trade(t, "sell", size, gap)

-----------------------------------------------------------------------------
(* shortlist *)

eligible(c) ==
    /\ c.composite # Unmeasured /\ c.composite >= minComposite
    /\ c.capacityUsd # Unmeasured /\ c.capacityUsd >= minCapacityUsd

\* Best first among the eligible, equals in the order given.
Ahead(candidates, i) ==
    {j \in DOMAIN candidates :
        /\ eligible(candidates[j])
        /\ \/ candidates[j].composite > candidates[i].composite
           \/ candidates[j].composite = candidates[i].composite /\ j < i}

shortlist(candidates) ==
    [i \in DOMAIN candidates |->
        IF ~ eligible(candidates[i]) THEN "pass"
        ELSE IF Cardinality(Ahead(candidates, i)) < seats THEN "list" ELSE "watch"]

\* scoreCandidate and buildTraderProfile over one history.  Tokens the market
\* source does not know, and a book it cannot value, stay Unmeasured.
scoreCandidate(from, view) ==
    LET trades == SubSeq(tape, from, Len(tape))
        eps == buildEpisodes(trades)
        observed == ObservedFrom(trades, view.prices, trades[Len(trades)].ts + NowLag)
        path == [candles |-> view.candles, observed |-> observed]
        copy == scoreEpisodes(eps, view.prices, view.book, judgeLatencySec)
        mine == [composite |-> copy.composite, capacityUsd |-> copy.capacityUsd]
    IN  [from |-> from, copy |-> copy, ability |-> buildProfile(eps, path, view.book),
         rooms |-> ImpliedCapacities(eps, view.prices, view.book),
         verdicts |-> shortlist(Append(Rivals, mine))]

Score ==
    /\ score = NoScore
    /\ \E from \in DOMAIN tape, view \in Markets : score' = scoreCandidate(from, view)
    /\ UNCHANGED <<tape, held>>

ProfileNext == Buy \/ Sell \/ Score

ProfileSpec == ProfileInit /\ [][ProfileNext]_profileVars

-----------------------------------------------------------------------------
(* What the tape itself says, without episodes. *)

Fills(t, i) == {k \in 1..i : tape[k].asset = t}

Signed == [k \in DOMAIN tape |-> IF tape[k].side = "buy" THEN tape[k].qty ELSE -tape[k].qty]
Cash == [k \in DOMAIN tape |->
            (IF tape[k].side = "sell" THEN tape[k].usd ELSE -tape[k].usd) - fomoFeeUsd(tape[k].usd)]
HeldAt(t, i) == SumFunctionOnSet(Signed, Fills(t, i))
BoughtIn(t, from, i) ==
    SumFunctionOnSet(Signed, {k \in Fills(t, i) : k >= from /\ tape[k].side = "buy"})

\* Cash the trader took out of a token up to the last moment they had none.
Banked(t, from) ==
    LET flat == Max({i \in (from - 1)..Len(tape) : HeldAt(t, i) = 0})
    IN  SumFunctionOnSet(Cash, {k \in Fills(t, flat) : k >= from})

Realised(from) == SumFunction([t \in Tokens |-> Banked(t, from)])

\* A tape the scorers can read: nothing held before the window opens, no
\* remainder small enough to pass for none, and no two fills of a token in one
\* second whose signatures sort the other way round.
Readable(from) ==
    /\ \A t \in Tokens : HeldAt(t, from - 1) = 0
    /\ \A t \in Tokens, i \in from..Len(tape) :
          \/ HeldAt(t, i) = 0
          \/ HeldAt(t, i) * 100 > FLAT_EPSILON * BoughtIn(t, from, i)
    /\ \A i, j \in from..Len(tape) :
          i < j /\ tape[i].asset = tape[j].asset /\ tape[i].ts = tape[j].ts => tape[i].id < tape[j].id

Mine == Len(Rivals) + 1
Tight(rooms) == RestrictValues(rooms, LAMBDA room : room < minCapacityUsd)

-----------------------------------------------------------------------------
(* Properties *)

\* Episodes lose no money and invent none: on a readable tape both scorers'
\* net result is the cash, after fees, of every position that came back to
\* nothing, so the two pages cannot disagree.
RecordIsTheTape ==
    LET realised == Realised(score.from)
    IN  score # NoScore /\ Readable(score.from) =>
            /\ score.copy.net = realised
            /\ score.ability.net = realised

\* A seat is offered only to someone who made money, fewer than a quarter of
\* whose positions would not fit the smallest vault worth opening, whose result
\* survives the delay if that could be measured, and whom no rival without one
\* outscores; and a trader who lost money is failed by one scorer and kept out
\* of the top grades by the other.
SeatsAreEarned ==
    LET readable == Readable(score.from)
        lost == Realised(score.from) <= 0
    IN  score # NoScore =>
            /\ score.verdicts[Mine] = "list" =>
                  /\ ~ (readable /\ lost)
                  /\ 4 * Count(Tight(score.rooms)) < Count(score.rooms)
                  /\ score.copy.kept # Unmeasured => score.copy.kept >= 30
                  /\ \A i \in DOMAIN Rivals :
                        score.verdicts[i] = "watch" => Rivals[i].composite <= score.copy.composite
            /\ readable /\ lost =>
                  /\ score.copy.grade \in {"F", "insufficient-data"}
                  /\ score.ability.grade \notin {"S", "A"}

=============================================================================
