------------------------------- MODULE Scoring -------------------------------
(***************************************************************************)
(* The arithmetic that turns a trader's fills into a copyability score and *)
(* an ability profile (src/src/scoring).  Money is in cents, shares and    *)
(* ratios in per cent, scores in whole points, every division rounds down; *)
(* what the code reports as null is Unmeasured.  A list of numbers or      *)
(* episodes is a function on a finite set of places; what a filter leaves  *)
(* of one keeps its places.  Flags and gaps are text and left out.         *)
(***************************************************************************)
EXTENDS Integers, FiniteSets, SequencesExt

CONSTANTS
    Tokens,
    Unmeasured,             \* a model value: null
    minClosedEpisodes,      \* of both configurations
    minViableVaultUsd,      \* dollars
    maxPctOfLiquidity,      \* per cent
    horizonSec,             \* the longest of entryHorizonsSec
    toleranceSec,           \* how far a price may be from the moment asked about
    consistencyBucketSec,
    minConsistencyBuckets

-----------------------------------------------------------------------------
(* Numbers *)

Ratio(a, b) == IF b < 0 THEN (-a) \div (-b) ELSE a \div b
Clamp(x, lo, hi) == IF x < lo THEN lo ELSE IF x > hi THEN hi ELSE x
Larger(a, b) == IF a > b THEN a ELSE b
Count(xs) == Cardinality(DOMAIN xs)
Measured(xs) == RestrictValues(xs, LAMBDA x : x # Unmeasured)
Total(xs) == SumFunction(xs)
Each(Op(_), xs) == [i \in DOMAIN xs |-> Op(xs[i])]

mean(xs) == IF Count(xs) = 0 THEN Unmeasured ELSE Ratio(Total(xs), Count(xs))

\* The nearest rank: fewer than that many are smaller, and that many no larger.
percentile(xs, p) ==
    LET rank == Clamp((p * Count(xs) + 99) \div 100, 1, Count(xs))
    IN  IF Count(xs) = 0 THEN Unmeasured
        ELSE CHOOSE x \in Range(xs) :
                /\ Cardinality({i \in DOMAIN xs : xs[i] < x}) < rank
                /\ rank <= Cardinality({i \in DOMAIN xs : xs[i] <= x})

median(xs) == percentile(xs, 50)

MaxRoot == 1000         \* bound: scatter beyond a thousand per cent is not told apart

\* Whole root of the sample variance.
variance(xs) ==
    LET m == mean(xs)
    IN  Total(Each(LAMBDA x : (x - m) * (x - m), xs)) \div (Count(xs) - 1)

stdev(xs) ==
    IF Count(xs) < 2 THEN Unmeasured
    ELSE CHOOSE r \in 0..MaxRoot : /\ r * r <= variance(xs)
                                   /\ r = MaxRoot \/ variance(xs) < (r + 1) * (r + 1)

\* Piecewise linear through <<input, score>> points of rising input.
curve(x, points) ==
    LET last == Len(points) IN
    IF x <= points[1][1] THEN points[1][2]
    ELSE IF x >= points[last][1] THEN points[last][2]
    ELSE LET i == CHOOSE i \in 2..last : points[i - 1][1] < x /\ x <= points[i][1]
             from == points[i - 1]
             to == points[i]
         IN  from[2] + Ratio((x - from[1]) * (to[2] - from[2]), to[1] - from[1])

\* A hundred times log10, to the nearest of five marks below it in each decade.
Decades == <<1, 10, 100, 1000, 10000, 100000, 1000000, 10000000, 100000000>>

Log10(x) ==
    LET decade == CHOOSE d \in 1..9 : Decades[d] <= x /\ (d = 9 \/ x < Decades[d + 1])
        mark == x \div Decades[decade]
    IN  100 * (decade - 1) + (CASE mark >= 7 -> 85 [] mark >= 5 -> 70 [] mark >= 3 -> 48
                                [] mark >= 2 -> 30 [] OTHER -> 0)

\* The average of what could be measured, by weight: <<score, weight>> pairs.
Renormalised(weighted) ==
    LET known == RestrictValues(weighted, LAMBDA w : w[1] # Unmeasured)
    IN  IF Count(known) = 0 THEN Unmeasured
        ELSE Total(Each(LAMBDA w : w[1] * w[2], known)) \div Total(Each(LAMBDA w : w[2], known))

-----------------------------------------------------------------------------
(* Episodes (episodes.ts) *)

fomoFeeUsd(notional) == IF notional <= 0 THEN 0 ELSE Larger(95, (notional * 50) \div 10000)

FLAT_EPSILON == 2       \* per cent of what was bought

Price(fill) == fill.usd \div fill.qty

Episode ==
    [token : Tokens, opened : Nat, closedAt : Nat \cup {Unmeasured}, bought : Nat, sold : Nat,
     cost : Nat, proceeds : Nat, fees : Nat, peak : Nat, held : Int]

NewEpisode(fill) ==
    [token |-> fill.asset, opened |-> fill.ts, closedAt |-> Unmeasured, bought |-> 0,
     sold |-> 0, cost |-> 0, proceeds |-> 0, fees |-> 0, peak |-> 0, held |-> 0]

Bought(ep, fill) ==
    LET held == ep.held + fill.qty
    IN  [ep EXCEPT !.bought = @ + fill.qty, !.held = held, !.cost = @ + fill.usd,
                   !.fees = @ + fomoFeeUsd(fill.usd),
                   !.peak = Larger(@, held * Price(fill))]

Sold(ep, fill) ==
    [ep EXCEPT !.sold = @ + fill.qty, !.held = @ - fill.qty, !.proceeds = @ + fill.usd,
               !.fees = @ + fomoFeeUsd(fill.usd)]

\* @mutant: a position counts as flat when anything of it was sold
ReturnedFlatMutant(ep) == ep.sold > 0
ReturnedFlat(ep) == ep.held * 100 <= ep.bought * FLAT_EPSILON

\* One fill over the positions open so far.  A sale of something never seen
\* bought is dropped.
OneFill(book, fill) ==
    LET t == fill.asset
        ep == book.open[t]
        sold == Sold(ep, fill)
    IN  IF fill.side = "buy"
        THEN [book EXCEPT !.open[t] =
                 Bought(IF ep = Unmeasured THEN NewEpisode(fill) ELSE ep, fill)]
        ELSE IF ep = Unmeasured THEN book
        ELSE IF ReturnedFlat(sold)
        THEN [open |-> [book.open EXCEPT ![t] = Unmeasured],
              done |-> Append(book.done, [sold EXCEPT !.closedAt = fill.ts])]
        ELSE [book EXCEPT !.open[t] = sold]

\* Fills in time order, ties by the text of their id.
Earlier(a, b) == a.ts < b.ts \/ (a.ts = b.ts /\ a.id < b.id)

InOrder(trades) ==
    LET rank(i) == Cardinality({j \in DOMAIN trades : Earlier(trades[j], trades[i])})
    IN  [n \in DOMAIN trades |-> trades[CHOOSE i \in DOMAIN trades : rank(i) = n - 1]]

\* The positions after each of the first fills.
Books(sorted) ==
    LET book[n \in 0..Len(sorted)] ==
            IF n = 0 THEN [open |-> [t \in Tokens |-> Unmeasured], done |-> <<>>]
            ELSE OneFill(book[n - 1], sorted[n])
    IN  book

\* The closed ones in the order they closed, and the ones still open.
buildEpisodes(trades) ==
    LET end == Books(InOrder(trades))[Len(trades)]
    IN  [closed |-> end.done,
         open |-> SetToSeq({end.open[t] : t \in Tokens} \ {Unmeasured})]

Net(ep) == ep.proceeds - ep.cost - ep.fees
Hold(ep) == ep.closedAt - ep.opened
Every(eps) == eps.closed \o eps.open

Wins(eps) == RestrictValues(eps, LAMBDA e : Net(e) > 0)
Losses(eps) == RestrictValues(eps, LAMBDA e : Net(e) < 0)
NetOf(eps) == Total(Each(Net, eps))
Profit(eps) == NetOf(Wins(eps))
Loss(eps) == -NetOf(Losses(eps))
ProfitFactor(eps) == IF Loss(eps) > 0 THEN (100 * Profit(eps)) \div Loss(eps) ELSE Unmeasured
WinRate(eps) == IF Count(eps) = 0 THEN 0 ELSE (100 * Count(Wins(eps))) \div Count(eps)

TopEpisodeShare(eps) ==
    IF Profit(eps) = 0 THEN Unmeasured
    ELSE (100 * Max(Range(Each(Net, Wins(eps))))) \div Profit(eps)

-----------------------------------------------------------------------------
(* The market as it is now (shortlist.ts CurrentMarketLookup): whatever     *)
(* moment is asked about.  market[t] is Unmeasured or [px, liq], px in       *)
(* cents per unit and liq in dollars.                                        *)

liquidityUsdAt(market, t, ts) == IF market[t] = Unmeasured THEN Unmeasured ELSE market[t].liq
priceUsdAt(market, t, ts) == IF market[t] = Unmeasured THEN Unmeasured ELSE market[t].px

-----------------------------------------------------------------------------
(* Copyability (metrics.ts, score.ts) *)

\* The vault in dollars that could hold each measured position: its weight is
\* the peak value of the position over the trader's book, `equity` dollars.
ImpliedCapacities(eps, market, equity) ==
    LET sized == RestrictValues(Every(eps), LAMBDA e :
                    /\ equity # Unmeasured /\ e.peak > 0
                    /\ liquidityUsdAt(market, e.token, e.opened) \notin {Unmeasured, 0})
    IN  Each(LAMBDA e : (maxPctOfLiquidity * liquidityUsdAt(market, e.token, e.opened) * equity)
                            \div e.peak, sized)

capacity(eps, market, equity) == percentile(ImpliedCapacities(eps, market, equity), 25)

\* What is left of the net result when every buy is priced `delay` later; one
\* price stands for all of an episode's buys because the market has only one.
retention(eps, market, delay) ==
    LET entry(e) == priceUsdAt(market, e.token, e.opened + delay)
        priced == RestrictValues(eps.closed, LAMBDA e : entry(e) \notin {Unmeasured, 0})
        delayed == Total(Each(LAMBDA e : e.proceeds - e.bought * entry(e) - e.fees, priced))
        base == NetOf(eps.closed)
    IN  IF Count(priced) = 0 \/ base = 0 THEN Unmeasured ELSE Ratio(100 * delayed, base)

rugRate(eps, market) ==
    LET px(e, after) == priceUsdAt(market, e.token, e.opened + after)
        sample == RestrictValues(Every(eps), LAMBDA e : px(e, 0) \notin {Unmeasured, 0})
        rugs == RestrictValues(sample, LAMBDA e : 100 * px(e, 3600) <= 20 * px(e, 0))
    IN  IF Count(sample) = 0 THEN Unmeasured ELSE (100 * Count(rugs)) \div Count(sample)

performanceScore(closed) ==
    IF NetOf(closed) <= 0
    THEN curve(WinRate(closed), <<<<0, 0>>, <<50, 15>>, <<100, 30>>>>)
    ELSE LET pf == IF ProfitFactor(closed) = Unmeasured THEN 300 ELSE ProfitFactor(closed)
         IN  curve(pf, <<<<100, 45>>, <<150, 65>>, <<200, 80>>, <<300, 92>>, <<500, 100>>>>)

capacityScore(cap) ==
    IF cap = Unmeasured THEN Unmeasured
    ELSE curve(Log10(Larger(1, cap)),
               <<<<300, 0>>, <<400, 20>>, <<500, 55>>, <<600, 85>>, <<700, 100>>>>)

latencyScore(kept) ==
    IF kept = Unmeasured THEN Unmeasured
    ELSE curve(kept, <<<<0, 0>>, <<30, 25>>, <<60, 60>>, <<85, 90>>, <<100, 100>>>>)

processScore(closed) ==
    LET share == TopEpisodeShare(closed)
        base == IF share = Unmeasured THEN 60
                ELSE curve(share, <<<<10, 100>>, <<30, 80>>, <<50, 55>>, <<80, 25>>, <<100, 10>>>>)
    IN  IF median(Each(Hold, closed)) < 60 THEN Clamp(base, 0, 40) ELSE base

hygieneScore(rugs) ==
    IF rugs = Unmeasured THEN Unmeasured
    ELSE curve(rugs, <<<<0, 100>>, <<5, 85>>, <<15, 55>>, <<30, 25>>, <<50, 0>>>>)

\* Gates, not weights: what no return makes up for.
Copyable(points, cap, kept) ==
    LET roomy == IF cap # Unmeasured /\ cap < minViableVaultUsd THEN Clamp(points, 0, 40) ELSE points
    IN  IF kept # Unmeasured /\ kept < 30 THEN Clamp(roomy, 0, 35) ELSE roomy

\* @mutant: a loss is averaged in like any other dimension
GatedMutant(points, cap, kept, net) == Copyable(points, cap, kept)
Gated(points, cap, kept, net) ==
    IF net <= 0 THEN Clamp(Copyable(points, cap, kept), 0, 30) ELSE Copyable(points, cap, kept)

gradeFor(points) ==
    CASE points >= 80 -> "A" [] points >= 65 -> "B" [] points >= 50 -> "C"
      [] points >= 35 -> "D" [] OTHER -> "F"

scoreEpisodes(eps, market, equity, delay) ==
    LET cap == capacity(eps, market, equity)
        kept == retention(eps, market, delay)
        net == NetOf(eps.closed)
        points == Gated(Renormalised(<< <<performanceScore(eps.closed), 30>>,
                                        <<capacityScore(cap), 25>>,
                                        <<latencyScore(kept), 25>>,
                                        <<processScore(eps.closed), 12>>,
                                        <<hygieneScore(rugRate(eps, market)), 8>> >>),
                        cap, kept, net)
    IN  IF Len(eps.closed) < minClosedEpisodes
        THEN [composite |-> Unmeasured, grade |-> "insufficient-data", capacityUsd |-> cap,
              net |-> net, kept |-> kept]
        ELSE [composite |-> points, grade |-> gradeFor(points), capacityUsd |-> cap,
              net |-> net, kept |-> kept]

=============================================================================
