------------------------------- MODULE Ability -------------------------------
(***************************************************************************)
(* The ability profile (src/src/scoring/ability.ts, pricepath.ts): five    *)
(* dimensions and the Edge Score, from the same episodes as the            *)
(* copyability score less those sold in excess of what was seen bought.    *)
(***************************************************************************)
EXTENDS Scoring

CONSTANT candleSec              \* the interval of the candles, and their tolerance

QTY_BALANCE_TOLERANCE == 5      \* per cent

isSelfContained(ep) ==
    ep.bought > 0 /\ ep.sold * 100 <= ep.bought * (100 + QTY_BALANCE_TOLERANCE)

Judged(closed) == RestrictValues(closed, isSelfContained)

-----------------------------------------------------------------------------
(* Prices that were observed: the trader's own fills and the price now.     *)

ObservedFrom(trades, market, now) ==
    LET seen(t) == \E i \in DOMAIN trades : trades[i].asset = t
        priced == {t \in Tokens : seen(t) /\ market[t] # Unmeasured /\ market[t].px > 0}
    IN  Each(LAMBDA f : [token |-> f.asset, ts |-> f.ts, px |-> Price(f)], trades)
        \o Each(LAMBDA t : [token |-> t, ts |-> now, px |-> market[t].px], SetToSeq(priced))

Gap(a, b) == IF a > b THEN a - b ELSE b - a

\* The nearest in time, of two as near the earlier, of one moment the first
\* observed, if near enough.
priceAt(path, t, ts) ==
    LET of == {i \in DOMAIN path : path[i].token = t /\ path[i].px > 0}
        near == {i \in of : \A j \in of : Gap(path[i].ts, ts) <= Gap(path[j].ts, ts)}
        early == {i \in near : \A j \in near : path[i].ts <= path[j].ts}
        best == path[Min(early)]
    IN  IF of = {} \/ Gap(best.ts, ts) > toleranceSec THEN Unmeasured ELSE best.px

maxBetween(path, t, from, to) ==
    LET within == {path[i].px : i \in {j \in DOMAIN path : path[j].token = t /\ path[j].ts \in from..to}}
    IN  IF within = {} THEN Unmeasured ELSE Max(within)

-----------------------------------------------------------------------------
(* Prices from candles (marketdata/candlepath.ts), laid over the observed     *)
(* ones.  candles is a set of [token, ts, open, high, close].                 *)

Series(candles, t) == {c \in candles : c.token = t}

\* The close of the last candle begun by then, or the open of the first one if
\* it begins soon after.
candleAt(candles, t, ts) ==
    LET begun == {c \in Series(candles, t) : c.ts <= ts}
        last == CHOOSE c \in begun : \A d \in begun : d.ts <= c.ts
        first == CHOOSE c \in Series(candles, t) : \A d \in Series(candles, t) : c.ts <= d.ts
    IN  IF Series(candles, t) = {} THEN Unmeasured
        ELSE IF begun # {}
        THEN IF ts - last.ts > 2 * candleSec THEN Unmeasured ELSE last.close
        ELSE IF first.ts - ts > candleSec THEN Unmeasured ELSE first.open

candleMax(candles, t, from, to) ==
    LET within == {c.high : c \in {d \in Series(candles, t) :
                        /\ from <= to /\ d.ts <= to
                        /\ d.ts + candleSec > from /\ d.high > 0}}
    IN  IF within = {} THEN Unmeasured ELSE Max(within)

\* The first layer that can answer, and the highest peak of both.
layeredAt(path, t, ts) ==
    LET candle == candleAt(path.candles, t, ts)
    IN  IF candle \notin {Unmeasured, 0} THEN candle ELSE priceAt(path.observed, t, ts)

layeredMax(path, t, from, to) ==
    LET candle == candleMax(path.candles, t, from, to)
        seen == maxBetween(path.observed, t, from, to)
    IN  IF candle = Unmeasured THEN seen
        ELSE IF seen = Unmeasured THEN candle
        ELSE Larger(candle, seen)

-----------------------------------------------------------------------------
(* The metrics *)

episodeRoi(ep) == IF ep.cost > 0 THEN Ratio(100 * Net(ep), ep.cost) ELSE Unmeasured
entryPrice(ep) == IF ep.bought = 0 THEN Unmeasured ELSE ep.cost \div ep.bought
exitPrice(ep) == IF ep.sold = 0 THEN Unmeasured ELSE ep.proceeds \div ep.sold
Gain(px, over) == Ratio(100 * px, over) - 100
Share(n, of) == IF of = 0 THEN Unmeasured ELSE (100 * n) \div of

rois(closed) == Measured(Each(episodeRoi, closed))

\* Mean return over its own scatter, within ten either way, in hundredths.
roiStability(xs) ==
    IF stdev(xs) = Unmeasured THEN Unmeasured
    ELSE IF stdev(xs) = 0 THEN Clamp(mean(xs) * 1000, -1000, 1000)
    ELSE Clamp(Ratio(100 * mean(xs), stdev(xs)), -1000, 1000)

\* The realised curve after each closed episode, the highest it had been by
\* then, above nothing at all, and its deepest fall as a share of that.
equityAt(closed, i) == NetOf(Restrict(closed, {j \in DOMAIN closed : j <= i}))
peakAt(closed, i) == Max({0} \cup {equityAt(closed, j) : j \in {k \in DOMAIN closed : k <= i}})

drawdown(closed) ==
    LET above == {i \in DOMAIN closed : peakAt(closed, i) > 0}
        fall(i) == (100 * (peakAt(closed, i) - equityAt(closed, i))) \div peakAt(closed, i)
    IN  IF above = {} THEN Unmeasured ELSE Max({fall(i) : i \in above})

rewardToRisk(closed) ==
    LET wins == Wins(closed)
        losses == Losses(closed)
    IN  IF Count(wins) = 0 \/ Count(losses) = 0 THEN Unmeasured
        ELSE (100 * Profit(closed) * Count(losses)) \div (Loss(closed) * Count(wins))

\* Net results grouped by the key of each episode: by time bucket, by token.
GroupedNet(closed, key) ==
    [k \in {key[i] : i \in DOMAIN closed} |->
        NetOf(Restrict(closed, {i \in DOMAIN closed : key[i] = k}))]

ProfitableRate(nets) == Share(Count(RestrictValues(nets, LAMBDA n : n > 0)), Count(nets))

Buckets(closed) ==
    LET start == Min({closed[i].closedAt : i \in DOMAIN closed})
    IN  GroupedNet(closed, Each(LAMBDA e : (e.closedAt - start) \div consistencyBucketSec, closed))

bucketVariation(nets) ==
    LET dollars == Each(LAMBDA n : Ratio(n, 100), nets)
    IN  IF Count(nets) < minConsistencyBuckets \/ mean(dollars) = 0 \/ stdev(dollars) = Unmeasured
        THEN Unmeasured
        ELSE (100 * stdev(dollars)) \div Gap(mean(dollars), 0)

avgPeakWeight(eps, equity) ==
    IF equity = Unmeasured THEN Unmeasured
    ELSE mean(RestrictValues(Each(LAMBDA e : e.peak \div equity, Every(eps)), LAMBDA w : w > 0))

\* What a token did after the entry: its return at the longest horizon, and how
\* often it was up half or more on the way.
EntriesJudged(eps) ==
    RestrictValues(Every(eps), LAMBDA e : /\ e.closedAt = Unmeasured \/ isSelfContained(e)
                                          /\ entryPrice(e) \notin {Unmeasured, 0})

roiByHorizon(eps, path) ==
    LET at(e) == layeredAt(path, e.token, e.opened + horizonSec)
        later == RestrictValues(EntriesJudged(eps), LAMBDA e : at(e) # Unmeasured)
    IN  mean(Each(LAMBDA e : Gain(at(e), entryPrice(e)), later))

hitRateByMultiple(eps, path) ==
    LET peak(e) == layeredMax(path, e.token, e.opened, e.opened + horizonSec)
        seen == RestrictValues(EntriesJudged(eps), LAMBDA e : peak(e) # Unmeasured)
        hits == RestrictValues(seen, LAMBDA e : Gain(peak(e), entryPrice(e)) >= 50)
    IN  Share(Count(hits), Count(seen))

\* How much of the move was taken, and how often more was left behind.
ExitsJudged(closed) ==
    RestrictValues(closed, LAMBDA e : entryPrice(e) \notin {Unmeasured, 0} /\ exitPrice(e) # Unmeasured)

captureRatio(closed, path) ==
    LET peak(e) == layeredMax(path, e.token, e.opened, e.closedAt + horizonSec)
        taken(e) == Ratio(100 * (exitPrice(e) - entryPrice(e)), peak(e) - entryPrice(e))
        moved == RestrictValues(ExitsJudged(closed), LAMBDA e :
                     peak(e) # Unmeasured /\ peak(e) > entryPrice(e))
    IN  median(Each(LAMBDA e : Clamp(taken(e), -100, 200), moved))

prematureExitRate(closed, path) ==
    LET after(e) == layeredMax(path, e.token, e.closedAt, e.closedAt + horizonSec)
        left == RestrictValues(ExitsJudged(closed), LAMBDA e : after(e) # Unmeasured /\ exitPrice(e) > 0)
        early == RestrictValues(left, LAMBDA e : after(e) > exitPrice(e))
    IN  Share(Count(early), Count(left))

-----------------------------------------------------------------------------
(* The five dimensions *)

Parts(scores) == mean(Measured(scores))
On(x, points) == IF x = Unmeasured THEN Unmeasured ELSE curve(x, points)

profitability(closed) ==
    IF NetOf(closed) <= 0
    THEN curve(WinRate(closed), <<<<0, 0>>, <<50, 12>>, <<100, 25>>>>)
    ELSE Parts(<<On(ProfitFactor(closed),
                    <<<<100, 40>>, <<150, 60>>, <<200, 75>>, <<300, 90>>, <<500, 100>>>>),
                 On(median(rois(closed)),
                    <<<<0, 35>>, <<10, 55>>, <<25, 72>>, <<50, 88>>, <<100, 100>>>>)>>)

risk(closed, weight) ==
    Parts(<<On(drawdown(closed), <<<<0, 100>>, <<10, 88>>, <<20, 72>>, <<35, 50>>, <<60, 20>>, <<100, 0>>>>),
            On(rewardToRisk(closed),
               <<<<50, 15>>, <<100, 45>>, <<150, 68>>, <<250, 88>>, <<400, 100>>>>),
            On(weight, <<<<0, 100>>, <<5, 90>>, <<10, 75>>, <<25, 45>>, <<50, 10>>>>),
            On(roiStability(rois(closed)),
               <<<<-100, 0>>, <<0, 25>>, <<30, 50>>, <<75, 75>>, <<150, 92>>, <<300, 100>>>>)>>)

entrySkill(eps, path) ==
    Parts(<<On(roiByHorizon(eps, path), <<<<-50, 0>>, <<0, 40>>, <<25, 65>>, <<50, 82>>, <<150, 100>>>>),
            On(hitRateByMultiple(eps, path), <<<<0, 20>>, <<20, 50>>, <<40, 75>>, <<70, 100>>>>)>>)

exitSkill(closed, path) ==
    Parts(<<On(captureRatio(closed, path),
               <<<<0, 10>>, <<30, 40>>, <<50, 62>>, <<75, 85>>, <<100, 100>>>>),
            On(prematureExitRate(closed, path),
               <<<<0, 100>>, <<30, 78>>, <<50, 58>>, <<80, 25>>, <<100, 5>>>>)>>)

consistency(closed) ==
    LET nets == Buckets(closed)
    IN  IF Count(nets) < minConsistencyBuckets THEN Unmeasured
        ELSE Parts(<<On(ProfitableRate(nets), <<<<0, 0>>, <<40, 40>>, <<60, 65>>, <<80, 88>>, <<100, 100>>>>),
                     On(bucketVariation(nets), <<<<0, 100>>, <<50, 85>>, <<100, 65>>, <<200, 38>>, <<400, 10>>>>),
                     On(ProfitableRate(GroupedNet(closed, Each(LAMBDA e : e.token, closed))),
                        <<<<0, 0>>, <<30, 35>>, <<50, 60>>, <<70, 85>>, <<90, 100>>>>)>>)

gradeOf(points) ==
    IF points = Unmeasured THEN "insufficient-data"
    ELSE CASE points >= 90 -> "S" [] points \in 80..89 -> "A" [] points \in 68..79 -> "B"
           [] points \in 55..67 -> "C" [] points \in 40..54 -> "D" [] OTHER -> "F"

buildProfile(eps, path, equity) ==
    LET closed == Judged(eps.closed)
        edge == Renormalised(<< <<profitability(closed), 30>>,
                                <<risk(closed, avgPeakWeight(eps, equity)), 25>>,
                                <<entrySkill(eps, path), 15>>,
                                <<exitSkill(closed, path), 15>>,
                                <<consistency(closed), 15>> >>)
        points == IF Count(closed) < minClosedEpisodes THEN Unmeasured ELSE edge
    IN  [edgeScore |-> points, grade |-> gradeOf(points), net |-> NetOf(closed),
         trips |-> Count(closed)]

=============================================================================
