----------------------------- MODULE MirrorProofs -----------------------------
(***************************************************************************)
(* The limits of a mirroring vault, proved for every policy, asset set,    *)
(* leader and market: a plan keeps every limit after each of its intents   *)
(* (MirrorPlan), and neither the pooled loop (PooledRunner) nor a          *)
(* follower's (FollowWallet) leaves them when intents fail, fill badly or  *)
(* throw.  A plan is replayed: its intents come with the provisional books *)
(* the planner went through, and the real book never holds more than they. *)
(* And a vault whose intents fill keeps no larger part of what the leader  *)
(* sells than the leader does, up to the tokens that rounding leaves.      *)
(***************************************************************************)
EXTENDS PooledRunner, FollowWallet, LedgerMath, SequenceTheorems

----------------------------------------------------------------------------
(* Percentages and fractions *)

LEMMA PctNat ==
    ASSUME NEW p \in Nat, NEW usd \in Nat
    PROVE  pct(p, usd) \in Nat
<1>1. p * usd \in Nat
  OBVIOUS
<1>. QED
  BY <1>1, DivNat DEF pct

LEMMA PctMono ==
    ASSUME NEW p \in Nat, NEW a \in Nat, NEW b \in Nat, a <= b
    PROVE  pct(p, a) <= pct(p, b)
<1>1. p * a \in Nat /\ p * b \in Nat /\ p * a <= p * b
  BY ProductMono
<1>. QED
  BY <1>1, DivMono DEF pct

\* A part of a number is no more than the number, and taking the same part of
\* a larger one leaves no less.
LEMMA OfBelow ==
    ASSUME NEW f \in Fraction, NEW u \in Nat
    PROVE  Of(f, u) \in Nat /\ Of(f, u) <= u
<1>1. PICK x \in Nat, y \in Nat : x = f[1] /\ y = f[2] /\ y > 0 /\ x <= y
  BY DEF Fraction
<1>2. x * u \in Nat /\ u * y \in Nat /\ x * u <= u * y
  <2>1. u * x <= u * y /\ u * x \in Nat
    BY <1>1, ProductMono
  <2>. QED
    BY <1>1, <2>1
<1>3. PICK q \in Nat : q = (x * u) \div y /\ q * y <= x * u
  BY <1>1, <1>2, DivNat
<1>4. q <= u
  <2>1. SUFFICES ASSUME u + 1 <= q PROVE FALSE
    BY <1>3
  <2>2. y * (u + 1) <= y * q
    BY <1>1, <1>3, <2>1, ProductMono
  <2>. QED
    BY <1>1, <1>2, <1>3, <2>2
<1>. QED
  BY <1>1, <1>3, <1>4 DEF Of

LEMMA OfMono ==
    ASSUME NEW f \in Fraction, NEW u \in Nat, NEW v \in Nat, u <= v
    PROVE  Of(f, u) <= Of(f, v) /\ u - Of(f, u) <= v - Of(f, v)
<1>1. PICK x \in Nat, y \in Nat : x = f[1] /\ y = f[2] /\ y > 0 /\ x <= y
  BY DEF Fraction
<1>2. PICK d \in Nat : v = u + d
  <2>1. v - u \in Nat /\ v = u + (v - u)
    OBVIOUS
  <2>. QED
    BY <2>1
<1>3. x * u \in Nat /\ x * v \in Nat /\ x * u <= x * v
  BY <1>1, ProductMono
<1>4. PICK q \in Nat, r \in Nat :
          /\ q = (x * u) \div y /\ r = (x * v) \div y
          /\ q * y <= x * u /\ x * u < q * y + y
          /\ r * y <= x * v /\ x * v < r * y + y
  BY <1>1, <1>3, DivNat
<1>5. q <= r
  BY <1>1, <1>3, <1>4, DivMono
<1>6. x * v = x * u + x * d
  BY <1>1, <1>2
<1>7. x * d \in Nat /\ x * d <= d * y
  <2>1. d * x <= d * y /\ d * x \in Nat
    BY <1>1, ProductMono
  <2>. QED
    BY <1>1, <2>1
<1>8. r <= q + d
  <2>1. SUFFICES ASSUME q + d + 1 <= r PROVE FALSE
    BY <1>4
  <2>2. y * (q + d + 1) <= y * r
    <3>1. q + d + 1 \in Nat
      BY <1>2, <1>4
    <3>. QED
      BY <1>1, <1>4, <2>1, <3>1, ProductMono
  <2>3. y * (q + d + 1) = q * y + d * y + y
    BY <1>1, <1>2, <1>4
  <2>4. y * r = r * y
    BY <1>1, <1>4
  <2>. QED
    BY <1>1, <1>3, <1>4, <1>6, <1>7, <2>2, <2>3, <2>4
<1>. QED
  BY <1>1, <1>2, <1>4, <1>5, <1>8 DEF Of

----------------------------------------------------------------------------
(* Books *)

IsBook(pos) == pos \in [Assets -> Position \cup {NoPos}]

\* What a book says of an asset, held or not.
LEMMA BookReads ==
    ASSUME NEW v, IsBook(v.pos), NEW a \in Assets
    PROVE  /\ Usd(v, a) \in Nat /\ Amount(v, a) \in Nat
           /\ a \in Held(v) => /\ v.pos[a] \in Position
                               /\ Usd(v, a) = v.pos[a].usd /\ Amount(v, a) = v.pos[a].amount
           /\ a \notin Held(v) => Usd(v, a) = 0 /\ Amount(v, a) = 0
<1>1. v.pos[a] \in Position \cup {NoPos}
  BY DEF IsBook
<1>. QED
  BY <1>1 DEF Held, Usd, Amount, Position

\* A book that differs from another at one asset only.
Changed(v, w, a, x) ==
    /\ IsBook(v.pos) /\ IsBook(w.pos) /\ a \in Assets
    /\ w.pos[a] = x
    /\ \A b \in Assets : b # a => w.pos[b] = v.pos[b]

LEMMA ChangedReads ==
    ASSUME NEW v, NEW w, NEW a, NEW x, Changed(v, w, a, x)
    PROVE  /\ \A b \in Assets : b # a => Usd(w, b) = Usd(v, b) /\ Amount(w, b) = Amount(v, b)
           /\ x = NoPos => Held(w) = Held(v) \ {a} /\ Usd(w, a) = 0
           /\ x \in Position => Held(w) = Held(v) \cup {a} /\ Usd(w, a) = x.usd
<1>1. /\ a \in Assets /\ w.pos[a] = x
      /\ \A b \in Assets : b # a => w.pos[b] = v.pos[b]
      /\ NoPos \notin Position
  BY MirrorAssumption DEF Changed
<1>2. \A b \in Assets : b # a => (b \in Held(w) <=> b \in Held(v))
  BY <1>1 DEF Held
<1>3. \A b \in Assets : b # a => Usd(w, b) = Usd(v, b) /\ Amount(w, b) = Amount(v, b)
  BY <1>1, <1>2 DEF Usd, Amount
<1>4. Held(v) \subseteq Assets /\ Held(w) \subseteq Assets
  BY DEF Held
<1>5. a \in Held(w) <=> x # NoPos
  BY <1>1 DEF Held
<1>6. Usd(w, a) = IF x = NoPos THEN 0 ELSE x.usd
  BY <1>1, <1>5 DEF Usd
<1>7. x = NoPos => Held(w) = Held(v) \ {a}
  BY <1>2, <1>4, <1>5
<1>8. x \in Position => Held(w) = Held(v) \cup {a}
  BY <1>1, <1>2, <1>4, <1>5
<1>. QED
  BY <1>1, <1>3, <1>6, <1>7, <1>8

\* A book's dollars, and how a change at one asset moves them.
Positions(v) == SumFunctionOnSet([a \in Assets |-> Usd(v, a)], Assets)

LEMMA PositionsNat ==
    ASSUME NEW v, IsBook(v.pos)
    PROVE  Positions(v) \in Nat
<1> DEFINE u == [a \in Assets |-> Usd(v, a)]
<1>1. \A a \in Assets : u[a] \in Nat
  BY BookReads
<1>2. IsFiniteSet(Assets)
  BY MirrorAssumption
<1>3. SumFunctionOnSet(u, Assets) \in Nat
  <2> HIDE DEF u
  <2>. QED
    BY <1>1, <1>2, SumNat
<1>. QED
  BY <1>3 DEF Positions

LEMMA PositionsChange ==
    ASSUME NEW v, NEW w, NEW a, NEW x, Changed(v, w, a, x)
    PROVE  Positions(w) = Positions(v) + (Usd(w, a) - Usd(v, a))
<1> DEFINE f == [b \in Assets |-> Usd(v, b)]
           g == [b \in Assets |-> Usd(w, b)]
<1>1. IsBook(v.pos) /\ IsBook(w.pos) /\ a \in Assets /\ IsFiniteSet(Assets)
  BY MirrorAssumption DEF Changed
<1>2. \A b \in Assets : f[b] \in Int /\ g[b] \in Int
  <2>1. \A b \in Assets : f[b] \in Nat /\ g[b] \in Nat
    BY <1>1, BookReads
  <2>. QED
    BY <2>1
<1>3. \A b \in Assets : b # a => g[b] = f[b]
  BY ChangedReads
<1>4. SumFunctionOnSet(g, Assets) = SumFunctionOnSet(f, Assets) + (g[a] - f[a])
  <2>1. IsFiniteSet(Assets) /\ a \in Assets
    BY <1>1
  <2> HIDE DEF f, g
  <2>. QED
    BY <1>2, <1>3, <2>1, SumUpdate
<1>5. f[a] = Usd(v, a) /\ g[a] = Usd(w, a)
  BY <1>1
<1>. QED
  BY <1>4, <1>5 DEF Positions

LEMMA PositionsBelow ==
    ASSUME NEW v, NEW w, IsBook(v.pos), IsBook(w.pos), \A a \in Assets : Usd(v, a) <= Usd(w, a)
    PROVE  Positions(v) <= Positions(w)
<1> DEFINE f == [b \in Assets |-> Usd(v, b)]
           g == [b \in Assets |-> Usd(w, b)]
<1>1. \A b \in Assets : f[b] \in Nat /\ g[b] \in Nat /\ f[b] <= g[b]
  BY BookReads
<1>2. SumFunctionOnSet(f, Assets) <= SumFunctionOnSet(g, Assets)
  <2> HIDE DEF f, g
  <2>. QED
    BY <1>1, MirrorAssumption, SumBelow
<1>. QED
  BY <1>2 DEF Positions

\* A vault's dollars: what it holds and what it could buy with.
Total(v) == v.quote + Positions(v)

\* A buy moves dollars from the quote into one position.
LEMMA BuyEffect ==
    ASSUME NEW v \in VaultState, NEW a \in Assets, NEW usd \in Nat
    PROVE  LET w == Bought(v, a, usd)
           IN  /\ w \in VaultState
               /\ w.equity = v.equity /\ w.quote = v.quote - usd /\ w.deployed = v.deployed + usd
               /\ Held(w) = Held(v) \cup {a}
               /\ Usd(w, a) = Usd(v, a) + usd
               /\ \A b \in Assets : b # a => Usd(w, b) = Usd(v, b)
               /\ Total(w) = Total(v)
<1> DEFINE w == Bought(v, a, usd)
           x == [amount |-> Amount(v, a) + usd, usd |-> Usd(v, a) + usd]
<1>1. IsBook(v.pos) /\ v.quote \in Int /\ v.deployed \in Nat /\ v.equity \in Nat
  BY DEF VaultState, IsBook
<1>2. x \in Position /\ x.usd = Usd(v, a) + usd /\ Usd(v, a) \in Nat
  BY <1>1, BookReads DEF Position
<1>3. /\ w = [v EXCEPT !.pos = [v.pos EXCEPT ![a] = x], !.quote = v.quote - usd,
                       !.deployed = v.deployed + usd]
      /\ [v.pos EXCEPT ![a] = x] \in [Assets -> Position \cup {NoPos}]
  BY <1>1, <1>2 DEF Bought, VaultState, IsBook
<1>4. /\ w \in VaultState
      /\ w.equity = v.equity /\ w.quote = v.quote - usd /\ w.deployed = v.deployed + usd
      /\ w.pos = [v.pos EXCEPT ![a] = x]
  <2> DEFINE y == [v.pos EXCEPT ![a] = x]
             n == v.deployed + usd
             q == v.quote - usd
  <2>1. n \in Nat /\ q \in Int
    BY <1>1
  <2> HIDE DEF w, x, y, n, q
  <2>2. /\ w = [v EXCEPT !.pos = y, !.quote = q, !.deployed = n]
        /\ y \in [Assets -> Position \cup {NoPos}]
    BY <1>3 DEF y, n, q
  <2>3. w \in VaultState /\ w.equity = v.equity /\ w.quote = q /\ w.deployed = n /\ w.pos = y
    BY <2>1, <2>2 DEF VaultState
  <2>. QED
    BY <2>3 DEF y, n, q
<1> HIDE DEF w, x
<1>5. Changed(v, w, a, x)
  BY <1>1, <1>3, <1>4 DEF Changed, IsBook
<1>6. /\ Held(w) = Held(v) \cup {a} /\ Usd(w, a) = Usd(v, a) + usd
      /\ \A b \in Assets : b # a => Usd(w, b) = Usd(v, b)
  BY <1>2, <1>5, ChangedReads
<1>7. Positions(w) = Positions(v) + usd /\ Positions(v) \in Nat
  BY <1>1, <1>2, <1>5, <1>6, PositionsChange, PositionsNat
<1>8. Total(w) = Total(v)
  BY <1>1, <1>4, <1>7 DEF Total
<1>. QED
  BY <1>4, <1>6, <1>8 DEF w

\* A sale removes the position or leaves what it is told to leave.
LEMMA SellEffect ==
    ASSUME NEW v \in VaultState, NEW a \in Held(v), NEW f \in Fraction,
           NEW proceeds \in Nat, NEW left \in Nat, NEW at \in Nat
    PROVE  LET w == Sold(v, a, f, proceeds, left, at)
           IN  /\ w \in VaultState
               /\ w.equity = v.equity /\ w.quote = v.quote + proceeds /\ w.deployed = v.deployed
               /\ Held(w) = IF Whole(f) THEN Held(v) \ {a} ELSE Held(v)
               /\ Usd(w, a) = IF Whole(f) THEN 0 ELSE left
               /\ \A b \in Assets : b # a => Usd(w, b) = Usd(v, b)
               /\ Total(w) = Total(v) + proceeds + Usd(w, a) - Usd(v, a)
<1> DEFINE w == Sold(v, a, f, proceeds, left, at)
           x == IF Whole(f) THEN NoPos
                ELSE [amount |-> v.pos[a].amount - Of(f, v.pos[a].amount), usd |-> left]
           e == IF Whole(f) THEN [v.lastExit EXCEPT ![a] = at] ELSE v.lastExit
<1>1. IsBook(v.pos) /\ v.quote \in Int /\ v.deployed \in Nat /\ v.equity \in Nat
  BY DEF VaultState, IsBook
<1>2. a \in Assets /\ Usd(v, a) \in Nat /\ v.pos[a] \in Position
  <2>1. a \in Assets
    BY DEF Held
  <2>. QED
    BY <1>1, <2>1, BookReads
<1>3. ~Whole(f) => x \in Position /\ x.usd = left
  <2>1. v.pos[a].amount \in Nat
    BY <1>2 DEF Position
  <2>2. Of(f, v.pos[a].amount) \in Nat /\ Of(f, v.pos[a].amount) <= v.pos[a].amount
    BY <2>1, OfBelow
  <2>. QED
    BY <2>1, <2>2 DEF Position
<1>4. /\ [v.pos EXCEPT ![a] = x] \in [Assets -> Position \cup {NoPos}]
      /\ e \in [Assets -> Nat \cup {NoExit}]
  BY <1>1, <1>2, <1>3 DEF VaultState, IsBook
<1>5. w = [v EXCEPT !.pos = [v.pos EXCEPT ![a] = x], !.quote = v.quote + proceeds, !.lastExit = e]
  BY <1>1, <1>2 DEF Sold, VaultState
<1>6. /\ w \in VaultState
      /\ w.equity = v.equity /\ w.quote = v.quote + proceeds /\ w.deployed = v.deployed
      /\ w.pos = [v.pos EXCEPT ![a] = x]
  <2> DEFINE y == [v.pos EXCEPT ![a] = x]
             q == v.quote + proceeds
  <2>1. q \in Int
    BY <1>1
  <2> HIDE DEF w, x, e, y, q
  <2>2. /\ w = [v EXCEPT !.pos = y, !.quote = q, !.lastExit = e]
        /\ y \in [Assets -> Position \cup {NoPos}]
        /\ e \in [Assets -> Nat \cup {NoExit}]
    BY <1>4, <1>5 DEF y, q
  <2>3. /\ w \in VaultState
        /\ w.equity = v.equity /\ w.quote = q /\ w.deployed = v.deployed /\ w.pos = y
    BY <2>1, <2>2 DEF VaultState
  <2>. QED
    BY <2>3 DEF y, q
<1>7. Whole(f) => x = NoPos
  OBVIOUS
<1> HIDE DEF w, x, e
<1>8. Changed(v, w, a, x)
  BY <1>1, <1>2, <1>4, <1>6 DEF Changed, IsBook
<1>9. /\ Held(w) = IF Whole(f) THEN Held(v) \ {a} ELSE Held(v)
      /\ Usd(w, a) = IF Whole(f) THEN 0 ELSE left
      /\ \A b \in Assets : b # a => Usd(w, b) = Usd(v, b)
  BY <1>3, <1>7, <1>8, ChangedReads
<1>10. Positions(w) = Positions(v) + (Usd(w, a) - Usd(v, a)) /\ Positions(v) \in Nat
  BY <1>1, <1>8, PositionsChange, PositionsNat
<1>11. Total(w) = Total(v) + proceeds + Usd(w, a) - Usd(v, a)
  <2>1. Usd(w, a) \in Nat
    BY <1>9
  <2>. QED
    BY <1>1, <1>2, <1>6, <1>10, <2>1 DEF Total
<1>. QED
  BY <1>6, <1>9, <1>11 DEF w

----------------------------------------------------------------------------
(* What one trade adds to a plan *)

Budget(p, equity) == pct(p.dailyDeployPct, equity)

\* A buy that leaves the book within every limit of the policy.
Fits(p, v, a, usd) ==
    /\ usd \in Nat
    /\ v.deployed + usd <= Budget(p, v.equity)
    /\ Usd(v, a) + usd <= pct(p.maxPositionPct, v.equity)
    /\ v.quote - usd >= pct(p.quoteReservePct, v.equity)
    /\ a \in Held(v) \/ Cardinality(Held(v)) < p.maxPositions

LEMMA ClampFits ==
    ASSUME NEW limit \in Int, NEW size \in Nat
    PROVE  /\ clampTo(limit, size) \in Nat /\ clampTo(limit, size) <= size
           /\ clampTo(limit, size) > 0 => clampTo(limit, size) <= limit
  BY DEF clampTo

\* What the policy of a vault is made of.
LEMMA PolicyTypes ==
    ASSUME NEW p \in Policies
    PROVE  /\ p.exposureScalar \in Nat /\ p.maxPositionPct \in Nat /\ p.maxPositions \in Nat
           /\ p.minTradeUsd \in Nat /\ p.quoteReservePct \in Nat /\ p.dailyDeployPct \in Nat
           /\ p.exitDustThreshold \in Nat /\ p.maxDrawdownPct \in Nat
           /\ p.maxPositions >= 1 /\ p.quoteReservePct <= 100
<1>1. p \in VaultPolicy /\ validatePolicy(p)
  BY MirrorAssumption
<1>2. p.maxPositions >= 1 /\ p.quoteReservePct <= 100
  BY <1>1 DEF validatePolicy, frac, VaultPolicy
<1>. QED
  BY <1>1, <1>2 DEF VaultPolicy

\* A buy of a positive size fits: every clamp of sizeEntry leaves it at or
\* under its limit, whatever the order of the clamps.
LEMMA SizedToFit ==
    ASSUME NEW p \in Policies, NEW v \in VaultState, NEW trade \in LeaderTrade,
           NEW book \in LeaderBook, NEW cap \in Nat
    PROVE  LET usd == sizeEntry(p, trade, book, v, cap)
           IN  /\ usd \in Nat
               /\ usd > 0 => /\ v.deployed + usd <= Budget(p, v.equity)
                             /\ Usd(v, trade.asset) + usd <= pct(p.maxPositionPct, v.equity)
                             /\ v.quote - usd >= pct(p.quoteReservePct, v.equity)
<1>1. /\ v.equity \in Nat /\ v.quote \in Int /\ v.deployed \in Nat /\ IsBook(v.pos)
      /\ trade.asset \in Assets /\ trade.usd \in Nat /\ book.total \in Nat
  BY DEF VaultState, LeaderTrade, LeaderBook, IsBook
<1>2. PICK daily \in Nat, share \in Nat, reserve \in Nat, held \in Nat :
          /\ daily = Budget(p, v.equity) /\ share = pct(p.maxPositionPct, v.equity)
          /\ reserve = pct(p.quoteReservePct, v.equity) /\ held = Usd(v, trade.asset)
  BY <1>1, PolicyTypes, PctNat, BookReads DEF Budget
<1>3. PICK raw \in Nat :
          raw = IF book.total <= 0 THEN 0
                ELSE (trade.usd * v.equity * p.exposureScalar) \div book.total
  <2>1. trade.usd * v.equity * p.exposureScalar \in Nat
    BY <1>1, PolicyTypes
  <2>2. CASE book.total <= 0
    BY <2>2
  <2>3. CASE ~(book.total <= 0)
    <3>1. (trade.usd * v.equity * p.exposureScalar) \div book.total \in Nat
      BY <1>1, <2>1, <2>3, DivNat
    <3>. QED
      BY <2>3, <3>1
  <2>. QED
    BY <2>2, <2>3
<1>4. PICK room \in Int, spare \in Int, left \in Int :
          room = share - held /\ spare = v.quote - reserve /\ left = daily - v.deployed
  <2>1. share - held \in Int /\ v.quote - reserve \in Int /\ daily - v.deployed \in Int
    BY <1>1, <1>2
  <2>. QED
    BY <2>1
<1>5. PICK s1 \in Nat : s1 = clampTo(room, raw) /\ (s1 > 0 => s1 <= room)
  BY ClampFits
<1>6. PICK s2 \in Nat : s2 = clampTo(cap, s1) /\ s2 <= s1
  <2>1. cap \in Int
    OBVIOUS
  <2>. QED
    BY <2>1, ClampFits
<1>7. PICK s3 \in Nat : s3 = clampTo(spare, s2) /\ s3 <= s2 /\ (s3 > 0 => s3 <= spare)
  BY ClampFits
<1>8. PICK s4 \in Nat : s4 = clampTo(left, s3) /\ s4 <= s3 /\ (s4 > 0 => s4 <= left)
  BY ClampFits
<1>9. sizeEntry(p, trade, book, v, cap) = IF s4 < p.minTradeUsd THEN 0 ELSE s4
  BY <1>2, <1>3, <1>4, <1>5, <1>6, <1>7, <1>8 DEF sizeEntry, Budget
<1>10. s4 > 0 => s4 <= room /\ s4 <= spare /\ s4 <= left
  BY <1>5, <1>6, <1>7, <1>8
<1>. QED
  BY <1>1, <1>2, <1>4, <1>9, <1>10

\* An exit disposes of a fraction.
LEMMA ExitIsAFraction ==
    ASSUME NEW p \in Policies, NEW v \in VaultState, NEW trade \in LeaderTrade, NEW post \in Nat
    PROVE  sizeExit(p, trade, leaderPositionBefore(post, trade), v) \in Fraction
<1>1. trade.amount \in Nat
  BY DEF LeaderTrade
<1>2. PICK before \in Nat :
          before = leaderPositionBefore(post, trade) /\ trade.amount <= before
  BY <1>1 DEF leaderPositionBefore
<1>3. Everything \in Fraction /\ Nothing \in Fraction
  BY DEF Everything, Nothing, Fraction
<1>4. before > 0 => <<trade.amount, before>> \in Fraction
  BY <1>1, <1>2 DEF Fraction
<1>. QED
  BY <1>2, <1>3, <1>4 DEF sizeExit

\* The provisional book after an intent.
Applied(v, intent, at) ==
    IF intent.kind = "buy" THEN Bought(v, intent.asset, intent.usd)
    ELSE applySell(v, intent.asset, intent.fraction, at)

Follows(p, at, v, intent, w) ==
    /\ w = Applied(v, intent, at)
    /\ intent.kind = "buy" => Fits(p, v, intent.asset, intent.usd)

LEMMA AppliedState ==
    ASSUME NEW v \in VaultState, NEW intent \in MirrorIntent, NEW at \in Nat
    PROVE  Applied(v, intent, at) \in VaultState /\ Applied(v, intent, at).equity = v.equity
<1>1. CASE intent.kind = "buy"
  <2>1. intent.asset \in Assets /\ intent.usd \in Nat
    BY <1>1 DEF MirrorIntent
  <2>. QED
    BY <1>1, <2>1, BuyEffect DEF Applied
<1>2. CASE intent.kind # "buy"
  <2>1. intent.asset \in Assets /\ intent.fraction \in Fraction
    BY <1>2 DEF MirrorIntent
  <2>2. CASE intent.asset \notin Held(v)
    BY <1>2, <2>2 DEF Applied, applySell
  <2>3. CASE intent.asset \in Held(v)
    <3> DEFINE u == Usd(v, intent.asset)
               x == Of(intent.fraction, u)
    <3>1. IsBook(v.pos)
      BY DEF VaultState, IsBook
    <3>2. u \in Nat
      BY <2>1, <3>1, BookReads
    <3>3. x \in Nat /\ u - x \in Nat
      BY <2>1, <3>2, OfBelow
    <3> HIDE DEF u, x
    <3>4. Applied(v, intent, at) = Sold(v, intent.asset, intent.fraction, x, u - x, at)
      BY <1>2, <2>3 DEF Applied, applySell, u, x
    <3>. QED
      BY <2>1, <2>3, <3>3, <3>4, SellEffect
  <2>. QED
    BY <2>2, <2>3
<1>. QED
  BY <1>1, <1>2

\* A trade adds nothing, or one intent of a trade not yet processed.
Adds(p, at, acc, next, x) ==
    /\ x \in MirrorIntent
    /\ x.id \notin acc.processed
    /\ Follows(p, at, acc.vault, x, next.vault)
    /\ next.processed = acc.processed \cup {x.id}
    /\ next.intents = Append(acc.intents, x)

\* The intent a trade becomes has its asset and its side.
OfTrade(x, trade) == x.id = trade.id /\ x.asset = trade.asset /\ x.kind = trade.side

LEMMA PlanTradeAdds ==
    ASSUME NEW p \in Policies, NEW acc, acc.vault \in VaultState, NEW trade \in LeaderTrade,
           NEW book \in LeaderBook, NEW markets, markets[trade.asset] \in Nat,
           NEW at \in Nat, NEW breaker
    PROVE  LET next == PlanTrade(acc, p, trade, book, markets, at, breaker)
           IN  next = acc \/ \E x \in MirrorIntent : Adds(p, at, acc, next, x) /\ OfTrade(x, trade)
<1> DEFINE next == PlanTrade(acc, p, trade, book, markets, at, breaker)
<1>1. /\ trade.id \in 1..MaxTrades /\ trade.id \in 0..MaxTrades
      /\ trade.asset \in Assets /\ trade.amount \in Nat /\ trade.side \in {"buy", "sell"}
  BY MirrorAssumption DEF LeaderTrade
<1>2. CASE ~Frozen(trade, breaker) /\ trade.side = "buy"
  <2> DEFINE usd == sizeEntry(p, trade, book, acc.vault, markets[trade.asset])
             x == Buy(trade, usd)
  <2>1. next = PlanBuy(acc, p, trade, book, markets, at)
    BY <1>2 DEF PlanTrade
  <2>2. CASE checkEntry(p, trade, acc.vault, acc.processed, markets, at) /\ usd > 0
    <3>1. /\ usd \in Nat
          /\ acc.vault.deployed + usd <= Budget(p, acc.vault.equity)
          /\ Usd(acc.vault, trade.asset) + usd <= pct(p.maxPositionPct, acc.vault.equity)
          /\ acc.vault.quote - usd >= pct(p.quoteReservePct, acc.vault.equity)
      BY <2>2, SizedToFit
    <3>2. Fits(p, acc.vault, trade.asset, usd) /\ trade.id \notin acc.processed
      BY <2>2, <3>1 DEF Fits, checkEntry, checkCommon
    <3>3. next = [vault |-> applyBuy(acc.vault, trade.asset, usd),
                  processed |-> acc.processed \cup {trade.id},
                  intents |-> Append(acc.intents, x)]
      BY <2>1, <2>2, <3>1 DEF PlanBuy
    <3> HIDE DEF next, usd
    <3>4. /\ x \in MirrorIntent
          /\ x.kind = "buy" /\ x.id = trade.id /\ x.asset = trade.asset /\ x.usd = usd
      BY <1>1, <3>1 DEF Buy, MirrorIntent
    <3> HIDE DEF x
    <3>5. Adds(p, at, acc, next, x)
      BY <3>2, <3>3, <3>4 DEF Adds, Follows, Applied, applyBuy
    <3>6. OfTrade(x, trade)
      BY <1>2, <3>4 DEF OfTrade
    <3>. QED
      BY <3>4, <3>5, <3>6 DEF next
  <2>3. CASE ~(checkEntry(p, trade, acc.vault, acc.processed, markets, at) /\ usd > 0)
    <3>1. usd \in Nat
      BY SizedToFit
    <3>2. next = acc
      BY <2>1, <2>3, <3>1 DEF PlanBuy
    <3>. QED
      BY <3>2
  <2>. QED
    BY <2>2, <2>3
<1>3. CASE ~Frozen(trade, breaker) /\ trade.side # "buy"
  <2> DEFINE f == sizeExit(p, trade, leaderPositionBefore(book.hold[trade.asset], trade), acc.vault)
             x == Sell(trade.id, trade.asset, f)
  <2>1. next = PlanSell(acc, p, trade, book, at)
    BY <1>3 DEF PlanTrade
  <2>2. f \in Fraction
    <3>1. book.hold[trade.asset] \in Nat
      BY <1>1 DEF LeaderBook
    <3>. QED
      BY <3>1, ExitIsAFraction
  <2>3. CASE checkExit(p, trade, acc.vault, acc.processed) /\ ~(f[1] <= 0)
    <3>1. trade.id \notin acc.processed
      BY <2>3 DEF checkExit, checkCommon
    <3>2. next = [vault |-> applySell(acc.vault, trade.asset, f, at),
                  processed |-> acc.processed \cup {trade.id},
                  intents |-> Append(acc.intents, x)]
      BY <2>1, <2>3 DEF PlanSell
    <3> HIDE DEF next, f
    <3>3. /\ x \in MirrorIntent
          /\ x.kind = "sell" /\ x.id = trade.id /\ x.asset = trade.asset /\ x.fraction = f
      BY <1>1, <2>2 DEF Sell, MirrorIntent
    <3> HIDE DEF x
    <3>4. Adds(p, at, acc, next, x)
      BY <3>1, <3>2, <3>3 DEF Adds, Follows, Applied
    <3>5. OfTrade(x, trade)
      BY <1>1, <1>3, <3>3 DEF OfTrade
    <3>. QED
      BY <3>3, <3>4, <3>5 DEF next
  <2>4. CASE ~(checkExit(p, trade, acc.vault, acc.processed) /\ ~(f[1] <= 0))
    <3>1. next = acc
      BY <2>1, <2>4 DEF PlanSell
    <3>. QED
      BY <3>1
  <2>. QED
    BY <2>3, <2>4
<1>4. CASE Frozen(trade, breaker)
  BY <1>4 DEF PlanTrade
<1>. QED
  BY <1>2, <1>3, <1>4

----------------------------------------------------------------------------
(* A plan and the provisional books behind it *)

Replay(p, at, books, intents) ==
    /\ intents \in Seq(MirrorIntent)
    /\ books \in [0..Len(intents) -> VaultState]
    /\ \A i \in 1..Len(intents) : Follows(p, at, books[i - 1], intents[i], books[i])

\* Every intent is of a trade not processed before the plan, no two of one.
Distinct(intents, processed) ==
    /\ \A i \in 1..Len(intents) : intents[i].id \notin processed
    /\ \A i, j \in 1..Len(intents) : i # j => intents[i].id # intents[j].id

\* What the planner carries from trade to trade, from the book v it began with.
Carried(p, at, v, processed, acc) ==
    /\ acc.vault \in VaultState
    /\ acc.intents \in Seq(MirrorIntent)
    /\ \E books : /\ Replay(p, at, books, acc.intents)
                  /\ books[0] = v /\ books[Len(acc.intents)] = acc.vault
    /\ Distinct(acc.intents, processed)
    /\ processed \subseteq acc.processed
    /\ \A i \in 1..Len(acc.intents) : acc.intents[i].id \in acc.processed

LEMMA AddsCarries ==
    ASSUME NEW p, NEW at \in Nat, NEW v, NEW processed, NEW acc, NEW next, NEW x,
           Carried(p, at, v, processed, acc), Adds(p, at, acc, next, x)
    PROVE  Carried(p, at, v, processed, next)
<1>1. /\ acc.vault \in VaultState /\ acc.intents \in Seq(MirrorIntent)
      /\ Distinct(acc.intents, processed) /\ processed \subseteq acc.processed
      /\ \A i \in 1..Len(acc.intents) : acc.intents[i].id \in acc.processed
  BY DEF Carried
<1>2. PICK books : /\ Replay(p, at, books, acc.intents)
                   /\ books[0] = v /\ books[Len(acc.intents)] = acc.vault
  BY DEF Carried
<1>3. /\ x \in MirrorIntent /\ x.id \notin acc.processed
      /\ Follows(p, at, acc.vault, x, next.vault)
      /\ next.processed = acc.processed \cup {x.id}
      /\ next.intents = Append(acc.intents, x)
  BY DEF Adds
<1>4. PICK n \in Nat : n = Len(acc.intents)
  BY <1>1
<1>5. /\ next.intents \in Seq(MirrorIntent) /\ Len(next.intents) = n + 1
      /\ \A i \in 1..n : next.intents[i] = acc.intents[i]
      /\ next.intents[n + 1] = x
  BY <1>1, <1>3, <1>4
<1>6. next.vault \in VaultState
  BY <1>1, <1>3, AppliedState DEF Follows
<1> DEFINE longer == [i \in 0..(n + 1) |-> IF i <= n THEN books[i] ELSE next.vault]
<1>7. /\ longer \in [0..(n + 1) -> VaultState]
      /\ longer[n + 1] = next.vault /\ \A i \in 0..n : longer[i] = books[i]
  <2>1. \A i \in 0..n : books[i] \in VaultState
    BY <1>2, <1>4 DEF Replay
  <2>2. \A i \in 0..(n + 1) : i <= n => i \in 0..n
    OBVIOUS
  <2>. QED
    BY <1>6, <2>1, <2>2
<1> HIDE DEF longer
<1>8. \A i \in 1..(n + 1) : Follows(p, at, longer[i - 1], next.intents[i], longer[i])
  <2>1. SUFFICES ASSUME NEW i \in 1..(n + 1)
                 PROVE  Follows(p, at, longer[i - 1], next.intents[i], longer[i])
    OBVIOUS
  <2>2. CASE i = n + 1
    <3>1. i - 1 = n /\ n \in 0..n
      BY <2>2
    <3>2. longer[i - 1] = acc.vault /\ longer[i] = next.vault /\ next.intents[i] = x
      BY <1>2, <1>4, <1>5, <1>7, <2>2, <3>1
    <3>. QED
      BY <1>3, <3>2
  <2>3. CASE i # n + 1
    <3>1. i \in 1..n /\ i \in 0..n /\ i - 1 \in 0..n
      BY <2>3
    <3>2. Follows(p, at, books[i - 1], acc.intents[i], books[i])
      BY <1>2, <1>4, <3>1 DEF Replay
    <3>. QED
      BY <1>5, <1>7, <3>1, <3>2
  <2>. QED
    BY <2>2, <2>3
<1>9. Replay(p, at, longer, next.intents)
  BY <1>5, <1>7, <1>8 DEF Replay
<1>10. longer[0] = v /\ longer[Len(next.intents)] = next.vault
  BY <1>2, <1>5, <1>7
<1>11. \A i \in 1..(n + 1) : i = n + 1 \/ i \in 1..n
  OBVIOUS
<1>12. \A i \in 1..(n + 1) : next.intents[i].id \notin processed /\ next.intents[i].id \in next.processed
  BY <1>1, <1>3, <1>4, <1>5, <1>11 DEF Distinct
<1>13. \A i, j \in 1..(n + 1) : i # j => next.intents[i].id # next.intents[j].id
  BY <1>1, <1>3, <1>4, <1>5, <1>11 DEF Distinct
<1>14. Distinct(next.intents, processed)
  BY <1>5, <1>12, <1>13 DEF Distinct
<1>15. processed \subseteq next.processed
  BY <1>1, <1>3
<1>. QED
  BY <1>5, <1>6, <1>9, <1>10, <1>12, <1>14, <1>15 DEF Carried

\* The planner's recursive function exists: it is built one trade at a time.
After(f, n, start, p, trades, book, markets, at, breaker) ==
    IF n = 0 THEN start
    ELSE PlanTrade(f[n - 1], p, trades[n], book, markets, at, breaker)

IsPlan(f, N, start, p, trades, book, markets, at, breaker) ==
    f = [n \in 0..N |-> After(f, n, start, p, trades, book, markets, at, breaker)]

LEMMA PlanExists ==
    ASSUME NEW start, NEW p, NEW trades, NEW book, NEW markets, NEW at, NEW breaker, NEW N \in Nat
    PROVE  \E f : IsPlan(f, N, start, p, trades, book, markets, at, breaker)
<1> DEFINE Next(f, n) == After(f, n, start, p, trades, book, markets, at, breaker)
           Plans(f, n) == IsPlan(f, n, start, p, trades, book, markets, at, breaker)
           Good == {n \in Nat : \E f : Plans(f, n)}
<1>1. 0 \in Good
  <2> DEFINE f == [n \in 0..0 |-> start]
  <2>1. \A n \in 0..0 : Next(f, n) = start
    BY DEF After
  <2>2. f = [n \in 0..0 |-> Next(f, n)]
    BY <2>1
  <2>. QED
    BY <2>2 DEF IsPlan
<1>2. ASSUME NEW n \in Nat, n \in Good PROVE n + 1 \in Good
  <2>1. PICK f : f = [m \in 0..n |-> Next(f, m)]
    BY <1>2 DEF IsPlan
  <2> DEFINE g == [m \in 0..(n + 1) |-> IF m <= n THEN f[m] ELSE Next(f, n + 1)]
  <2>2. \A m \in 0..n : g[m] = f[m]
    OBVIOUS
  <2>3. \A m \in 0..(n + 1) : Next(g, m) = Next(f, m)
    <3>1. \A m \in 0..(n + 1) : m # 0 => m - 1 \in 0..n
      OBVIOUS
    <3> HIDE DEF g
    <3>. QED
      BY <2>2, <3>1 DEF After
  <2>4. \A m \in 0..(n + 1) : g[m] = Next(f, m)
    <3>1. \A m \in 0..n : f[m] = Next(f, m)
      BY <2>1
    <3>2. \A m \in 0..(n + 1) : m \in 0..n \/ m = n + 1
      OBVIOUS
    <3>3. n + 1 \in 0..(n + 1) /\ ~(n + 1 <= n)
      OBVIOUS
    <3> HIDE DEF Next
    <3>4. g[n + 1] = Next(f, n + 1)
      BY <3>3
    <3>. QED
      BY <2>2, <3>1, <3>2, <3>4
  <2>5. g = [m \in 0..(n + 1) |-> Next(g, m)]
    <3>1. \A m \in 0..(n + 1) : g[m] = Next(g, m)
      BY <2>3, <2>4
    <3>2. g = [m \in 0..(n + 1) |-> g[m]]
      OBVIOUS
    <3> HIDE DEF g, Next
    <3>. QED
      BY <3>1, <3>2
  <2> HIDE DEF g
  <2>6. \E h : Plans(h, n + 1)
    BY <2>5 DEF IsPlan
  <2>. QED
    BY <2>6
<1>3. N \in Good
  <2> HIDE DEF Good
  <2>. QED
    BY <1>1, <1>2, SuccessorInduction
<1>. QED
  BY <1>3

\* The plan of a batch, when no drawdown flattens the vault: its intents can
\* be replayed from the book it was made for.
Plannable(p, trades, book, vault, markets, processed, at) ==
    /\ p \in Policies /\ trades \in Seq(LeaderTrade) /\ book \in LeaderBook
    /\ vault \in VaultState /\ markets \in Markets(trades) /\ at \in Nat

Empty(vault, processed) == [vault |-> vault, processed |-> processed, intents |-> <<>>]

\* The plan, trade by trade.
Unfolds(planned, p, trades, book, vault, markets, processed, marks, at) ==
    LET breaker == checkBreakers(p, vault, marks, book)
    IN  /\ planned[0] = Empty(vault, processed)
        /\ \A n \in Nat : n + 1 <= Len(trades) =>
              planned[n + 1] = PlanTrade(planned[n], p, trades[n + 1], book, markets, at, breaker)
        /\ planCycle(p, trades, book, vault, markets, processed, marks, at)
              = IF breaker = "paused" THEN <<>> ELSE planned[Len(trades)].intents

LEMMA PlanUnfolds ==
    ASSUME NEW p, NEW trades, NEW book, NEW vault, NEW markets, NEW processed, NEW marks, NEW at,
           trades \in Seq(LeaderTrade), checkBreakers(p, vault, marks, book) # "max-drawdown"
    PROVE  \E planned : Unfolds(planned, p, trades, book, vault, markets, processed, marks, at)
<1> DEFINE breaker == checkBreakers(p, vault, marks, book)
           start == [vault |-> vault, processed |-> processed,
                     intents |-> IF breaker = "max-drawdown" THEN Flatten(vault) ELSE <<>>]
           planned == CHOOSE f : IsPlan(f, Len(trades), start, p, trades, book, markets, at, breaker)
           intents == planCycle(p, trades, book, vault, markets, processed, marks, at)
<1>1. PICK N \in Nat : N = Len(trades)
  OBVIOUS
<1>2. planned = [n \in 0..N |-> After(planned, n, start, p, trades, book, markets, at, breaker)]
  <2>1. \E f : IsPlan(f, Len(trades), start, p, trades, book, markets, at, breaker)
    BY <1>1, PlanExists
  <2>2. IsPlan(planned, Len(trades), start, p, trades, book, markets, at, breaker)
    <3> HIDE DEF start, breaker
    <3>. QED
      BY <2>1
  <2> HIDE DEF planned, start, breaker
  <2>. QED
    BY <1>1, <2>2 DEF IsPlan
<1>3. intents = IF breaker = "paused" THEN <<>> ELSE planned[Len(trades)].intents
  BY Zenon DEF planCycle, IsPlan, After
<1>4. start = Empty(vault, processed)
  BY DEF Empty
<1> HIDE DEF planned, breaker, intents, start
<1>5. planned[0] = Empty(vault, processed)
  BY <1>2, <1>4 DEF After
<1>6. ASSUME NEW n \in Nat, n + 1 <= Len(trades)
      PROVE  planned[n + 1] = PlanTrade(planned[n], p, trades[n + 1], book, markets, at, breaker)
  <2>1. n + 1 \in 0..N /\ n + 1 # 0 /\ (n + 1) - 1 = n
    BY <1>1, <1>6
  <2>2. planned[n + 1] = After(planned, n + 1, start, p, trades, book, markets, at, breaker)
    BY <1>2, <2>1
  <2>. QED
    BY <2>1, <2>2 DEF After
<1>7. Unfolds(planned, p, trades, book, vault, markets, processed, marks, at)
  BY <1>3, <1>5, <1>6 DEF Unfolds, breaker, intents
<1>. QED
  BY <1>7

\* Where the planner starts, and what each trade it reads adds.
LEMMA StartIsCarried ==
    ASSUME NEW p, NEW at, NEW vault \in VaultState, NEW processed
    PROVE  Carried(p, at, vault, processed, Empty(vault, processed))
<1> DEFINE start == Empty(vault, processed)
           books == [i \in 0..0 |-> vault]
<1>1. /\ start.vault = vault /\ start.processed = processed /\ start.intents = <<>>
      /\ Len(start.intents) = 0 /\ start.intents \in Seq(MirrorIntent)
  BY DEF Empty
<1>2. books \in [0..0 -> VaultState] /\ books[0] = vault
  OBVIOUS
<1> HIDE DEF start, books
<1>3. Replay(p, at, books, start.intents)
  BY <1>1, <1>2 DEF Replay
<1>4. Carried(p, at, vault, processed, start)
  BY <1>1, <1>2, <1>3 DEF Carried, Distinct
<1>. QED
  BY <1>4 DEF start

Stepped(p, at, acc, next, trade) ==
    next = acc \/ \E x \in MirrorIntent : Adds(p, at, acc, next, x) /\ OfTrade(x, trade)

LEMMA PlanSteps ==
    ASSUME NEW planned, NEW p, NEW trades, NEW book, NEW vault, NEW markets, NEW processed,
           NEW marks, NEW at,
           Plannable(p, trades, book, vault, markets, processed, at),
           Unfolds(planned, p, trades, book, vault, markets, processed, marks, at),
           NEW n \in Nat, n + 1 <= Len(trades), planned[n].vault \in VaultState
    PROVE  /\ trades[n + 1] \in LeaderTrade
           /\ Stepped(p, at, planned[n], planned[n + 1], trades[n + 1])
<1> DEFINE trade == trades[n + 1]
           breaker == checkBreakers(p, vault, marks, book)
<1>1. /\ p \in Policies /\ trades \in Seq(LeaderTrade) /\ book \in LeaderBook
      /\ markets \in Markets(trades) /\ at \in Nat
  BY DEF Plannable
<1>2. planned[n + 1] = PlanTrade(planned[n], p, trade, book, markets, at, breaker)
  BY DEF Unfolds
<1>3. trade \in LeaderTrade /\ trade \in Range(trades)
  <2>1. n + 1 \in 1..Len(trades)
    BY <1>1
  <2>. QED
    BY <1>1, <2>1 DEF Range
<1>4. markets[trade.asset] \in Nat
  <2>1. {0} \cup ImpactCaps \subseteq Nat
    BY MirrorAssumption
  <2>. QED
    BY <1>1, <1>3, <2>1 DEF Markets
<1> HIDE DEF trade, breaker
<1>5. Stepped(p, at, planned[n], planned[n + 1], trade)
  BY <1>1, <1>2, <1>3, <1>4, PlanTradeAdds DEF Stepped
<1>. QED
  BY <1>3, <1>5 DEF trade

LEMMA PlanCarries ==
    ASSUME NEW planned, NEW p, NEW trades, NEW book, NEW vault, NEW markets, NEW processed,
           NEW marks, NEW at,
           Plannable(p, trades, book, vault, markets, processed, at),
           Unfolds(planned, p, trades, book, vault, markets, processed, marks, at)
    PROVE  \A n \in Nat : n <= Len(trades) => Carried(p, at, vault, processed, planned[n])
<1> DEFINE Good == {n \in Nat : n <= Len(trades) => Carried(p, at, vault, processed, planned[n])}
<1>1. vault \in VaultState /\ at \in Nat /\ Len(trades) \in Nat
  BY DEF Plannable
<1>2. 0 \in Good
  BY <1>1, StartIsCarried DEF Unfolds
<1>3. ASSUME NEW n \in Nat, n \in Good PROVE n + 1 \in Good
  <2>1. SUFFICES ASSUME n + 1 <= Len(trades)
                 PROVE  Carried(p, at, vault, processed, planned[n + 1])
    OBVIOUS
  <2>2. Carried(p, at, vault, processed, planned[n])
    BY <1>1, <1>3, <2>1
  <2>3. Stepped(p, at, planned[n], planned[n + 1], trades[n + 1])
    BY <2>1, <2>2, PlanSteps DEF Carried
  <2>. QED
    BY <1>1, <2>2, <2>3, AddsCarries DEF Stepped
<1> HIDE DEF Good
<1>4. Nat \subseteq Good
  BY <1>2, <1>3, SuccessorInduction
<1>. QED
  BY <1>4 DEF Good

LEMMA PlanReplays ==
    ASSUME NEW p, NEW trades, NEW book, NEW vault, NEW markets, NEW processed, NEW marks, NEW at,
           Plannable(p, trades, book, vault, markets, processed, at),
           checkBreakers(p, vault, marks, book) # "max-drawdown"
    PROVE  LET intents == planCycle(p, trades, book, vault, markets, processed, marks, at)
           IN  /\ Distinct(intents, processed)
               /\ \E books : Replay(p, at, books, intents) /\ books[0] = vault
<1> DEFINE intents == planCycle(p, trades, book, vault, markets, processed, marks, at)
<1>1. vault \in VaultState /\ trades \in Seq(LeaderTrade) /\ Len(trades) \in Nat
  BY DEF Plannable
<1>2. PICK planned : Unfolds(planned, p, trades, book, vault, markets, processed, marks, at)
  BY <1>1, PlanUnfolds
<1>3. PICK acc : Carried(p, at, vault, processed, acc) /\ intents = acc.intents
  <2>1. CASE checkBreakers(p, vault, marks, book) = "paused"
    <3>1. intents = Empty(vault, processed).intents
      BY <1>2, <2>1 DEF Unfolds, Empty
    <3>. QED
      BY <1>1, <3>1, StartIsCarried
  <2>2. CASE checkBreakers(p, vault, marks, book) # "paused"
    <3>1. intents = planned[Len(trades)].intents
      BY <1>2, <2>2 DEF Unfolds
    <3>. QED
      BY <1>1, <1>2, <3>1, PlanCarries
  <2>. QED
    BY <2>1, <2>2
<1> HIDE DEF intents
<1>4. Distinct(intents, processed) /\ \E books : Replay(p, at, books, intents) /\ books[0] = vault
  BY <1>3 DEF Carried
<1>. QED
  BY <1>4 DEF intents

LEMMA OneLess ==
    ASSUME NEW n \in Nat \ {0}
    PROVE  \E m \in Nat : m + 1 = n
<1>1. n - 1 \in Nat /\ (n - 1) + 1 = n
  OBVIOUS
<1>. QED
  BY <1>1

\* The first intent of a plan, and what is left after it.
LEMMA ReplayTail ==
    ASSUME NEW p, NEW at, NEW books, NEW intents, Replay(p, at, books, intents), intents # <<>>
    PROVE  /\ Head(intents) \in MirrorIntent
           /\ books[0] \in VaultState /\ books[1] \in VaultState
           /\ Follows(p, at, books[0], Head(intents), books[1])
           /\ \E rest : /\ Replay(p, at, rest, Tail(intents)) /\ rest[0] = books[1]
                        /\ rest[Len(Tail(intents))] = books[Len(intents)]
<1>1. /\ intents \in Seq(MirrorIntent)
      /\ books \in [0..Len(intents) -> VaultState]
      /\ \A i \in 1..Len(intents) : Follows(p, at, books[i - 1], intents[i], books[i])
  BY DEF Replay
<1>2. PICK n \in Nat : n + 1 = Len(intents)
  <2>1. Len(intents) \in Nat \ {0}
    BY <1>1, EmptySeq
  <2>. QED
    BY <2>1, OneLess
<1>3. /\ Head(intents) = intents[1] /\ intents[1] \in MirrorIntent
      /\ Tail(intents) \in Seq(MirrorIntent) /\ Len(Tail(intents)) = n
      /\ \A i \in 1..n : Tail(intents)[i] = intents[i + 1]
  BY <1>1, <1>2, HeadTailProperties
<1>4. 0 \in 0..(n + 1) /\ 1 \in 0..(n + 1) /\ 1 \in 1..(n + 1) /\ 1 - 1 = 0
  OBVIOUS
<1>5. /\ books[0] \in VaultState /\ books[1] \in VaultState
      /\ Follows(p, at, books[0], Head(intents), books[1])
  BY <1>1, <1>2, <1>3, <1>4
<1> DEFINE rest == [i \in 0..n |-> books[i + 1]]
<1>6. rest \in [0..n -> VaultState] /\ rest[0] = books[1] /\ rest[n] = books[n + 1]
  <2>1. \A i \in 0..n : i + 1 \in 0..(n + 1)
    OBVIOUS
  <2>2. 0 \in 0..n /\ n \in 0..n
    OBVIOUS
  <2>3. rest \in [0..n -> VaultState]
    BY <1>1, <1>2, <2>1
  <2>. QED
    BY <2>2, <2>3
<1>7. \A i \in 1..n : Follows(p, at, rest[i - 1], Tail(intents)[i], rest[i])
  <2>1. SUFFICES ASSUME NEW i \in 1..n
                 PROVE  Follows(p, at, rest[i - 1], Tail(intents)[i], rest[i])
    OBVIOUS
  <2>2. /\ i + 1 \in 1..(n + 1) /\ i - 1 \in 0..n /\ i \in 0..n
        /\ (i + 1) - 1 = i /\ (i - 1) + 1 = i
    OBVIOUS
  <2>3. rest[i - 1] = books[i] /\ rest[i] = books[i + 1]
    BY <2>2
  <2>4. Follows(p, at, books[(i + 1) - 1], intents[i + 1], books[i + 1])
    BY <1>1, <1>2, <2>2
  <2> HIDE DEF rest
  <2>. QED
    BY <1>3, <2>2, <2>3, <2>4
<1> HIDE DEF rest
<1>8. Replay(p, at, rest, Tail(intents))
  BY <1>3, <1>6, <1>7 DEF Replay
<1>. QED
  BY <1>2, <1>3, <1>5, <1>6, <1>8

LEMMA DistinctTail ==
    ASSUME NEW intents \in Seq(MirrorIntent), intents # <<>>, NEW processed,
           Distinct(intents, processed)
    PROVE  /\ Head(intents).id \notin processed
           /\ Distinct(Tail(intents), processed)
           /\ Distinct(Tail(intents), processed \cup {Head(intents).id})
<1>1. PICK n \in Nat : n + 1 = Len(intents)
  <2>1. Len(intents) \in Nat \ {0}
    BY EmptySeq
  <2>. QED
    BY <2>1, OneLess
<1>2. /\ Head(intents) = intents[1] /\ Len(Tail(intents)) = n
      /\ \A i \in 1..n : Tail(intents)[i] = intents[i + 1]
  BY <1>1, HeadTailProperties
<1>3. /\ \A i \in 1..(n + 1) : intents[i].id \notin processed
      /\ \A i, j \in 1..(n + 1) : i # j => intents[i].id # intents[j].id
  BY <1>1 DEF Distinct
<1>4. /\ 1 \in 1..(n + 1)
      /\ \A i \in 1..n : i + 1 \in 1..(n + 1) /\ i + 1 # 1
      /\ \A i, j \in 1..n : i # j => i + 1 # j + 1
  OBVIOUS
<1>5. \A i \in 1..n : /\ Tail(intents)[i].id \notin processed
                      /\ Tail(intents)[i].id # Head(intents).id
  BY <1>2, <1>3, <1>4
<1>6. \A i, j \in 1..n : i # j => Tail(intents)[i].id # Tail(intents)[j].id
  BY <1>2, <1>3, <1>4
<1>. QED
  BY <1>2, <1>3, <1>4, <1>5, <1>6 DEF Distinct

----------------------------------------------------------------------------
(* The real book against the provisional one.  When every exit so far has   *)
(* filled at its book value (ok), the real book holds no more of anything,  *)
(* and has at least as much quote, however many buys were refused.          *)

CapsHold(p, v) ==
    /\ \A a \in Held(v) : Usd(v, a) <= pct(p.maxPositionPct, v.equity)
    /\ Cardinality(Held(v)) <= p.maxPositions
    /\ v.quote >= pct(p.quoteReservePct, v.equity)

Dominates(p, v, real) ==
    /\ Held(real) \subseteq Held(v)
    /\ \A a \in Assets : Usd(real, a) <= Usd(v, a)
    /\ Total(v) <= Total(real)
    /\ Cardinality(Held(v)) <= p.maxPositions

Trails(v, real) ==
    /\ v \in VaultState /\ real \in VaultState /\ v.equity = real.equity
    /\ real.deployed <= v.deployed

Covers(p, v, real, ok) == Trails(v, real) /\ (ok => Dominates(p, v, real))

LEMMA HeldFinite ==
    ASSUME NEW v
    PROVE  /\ Held(v) \subseteq Assets /\ IsFiniteSet(Held(v))
           /\ Cardinality(Held(v)) \in Nat
<1>1. Held(v) \subseteq Assets
  BY DEF Held
<1>2. IsFiniteSet(Held(v))
  BY <1>1, MirrorAssumption, FS_Subset
<1>. QED
  BY <1>1, <1>2, FS_CardinalityType

LEMMA FewerHeld ==
    ASSUME NEW v, NEW w, Held(v) \subseteq Held(w)
    PROVE  Cardinality(Held(v)) <= Cardinality(Held(w))
  BY HeldFinite, FS_Subset

\* The real quote is no smaller than the provisional one.
LEMMA QuoteCovered ==
    ASSUME NEW p, NEW v \in VaultState, NEW real \in VaultState, Dominates(p, v, real)
    PROVE  v.quote <= real.quote
<1>1. /\ IsBook(v.pos) /\ IsBook(real.pos) /\ v.quote \in Int /\ real.quote \in Int
      /\ \A a \in Assets : Usd(real, a) <= Usd(v, a)
      /\ Total(v) <= Total(real)
  BY DEF VaultState, IsBook, Dominates
<1>2. Positions(real) <= Positions(v) /\ Positions(real) \in Nat /\ Positions(v) \in Nat
  BY <1>1, PositionsBelow, PositionsNat
<1>. QED
  BY <1>1, <1>2 DEF Total

\* A buy the plan counted on is filled, or is not.
LEMMA BuyCovered ==
    ASSUME NEW p \in Policies, NEW v, NEW real, Trails(v, real),
           NEW a \in Assets, NEW usd, Fits(p, v, a, usd)
    PROVE  LET w == Bought(v, a, usd)
               r == Bought(real, a, usd)
           IN  /\ Trails(w, r) /\ Trails(w, real)
               /\ r.deployed <= Budget(p, real.equity) /\ r.equity = real.equity
               /\ Dominates(p, v, real) =>
                      /\ Dominates(p, w, r) /\ Dominates(p, w, real)
                      /\ CapsHold(p, real) => CapsHold(p, r)
<1> DEFINE w == Bought(v, a, usd)
           r == Bought(real, a, usd)
<1>1. /\ usd \in Nat
      /\ v.deployed + usd <= Budget(p, v.equity)
      /\ Usd(v, a) + usd <= pct(p.maxPositionPct, v.equity)
      /\ v.quote - usd >= pct(p.quoteReservePct, v.equity)
      /\ a \in Held(v) \/ Cardinality(Held(v)) < p.maxPositions
  BY DEF Fits
<1>2. /\ v \in VaultState /\ real \in VaultState /\ v.equity = real.equity
      /\ real.deployed <= v.deployed
  BY DEF Trails
<1>3. /\ v.quote \in Int /\ v.deployed \in Nat /\ v.equity \in Nat /\ IsBook(v.pos)
      /\ real.quote \in Int /\ real.deployed \in Nat /\ IsBook(real.pos)
  BY <1>2 DEF VaultState, IsBook
<1>4. /\ w \in VaultState
      /\ w.equity = v.equity /\ w.quote = v.quote - usd /\ w.deployed = v.deployed + usd
      /\ Held(w) = Held(v) \cup {a} /\ Usd(w, a) = Usd(v, a) + usd
      /\ \A b \in Assets : b # a => Usd(w, b) = Usd(v, b)
      /\ Total(w) = Total(v)
  BY <1>1, <1>2, BuyEffect
<1>5. /\ r \in VaultState
      /\ r.equity = real.equity /\ r.quote = real.quote - usd /\ r.deployed = real.deployed + usd
      /\ Held(r) = Held(real) \cup {a} /\ Usd(r, a) = Usd(real, a) + usd
      /\ \A b \in Assets : b # a => Usd(r, b) = Usd(real, b)
      /\ Total(r) = Total(real)
  BY <1>1, <1>2, BuyEffect
<1> HIDE DEF w, r
<1>6. \A b \in Assets : Usd(v, b) \in Nat /\ Usd(real, b) \in Nat
  BY <1>3, BookReads
<1>7. Budget(p, v.equity) \in Nat
  BY <1>3, PctNat, PolicyTypes DEF Budget
<1>8. ASSUME Dominates(p, v, real) PROVE Cardinality(Held(w)) <= p.maxPositions
  <2>1. Cardinality(Held(v)) <= p.maxPositions /\ p.maxPositions \in Nat
    BY <1>2, <1>8, PolicyTypes DEF Dominates
  <2>2. CASE a \in Held(v)
    <3>1. Held(w) = Held(v)
      BY <1>4, <2>2
    <3>. QED
      BY <2>1, <3>1
  <2>3. CASE a \notin Held(v)
    <3>1. Cardinality(Held(v) \cup {a}) = Cardinality(Held(v)) + 1
      BY <2>3, HeldFinite, FS_AddElement
    <3>2. Cardinality(Held(v)) \in Nat
      BY HeldFinite
    <3>. QED
      BY <1>1, <1>4, <2>1, <2>3, <3>1, <3>2
  <2>. QED
    BY <2>2, <2>3
<1>9. ASSUME Dominates(p, v, real) PROVE Dominates(p, w, r) /\ Dominates(p, w, real)
  <2>1. /\ Held(real) \subseteq Held(v) /\ \A b \in Assets : Usd(real, b) <= Usd(v, b)
        /\ Total(v) <= Total(real)
    BY <1>2, <1>9 DEF Dominates
  <2>2. \A b \in Assets : Usd(r, b) <= Usd(w, b) /\ Usd(real, b) <= Usd(w, b)
    BY <1>1, <1>4, <1>5, <1>6, <2>1
  <2>. QED
    BY <1>4, <1>5, <1>8, <1>9, <2>1, <2>2 DEF Dominates
<1>10. Trails(w, r) /\ Trails(w, real)
  <2>1. r.deployed <= w.deployed /\ real.deployed <= w.deployed
    BY <1>1, <1>2, <1>3, <1>4, <1>5
  <2>. QED
    BY <1>2, <1>4, <1>5, <2>1 DEF Trails
<1>11. r.deployed <= Budget(p, real.equity)
  BY <1>1, <1>2, <1>3, <1>5, <1>7
<1>12. ASSUME Dominates(p, v, real), CapsHold(p, real) PROVE CapsHold(p, r)
  <2>1. /\ Dominates(p, v, real) /\ Dominates(p, w, r)
        /\ \A b \in Held(real) : Usd(real, b) <= pct(p.maxPositionPct, real.equity)
    BY <1>2, <1>9, <1>12 DEF CapsHold
  <2>2. PICK share \in Nat, reserve \in Nat :
            share = pct(p.maxPositionPct, v.equity) /\ reserve = pct(p.quoteReservePct, v.equity)
    BY <1>3, PctNat, PolicyTypes
  <2>3. \A b \in Held(r) : Usd(r, b) <= share
    <3>1. Usd(real, a) <= Usd(v, a) /\ Usd(v, a) \in Nat /\ Usd(real, a) \in Nat
      BY <1>6, <2>1 DEF Dominates
    <3>2. Usd(r, a) <= share
      BY <1>1, <1>5, <2>2, <3>1
    <3>3. \A b \in Held(real) : b \in Assets
      BY HeldFinite
    <3>. QED
      BY <1>2, <1>5, <2>1, <2>2, <3>2, <3>3
  <2>4. Cardinality(Held(r)) <= p.maxPositions
    <3>1. Cardinality(Held(r)) <= Cardinality(Held(w)) /\ Cardinality(Held(w)) <= p.maxPositions
      BY <2>1, FewerHeld DEF Dominates
    <3>. QED
      BY <3>1, HeldFinite, PolicyTypes
  <2>5. r.quote >= reserve
    <3>1. v.quote <= real.quote
      BY <1>2, <2>1, QuoteCovered
    <3>. QED
      BY <1>1, <1>3, <1>5, <2>2, <3>1
  <2>. QED
    BY <1>2, <1>5, <2>2, <2>3, <2>4, <2>5 DEF CapsHold
<1>. QED
  BY <1>5, <1>9, <1>10, <1>11, <1>12 DEF w, r

LEMMA WholeIsAll ==
    ASSUME NEW f \in Fraction, NEW u \in Nat, Whole(f)
    PROVE  Of(f, u) = u
<1>1. PICK y \in Nat : f[1] = y /\ f[2] = y /\ y > 0
  BY DEF Fraction, Whole
<1>2. y * u \in Nat
  BY <1>1
<1>3. PICK q \in Nat : q = (y * u) \div y /\ q * y <= y * u /\ y * u < q * y + y
  BY <1>1, <1>2, DivNat
<1>4. q = u
  <2>1. CASE q + 1 <= u
    <3>1. y * (q + 1) <= y * u
      BY <1>1, <1>3, <2>1, ProductMono
    <3>. QED
      BY <1>1, <1>3, <3>1
  <2>2. CASE u + 1 <= q
    <3>1. y * (u + 1) <= y * q
      BY <1>1, <1>3, <2>2, ProductMono
    <3>. QED
      BY <1>1, <1>3, <3>1
  <2>. QED
    BY <1>3, <2>1, <2>2
<1>. QED
  BY <1>1, <1>3, <1>4 DEF Of

\* A sale as applyFill books it, for what the market gave.
SoldFor(v, a, f, filled, at) ==
    IF a \notin Held(v) THEN v
    ELSE Sold(v, a, f, filled, IF filled > Usd(v, a) THEN 0 ELSE Usd(v, a) - filled, at)

LEMMA SaleEffect ==
    ASSUME NEW v \in VaultState, NEW a \in Assets, NEW f \in Fraction, NEW filled \in Nat, NEW at \in Nat
    PROVE  LET r == SoldFor(v, a, f, filled, at)
           IN  /\ r \in VaultState /\ r.equity = v.equity /\ r.deployed = v.deployed
               /\ v.quote <= r.quote
               /\ Held(r) = IF Whole(f) THEN Held(v) \ {a} ELSE Held(v)
               /\ \A b \in Assets : Usd(r, b) <= Usd(v, b) /\ (b # a => Usd(r, b) = Usd(v, b))
               /\ Of(f, Usd(v, a)) <= filled =>
                      /\ Total(v) <= Total(r)
                      /\ Usd(r, a) <= Usd(v, a) - Of(f, Usd(v, a))
<1> DEFINE r == SoldFor(v, a, f, filled, at)
           left == IF filled > Usd(v, a) THEN 0 ELSE Usd(v, a) - filled
<1>1. IsBook(v.pos) /\ v.quote \in Int
  BY DEF VaultState, IsBook
<1>2. \A b \in Assets : Usd(v, b) \in Nat
  BY <1>1, BookReads
<1>3. PICK u \in Nat, part \in Nat :
          /\ u = Usd(v, a) /\ part = Of(f, Usd(v, a)) /\ part <= u
          /\ Whole(f) => part = u
  BY <1>2, OfBelow, WholeIsAll
<1>4. PICK total \in Int : total = Total(v)
  <2>1. Positions(v) \in Nat
    BY <1>1, PositionsNat
  <2>. QED
    BY <1>1, <2>1 DEF Total
<1>5. CASE a \notin Held(v)
  <2>1. r = v
    BY <1>5 DEF SoldFor
  <2>2. u = 0
    BY <1>1, <1>3, <1>5, BookReads
  <2>3. Held(v) \ {a} = Held(v)
    BY <1>5
  <2> HIDE DEF r
  <2>4. \A b \in Assets : Usd(r, b) <= Usd(v, b) /\ (b # a => Usd(r, b) = Usd(v, b))
    BY <1>2, <2>1
  <2>5. Total(v) <= Total(r) /\ Usd(r, a) <= Usd(v, a) - Of(f, Usd(v, a))
    BY <1>3, <1>4, <2>1, <2>2
  <2>. QED
    BY <1>1, <2>1, <2>3, <2>4, <2>5 DEF r
<1>6. CASE a \in Held(v)
  <2>1. left \in Nat /\ left <= u /\ filled + left >= u /\ (part <= filled => left <= u - part)
    BY <1>3
  <2>2. r = Sold(v, a, f, filled, left, at)
    BY <1>6 DEF SoldFor
  <2> HIDE DEF r, left
  <2>3. /\ r \in VaultState
        /\ r.equity = v.equity /\ r.quote = v.quote + filled /\ r.deployed = v.deployed
        /\ Held(r) = IF Whole(f) THEN Held(v) \ {a} ELSE Held(v)
        /\ Usd(r, a) = IF Whole(f) THEN 0 ELSE left
        /\ \A b \in Assets : b # a => Usd(r, b) = Usd(v, b)
        /\ Total(r) = Total(v) + filled + Usd(r, a) - Usd(v, a)
    BY <1>6, <2>1, <2>2, SellEffect
  <2>4. v.quote <= r.quote
    BY <1>1, <2>3
  <2>5. PICK x \in Nat : x = Usd(r, a) /\ x <= u /\ (Whole(f) => x = 0) /\ (~Whole(f) => x = left)
    <3>1. CASE Whole(f)
      <4>1. Usd(r, a) = 0
        BY <2>3, <3>1
      <4>. QED
        BY <3>1, <4>1
    <3>2. CASE ~Whole(f)
      <4>1. Usd(r, a) = left
        BY <2>3, <3>2
      <4>. QED
        BY <2>1, <3>2, <4>1
    <3>. QED
      BY <3>1, <3>2
  <2>6. \A b \in Assets : Usd(r, b) <= Usd(v, b) /\ (b # a => Usd(r, b) = Usd(v, b))
    BY <1>2, <1>3, <2>3, <2>5
  <2>7. part <= filled => total <= Total(r) /\ x <= u - part
    BY <1>3, <1>4, <2>1, <2>3, <2>5
  <2>. QED
    BY <1>3, <1>4, <2>3, <2>4, <2>5, <2>6, <2>7 DEF r
<1>. QED
  BY <1>5, <1>6

\* The provisional sale is one at the book value.
LEMMA PlannedSale ==
    ASSUME NEW v \in VaultState, NEW a \in Assets, NEW f \in Fraction, NEW at \in Nat
    PROVE  LET w == applySell(v, a, f, at)
           IN  /\ w \in VaultState /\ w.equity = v.equity /\ w.deployed = v.deployed
               /\ Held(w) = IF Whole(f) THEN Held(v) \ {a} ELSE Held(v)
               /\ \A b \in Assets : b # a => Usd(w, b) = Usd(v, b)
               /\ Usd(w, a) = Usd(v, a) - Of(f, Usd(v, a))
               /\ Total(w) = Total(v)
<1> DEFINE w == applySell(v, a, f, at)
<1>1. IsBook(v.pos) /\ v.quote \in Int
  BY DEF VaultState, IsBook
<1>2. PICK u \in Nat, part \in Nat, left \in Nat :
          /\ u = Usd(v, a) /\ part = Of(f, Usd(v, a)) /\ part <= u /\ left = u - part
          /\ Whole(f) => part = u
  <2>1. Usd(v, a) \in Nat
    BY <1>1, BookReads
  <2>2. /\ Of(f, Usd(v, a)) \in Nat /\ Of(f, Usd(v, a)) <= Usd(v, a)
        /\ Whole(f) => Of(f, Usd(v, a)) = Usd(v, a)
    BY <2>1, OfBelow, WholeIsAll
  <2>3. Usd(v, a) - Of(f, Usd(v, a)) \in Nat
    BY <2>1, <2>2
  <2>. QED
    BY <2>1, <2>2, <2>3
<1>3. PICK total \in Int : total = Total(v)
  <2>1. Positions(v) \in Nat
    BY <1>1, PositionsNat
  <2>. QED
    BY <1>1, <2>1 DEF Total
<1>4. CASE a \notin Held(v)
  <2>1. w = v
    BY <1>4 DEF applySell
  <2>2. u = 0
    BY <1>1, <1>2, <1>4, BookReads
  <2>3. Held(v) \ {a} = Held(v)
    BY <1>4
  <2>4. Usd(v, a) = Usd(v, a) - Of(f, Usd(v, a))
    BY <1>2, <2>2
  <2> HIDE DEF w
  <2>. QED
    BY <2>1, <2>3, <2>4 DEF w
<1>5. CASE a \in Held(v)
  <2>1. w = Sold(v, a, f, part, left, at)
    BY <1>2, <1>5 DEF applySell
  <2> HIDE DEF w
  <2>2. /\ w \in VaultState /\ w.equity = v.equity /\ w.deployed = v.deployed
        /\ Held(w) = IF Whole(f) THEN Held(v) \ {a} ELSE Held(v)
        /\ Usd(w, a) = IF Whole(f) THEN 0 ELSE left
        /\ \A b \in Assets : b # a => Usd(w, b) = Usd(v, b)
        /\ Total(w) = Total(v) + part + Usd(w, a) - Usd(v, a)
    BY <1>5, <2>1, SellEffect
  <2>3. Usd(w, a) = u - part
    <3>1. CASE Whole(f)
      <4>1. Usd(w, a) = 0 /\ part = u
        BY <1>2, <2>2, <3>1
      <4>. QED
        BY <4>1
    <3>2. CASE ~Whole(f)
      <4>1. Usd(w, a) = left
        BY <2>2, <3>2
      <4>. QED
        BY <1>2, <4>1
    <3>. QED
      BY <3>1, <3>2
  <2>4. Total(w) = total
    BY <1>2, <1>3, <2>2, <2>3
  <2>. QED
    BY <1>2, <1>3, <2>2, <2>3, <2>4 DEF w
<1>. QED
  BY <1>4, <1>5

\* An exit the plan counted on is filled at its book value or better, is not,
\* or (fine no longer) fills under it.
LEMMA SaleCovered ==
    ASSUME NEW p \in Policies, NEW v, NEW real, Trails(v, real),
           NEW a \in Assets, NEW f \in Fraction, NEW at \in Nat, NEW filled \in Nat
    PROVE  LET w == applySell(v, a, f, at)
               r == SoldFor(real, a, f, filled, at)
           IN  /\ Trails(w, r) /\ Trails(w, real)
               /\ Dominates(p, v, real) =>
                      /\ Of(f, Usd(real, a)) <= filled => Dominates(p, w, r)
                      /\ a \notin Held(real) => Dominates(p, w, real)
               /\ r.deployed = real.deployed /\ r.equity = real.equity
               /\ CapsHold(p, real) => CapsHold(p, r)
<1> DEFINE w == applySell(v, a, f, at)
           r == SoldFor(real, a, f, filled, at)
<1>1. /\ v \in VaultState /\ real \in VaultState /\ v.equity = real.equity
      /\ real.deployed <= v.deployed
  BY DEF Trails
<1>2. /\ w \in VaultState /\ w.equity = v.equity /\ w.deployed = v.deployed
      /\ Held(w) = IF Whole(f) THEN Held(v) \ {a} ELSE Held(v)
      /\ \A b \in Assets : b # a => Usd(w, b) = Usd(v, b)
      /\ Usd(w, a) = Usd(v, a) - Of(f, Usd(v, a))
      /\ Total(w) = Total(v)
  BY <1>1, PlannedSale
<1>3. /\ r \in VaultState /\ r.equity = real.equity /\ r.deployed = real.deployed
      /\ real.quote <= r.quote
      /\ Held(r) = IF Whole(f) THEN Held(real) \ {a} ELSE Held(real)
      /\ \A b \in Assets : Usd(r, b) <= Usd(real, b) /\ (b # a => Usd(r, b) = Usd(real, b))
      /\ Of(f, Usd(real, a)) <= filled =>
             /\ Total(real) <= Total(r)
             /\ Usd(r, a) <= Usd(real, a) - Of(f, Usd(real, a))
  BY <1>1, SaleEffect
<1> HIDE DEF w, r
<1>4. /\ IsBook(v.pos) /\ IsBook(real.pos) /\ IsBook(w.pos) /\ IsBook(r.pos)
      /\ v.quote \in Int /\ real.quote \in Int /\ r.quote \in Int /\ real.equity \in Nat
  BY <1>1, <1>2, <1>3 DEF VaultState, IsBook
<1>5. /\ \A b \in Assets : /\ Usd(v, b) \in Nat /\ Usd(real, b) \in Nat
                           /\ Usd(w, b) \in Nat /\ Usd(r, b) \in Nat
  BY <1>4, BookReads
<1>6. Total(v) \in Int /\ Total(real) \in Int /\ Total(r) \in Int
  <2>1. Positions(v) \in Nat /\ Positions(real) \in Nat /\ Positions(r) \in Nat
    BY <1>4, PositionsNat
  <2>. QED
    BY <1>4, <2>1 DEF Total
<1>7. ASSUME Dominates(p, v, real)
      PROVE  /\ Held(real) \subseteq Held(v) /\ Total(v) <= Total(real)
             /\ \A b \in Assets : Usd(real, b) <= Usd(v, b)
             /\ Cardinality(Held(w)) <= p.maxPositions
             /\ Usd(real, a) - Of(f, Usd(real, a)) <= Usd(w, a)
  <2>1. /\ Held(real) \subseteq Held(v) /\ Total(v) <= Total(real)
        /\ \A b \in Assets : Usd(real, b) <= Usd(v, b)
        /\ Cardinality(Held(v)) <= p.maxPositions
    BY <1>1, <1>7 DEF Dominates
  <2>2. Held(w) \subseteq Held(v)
    BY <1>2
  <2>3. Cardinality(Held(w)) <= p.maxPositions
    <3>1. Cardinality(Held(w)) <= Cardinality(Held(v))
      BY <2>2, FewerHeld
    <3>. QED
      BY <2>1, <3>1, HeldFinite, PolicyTypes
  <2>4. Usd(real, a) - Of(f, Usd(real, a)) <= Usd(w, a)
    BY <1>2, <1>5, <2>1, OfMono
  <2>. QED
    BY <2>1, <2>3, <2>4
<1>8. ASSUME Dominates(p, v, real), Of(f, Usd(real, a)) <= filled PROVE Dominates(p, w, r)
  <2>1. Held(r) \subseteq Held(w)
    BY <1>2, <1>3, <1>7, <1>8
  <2>2. \A b \in Assets : Usd(r, b) <= Usd(w, b)
    <3>1. PICK kept \in Int : kept = Usd(real, a) - Of(f, Usd(real, a))
      BY <1>5, OfBelow
    <3>2. Usd(r, a) <= kept /\ kept <= Usd(w, a)
      BY <1>3, <1>7, <1>8, <3>1
    <3>3. Usd(r, a) <= Usd(w, a)
      BY <1>5, <3>1, <3>2
    <3>. QED
      BY <1>2, <1>3, <1>7, <1>8, <3>3
  <2>3. Total(w) <= Total(r)
    BY <1>2, <1>3, <1>6, <1>7, <1>8
  <2>. QED
    BY <1>7, <1>8, <2>1, <2>2, <2>3 DEF Dominates
<1>9. ASSUME Dominates(p, v, real), a \notin Held(real) PROVE Dominates(p, w, real)
  <2>1. Usd(real, a) = 0
    BY <1>4, <1>9, BookReads
  <2>2. Held(real) \subseteq Held(w)
    BY <1>2, <1>7, <1>9
  <2>3. \A b \in Assets : Usd(real, b) <= Usd(w, b)
    BY <1>2, <1>5, <1>7, <1>9, <2>1
  <2>. QED
    BY <1>2, <1>7, <1>9, <2>2, <2>3 DEF Dominates
<1>10. ASSUME CapsHold(p, real) PROVE CapsHold(p, r)
  <2>1. PICK share \in Nat, reserve \in Nat :
            share = pct(p.maxPositionPct, real.equity) /\ reserve = pct(p.quoteReservePct, real.equity)
    BY <1>4, PctNat, PolicyTypes
  <2>2. /\ \A b \in Held(real) : Usd(real, b) <= share
        /\ Cardinality(Held(real)) <= p.maxPositions
        /\ real.quote >= reserve
    BY <1>10, <2>1 DEF CapsHold
  <2>3. Held(r) \subseteq Held(real) /\ Held(real) \subseteq Assets
    BY <1>3, HeldFinite
  <2>4. \A b \in Held(r) : Usd(r, b) <= share
    BY <1>3, <1>5, <2>1, <2>2, <2>3
  <2>5. Cardinality(Held(r)) <= p.maxPositions
    <3>1. Cardinality(Held(r)) <= Cardinality(Held(real))
      BY <2>3, FewerHeld
    <3>. QED
      BY <2>2, <3>1, HeldFinite, PolicyTypes
  <2>6. r.quote >= reserve
    BY <1>3, <1>4, <2>1, <2>2
  <2>. QED
    BY <1>3, <2>1, <2>4, <2>5, <2>6 DEF CapsHold
<1>11. Trails(w, r) /\ Trails(w, real)
  BY <1>1, <1>2, <1>3 DEF Trails
<1>. QED
  BY <1>3, <1>8, <1>9, <1>10, <1>11 DEF w, r

----------------------------------------------------------------------------
(* What exits leave.  A part of s in h + s is taken of an amount and rounded *)
(* down, once for each exit: a token may stay each time.                     *)

LEMMA ExitLeaves ==
    ASSUME NEW A \in Nat, NEW h \in Nat, NEW s \in Nat, h + s > 0
    PROVE  LET q == (s * A) \div (h + s)
           IN  q \in Nat /\ q <= A /\ (A - q - 1) * (h + s) <= A * h
<1>1. PICK w \in Nat : w = h + s /\ w > 0
  OBVIOUS
<1>2. PICK x \in Nat, y \in Nat : x = s * A /\ y = A * h
  OBVIOUS
<1>3. PICK q \in Nat : q = (s * A) \div (h + s) /\ q * w <= x /\ x < q * w + w
  BY <1>1, <1>2, DivNat
<1>4. A * w = y + x /\ A * w \in Nat /\ q * w \in Nat
  BY <1>1, <1>2, <1>3
<1>5. (A - q - 1) * w = A * w - q * w - w
  BY <1>1, <1>3
<1>6. (A - q - 1) * w <= y
  BY <1>1, <1>2, <1>3, <1>4, <1>5
<1>7. q <= A
  <2>1. SUFFICES ASSUME A + 1 <= q PROVE FALSE
    BY <1>3
  <2>2. w * (A + 1) <= w * q
    BY <1>1, <1>3, <2>1, ProductMono
  <2>3. w * (A + 1) = A * w + w /\ w * q = q * w
    BY <1>1, <1>3
  <2>. QED
    BY <1>1, <1>2, <1>3, <1>4, <2>2, <2>3
<1>. QED
  BY <1>1, <1>2, <1>3, <1>6, <1>7

\* One more exit after those that left A of A0, c tokens aside.
LEMMA ExitsCompose ==
    ASSUME NEW A0 \in Nat, NEW A \in Nat, NEW B \in Nat, NEW c \in Nat,
           NEW h \in Nat, NEW S \in Nat, NEW s \in Nat,
           (A - c) * (h + S) <= A0 * h, B <= A, (B - 1) * (h + s) <= A * h
    PROVE  (B - (c + 1)) * (h + (S + s)) <= A0 * h
<1>1. PICK w \in Nat, z \in Nat : w = h + (S + s) /\ z = A0 * h
  OBVIOUS
<1>2. CASE B <= c + 1
  <2>1. PICK n \in Nat : n = (c + 1) - B
    BY <1>2
  <2>2. (B - (c + 1)) * w = -(n * w) /\ n * w \in Nat
    BY <1>1, <2>1
  <2>. QED
    BY <1>1, <2>2
<1>3. CASE B > c + 1
  <2>1. PICK b \in Nat, d \in Nat : b = B - (c + 1) /\ d = A - c /\ b >= 1 /\ d >= b + 1
    <3>1. B - (c + 1) \in Nat /\ A - c \in Nat
      BY <1>3
    <3>. QED
      BY <1>3, <3>1
  <2>2. PICK x \in Nat, y \in Nat : x = b * (h + s) /\ y = d * (h + S)
    BY <2>1
  <2>3. y <= z
    BY <1>1, <2>1, <2>2
  <2>4. x <= d * h
    <3>1. (B - 1) * (h + s) = x + c * (h + s) /\ c * (h + s) = c * h + c * s
      BY <2>1, <2>2
    <3>2. A * h = d * h + c * h
      BY <2>1
    <3>3. c * h \in Nat /\ c * s \in Nat /\ d * h \in Nat
      BY <2>1
    <3>. QED
      BY <2>2, <3>1, <3>2, <3>3
  <2>5. CASE h = 0
    <3>1. x = 0 /\ y = 0
      BY <1>1, <2>1, <2>2, <2>3, <2>4, <2>5
    <3>2. s = 0
      <4>1. b * s = 0
        BY <2>2, <2>5, <3>1
      <4>. QED
        BY <2>1, <4>1
    <3>3. S = 0
      <4>1. d * S = 0
        BY <2>2, <2>5, <3>1
      <4>. QED
        BY <2>1, <4>1
    <3>4. w = 0
      BY <1>1, <2>5, <3>2, <3>3
    <3>. QED
      BY <1>1, <2>1, <3>4
  <2>6. CASE h > 0
    <3>1. PICK v \in Nat : v = b * w
      BY <1>1, <2>1
    <3>2. h * v <= x * (h + S)
      <4>1. (h + s) * (h + S) = h * w + s * S
        BY <1>1
      <4>2. x * (h + S) = b * ((h + s) * (h + S))
        BY <2>1, <2>2
      <4>3. b * (h * w + s * S) = h * v + b * (s * S)
        BY <1>1, <2>1, <3>1
      <4>4. b * (s * S) \in Nat
        BY <2>1
      <4>5. h * v \in Nat
        BY <3>1
      <4>. QED
        BY <4>1, <4>2, <4>3, <4>4, <4>5
    <3>3. x * (h + S) <= h * y
      <4>1. (h + S) * x <= (h + S) * (d * h)
        BY <2>1, <2>2, <2>4, ProductMono
      <4>2. (h + S) * (d * h) = h * y
        BY <2>1, <2>2
      <4>3. (h + S) * x = x * (h + S)
        BY <2>2
      <4>. QED
        BY <4>1, <4>2, <4>3
    <3>4. h * y <= h * z
      BY <1>1, <2>2, <2>3, ProductMono
    <3>5. h * v <= h * z
      <4>1. h * v \in Nat /\ x * (h + S) \in Nat /\ h * y \in Nat /\ h * z \in Nat
        BY <1>1, <2>2, <3>1
      <4>. QED
        BY <3>2, <3>3, <3>4, <4>1
    <3>6. v <= z
      <4>1. SUFFICES ASSUME z + 1 <= v PROVE FALSE
        BY <1>1, <3>1
      <4>2. h * (z + 1) <= h * v /\ h * (z + 1) = h * z + h
        BY <1>1, <3>1, <4>1, ProductMono
      <4>3. h * z \in Nat /\ h * v \in Nat
        BY <1>1, <3>1
      <4>. QED
        BY <2>6, <3>5, <4>2, <4>3
    <3>. QED
      BY <1>1, <2>1, <3>1, <3>6
  <2>. QED
    BY <2>5, <2>6
<1>. QED
  BY <1>2, <1>3

----------------------------------------------------------------------------
(* Amounts *)

LEMMA ChangedAmount ==
    ASSUME NEW v, NEW w, NEW a, NEW x, Changed(v, w, a, x)
    PROVE  /\ x = NoPos => Amount(w, a) = 0
           /\ x \in Position => Amount(w, a) = x.amount
<1>1. a \in Assets /\ w.pos[a] = x /\ NoPos \notin Position
  BY MirrorAssumption DEF Changed
<1>2. a \in Held(w) <=> x # NoPos
  BY <1>1 DEF Held
<1>3. Amount(w, a) = IF x = NoPos THEN 0 ELSE x.amount
  BY <1>1, <1>2 DEF Amount
<1>. QED
  BY <1>1, <1>3

LEMMA BoughtAmounts ==
    ASSUME NEW v \in VaultState, NEW a \in Assets, NEW usd \in Nat
    PROVE  LET w == Bought(v, a, usd)
           IN  /\ Amount(w, a) = Amount(v, a) + usd
               /\ \A b \in Assets : b # a => Amount(w, b) = Amount(v, b)
<1> DEFINE w == Bought(v, a, usd)
           x == [amount |-> Amount(v, a) + usd, usd |-> Usd(v, a) + usd]
<1>1. IsBook(v.pos)
  BY DEF VaultState, IsBook
<1>2. x \in Position /\ x.amount = Amount(v, a) + usd
  BY <1>1, BookReads DEF Position
<1>3. w \in VaultState
  BY BuyEffect
<1>4. w.pos = [v.pos EXCEPT ![a] = x]
  BY DEF Bought, VaultState
<1> HIDE DEF w, x
<1>5. Changed(v, w, a, x)
  BY <1>1, <1>2, <1>3, <1>4 DEF Changed, IsBook, VaultState
<1>6. Amount(w, a) = x.amount
  BY <1>2, <1>5, ChangedAmount
<1>7. \A b \in Assets : b # a => Amount(w, b) = Amount(v, b)
  BY <1>5, ChangedReads
<1>. QED
  BY <1>2, <1>6, <1>7 DEF w

LEMMA SoldAmounts ==
    ASSUME NEW v \in VaultState, NEW a \in Held(v), NEW f \in Fraction,
           NEW proceeds \in Nat, NEW left \in Nat, NEW at \in Nat
    PROVE  LET w == Sold(v, a, f, proceeds, left, at)
           IN  /\ Amount(w, a) = Amount(v, a) - Of(f, Amount(v, a))
               /\ \A b \in Assets : b # a => Amount(w, b) = Amount(v, b)
<1> DEFINE w == Sold(v, a, f, proceeds, left, at)
           x == IF Whole(f) THEN NoPos
                ELSE [amount |-> v.pos[a].amount - Of(f, v.pos[a].amount), usd |-> left]
<1>1. IsBook(v.pos) /\ a \in Assets
  BY DEF VaultState, IsBook, Held
<1>2. PICK m \in Nat : m = Amount(v, a) /\ m = v.pos[a].amount
  BY <1>1, BookReads
<1>3. PICK n \in Nat : n = Of(f, m) /\ n <= m /\ (Whole(f) => n = m)
  BY OfBelow, WholeIsAll
<1>4. ~Whole(f) => x \in Position /\ x.amount = m - n
  <2>1. m - n \in Nat
    BY <1>3
  <2>. QED
    BY <1>2, <1>3, <2>1 DEF Position
<1>5. w \in VaultState
  BY SellEffect
<1>6. w.pos = [v.pos EXCEPT ![a] = x]
  BY DEF Sold, VaultState
<1>7. Whole(f) => x = NoPos
  OBVIOUS
<1> HIDE DEF w, x
<1>8. x \in Position \cup {NoPos}
  BY <1>4, <1>7
<1>9. Changed(v, w, a, x)
  BY <1>1, <1>5, <1>6, <1>8 DEF Changed, IsBook, VaultState
<1>10. Amount(w, a) = m - n
  BY <1>3, <1>4, <1>7, <1>9, ChangedAmount
<1>11. \A b \in Assets : b # a => Amount(w, b) = Amount(v, b)
  BY <1>9, ChangedReads
<1>. QED
  BY <1>2, <1>3, <1>10, <1>11 DEF w

\* A sale, at whatever price, takes its fraction of the amount.
LEMMA SaleAmounts ==
    ASSUME NEW v \in VaultState, NEW a \in Assets, NEW f \in Fraction, NEW filled \in Nat, NEW at \in Nat
    PROVE  LET w == SoldFor(v, a, f, filled, at)
           IN  /\ Amount(w, a) = Amount(v, a) - Of(f, Amount(v, a))
               /\ \A b \in Assets : b # a => Amount(w, b) = Amount(v, b)
<1> DEFINE left == IF filled > Usd(v, a) THEN 0 ELSE Usd(v, a) - filled
<1>1. IsBook(v.pos)
  BY DEF VaultState, IsBook
<1>2. Usd(v, a) \in Nat /\ Amount(v, a) \in Nat
  BY <1>1, BookReads
<1>3. CASE a \notin Held(v)
  <2>1. Amount(v, a) = 0
    BY <1>1, <1>3, BookReads
  <2>2. Of(f, 0) = 0
    <3>1. Of(f, 0) \in Nat /\ Of(f, 0) <= 0
      BY OfBelow
    <3>. QED
      BY <3>1
  <2>. QED
    BY <1>3, <2>1, <2>2 DEF SoldFor
<1>4. CASE a \in Held(v)
  <2>1. left \in Nat
    BY <1>2
  <2>2. SoldFor(v, a, f, filled, at) = Sold(v, a, f, filled, left, at)
    BY <1>4 DEF SoldFor
  <2> HIDE DEF left
  <2>. QED
    BY <1>4, <2>1, <2>2, SoldAmounts
<1>. QED
  BY <1>3, <1>4

LEMMA PlannedAmounts ==
    ASSUME NEW v \in VaultState, NEW a \in Assets, NEW f \in Fraction, NEW at \in Nat
    PROVE  LET w == applySell(v, a, f, at)
           IN  /\ Amount(w, a) = Amount(v, a) - Of(f, Amount(v, a))
               /\ \A b \in Assets : b # a => Amount(w, b) = Amount(v, b)
<1>1. IsBook(v.pos)
  BY DEF VaultState, IsBook
<1>2. PICK u \in Nat, n \in Nat : u = Usd(v, a) /\ n = Of(f, u) /\ n <= u
  BY <1>1, BookReads, OfBelow
<1>3. applySell(v, a, f, at) = SoldFor(v, a, f, n, at)
  BY <1>2 DEF applySell, SoldFor
<1>. QED
  BY <1>2, <1>3, SaleAmounts

\* The provisional book moves at the intent's asset only.
LEMMA AppliedElsewhere ==
    ASSUME NEW v \in VaultState, NEW x \in MirrorIntent, NEW at \in Nat
    PROVE  \A b \in Assets : b # x.asset => Amount(Applied(v, x, at), b) = Amount(v, b)
<1>1. CASE x.kind = "buy"
  <2>1. x.asset \in Assets /\ x.usd \in Nat
    BY <1>1 DEF MirrorIntent
  <2>. QED
    BY <1>1, <2>1, BoughtAmounts DEF Applied
<1>2. CASE x.kind # "buy"
  <2>1. x.asset \in Assets /\ x.fraction \in Fraction
    BY <1>2 DEF MirrorIntent
  <2>. QED
    BY <1>2, <2>1, PlannedAmounts DEF Applied
<1>. QED
  BY <1>1, <1>2

----------------------------------------------------------------------------
(* What a plan leaves of an asset *)

\* What is left is no larger a part of A than h is of h + s, a token aside.
PartKept(left, A, h, s) == left <= A /\ (left - 1) * (h + s) <= A * h

LEMMA NothingSold ==
    ASSUME NEW A \in Nat, NEW h \in Nat
    PROVE  PartKept(A, A, h, 0)
<1>1. A * h \in Nat /\ h \in Nat
  OBVIOUS
<1>2. (A - 1) * (h + 0) = A * h - h
  OBVIOUS
<1>. QED
  BY <1>1, <1>2 DEF PartKept

LEMMA NothingLeft ==
    ASSUME NEW A \in Nat, NEW h \in Nat, NEW s \in Nat
    PROVE  PartKept(0, A, h, s)
<1>1. A * h \in Nat
  OBVIOUS
<1>2. (0 - 1) * (h + s) = -(h + s)
  OBVIOUS
<1>. QED
  BY <1>1, <1>2 DEF PartKept

\* Selling as sizeExit says, nothing included, keeps no more than the part.
LEMMA SizedExitKeepsPart ==
    ASSUME NEW p \in Policies, NEW v \in VaultState, NEW trade \in LeaderTrade, NEW h \in Nat
    PROVE  LET A == Amount(v, trade.asset)
               f == sizeExit(p, trade, leaderPositionBefore(h, trade), v)
           IN  PartKept(A - Of(f, A), A, h, trade.amount)
<1>1. PICK s \in Nat, a \in Assets : s = trade.amount /\ a = trade.asset
  BY DEF LeaderTrade
<1>2. PICK A \in Nat : A = Amount(v, a)
  <2>1. IsBook(v.pos)
    BY DEF VaultState, IsBook
  <2>. QED
    BY <2>1, BookReads
<1>3. PICK w \in Nat : w = h + s /\ w = leaderPositionBefore(h, trade)
  BY <1>1 DEF leaderPositionBefore
<1> DEFINE f == sizeExit(p, trade, leaderPositionBefore(h, trade), v)
<1>4. \/ A = 0
      \/ f = Everything
      \/ w > 0 /\ f = <<s, w>>
  BY <1>1, <1>2, <1>3 DEF sizeExit
<1>5. f \in Fraction
  BY ExitIsAFraction
<1>6. CASE A = 0
  <2>1. Of(f, A) \in Nat /\ Of(f, A) <= 0
    BY <1>5, <1>6, OfBelow
  <2>2. A - Of(f, A) = 0
    BY <1>6, <2>1
  <2>. QED
    BY <1>1, <1>2, <2>2, NothingLeft
<1>7. CASE f = Everything
  <2>1. Everything \in Fraction /\ Whole(Everything)
    BY DEF Everything, Fraction, Whole
  <2>2. Of(f, A) = A
    BY <1>7, <2>1, WholeIsAll
  <2>3. A - Of(f, A) = 0
    BY <2>2
  <2>. QED
    BY <1>1, <1>2, <2>3, NothingLeft
<1>8. CASE w > 0 /\ f = <<s, w>>
  <2>1. PICK q \in Nat : q = (s * A) \div (h + s) /\ q <= A /\ (A - q - 1) * (h + s) <= A * h
    BY <1>3, <1>8, ExitLeaves
  <2>2. Of(f, A) = q
    BY <1>3, <1>8, <2>1 DEF Of
  <2>3. ((A - q) - 1) * (h + s) <= A * h
    BY <2>1
  <2>. QED
    BY <1>1, <1>2, <2>1, <2>2, <2>3 DEF PartKept
<1>. QED
  BY <1>4, <1>6, <1>7, <1>8

\* A sale not processed before leaves no more of its asset than the part; the
\* intent it becomes says how much it takes.
Exits(acc, next, trade, h) ==
    LET a == trade.asset
        A == Amount(acc.vault, a)
    IN  /\ PartKept(Amount(next.vault, a), A, h, trade.amount)
        /\ \A x \in MirrorIntent :
              x.kind = "sell" /\ x.asset = a /\ next.intents = Append(acc.intents, x)
                  => PartKept(A - Of(x.fraction, A), A, h, trade.amount)

LEMMA SalePlanned ==
    ASSUME NEW p \in Policies, NEW acc, acc.vault \in VaultState, acc.intents \in Seq(MirrorIntent),
           NEW trade \in LeaderTrade, trade.side = "sell", trade.id \notin acc.processed,
           NEW book \in LeaderBook, NEW markets, NEW at \in Nat, NEW breaker
    PROVE  Exits(acc, PlanTrade(acc, p, trade, book, markets, at, breaker), trade,
                 book.hold[trade.asset])
<1>1. PICK a \in Assets, h \in Nat, s \in Nat :
          a = trade.asset /\ h = book.hold[a] /\ s = trade.amount
  <2>1. trade.asset \in Assets /\ trade.amount \in Nat
    BY DEF LeaderTrade
  <2>2. book.hold[trade.asset] \in Nat
    BY <2>1 DEF LeaderBook
  <2>. QED
    BY <2>1, <2>2
<1> DEFINE next == PlanTrade(acc, p, trade, book, markets, at, breaker)
           f == sizeExit(p, trade, leaderPositionBefore(h, trade), acc.vault)
           x == Sell(trade.id, a, f)
<1>2. PICK A \in Nat : A = Amount(acc.vault, a) /\ IsBook(acc.vault.pos)
  <2>1. IsBook(acc.vault.pos)
    BY DEF VaultState, IsBook
  <2>. QED
    BY <2>1, BookReads
<1>3. next = PlanSell(acc, p, trade, book, at)
  BY DEF PlanTrade, Frozen
<1>4. f \in Fraction /\ PartKept(A - Of(f, A), A, h, s)
  BY <1>1, <1>2, ExitIsAFraction, SizedExitKeepsPart
<1>5. CASE checkExit(p, trade, acc.vault, acc.processed) /\ ~(f[1] <= 0)
  <2>1. next = [vault |-> applySell(acc.vault, a, f, at),
                processed |-> acc.processed \cup {trade.id},
                intents |-> Append(acc.intents, x)]
    BY <1>1, <1>3, <1>5 DEF PlanSell
  <2>2. x.fraction = f
    BY DEF Sell
  <2> HIDE DEF next, f, x
  <2>3. next.vault = applySell(acc.vault, a, f, at) /\ next.intents = Append(acc.intents, x)
    BY <2>1
  <2>4. Amount(next.vault, a) = A - Of(f, A)
    BY <1>2, <1>4, <2>3, PlannedAmounts
  <2>5. ASSUME NEW y \in MirrorIntent, y.kind = "sell", next.intents = Append(acc.intents, y)
        PROVE  PartKept(A - Of(y.fraction, A), A, h, s)
    <3>1. y = x
      <4>1. Append(acc.intents, y) = Append(acc.intents, x)
        BY <2>3, <2>5
      <4>2. /\ Append(acc.intents, y)[Len(acc.intents) + 1] = y
            /\ Append(acc.intents, x)[Len(acc.intents) + 1] = x
        OBVIOUS
      <4>. QED
        BY <4>1, <4>2
    <3>. QED
      BY <1>4, <2>2, <3>1
  <2>. QED
    BY <1>1, <1>2, <1>4, <2>4, <2>5 DEF Exits, next
<1>6. CASE ~(checkExit(p, trade, acc.vault, acc.processed) /\ ~(f[1] <= 0))
  <2>1. next = acc
    BY <1>1, <1>3, <1>6 DEF PlanSell
  <2>2. PartKept(A, A, h, s)
    <3>1. CASE A = 0
      BY <1>1, <3>1, NothingLeft
    <3>2. CASE A # 0
      <4>1. a \in Held(acc.vault)
        BY <1>2, <3>2, BookReads
      <4>2. f[1] <= 0 /\ f[1] \in Nat
        BY <1>1, <1>4, <1>6, <4>1 DEF checkExit, checkCommon, Fraction
      <4>3. Of(f, A) = 0
        <5>1. PICK y \in Nat : y = f[2] /\ y > 0
          BY <1>4 DEF Fraction
        <5>2. f[1] = 0 /\ 0 * A = 0 /\ 0 \div y = 0
          BY <4>2, <5>1
        <5>. QED
          BY <5>1, <5>2 DEF Of
      <4>. QED
        BY <1>4, <4>3
    <3>. QED
      BY <3>1, <3>2
  <2> HIDE DEF next, f
  <2>3. ASSUME NEW y \in MirrorIntent, next.intents = Append(acc.intents, y) PROVE FALSE
    <3>1. Len(Append(acc.intents, y)) = Len(acc.intents) + 1 /\ Len(acc.intents) \in Nat
      OBVIOUS
    <3>. QED
      BY <2>1, <2>3, <3>1
  <2>. QED
    BY <1>1, <1>2, <2>1, <2>2, <2>3 DEF Exits, next
<1>. QED
  BY <1>5, <1>6

\* No two trades of a batch are one.
DistinctIds(trades) ==
    \A i, j \in 1..Len(trades) : i # j => trades[i].id # trades[j].id

\* What the planner has marked processed after n trades: those among them.
LEMMA PlanRecalls ==
    ASSUME NEW planned, NEW p, NEW trades, NEW book, NEW vault, NEW markets, NEW processed,
           NEW marks, NEW at,
           Plannable(p, trades, book, vault, markets, processed, at),
           Unfolds(planned, p, trades, book, vault, markets, processed, marks, at)
    PROVE  \A n \in Nat : n <= Len(trades) =>
               planned[n].processed \subseteq processed \cup {trades[i].id : i \in 1..n}
<1> DEFINE Marked(n) == processed \cup {trades[i].id : i \in 1..n}
           Good == {n \in Nat : n <= Len(trades) => planned[n].processed \subseteq Marked(n)}
<1>1. Len(trades) \in Nat
  BY DEF Plannable
<1>2. 0 \in Good
  <2>1. planned[0].processed = processed
    BY DEF Unfolds, Empty
  <2>. QED
    BY <2>1
<1>3. ASSUME NEW n \in Nat, n \in Good PROVE n + 1 \in Good
  <2>1. SUFFICES ASSUME n + 1 <= Len(trades) PROVE planned[n + 1].processed \subseteq Marked(n + 1)
    OBVIOUS
  <2>2. planned[n].processed \subseteq Marked(n)
    BY <1>1, <1>3, <2>1
  <2>3. Carried(p, at, vault, processed, planned[n])
    BY <1>1, <2>1, PlanCarries
  <2>4. Stepped(p, at, planned[n], planned[n + 1], trades[n + 1])
    BY <2>1, <2>3, PlanSteps DEF Carried
  <2>5. planned[n + 1].processed \subseteq planned[n].processed \cup {trades[n + 1].id}
    BY <2>4 DEF Stepped, Adds, OfTrade
  <2>6. Marked(n) \subseteq Marked(n + 1) /\ trades[n + 1].id \in Marked(n + 1)
    <3>1. \A i \in 1..n : i \in 1..(n + 1)
      OBVIOUS
    <3>2. n + 1 \in 1..(n + 1)
      OBVIOUS
    <3>. QED
      BY <3>1, <3>2
  <2> HIDE DEF Marked
  <2>. QED
    BY <2>2, <2>5, <2>6
<1> HIDE DEF Good
<1>4. Nat \subseteq Good
  BY <1>2, <1>3, SuccessorInduction
<1>. QED
  BY <1>4 DEF Good

\* A trade of a batch that was not processed before the plan is not when the
\* planner comes to it.
LEMMA NotYetMarked ==
    ASSUME NEW planned, NEW p, NEW trades, NEW book, NEW vault, NEW markets, NEW processed,
           NEW marks, NEW at,
           Plannable(p, trades, book, vault, markets, processed, at),
           Unfolds(planned, p, trades, book, vault, markets, processed, marks, at),
           DistinctIds(trades), NEW n \in Nat, n + 1 <= Len(trades),
           trades[n + 1].id \notin processed
    PROVE  trades[n + 1].id \notin planned[n].processed
<1>1. Len(trades) \in Nat
  BY DEF Plannable
<1>2. planned[n].processed \subseteq processed \cup {trades[i].id : i \in 1..n}
  BY <1>1, PlanRecalls
<1>3. \A i \in 1..n : trades[i].id # trades[n + 1].id
  <2>1. \A i \in 1..n : i \in 1..Len(trades) /\ i # n + 1
    BY <1>1
  <2>2. n + 1 \in 1..Len(trades)
    BY <1>1
  <2>. QED
    BY <2>1, <2>2 DEF DistinctIds
<1>. QED
  BY <1>2, <1>3

\* The amount of an asset over one step of the planner.
LEMMA StepAmounts ==
    ASSUME NEW p, NEW at \in Nat, NEW acc, acc.vault \in VaultState, NEW next, NEW trade,
           Stepped(p, at, acc, next, trade)
    PROVE  \A b \in Assets : b # trade.asset => Amount(next.vault, b) = Amount(acc.vault, b)
<1>1. CASE next = acc
  BY <1>1
<1>2. ASSUME NEW x \in MirrorIntent, Adds(p, at, acc, next, x), OfTrade(x, trade)
      PROVE  \A b \in Assets : b # trade.asset => Amount(next.vault, b) = Amount(acc.vault, b)
  <2>1. next.vault = Applied(acc.vault, x, at) /\ x.asset = trade.asset
    BY <1>2 DEF Adds, Follows, OfTrade
  <2>. QED
    BY <2>1, AppliedElsewhere
<1>. QED
  BY <1>1, <1>2 DEF Stepped

SellsOnly(trades, a, processed) ==
    \A i \in 1..Len(trades) :
        trades[i].asset = a => trades[i].side = "sell" /\ trades[i].id \notin processed

SoldOf(trades, a) == [i \in DOMAIN trades |-> AmountOf(trades[i], a)]

\* The vault keeps up with a leader who only sells an asset, a token for each
\* trade aside.
KeepsUp(left, A, h, sold, slack) == (left - slack) * (h + sold) <= A * h

LEMMA PlanKeepsUp ==
    ASSUME NEW planned, NEW p, NEW trades, NEW book, NEW vault, NEW markets, NEW processed,
           NEW marks, NEW at,
           Plannable(p, trades, book, vault, markets, processed, at),
           Unfolds(planned, p, trades, book, vault, markets, processed, marks, at),
           DistinctIds(trades), NEW a \in Assets, SellsOnly(trades, a, processed)
    PROVE  KeepsUp(Amount(planned[Len(trades)].vault, a), Amount(vault, a), book.hold[a],
                   SumFunction(SoldOf(trades, a)), Len(trades))
<1> DEFINE g == SoldOf(trades, a)
           Sold0(n) == SumFunctionOnSet(g, 1..n)
           Good == {n \in Nat : n <= Len(trades) =>
                       KeepsUp(Amount(planned[n].vault, a), Amount(vault, a), book.hold[a], Sold0(n), n)}
<1>1. /\ trades \in Seq(LeaderTrade) /\ book \in LeaderBook /\ vault \in VaultState
      /\ at \in Nat /\ p \in Policies
  BY DEF Plannable
<1>2. PICK N \in Nat : N = Len(trades) /\ DOMAIN trades = 1..N
  BY <1>1
<1>3. PICK h \in Nat, A0 \in Nat : h = book.hold[a] /\ A0 = Amount(vault, a)
  <2>1. IsBook(vault.pos)
    BY <1>1 DEF VaultState, IsBook
  <2>2. book.hold[a] \in Nat
    BY <1>1 DEF LeaderBook
  <2>. QED
    BY <2>1, <2>2, BookReads
<1>4. \A i \in 1..N : g[i] = AmountOf(trades[i], a) /\ g[i] \in Nat
  <2>1. SUFFICES ASSUME NEW i \in 1..N PROVE g[i] = AmountOf(trades[i], a) /\ g[i] \in Nat
    OBVIOUS
  <2>2. trades[i] \in LeaderTrade
    BY <1>1, <1>2
  <2>3. trades[i].amount \in Nat
    BY <2>2 DEF LeaderTrade
  <2>4. g[i] = AmountOf(trades[i], a)
    BY <1>2 DEF SoldOf
  <2>. QED
    BY <2>3, <2>4 DEF AmountOf
<1>5. DOMAIN g = 1..N
  BY <1>2 DEF SoldOf
<1> HIDE DEF g
<1>6. ASSUME NEW n \in Nat, n <= N PROVE Sold0(n) \in Nat
  <2>1. IsFiniteSet(1..n) /\ \A i \in 1..n : g[i] \in Nat
    BY <1>4, <1>6, FS_Interval
  <2>. QED
    BY <2>1, SumNat
<1>7. ASSUME NEW n \in Nat, n + 1 <= N PROVE Sold0(n + 1) = Sold0(n) + g[n + 1]
  <2>1. PICK D : D = 1..(n + 1) /\ IsFiniteSet(D) /\ n + 1 \in D /\ D \subseteq 1..N
    <3>1. IsFiniteSet(1..(n + 1))
      BY FS_Interval
    <3>2. n + 1 \in 1..(n + 1) /\ 1..(n + 1) \subseteq 1..N
      BY <1>7
    <3>. QED
      BY <3>1, <3>2
  <2>2. \A i \in D : g[i] \in Int
    BY <1>4, <2>1
  <2>3. D \ {n + 1} = 1..n
    BY <2>1
  <2>4. SumFunctionOnSet(g, D) = g[n + 1] + SumFunctionOnSet(g, D \ {n + 1})
    BY <2>1, <2>2, SumRemove
  <2>5. Sold0(n + 1) = g[n + 1] + Sold0(n)
    BY <2>1, <2>3, <2>4
  <2>6. Sold0(n) \in Nat /\ g[n + 1] \in Nat
    <3>1. n <= N /\ n + 1 \in 1..N
      BY <1>7
    <3>. QED
      BY <1>4, <1>6, <3>1
  <2> HIDE DEF Sold0
  <2>. QED
    BY <2>5, <2>6
<1>8. 0 \in Good
  <2>1. Sold0(0) = 0
    <3>1. 1..0 = {}
      OBVIOUS
    <3>. QED
      BY <3>1, SumEmpty
  <2>2. planned[0].vault = vault
    BY DEF Unfolds, Empty
  <2>3. KeepsUp(A0, A0, h, 0, 0)
    BY DEF KeepsUp
  <2>. QED
    BY <1>3, <2>1, <2>2, <2>3
<1>9. ASSUME NEW n \in Nat, n \in Good PROVE n + 1 \in Good
  <2>1. SUFFICES ASSUME n + 1 <= N
                 PROVE  KeepsUp(Amount(planned[n + 1].vault, a), A0, h, Sold0(n + 1), n + 1)
    BY <1>2, <1>3
  <2>2. KeepsUp(Amount(planned[n].vault, a), A0, h, Sold0(n), n)
    BY <1>2, <1>3, <1>9, <2>1
  <2> HIDE DEF Sold0
  <2>3. PICK S \in Nat, s \in Nat : S = Sold0(n) /\ s = g[n + 1] /\ Sold0(n + 1) = S + s
    BY <1>4, <1>6, <1>7, <2>1
  <2>4. planned[n].vault \in VaultState /\ planned[n].intents \in Seq(MirrorIntent)
    BY <1>2, <2>1, PlanCarries DEF Carried
  <2>5. PICK trade \in LeaderTrade :
            trade = trades[n + 1] /\ Stepped(p, at, planned[n], planned[n + 1], trade)
    BY <1>2, <2>1, <2>4, PlanSteps
  <2>6. PICK A \in Nat : A = Amount(planned[n].vault, a)
    <3>1. IsBook(planned[n].vault.pos)
      BY <2>4 DEF VaultState, IsBook
    <3>. QED
      BY <3>1, BookReads
  <2>7. PICK B \in Nat : B = Amount(planned[n + 1].vault, a)
    <3>1. planned[n + 1].vault \in VaultState
      BY <1>2, <2>1, PlanCarries DEF Carried
    <3>2. IsBook(planned[n + 1].vault.pos)
      BY <3>1 DEF VaultState, IsBook
    <3>. QED
      BY <3>2, BookReads
  <2>8. PartKept(B, A, h, s)
    <3>1. CASE trade.asset = a
      <4>1. s = trade.amount /\ n + 1 \in 1..Len(trades)
        BY <1>2, <1>4, <2>1, <2>3, <2>5, <3>1 DEF AmountOf
      <4>2. trade.side = "sell" /\ trade.id \notin processed
        BY <2>5, <3>1, <4>1 DEF SellsOnly
      <4>3. trade.id \notin planned[n].processed
        BY <1>2, <2>1, <2>5, <4>2, NotYetMarked
      <4>4. planned[n + 1] = PlanTrade(planned[n], p, trade, book, markets, at,
                                       checkBreakers(p, vault, marks, book))
        BY <1>2, <2>1, <2>5 DEF Unfolds
      <4>5. Exits(planned[n], planned[n + 1], trade, book.hold[trade.asset])
        BY <1>1, <2>4, <4>2, <4>3, <4>4, SalePlanned
      <4>. QED
        BY <1>3, <2>6, <2>7, <3>1, <4>1, <4>5 DEF Exits
    <3>2. CASE trade.asset # a
      <4>1. s = 0
        <5>1. n + 1 \in 1..N
          BY <2>1
        <5>. QED
          BY <1>4, <2>3, <2>5, <3>2, <5>1 DEF AmountOf
      <4>2. B = A
        BY <1>1, <2>4, <2>5, <2>6, <2>7, <3>2, StepAmounts
      <4>. QED
        BY <4>1, <4>2, NothingSold
    <3>. QED
      BY <3>1, <3>2
  <2>9. (B - (n + 1)) * (h + (S + s)) <= A0 * h
    BY <2>2, <2>3, <2>6, <2>8, ExitsCompose DEF KeepsUp, PartKept
  <2>. QED
    BY <2>3, <2>7, <2>9 DEF KeepsUp
<1>10. Nat \subseteq Good
  <2> HIDE DEF Good
  <2>. QED
    BY <1>8, <1>9, SuccessorInduction
<1>11. KeepsUp(Amount(planned[N].vault, a), A0, h, Sold0(N), N)
  BY <1>2, <1>3, <1>10
<1>. QED
  BY <1>2, <1>3, <1>5, <1>11 DEF SumFunction, g

----------------------------------------------------------------------------
(* The leader *)

LEMMA LeaderStarts == LeaderInit => LeaderTypeOK
<1>1. LeaderUsd \in Nat /\ {MaxTrades, MaxTime} \subseteq Nat
  BY MirrorAssumption
<1>2. Len(<<>>) = 0 /\ <<>> \in Seq(LeaderTrade)
  OBVIOUS
<1>3. LeaderInit => now \in 0..MaxTime /\ leader \in LeaderBook
  BY <1>1 DEF LeaderInit, LeaderBook
<1>. QED
  BY <1>1, <1>2, <1>3 DEF LeaderInit, LeaderTypeOK

LEMMA TradedTyped ==
    ASSUME LeaderTypeOK, NEW side \in {"buy", "sell"}, NEW a \in Assets, NEW amount \in Nat,
           NEW usd \in Nat, NEW hold \in Nat, Traded(side, a, amount, usd, hold)
    PROVE  LeaderTypeOK'
<1>1. /\ now \in 0..MaxTime /\ tape \in Seq(LeaderTrade) /\ leader \in LeaderBook
      /\ Len(tape) < MaxTrades /\ MaxTrades \in Nat
  BY MirrorAssumption DEF LeaderTypeOK, Traded
<1> DEFINE t == [id |-> Len(tape) + 1, side |-> side, asset |-> a,
                 amount |-> amount, usd |-> usd, ts |-> now]
<1>2. t \in LeaderTrade
  BY <1>1 DEF LeaderTrade
<1>3. tape' = Append(tape, t) /\ leader' = [leader EXCEPT !.hold[a] = hold] /\ now' = now
  BY DEF Traded
<1> HIDE DEF t
<1>4. tape' \in Seq(LeaderTrade) /\ Len(tape') = Len(tape) + 1
  BY <1>1, <1>2, <1>3
<1>5. leader' \in LeaderBook
  BY <1>1, <1>3 DEF LeaderBook
<1>. QED
  BY <1>1, <1>3, <1>4, <1>5 DEF LeaderTypeOK

LEMMA LeaderKeeps == LeaderTypeOK /\ (LeaderNext \/ UNCHANGED leaderVars) => LeaderTypeOK'
<1> SUFFICES ASSUME LeaderTypeOK, LeaderNext \/ UNCHANGED leaderVars PROVE LeaderTypeOK'
  OBVIOUS
<1>1. /\ now \in 0..MaxTime /\ MaxTime \in Nat /\ tape \in Seq(LeaderTrade)
      /\ Len(tape) <= MaxTrades /\ leader \in LeaderBook
  BY MirrorAssumption DEF LeaderTypeOK
<1>2. ASSUME NEW a \in Assets, NEW usd \in BuyUsd, LeaderBuys(a, usd) PROVE LeaderTypeOK'
  <2>1. usd \in Nat /\ leader.hold[a] + 1 \in Nat
    BY <1>1, MirrorAssumption DEF LeaderBook
  <2>. QED
    BY <1>2, <2>1, TradedTyped DEF LeaderBuys
<1>3. ASSUME NEW a \in Assets, NEW n \in 1..MaxTrades, LeaderSells(a, n) PROVE LeaderTypeOK'
  <2>1. n \in Nat /\ leader.hold[a] - n \in Nat
    BY <1>1, <1>3, MirrorAssumption DEF LeaderBook, LeaderSells
  <2>. QED
    BY <1>3, <2>1, TradedTyped DEF LeaderSells
<1>4. CASE LeaderCollapses
  <2>1. leader.total \div 4 \in Nat
    BY <1>1 DEF LeaderBook
  <2>2. leader' = [leader EXCEPT !.total = leader.total \div 4] /\ UNCHANGED <<now, tape>>
    BY <1>4 DEF LeaderCollapses
  <2>3. leader' \in LeaderBook
    BY <1>1, <2>1, <2>2 DEF LeaderBook
  <2>. QED
    BY <1>1, <2>2, <2>3 DEF LeaderTypeOK
<1>5. CASE Clock
  BY <1>1, <1>5 DEF Clock, LeaderTypeOK
<1>6. CASE UNCHANGED leaderVars
  BY <1>1, <1>6 DEF leaderVars, LeaderTypeOK
<1>. QED
  BY <1>2, <1>3, <1>4, <1>5, <1>6 DEF LeaderNext

\* What a watcher answers.
LEMMA PollTyped ==
    ASSUME LeaderTypeOK, NEW cursor \in Nat
    PROVE  poll(cursor).trades \in Seq(LeaderTrade) /\ poll(cursor).cursor \in Nat
<1>1. tape \in Seq(LeaderTrade) /\ PollLimit \in Nat
  BY MirrorAssumption DEF LeaderTypeOK
<1> DEFINE from == IF Len(tape) - PollLimit > cursor THEN Len(tape) - PollLimit ELSE cursor
<1>2. from \in Nat
  BY <1>1
<1>3. poll(cursor) = [trades |-> SubSeq(tape, from + 1, Len(tape)), cursor |-> Len(tape)]
  BY DEF poll
<1> HIDE DEF from
<1>4. \A i \in (from + 1)..Len(tape) : tape[i] \in LeaderTrade
  <2>1. \A i \in (from + 1)..Len(tape) : i \in 1..Len(tape)
    BY <1>1, <1>2
  <2>. QED
    BY <1>1, <2>1
<1>5. from + 1 \in Int /\ Len(tape) \in Int /\ Len(tape) \in Nat
  BY <1>1, <1>2
<1>6. SubSeq(tape, from + 1, Len(tape)) \in Seq(LeaderTrade)
  BY <1>4, <1>5, SubSeqProperties
<1>. QED
  BY <1>3, <1>5, <1>6

----------------------------------------------------------------------------
(* The pooled loop *)

\* The equity a policy's percentages are taken of never changes: applyFill
\* leaves it alone.
Valued == state.vault.equity = Equity /\ state.highWater = Equity

\* The counter is within the budget, and so is each buy that a throw hid.
BudgetSound ==
    /\ state.vault.deployed <= pct(policy.dailyDeployPct, Equity)
    /\ hidden.usd <= hidden.buys * pct(policy.dailyDeployPct, Equity)

Counted == \A i \in 1..MaxTrades : fills[i] <= 1 /\ (fills[i] # 0 => i \in state.processed)

\* While a plan is executed, what is left of it can be replayed from a
\* provisional book that covers the real one.
Ahead ==
    cycle.step = "executing" =>
        /\ Distinct(cycle.intents, state.processed)
        /\ \E books : /\ Replay(policy, cycle.at, books, cycle.intents)
                      /\ Covers(policy, books[0], state.vault, ~short)

PooledInv ==
    /\ LeaderTypeOK /\ PooledTypeOK
    /\ Valued /\ BudgetSound /\ LimitsCompose /\ Counted /\ Ahead

LEMMA TickShape ==
    ASSUME PooledTypeOK
    PROVE  /\ cycle.step = "reading" => cycle \in ReadingTick
           /\ cycle.step \in {"executing", "report"} => cycle \in ActingTick
<1>1. cycle \in {Idle} \cup ReadingTick \cup ActingTick
  BY DEF PooledTypeOK
<1>2. CASE cycle = Idle
  BY <1>2 DEF Idle
<1>3. CASE cycle \in ReadingTick
  BY <1>3 DEF ReadingTick
<1>4. CASE cycle \in ActingTick
  BY <1>4 DEF ActingTick
<1>. QED
  BY <1>1, <1>2, <1>3, <1>4

LEMMA EmptyVault ==
    LET v == emptyVaultState(Equity)
    IN  /\ v \in VaultState /\ v.equity = Equity /\ v.deployed = 0 /\ v.quote = Equity
        /\ Held(v) = {}
<1>1. Equity \in Nat
  BY MirrorAssumption
<1>. QED
  BY <1>1 DEF emptyVaultState, VaultState, Held

LEMMA PooledStarts == LeaderInit /\ PooledInit => PooledInv
<1> SUFFICES ASSUME LeaderInit, PooledInit PROVE PooledInv
  OBVIOUS
<1> DEFINE v == emptyVaultState(Equity)
<1>1. /\ v \in VaultState /\ v.equity = Equity /\ v.deployed = 0 /\ v.quote = Equity
      /\ Held(v) = {}
  BY EmptyVault
<1>2. /\ policy \in Policies /\ state = initialState(v, LeaderUsd, 0) /\ cycle = Idle
      /\ fills = [i \in 1..MaxTrades |-> 0] /\ unknown = {} /\ short = FALSE /\ throws = 0
      /\ hidden = [usd |-> 0, buys |-> 0]
  BY DEF PooledInit, NoneHidden
<1> HIDE DEF v
<1>3. /\ {Equity, LeaderUsd, DayTicks} \subseteq Nat \ {0} /\ MaxThrows \in Nat
  BY MirrorAssumption, PooledAssumption
<1>4. utcDay(0) \in Nat
  BY <1>3 DEF utcDay
<1>5. /\ state \in RunnerState /\ state.vault = v /\ state.highWater = Equity /\ state.processed = {}
  <2>1. PICK day \in Nat : day = utcDay(0)
    BY <1>4
  <2>2. state = [cursor |-> 0, processed |-> {}, vault |-> v, highWater |-> Equity,
                 startOfDay |-> Equity, leaderStartOfDay |-> LeaderUsd, day |-> day]
    BY <1>1, <1>2, <2>1 DEF initialState
  <2>3. {} \in SUBSET (0..MaxTrades) /\ Equity \in Nat /\ LeaderUsd \in Nat
    BY <1>3
  <2>. QED
    BY <1>1, <2>2, <2>3 DEF RunnerState
<1>6. PooledTypeOK
  <2>1. fills \in [1..MaxTrades -> Nat]
    BY <1>2
  <2>2. unknown \subseteq 0..MaxTrades
    BY <1>2
  <2>3. throws \in 0..MaxThrows /\ short \in BOOLEAN
    <3>1. 0 \in 0..MaxThrows
      BY <1>3
    <3>. QED
      BY <1>2, <3>1
  <2>. QED
    BY <1>2, <1>5, <2>1, <2>2, <2>3 DEF PooledTypeOK
<1>7. Valued /\ Counted /\ Ahead
  BY <1>1, <1>2, <1>5 DEF Valued, Counted, Ahead, Idle
<1>8. PICK daily \in Nat, reserve \in Nat :
          daily = pct(policy.dailyDeployPct, Equity) /\ reserve = pct(policy.quoteReservePct, Equity)
  BY <1>2, <1>3, PctNat, PolicyTypes
<1>9. BudgetSound
  <2>1. hidden.usd = 0 /\ hidden.buys = 0 /\ state.vault.deployed = 0
    BY <1>1, <1>2, <1>5
  <2>. QED
    BY <1>8, <2>1 DEF BudgetSound
<1>10. reserve <= Equity
  <2>1. policy.quoteReservePct * Equity <= Equity * 100 /\ policy.quoteReservePct * Equity \in Nat
    <3>1. Equity * policy.quoteReservePct <= Equity * 100 /\ Equity * policy.quoteReservePct \in Nat
      BY <1>2, <1>3, PolicyTypes, ProductMono
    <3>. QED
      BY <1>2, <1>3, <3>1, PolicyTypes
  <2>. QED
    BY <1>3, <1>8, <2>1 DEF pct
<1>11. LimitsCompose
  <2>1. Cardinality(Held(v)) = 0 /\ policy.maxPositions \in Nat /\ policy.maxPositions >= 1
    BY <1>1, <1>2, FS_EmptySet, PolicyTypes
  <2>. QED
    BY <1>1, <1>5, <1>8, <1>10, <2>1 DEF LimitsCompose
<1>. QED
  BY <1>6, <1>7, <1>9, <1>11, LeaderStarts DEF PooledInv

\* A step that leaves the book and the histories alone and executes nothing.
LEMMA QuietKeeps ==
    ASSUME PooledInv, LeaderTypeOK', PooledTypeOK',
           policy' = policy, state'.vault = state.vault, state'.processed = state.processed,
           state'.highWater = state.highWater, fills' = fills, short' = short,
           hidden'.usd <= hidden'.buys * pct(policy.dailyDeployPct, Equity),
           cycle'.step # "executing"
    PROVE  PooledInv'
<1>1. Valued' /\ BudgetSound' /\ Counted'
  BY DEF PooledInv, Valued, BudgetSound, Counted
<1>2. LimitsCompose'
  BY DEF PooledInv, LimitsCompose
<1>3. Ahead'
  BY DEF Ahead
<1>. QED
  BY <1>1, <1>2, <1>3 DEF PooledInv

LEMMA StartTickKeeps == PooledInv /\ LeaderTypeOK' /\ StartTick => PooledInv'
<1> SUFFICES ASSUME PooledInv, LeaderTypeOK', StartTick PROVE PooledInv'
  OBVIOUS
<1>1. PooledTypeOK /\ state \in RunnerState /\ now \in 0..MaxTime
  BY DEF PooledInv, PooledTypeOK, LeaderTypeOK
<1>2. /\ cycle' = [step |-> "reading", at |-> now, trades |-> NotRead, cursor |-> state.cursor,
                   book |-> NotRead, late |-> FALSE]
      /\ UNCHANGED <<policy, state, fills, unknown, hidden, short, throws>>
  BY DEF StartTick, histories
<1>3. cycle' \in ReadingTick /\ cycle'.step = "reading"
  BY <1>1, <1>2 DEF ReadingTick, RunnerState
<1>4. PooledTypeOK'
  BY <1>1, <1>2, <1>3 DEF PooledTypeOK
<1>. QED
  BY <1>2, <1>3, <1>4, QuietKeeps DEF PooledInv, BudgetSound

LEMMA ReadKeeps ==
    PooledInv /\ LeaderTypeOK' /\ (ReadTrades \/ ReadLeader) => PooledInv'
<1> SUFFICES ASSUME PooledInv, LeaderTypeOK', ReadTrades \/ ReadLeader PROVE PooledInv'
  OBVIOUS
<1>1. /\ PooledTypeOK /\ LeaderTypeOK /\ state \in RunnerState /\ cycle \in ReadingTick
      /\ leader \in LeaderBook /\ state.cursor \in Nat
  <2>1. PooledTypeOK /\ LeaderTypeOK /\ cycle.step = "reading"
    BY DEF PooledInv, ReadTrades, ReadLeader
  <2>2. cycle \in ReadingTick
    BY <2>1, TickShape
  <2>. QED
    BY <2>1, <2>2 DEF PooledTypeOK, LeaderTypeOK, RunnerState
<1>2. UNCHANGED <<policy, state, fills, unknown, hidden, short, throws>>
  BY DEF ReadTrades, ReadLeader, histories
<1>3. cycle' \in ReadingTick
  <2>1. CASE ReadTrades
    <3>1. PICK trades \in Seq(LeaderTrade), cursor \in Nat :
              trades = poll(state.cursor).trades /\ cursor = poll(state.cursor).cursor
      BY <1>1, PollTyped
    <3>2. PICK late \in BOOLEAN : late = (cycle.book = NotRead)
      OBVIOUS
    <3>3. cycle' = [cycle EXCEPT !.trades = trades, !.cursor = cursor, !.late = late]
      BY <2>1, <3>1, <3>2 DEF ReadTrades
    <3>. QED
      BY <1>1, <3>3 DEF ReadingTick
  <2>2. CASE ReadLeader
    <3>1. cycle' = [cycle EXCEPT !.book = leader]
      BY <2>2 DEF ReadLeader
    <3>. QED
      BY <1>1, <3>1 DEF ReadingTick
  <2>. QED
    BY <2>1, <2>2
<1>4. cycle'.step = "reading"
  BY <1>3 DEF ReadingTick
<1>5. PooledTypeOK'
  BY <1>1, <1>2, <1>3 DEF PooledTypeOK
<1>. QED
  BY <1>2, <1>4, <1>5, QuietKeeps DEF PooledInv, BudgetSound

LEMMA EndKeeps ==
    PooledInv /\ LeaderTypeOK' /\ (EndTick \/ Report) => PooledInv'
<1> SUFFICES ASSUME PooledInv, LeaderTypeOK', EndTick \/ Report PROVE PooledInv'
  OBVIOUS
<1>1. PooledTypeOK /\ state \in RunnerState /\ cycle \in ActingTick /\ cycle.cursor \in Nat
  <2>1. PooledTypeOK /\ cycle.step \in {"executing", "report"}
    BY DEF PooledInv, EndTick, Report
  <2>2. cycle \in ActingTick
    BY <2>1, TickShape
  <2>. QED
    BY <2>1, <2>2 DEF PooledTypeOK, ActingTick
<1>2. UNCHANGED <<policy, fills, unknown, hidden, short, throws>>
  BY DEF EndTick, Report, histories
<1>3. /\ state' \in RunnerState
      /\ state'.vault = state.vault /\ state'.processed = state.processed
      /\ state'.highWater = state.highWater
  <2>1. state' = state \/ state' = [state EXCEPT !.cursor = cycle.cursor]
    BY DEF EndTick, Report
  <2>. QED
    BY <1>1, <2>1 DEF RunnerState
<1>4. cycle' \in {Idle} \cup ActingTick /\ cycle'.step # "executing"
  <2>1. CASE EndTick
    <3>1. cycle' = [cycle EXCEPT !.step = "report"]
      BY <2>1 DEF EndTick
    <3>. QED
      BY <1>1, <3>1 DEF ActingTick
  <2>2. CASE Report
    BY <2>2 DEF Report, Idle
  <2>. QED
    BY <2>1, <2>2
<1>5. PooledTypeOK'
  BY <1>1, <1>2, <1>3, <1>4 DEF PooledTypeOK
<1>. QED
  BY <1>2, <1>3, <1>4, <1>5, QuietKeeps DEF PooledInv, BudgetSound

\* What the tick is about to execute.
LEMMA NextIntentTyped ==
    ASSUME PooledInv, HasIntent
    PROVE  /\ cycle \in ActingTick /\ cycle.intents \in Seq(MirrorIntent) /\ cycle.intents # <<>>
           /\ cycle.step = "executing" /\ cycle.at \in Nat
           /\ NextIntent \in MirrorIntent /\ Tail(cycle.intents) \in Seq(MirrorIntent)
           /\ NextIntent.id \in 0..MaxTrades
<1>1. cycle.step = "executing" /\ cycle.intents # <<>> /\ PooledTypeOK
  BY DEF PooledInv, HasIntent
<1>2. cycle \in ActingTick
  BY <1>1, TickShape
<1>3. cycle.intents \in Seq(MirrorIntent) /\ cycle.at \in 0..MaxTime
  BY <1>2 DEF ActingTick
<1>4. NextIntent \in MirrorIntent /\ Tail(cycle.intents) \in Seq(MirrorIntent)
  BY <1>1, <1>3, HeadTailProperties DEF NextIntent
<1>5. NextIntent.id \in 0..MaxTrades /\ cycle.at \in Nat
  BY <1>3, <1>4, MirrorAssumption DEF MirrorIntent
<1>. QED
  BY <1>1, <1>2, <1>3, <1>4, <1>5

\* A new day forgets what the last one deployed, and nothing else of the book.
SameBook(v, w) ==
    /\ v \in VaultState /\ w \in VaultState
    /\ w.equity = v.equity /\ w.quote = v.quote /\ w.pos = v.pos

LEMMA SameBookReads ==
    ASSUME NEW v, NEW w, SameBook(v, w)
    PROVE  Held(w) = Held(v) /\ \A a \in Assets : Usd(w, a) = Usd(v, a)
  BY DEF SameBook, Held, Usd

LEMMA RollKeepsBook ==
    ASSUME NEW v \in VaultState
    PROVE  /\ SameBook(v, v) /\ SameBook(v, [v EXCEPT !.deployed = 0])
           /\ [v EXCEPT !.deployed = 0].deployed = 0
<1> DEFINE w == [v EXCEPT !.deployed = 0]
<1>1. w \in VaultState /\ w.equity = v.equity /\ w.quote = v.quote /\ w.pos = v.pos /\ w.deployed = 0
  BY DEF VaultState
<1>. QED
  BY <1>1 DEF SameBook

\* The tick that has planned.
Planned(marked, intents) ==
    [step |-> "executing", at |-> cycle.at, trades |-> cycle.trades, cursor |-> cycle.cursor,
     book |-> cycle.book, late |-> cycle.late, before |-> marked, clean |-> TRUE,
     intents |-> intents]

PlannedFor(marked, markets) ==
    planCycle(policy, cycle.trades, cycle.book, marked.vault, markets, marked.processed,
              Marks(marked), cycle.at)

\* What Plan reads and what it plans with: the book of state, whatever the day.
Made(marked, markets) ==
    /\ cycle \in ReadingTick /\ cycle.trades \in Seq(LeaderTrade) /\ cycle.book \in LeaderBook
    /\ cycle.at \in 0..MaxTime /\ cycle.at \in Nat /\ cycle.cursor \in Nat
    /\ marked \in RunnerState /\ marked.processed = state.processed /\ marked.highWater = Equity
    /\ marked.vault \in VaultState /\ marked.vault.equity = Equity
    /\ SameBook(state.vault, marked.vault)
    /\ marked.vault.deployed \in {0, state.vault.deployed}
    /\ checkBreakers(policy, marked.vault, Marks(marked), cycle.book) # "max-drawdown"
    /\ Plannable(policy, cycle.trades, cycle.book, marked.vault, markets, marked.processed, cycle.at)
    /\ state' = marked /\ UNCHANGED <<policy, fills, unknown, short, throws>>
    /\ hidden' \in {hidden, NoneHidden}
    /\ cycle' = Planned(marked, PlannedFor(marked, markets))

LEMMA PlanMade ==
    ASSUME PooledInv, Plan
    PROVE  \E marked, markets : Made(marked, markets)
<1>1. /\ PooledTypeOK /\ Valued /\ BudgetSound /\ LimitsCompose /\ Counted
      /\ state \in RunnerState /\ policy \in Policies /\ Equity \in Nat /\ short \in BOOLEAN
  BY MirrorAssumption DEF PooledInv, PooledTypeOK
<1>2. /\ cycle \in ReadingTick /\ cycle.trades \in Seq(LeaderTrade) /\ cycle.book \in LeaderBook
      /\ cycle.at \in 0..MaxTime /\ cycle.at \in Nat /\ cycle.cursor \in Nat
  <2>1. cycle.step = "reading" /\ cycle.trades # NotRead /\ cycle.book # NotRead
    BY DEF Plan
  <2>2. cycle \in ReadingTick
    BY <1>1, <2>1, TickShape
  <2>3. cycle.at \in 0..MaxTime /\ MaxTime \in Nat
    BY <2>2, MirrorAssumption DEF ReadingTick
  <2>4. cycle.at \in Nat
    BY <2>3
  <2>. QED
    BY <2>1, <2>2, <2>3, <2>4 DEF ReadingTick
<1> DEFINE rolled == rollDay(state, cycle.book.total, cycle.at)
           marked == [rolled EXCEPT !.highWater =
                          IF @ < rolled.vault.equity THEN rolled.vault.equity ELSE @]
<1>3. /\ rolled \in RunnerState /\ rolled.processed = state.processed
      /\ rolled.highWater = Equity /\ SameBook(state.vault, rolled.vault)
      /\ rolled.vault.deployed \in {0, state.vault.deployed}
  <2>1. state.vault \in VaultState /\ state.vault.equity = Equity /\ state.highWater = Equity
    BY <1>1 DEF RunnerState, Valued
  <2>2. CASE utcDay(cycle.at) = state.day
    <3>1. rolled = state
      BY <2>2 DEF rollDay
    <3>. QED
      BY <1>1, <2>1, <3>1, RollKeepsBook
  <2>3. CASE utcDay(cycle.at) # state.day
    <3>1. PICK day \in Nat, total \in Nat : day = utcDay(cycle.at) /\ total = cycle.book.total
      <4>1. DayTicks \in Nat /\ DayTicks > 0
        BY MirrorAssumption
      <4>2. utcDay(cycle.at) \in Nat
        BY <1>2, <4>1, DivNat DEF utcDay
      <4>. QED
        BY <1>2, <4>2 DEF LeaderBook
    <3>2. PICK w \in VaultState : w = [state.vault EXCEPT !.deployed = 0]
      BY <2>1, RollKeepsBook DEF SameBook
    <3>3. rolled = [state EXCEPT !.day = day, !.startOfDay = Equity, !.leaderStartOfDay = total,
                                 !.vault = w]
      BY <1>1, <2>1, <2>3, <3>1, <3>2 DEF rollDay, RunnerState
    <3>4. rolled \in RunnerState /\ rolled.processed = state.processed
          /\ rolled.highWater = Equity /\ rolled.vault = w
      <4> HIDE DEF rolled
      <4>. QED
        BY <1>1, <2>1, <3>1, <3>2, <3>3 DEF RunnerState
    <3> HIDE DEF rolled
    <3>. QED
      BY <2>1, <3>2, <3>4, RollKeepsBook
  <2>. QED
    BY <2>2, <2>3
<1> HIDE DEF rolled
<1>4. /\ marked \in RunnerState /\ marked.processed = state.processed
      /\ marked.highWater = Equity /\ marked.vault = rolled.vault
  <2>1. rolled.vault.equity = Equity
    BY <1>1, <1>3 DEF SameBook, Valued
  <2>2. marked = [rolled EXCEPT !.highWater = Equity]
    BY <1>1, <1>3, <2>1
  <2> HIDE DEF marked
  <2>. QED
    BY <1>1, <1>3, <2>2 DEF RunnerState
<1>5. /\ state' = marked
      /\ UNCHANGED <<policy, fills, unknown, short, throws>> /\ hidden' \in {hidden, NoneHidden}
  BY DEF Plan, rolled, histories
<1>6. PICK markets \in Markets(cycle.trades) :
          cycle' = Planned(marked, PlannedFor(marked, markets))
  BY DEF Plan, rolled, Planned, PlannedFor
<1> HIDE DEF marked
<1>7. /\ marked.vault \in VaultState /\ marked.vault.equity = Equity
      /\ SameBook(state.vault, marked.vault)
      /\ marked.vault.deployed \in {0, state.vault.deployed}
  BY <1>1, <1>3, <1>4 DEF SameBook, Valued
<1>8. checkBreakers(policy, marked.vault, Marks(marked), cycle.book) # "max-drawdown"
  <2>1. Marks(marked).highWater = Equity
    BY <1>4 DEF Marks
  <2>2. ~Fell(Equity, Equity, policy.maxDrawdownPct)
    <3>1. policy.maxDrawdownPct * Equity \in Nat
      BY <1>1, PolicyTypes
    <3>. QED
      BY <1>1, <3>1 DEF Fell
  <2>3. ~Fell(marked.vault.equity, Marks(marked).highWater, policy.maxDrawdownPct)
    BY <1>7, <2>1, <2>2
  <2>. QED
    BY <2>3 DEF checkBreakers
<1>9. Plannable(policy, cycle.trades, cycle.book, marked.vault, markets, marked.processed, cycle.at)
  BY <1>1, <1>2, <1>7 DEF Plannable
<1>10. Made(marked, markets)
  BY <1>2, <1>4, <1>5, <1>6, <1>7, <1>8, <1>9 DEF Made
<1>. QED
  BY <1>10

LEMMA PlanKeeps == PooledInv /\ LeaderTypeOK' /\ Plan => PooledInv'
<1> SUFFICES ASSUME PooledInv, LeaderTypeOK', Plan PROVE PooledInv'
  OBVIOUS
<1>1. /\ PooledTypeOK /\ Valued /\ BudgetSound /\ LimitsCompose /\ Counted
      /\ state \in RunnerState /\ policy \in Policies /\ Equity \in Nat /\ short \in BOOLEAN
  BY MirrorAssumption DEF PooledInv, PooledTypeOK
<1>2. PICK marked, markets : Made(marked, markets)
  BY PlanMade
<1>3. /\ cycle \in ReadingTick /\ cycle.trades \in Seq(LeaderTrade) /\ cycle.book \in LeaderBook
      /\ cycle.at \in 0..MaxTime /\ cycle.at \in Nat /\ cycle.cursor \in Nat
  BY <1>2 DEF Made
<1>4. /\ marked \in RunnerState /\ marked.processed = state.processed
      /\ marked.highWater = Equity
  BY <1>2 DEF Made
<1>5. /\ state' = marked
      /\ UNCHANGED <<policy, fills, unknown, short, throws>> /\ hidden' \in {hidden, NoneHidden}
  BY <1>2 DEF Made
<1>6. PICK intents : /\ intents = PlannedFor(marked, markets)
                     /\ cycle' = Planned(marked, intents)
  BY <1>2 DEF Made
<1>7. /\ marked.vault \in VaultState /\ marked.vault.equity = Equity
      /\ SameBook(state.vault, marked.vault)
      /\ marked.vault.deployed \in {0, state.vault.deployed}
  BY <1>2 DEF Made
<1>8. /\ Distinct(intents, marked.processed)
      /\ \E books : Replay(policy, cycle.at, books, intents) /\ books[0] = marked.vault
  BY <1>2, <1>6, PlanReplays DEF Made, PlannedFor
<1>10. PICK books : Replay(policy, cycle.at, books, intents) /\ books[0] = marked.vault
  BY <1>8
<1>11. /\ cycle'.step = "executing" /\ cycle'.at = cycle.at /\ cycle'.intents = intents
       /\ cycle' \in ActingTick
  <2>1. intents \in Seq(MirrorIntent) /\ cycle.late \in BOOLEAN
    BY <1>3, <1>10 DEF Replay, ReadingTick
  <2>. QED
    BY <1>3, <1>4, <1>6, <2>1 DEF ActingTick, Planned
<1>12. PooledTypeOK'
  <2>1. hidden' \in [usd: Nat, buys: Nat]
    BY <1>1, <1>5 DEF PooledTypeOK, NoneHidden
  <2>. QED
    BY <1>1, <1>4, <1>5, <1>11, <2>1 DEF PooledTypeOK
<1>13. Valued' /\ Counted'
  BY <1>1, <1>4, <1>5, <1>7 DEF Valued, Counted
<1>14. BudgetSound'
  <2>1. pct(policy.dailyDeployPct, Equity) \in Nat
    BY <1>1, PctNat, PolicyTypes
  <2>2. marked.vault.deployed <= pct(policy.dailyDeployPct, Equity)
    BY <1>1, <1>7, <2>1 DEF BudgetSound
  <2>3. hidden'.usd <= hidden'.buys * pct(policy.dailyDeployPct, Equity)
    BY <1>1, <1>5, <2>1 DEF BudgetSound, NoneHidden
  <2>. QED
    BY <1>5, <2>2, <2>3 DEF BudgetSound
<1>15. LimitsCompose'
  <2>1. /\ Held(marked.vault) = Held(state.vault) /\ Held(state.vault) \subseteq Assets
        /\ \A a \in Assets : Usd(marked.vault, a) = Usd(state.vault, a)
        /\ marked.vault.quote = state.vault.quote
    BY <1>7, SameBookReads, HeldFinite DEF SameBook
  <2>. QED
    BY <1>1, <1>5, <2>1 DEF LimitsCompose
<1>16. Ahead'
  <2>1. Covers(policy, marked.vault, marked.vault, ~short)
    <3>1. PICK total \in Int, deployed \in Nat :
              total = Total(marked.vault) /\ deployed = marked.vault.deployed
      <4>1. IsBook(marked.vault.pos) /\ marked.vault.quote \in Int /\ marked.vault.deployed \in Nat
        BY <1>7 DEF VaultState, IsBook
      <4>2. Positions(marked.vault) \in Nat
        BY <4>1, PositionsNat
      <4>. QED
        BY <4>1, <4>2 DEF Total
    <3>2. \A a \in Assets : Usd(marked.vault, a) \in Nat
      BY <1>7, BookReads DEF VaultState, IsBook
    <3>3. ~short => Cardinality(Held(marked.vault)) <= policy.maxPositions
      BY <1>5, <1>15 DEF LimitsCompose
    <3>4. ~short => Dominates(policy, marked.vault, marked.vault)
      BY <3>1, <3>2, <3>3 DEF Dominates
    <3>. QED
      BY <1>7, <3>1, <3>4 DEF Covers, Trails
  <2>2. /\ Replay(policy', cycle'.at, books, cycle'.intents)
        /\ Covers(policy', books[0], state'.vault, ~short')
    BY <1>5, <1>10, <1>11, <2>1
  <2>3. Distinct(cycle'.intents, state'.processed)
    BY <1>4, <1>5, <1>8, <1>11
  <2>. QED
    BY <2>2, <2>3 DEF Ahead
<1>. QED
  BY <1>12, <1>13, <1>14, <1>15, <1>16 DEF PooledInv

\* What LimitsCompose says, of the book alone.
LEMMA LimitsAreCaps ==
    ASSUME state.vault.equity = Equity
    PROVE  LimitsCompose <=> (~short => CapsHold(policy, state.vault))
  BY DEF LimitsCompose, CapsHold

\* The plan under way, as the next intent finds it.
UnderWay(books) ==
    /\ Replay(policy, cycle.at, books, cycle.intents)
    /\ Covers(policy, books[0], state.vault, ~short)

\* A buy of the plan fits in what the counter leaves of the budget.
LEMMA BuysFit ==
    ASSUME PooledInv, HasIntent, NextIntent.kind = "buy"
    PROVE  NextIntent.usd \in Nat /\ NextIntent.usd <= pct(policy.dailyDeployPct, Equity)
<1>1. /\ PooledTypeOK /\ Valued /\ Ahead /\ policy \in Policies /\ Equity \in Nat
  BY MirrorAssumption DEF PooledInv, PooledTypeOK
<1>2. /\ cycle.intents \in Seq(MirrorIntent) /\ cycle.intents # <<>> /\ cycle.step = "executing"
      /\ cycle.at \in Nat
  BY NextIntentTyped
<1>3. PICK books : UnderWay(books)
  BY <1>1, <1>2 DEF Ahead, UnderWay
<1>4. PICK rest : Follows(policy, cycle.at, books[0], NextIntent, rest[0])
  BY <1>2, <1>3, ReplayTail DEF UnderWay, NextIntent
<1>5. Fits(policy, books[0], NextIntent.asset, NextIntent.usd)
  BY <1>4 DEF Follows
<1>6. books[0].equity = Equity /\ books[0].deployed \in Nat
  BY <1>1, <1>3 DEF UnderWay, Covers, Trails, Valued, VaultState
<1>7. pct(policy.dailyDeployPct, Equity) \in Nat
  BY <1>1, PctNat, PolicyTypes
<1>. QED
  BY <1>5, <1>6, <1>7 DEF Fits, Budget

LEMMA ThrowKeeps ==
    ASSUME PooledInv, LeaderTypeOK', NEW landed \in BOOLEAN, ExecutionThrows(landed)
    PROVE  PooledInv'
<1>1. PooledTypeOK /\ HasIntent /\ BudgetSound /\ hidden \in [usd: Nat, buys: Nat]
  BY DEF PooledInv, ExecutionThrows, PooledTypeOK
<1>2. /\ throws < MaxThrows /\ throws' = throws + 1 /\ cycle' = Idle
      /\ unknown' = IF landed THEN unknown \cup {NextIntent.id} ELSE unknown
      /\ UNCHANGED <<policy, state, fills, short>>
  BY DEF ExecutionThrows
<1>3. unknown' \subseteq 0..MaxTrades
  <2>1. NextIntent.id \in 0..MaxTrades /\ unknown \subseteq 0..MaxTrades
    BY <1>1, NextIntentTyped DEF PooledTypeOK
  <2>. QED
    BY <1>2, <2>1
<1>4. throws' \in 0..MaxThrows
  BY <1>1, <1>2, PooledAssumption DEF PooledTypeOK
<1>5. /\ hidden' \in [usd: Nat, buys: Nat]
      /\ hidden'.usd <= hidden'.buys * pct(policy.dailyDeployPct, Equity)
  <2>1. CASE landed /\ NextIntent.kind = "buy"
    <3>1. PICK usd \in Nat : usd = NextIntent.usd /\ usd <= pct(policy.dailyDeployPct, Equity)
      BY <1>1, <2>1, BuysFit
    <3>2. PICK budget \in Nat : budget = pct(policy.dailyDeployPct, Equity)
      BY <1>1, MirrorAssumption, PctNat, PolicyTypes DEF PooledTypeOK
    <3>3. hidden' = [usd |-> hidden.usd + usd, buys |-> hidden.buys + 1]
      BY <2>1, <3>1 DEF ExecutionThrows
    <3>4. PICK n \in Nat, sum \in Nat : n = hidden.buys /\ sum = hidden.usd
      BY <1>1
    <3>5. sum <= n * budget
      BY <1>1, <3>2, <3>4 DEF BudgetSound
    <3>6. sum + usd <= (n + 1) * budget
      BY <3>1, <3>2, <3>5
    <3>. QED
      BY <3>2, <3>3, <3>4, <3>6
  <2>2. CASE ~(landed /\ NextIntent.kind = "buy")
    <3>1. hidden' = hidden
      BY <2>2 DEF ExecutionThrows
    <3>. QED
      BY <1>1, <3>1 DEF BudgetSound
  <2>. QED
    BY <2>1, <2>2
<1>6. PooledTypeOK'
  BY <1>1, <1>2, <1>3, <1>4, <1>5 DEF PooledTypeOK
<1>. QED
  BY <1>2, <1>5, <1>6, QuietKeeps DEF Idle

LEMMA ExecutedOkKeeps ==
    ASSUME PooledInv, LeaderTypeOK', NEW filled \in Filled, ExecutedOk(filled)
    PROVE  PooledInv'
<1>1. HasIntent
  BY DEF Filled
<1>2. /\ PooledTypeOK /\ Valued /\ BudgetSound /\ LimitsCompose /\ Counted /\ Ahead
      /\ policy \in Policies /\ state \in RunnerState /\ short \in BOOLEAN /\ Equity \in Nat
      /\ state.vault \in VaultState /\ state.vault.equity = Equity
  BY MirrorAssumption DEF PooledInv, PooledTypeOK, RunnerState, Valued
<1>3. /\ cycle \in ActingTick /\ cycle.intents \in Seq(MirrorIntent) /\ cycle.intents # <<>>
      /\ cycle.step = "executing" /\ cycle.at \in Nat
      /\ NextIntent \in MirrorIntent /\ Tail(cycle.intents) \in Seq(MirrorIntent)
      /\ NextIntent.id \in 0..MaxTrades
  BY <1>1, NextIntentTyped
<1>4. PICK books : UnderWay(books)
  BY <1>2, <1>3 DEF Ahead, UnderWay
<1>5. PICK rest : /\ Replay(policy, cycle.at, rest, Tail(cycle.intents))
                  /\ Follows(policy, cycle.at, books[0], NextIntent, rest[0])
  BY <1>3, <1>4, ReplayTail DEF UnderWay, NextIntent
<1>6. Covers(policy, books[0], state.vault, ~short)
  BY <1>4 DEF UnderWay
<1>7. PICK fine \in BOOLEAN : fine = ~short'
  OBVIOUS
<1>8. PICK next : next = applyFill(state.vault, NextIntent, filled, cycle.at)
  OBVIOUS
<1>9. /\ state' = [state EXCEPT !.processed = state.processed \cup {NextIntent.id}, !.vault = next]
      /\ fills' = IF NextIntent.id = 0 THEN fills
                  ELSE [fills EXCEPT ![NextIntent.id] = fills[NextIntent.id] + 1]
      /\ short' = (short \/ (NextIntent.kind = "sell" /\ filled < Book(NextIntent)))
      /\ cycle' = [cycle EXCEPT !.intents = Tail(cycle.intents)]
      /\ UNCHANGED <<policy, unknown, hidden, throws>>
  BY <1>8 DEF ExecutedOk
<1>10. short' \in BOOLEAN /\ (fine => ~short)
  <2>1. short' \in BOOLEAN
    BY <1>9
  <2>. QED
    BY <1>2, <1>7, <1>9
\* The book that the fill leaves.
<1>11. /\ Covers(policy, rest[0], next, fine) /\ next.equity = Equity
       /\ next.deployed <= Budget(policy, Equity)
       /\ fine /\ CapsHold(policy, state.vault) => CapsHold(policy, next)
  <2>1. CASE NextIntent.kind = "buy"
    <3>1. /\ NextIntent.asset \in Assets /\ filled = NextIntent.usd
          /\ next = Bought(state.vault, NextIntent.asset, NextIntent.usd)
          /\ rest[0] = Bought(books[0], NextIntent.asset, NextIntent.usd)
          /\ Fits(policy, books[0], NextIntent.asset, NextIntent.usd)
      <4>1. NextIntent.asset \in Assets
        BY <1>3 DEF MirrorIntent
      <4>2. filled = NextIntent.usd
        BY <1>1, <2>1 DEF Filled
      <4>. QED
        BY <1>5, <1>8, <2>1, <4>1, <4>2 DEF applyFill, Follows, Applied
    <3>2. fine = ~short
      BY <1>2, <1>7, <1>9, <2>1
    <3>3. /\ Trails(rest[0], next)
          /\ next.deployed <= Budget(policy, Equity) /\ next.equity = Equity
          /\ Dominates(policy, books[0], state.vault) =>
                 /\ Dominates(policy, rest[0], next)
                 /\ CapsHold(policy, state.vault) => CapsHold(policy, next)
      BY <1>2, <1>6, <3>1, BuyCovered DEF Covers
    <3>. QED
      BY <1>6, <3>2, <3>3 DEF Covers
  <2>2. CASE NextIntent.kind # "buy"
    <3>1. PICK a \in Assets, f \in Fraction :
              a = NextIntent.asset /\ f = NextIntent.fraction /\ NextIntent.kind = "sell"
      BY <1>3, <2>2 DEF MirrorIntent
    <3>2. filled \in Nat
      <4>1. PICK p \in FillPcts : filled = pct(p, Book(NextIntent))
        BY <2>2 DEF Filled
      <4>2. p \in Nat
        BY PooledAssumption
      <4>3. Usd(state.vault, a) \in Nat
        BY <1>2, BookReads DEF VaultState, IsBook
      <4>4. Book(NextIntent) \in Nat
        BY <3>1, <4>3, OfBelow DEF Book
      <4>. QED
        BY <4>1, <4>2, <4>4, PctNat
    <3>3. /\ next = SoldFor(state.vault, a, f, filled, cycle.at)
          /\ rest[0] = applySell(books[0], a, f, cycle.at)
      BY <1>5, <1>8, <2>2, <3>1 DEF applyFill, SoldFor, Follows, Applied
    <3>4. fine => Of(f, Usd(state.vault, a)) <= filled
      <4>1. Usd(state.vault, a) \in Nat
        BY <1>2, BookReads DEF VaultState, IsBook
      <4>2. Of(f, Usd(state.vault, a)) \in Nat /\ Book(NextIntent) = Of(f, Usd(state.vault, a))
        BY <3>1, <4>1, OfBelow DEF Book
      <4>3. fine => ~(filled < Book(NextIntent))
        BY <1>7, <1>9, <3>1
      <4>. QED
        BY <3>2, <4>2, <4>3
    <3>5. /\ Trails(rest[0], next)
          /\ Dominates(policy, books[0], state.vault) =>
                 (Of(f, Usd(state.vault, a)) <= filled => Dominates(policy, rest[0], next))
          /\ next.deployed = state.vault.deployed /\ next.equity = Equity
          /\ CapsHold(policy, state.vault) => CapsHold(policy, next)
      <4>1. Trails(books[0], state.vault)
        BY <1>6 DEF Covers
      <4>. QED
        BY <1>2, <1>3, <3>2, <3>3, <4>1, SaleCovered
    <3>6. Covers(policy, rest[0], next, fine)
      BY <1>6, <1>10, <3>4, <3>5 DEF Covers
    <3>. QED
      BY <1>2, <3>5, <3>6 DEF BudgetSound, Budget
  <2>. QED
    BY <2>1, <2>2
<1>12. next \in VaultState
  BY <1>11 DEF Covers, Trails
<1>13. /\ state' \in RunnerState /\ state'.vault = next /\ state'.highWater = state.highWater
       /\ state'.processed = state.processed \cup {NextIntent.id}
  BY <1>2, <1>3, <1>9, <1>12 DEF RunnerState
<1>14. /\ cycle' \in ActingTick /\ cycle'.step = "executing" /\ cycle'.at = cycle.at
       /\ cycle'.intents = Tail(cycle.intents)
  BY <1>3, <1>9 DEF ActingTick
<1>15. PooledTypeOK'
  <2>1. fills' \in [1..MaxTrades -> Nat]
    <3>1. fills \in [1..MaxTrades -> Nat]
      BY <1>2 DEF PooledTypeOK
    <3>. QED
      BY <1>3, <1>9, <3>1
  <2>. QED
    BY <1>2, <1>9, <1>10, <1>13, <1>14, <2>1 DEF PooledTypeOK
<1>16. Valued' /\ BudgetSound'
  BY <1>2, <1>9, <1>11, <1>13 DEF Valued, BudgetSound, Budget
<1>17. LimitsCompose'
  <2>1. fine => CapsHold(policy, next)
    BY <1>2, <1>10, <1>11, LimitsAreCaps
  <2>. QED
    BY <1>7, <1>9, <1>11, <1>13, <2>1 DEF LimitsCompose, CapsHold
<1>18. NextIntent.id \notin state.processed /\ Distinct(cycle'.intents, state'.processed)
  BY <1>2, <1>3, <1>13, <1>14, DistinctTail DEF Ahead, NextIntent
<1>19. Counted'
  <2>1. /\ fills \in [1..MaxTrades -> Nat]
        /\ \A i \in 1..MaxTrades : fills[i] <= 1 /\ (fills[i] # 0 => i \in state.processed)
    BY <1>2 DEF Counted, PooledTypeOK
  <2>2. ASSUME NEW i \in 1..MaxTrades
        PROVE  fills'[i] <= 1 /\ (fills'[i] # 0 => i \in state'.processed)
    <3>1. CASE i = NextIntent.id
      <4>1. fills[i] = 0
        BY <1>18, <2>1, <3>1
      <4>2. fills'[i] = 1
        BY <1>9, <2>1, <3>1, <4>1
      <4>. QED
        BY <1>13, <3>1, <4>2
    <3>2. CASE i # NextIntent.id
      <4>1. fills'[i] = fills[i]
        BY <1>9, <2>1, <3>2
      <4>. QED
        BY <1>13, <2>1, <4>1
    <3>. QED
      BY <3>1, <3>2
  <2>. QED
    BY <2>2 DEF Counted
<1>20. Ahead'
  <2>1. /\ Replay(policy', cycle'.at, rest, cycle'.intents)
        /\ Covers(policy', rest[0], state'.vault, ~short')
    BY <1>5, <1>7, <1>9, <1>11, <1>13, <1>14
  <2>. QED
    BY <1>18, <2>1 DEF Ahead
<1>. QED
  BY <1>15, <1>16, <1>17, <1>19, <1>20 DEF PooledInv

LEMMA ExecutedNotKeeps == PooledInv /\ LeaderTypeOK' /\ ExecutedNot => PooledInv'
<1> SUFFICES ASSUME PooledInv, LeaderTypeOK', ExecutedNot PROVE PooledInv'
  OBVIOUS
<1>1. HasIntent
  BY DEF ExecutedNot
<1>2. /\ PooledTypeOK /\ Valued /\ BudgetSound /\ LimitsCompose /\ Counted /\ Ahead
      /\ policy \in Policies /\ state \in RunnerState /\ short \in BOOLEAN
      /\ state.vault \in VaultState /\ state.vault.equity = Equity
  BY DEF PooledInv, PooledTypeOK, RunnerState, Valued
<1>3. /\ cycle \in ActingTick /\ cycle.intents \in Seq(MirrorIntent) /\ cycle.intents # <<>>
      /\ cycle.step = "executing" /\ cycle.at \in Nat
      /\ NextIntent \in MirrorIntent /\ Tail(cycle.intents) \in Seq(MirrorIntent)
  BY <1>1, NextIntentTyped
<1>4. PICK books : UnderWay(books)
  BY <1>2, <1>3 DEF Ahead, UnderWay
<1>5. PICK rest : /\ Replay(policy, cycle.at, rest, Tail(cycle.intents))
                  /\ Follows(policy, cycle.at, books[0], NextIntent, rest[0])
  BY <1>3, <1>4, ReplayTail DEF UnderWay, NextIntent
<1>6. Covers(policy, books[0], state.vault, ~short)
  BY <1>4 DEF UnderWay
<1>7. PICK fine \in BOOLEAN : fine = ~short'
  OBVIOUS
<1>8. /\ short' = (short \/ (NextIntent.kind = "sell" /\ NextIntent.asset \in Held(state.vault)))
      /\ cycle' = [cycle EXCEPT !.intents = Tail(cycle.intents), !.clean = FALSE]
      /\ UNCHANGED <<policy, state, fills, unknown, hidden, throws>>
  BY DEF ExecutedNot
<1>9. short' \in BOOLEAN /\ (fine => ~short)
  <2>1. short' \in BOOLEAN
    BY <1>8
  <2>. QED
    BY <1>2, <1>7, <1>8
<1>10. Covers(policy, rest[0], state.vault, fine)
  <2>1. CASE NextIntent.kind = "buy"
    <3>1. /\ NextIntent.asset \in Assets
          /\ rest[0] = Bought(books[0], NextIntent.asset, NextIntent.usd)
          /\ Fits(policy, books[0], NextIntent.asset, NextIntent.usd)
      <4>1. NextIntent.asset \in Assets
        BY <1>3 DEF MirrorIntent
      <4>. QED
        BY <1>5, <2>1, <4>1 DEF Follows, Applied
    <3>2. fine = ~short
      BY <1>2, <1>7, <1>8, <2>1
    <3>3. /\ Trails(rest[0], state.vault)
          /\ Dominates(policy, books[0], state.vault) => Dominates(policy, rest[0], state.vault)
      BY <1>2, <1>6, <3>1, BuyCovered DEF Covers
    <3>. QED
      BY <1>6, <3>2, <3>3 DEF Covers
  <2>2. CASE NextIntent.kind # "buy"
    <3>1. PICK a \in Assets, f \in Fraction :
              a = NextIntent.asset /\ f = NextIntent.fraction /\ NextIntent.kind = "sell"
      BY <1>3, <2>2 DEF MirrorIntent
    <3>2. rest[0] = applySell(books[0], a, f, cycle.at)
      BY <1>5, <2>2, <3>1 DEF Follows, Applied
    <3>3. fine => a \notin Held(state.vault)
      BY <1>7, <1>8, <3>1
    <3>4. /\ Trails(rest[0], state.vault)
          /\ Dominates(policy, books[0], state.vault) =>
                 (a \notin Held(state.vault) => Dominates(policy, rest[0], state.vault))
      <4>1. Trails(books[0], state.vault) /\ 0 \in Nat
        BY <1>6 DEF Covers
      <4>. QED
        BY <1>2, <1>3, <3>2, <4>1, SaleCovered
    <3>. QED
      BY <1>6, <1>9, <3>3, <3>4 DEF Covers
  <2>. QED
    BY <2>1, <2>2
<1>11. /\ cycle' \in ActingTick /\ cycle'.step = "executing" /\ cycle'.at = cycle.at
       /\ cycle'.intents = Tail(cycle.intents)
  BY <1>3, <1>8 DEF ActingTick
<1>12. PooledTypeOK'
  BY <1>2, <1>8, <1>9, <1>11 DEF PooledTypeOK
<1>13. Valued' /\ BudgetSound' /\ Counted'
  BY <1>2, <1>8 DEF Valued, BudgetSound, Counted
<1>14. LimitsCompose'
  <2>1. ~short' => ~short
    BY <1>8
  <2>2. state' = state /\ policy' = policy /\ LimitsCompose
    BY <1>2, <1>8
  <2>. QED
    BY <2>1, <2>2 DEF LimitsCompose
<1>15. Ahead'
  <2>1. Distinct(cycle'.intents, state'.processed)
    <3>1. Distinct(cycle.intents, state.processed)
      BY <1>2, <1>3 DEF Ahead
    <3>2. Distinct(Tail(cycle.intents), state.processed)
      BY <1>3, <3>1, DistinctTail
    <3>. QED
      BY <1>8, <1>11, <3>2
  <2>2. /\ Replay(policy', cycle'.at, rest, cycle'.intents)
        /\ Covers(policy', rest[0], state'.vault, ~short')
    BY <1>5, <1>7, <1>8, <1>10, <1>11
  <2>. QED
    BY <2>1, <2>2 DEF Ahead
<1>. QED
  BY <1>12, <1>13, <1>14, <1>15 DEF PooledInv

LEMMA OthersKeepPooled ==
    PooledInv /\ LeaderTypeOK' /\ UNCHANGED pooledVars => PooledInv'
  BY DEF pooledVars, PooledInv, PooledTypeOK, Valued, BudgetSound, LimitsCompose,
         Counted, Ahead

\* No step of the loop moves the leader.
LEMMA PooledLeavesLeader == PooledNext => UNCHANGED leaderVars
<1>1. StartTick \/ ReadTrades \/ ReadLeader \/ ExecutedNot \/ EndTick \/ Report => UNCHANGED leaderVars
  BY DEF StartTick, ReadTrades, ReadLeader, ExecutedNot, EndTick, Report
<1>2. Plan => UNCHANGED leaderVars
  BY DEF Plan
<1>3. ASSUME NEW filled \in Filled, ExecutedOk(filled) PROVE UNCHANGED leaderVars
  BY <1>3 DEF ExecutedOk
<1>4. ASSUME NEW landed \in BOOLEAN, ExecutionThrows(landed) PROVE UNCHANGED leaderVars
  BY <1>4 DEF ExecutionThrows
<1>. QED
  BY <1>1, <1>2, <1>3, <1>4 DEF PooledNext

LEMMA PooledKeeps ==
    PooledInv /\ [PooledNext \/ (LeaderNext /\ UNCHANGED pooledVars)]_<<leaderVars, pooledVars>>
        => PooledInv'
<1> SUFFICES ASSUME PooledInv,
                    [PooledNext \/ (LeaderNext /\ UNCHANGED pooledVars)]_<<leaderVars, pooledVars>>
             PROVE  PooledInv'
  OBVIOUS
<1>1. LeaderTypeOK'
  <2>1. PooledNext => UNCHANGED leaderVars
    BY PooledLeavesLeader
  <2>2. LeaderNext \/ UNCHANGED leaderVars
    BY <2>1
  <2>. QED
    BY <2>2, LeaderKeeps DEF PooledInv
<1>2. CASE StartTick
  BY <1>1, <1>2, StartTickKeeps
<1>3. CASE ReadTrades \/ ReadLeader
  BY <1>1, <1>3, ReadKeeps
<1>4. CASE Plan
  BY <1>1, <1>4, PlanKeeps
<1>5. ASSUME NEW filled \in Filled, ExecutedOk(filled) PROVE PooledInv'
  BY <1>1, <1>5, ExecutedOkKeeps
<1>6. CASE ExecutedNot
  BY <1>1, <1>6, ExecutedNotKeeps
<1>7. ASSUME NEW landed \in BOOLEAN, ExecutionThrows(landed) PROVE PooledInv'
  BY <1>1, <1>7, ThrowKeeps
<1>8. CASE EndTick \/ Report
  BY <1>1, <1>8, EndKeeps
<1>9. CASE UNCHANGED pooledVars
  BY <1>1, <1>9, OthersKeepPooled
<1>. QED
  BY <1>2, <1>3, <1>4, <1>5, <1>6, <1>7, <1>8, <1>9 DEF PooledNext

\* The pooled loop's state has the type its TypeScript interfaces declare.
THEOREM PooledTypeCorrect == PooledSpec => [](LeaderTypeOK /\ PooledTypeOK)
<1>1. PooledInv => LeaderTypeOK /\ PooledTypeOK
  BY DEF PooledInv
<1>. QED
  BY <1>1, PooledStarts, PooledKeeps, PTL DEF PooledSpec

\* Whatever a burst's intents do, one by one, a UTC day deploys no more than its
\* budget, and one budget more for each buy that landed before it threw
\* (engine.ts:38-45, sizing.ts:93-95, jupiter.ts:189).
THEOREM BudgetIsKept == PooledSpec => []DailyBudgetHolds
<1>1. PooledInv => DailyBudgetHolds
  <2>. SUFFICES ASSUME PooledInv PROVE DailyBudgetHolds
    OBVIOUS
  <2>1. PICK budget \in Nat : budget = pct(policy.dailyDeployPct, Equity)
    BY MirrorAssumption, PctNat, PolicyTypes DEF PooledInv, PooledTypeOK
  <2>2. PICK n \in Nat, sum \in Nat, counted \in Nat :
            n = hidden.buys /\ sum = hidden.usd /\ counted = state.vault.deployed
    BY DEF PooledInv, PooledTypeOK, RunnerState, VaultState
  <2>3. counted <= budget /\ sum <= n * budget
    BY <2>1, <2>2 DEF PooledInv, BudgetSound
  <2>4. counted + sum <= (1 + n) * budget
    BY <2>1, <2>2, <2>3
  <2>. QED
    BY <2>1, <2>2, <2>4 DEF DailyBudgetHolds
<1>. QED
  BY <1>1, PooledStarts, PooledKeeps, PTL DEF PooledSpec

\* As long as every exit filled at its book value or better, no refused or
\* thrown buy lets a later one of the burst past a cap, the position count or
\* the quote reserve (sizing.ts:60-100).
THEOREM CapsAreKept == PooledSpec => []LimitsCompose
<1>1. PooledInv => LimitsCompose
  BY DEF PooledInv
<1>. QED
  BY <1>1, PooledStarts, PooledKeeps, PTL DEF PooledSpec

\* A trade whose range is read again is not filled again (runner.ts:125-135).
THEOREM TradesFillOnce == PooledSpec => []FilledOnce
<1>1. PooledInv => FilledOnce
  BY DEF PooledInv, Counted, FilledOnce
<1>. QED
  BY <1>1, PooledStarts, PooledKeeps, PTL DEF PooledSpec

----------------------------------------------------------------------------
(* Keeping up with a leader who sells.  The provisional books of a plan end  *)
(* where PlanKeepsUp says, and while every intent fills the real book holds  *)
(* no more of anything than the provisional one does.                        *)

LEMMA KeepsUpBelow ==
    ASSUME NEW B \in Nat, NEW L \in Nat, B <= L, NEW A \in Nat, NEW h \in Nat, NEW sold \in Nat,
           NEW slack \in Nat, KeepsUp(L, A, h, sold, slack)
    PROVE  KeepsUp(B, A, h, sold, slack)
<1>1. PICK w \in Nat, z \in Nat, d \in Nat : w = h + sold /\ z = A * h /\ L = B + d
  <2>1. L - B \in Nat /\ L = B + (L - B)
    OBVIOUS
  <2>. QED
    BY <2>1
<1>2. (L - slack) * w <= z
  BY <1>1 DEF KeepsUp
<1>3. (L - slack) * w = (B - slack) * w + d * w /\ d * w \in Nat /\ (B - slack) * w \in Int
  BY <1>1
<1>4. (B - slack) * w <= z
  BY <1>1, <1>2, <1>3
<1>. QED
  BY <1>1, <1>4 DEF KeepsUp

LEMMA SoldNat ==
    ASSUME NEW trades \in Seq(LeaderTrade), NEW a \in Assets
    PROVE  SumFunction(SoldOf(trades, a)) \in Nat
<1>1. DOMAIN SoldOf(trades, a) = 1..Len(trades) /\ IsFiniteSet(1..Len(trades))
  BY FS_Interval DEF SoldOf
<1>2. \A i \in 1..Len(trades) : SoldOf(trades, a)[i] \in Nat
  <2>1. SUFFICES ASSUME NEW i \in 1..Len(trades) PROVE SoldOf(trades, a)[i] \in Nat
    OBVIOUS
  <2>2. trades[i].amount \in Nat
    <3>1. trades[i] \in LeaderTrade
      OBVIOUS
    <3>. QED
      BY <3>1 DEF LeaderTrade
  <2>3. SoldOf(trades, a)[i] = AmountOf(trades[i], a)
    BY DEF SoldOf
  <2>. QED
    BY <2>2, <2>3 DEF AmountOf
<1>. QED
  BY <1>1, <1>2, SumNat DEF SumFunction

LEMMA AmountNat ==
    ASSUME NEW v \in VaultState, NEW a \in Assets
    PROVE  Amount(v, a) \in Nat
<1>1. IsBook(v.pos)
  BY DEF VaultState, IsBook
<1>. QED
  BY <1>1, BookReads

\* A fill moves the amounts of the real book as the plan moved the provisional.
LEMMA FillAmounts ==
    ASSUME NEW b \in VaultState, NEW v \in VaultState, NEW w \in VaultState,
           NEW x \in MirrorIntent, NEW filled \in Nat, NEW at \in Nat,
           x.kind = "buy" => filled = x.usd,
           w = applyFill(v, x, filled, at),
           \A a \in Assets : Amount(v, a) <= Amount(b, a)
    PROVE  \A a \in Assets : Amount(w, a) <= Amount(Applied(b, x, at), a)
<1>1. CASE x.kind = "buy"
  <2>1. PICK c \in Assets, usd \in Nat : c = x.asset /\ usd = x.usd /\ filled = usd
    BY <1>1 DEF MirrorIntent
  <2>2. w = Bought(v, c, usd) /\ Applied(b, x, at) = Bought(b, c, usd)
    BY <1>1, <2>1 DEF applyFill, Applied
  <2>3. /\ Amount(w, c) = Amount(v, c) + usd
        /\ \A a \in Assets : a # c => Amount(w, a) = Amount(v, a)
    BY <2>2, BoughtAmounts
  <2>4. /\ Amount(Applied(b, x, at), c) = Amount(b, c) + usd
        /\ \A a \in Assets : a # c => Amount(Applied(b, x, at), a) = Amount(b, a)
    BY <2>2, BoughtAmounts
  <2>5. Amount(v, c) \in Nat /\ Amount(b, c) \in Nat
    BY AmountNat
  <2>. QED
    BY <2>3, <2>4, <2>5
<1>2. CASE x.kind # "buy"
  <2>1. PICK c \in Assets, f \in Fraction : c = x.asset /\ f = x.fraction
    BY <1>2 DEF MirrorIntent
  <2>2. w = SoldFor(v, c, f, filled, at) /\ Applied(b, x, at) = applySell(b, c, f, at)
    BY <1>2, <2>1 DEF applyFill, SoldFor, Applied
  <2>3. /\ Amount(w, c) = Amount(v, c) - Of(f, Amount(v, c))
        /\ \A a \in Assets : a # c => Amount(w, a) = Amount(v, a)
    BY <2>2, SaleAmounts
  <2>4. /\ Amount(Applied(b, x, at), c) = Amount(b, c) - Of(f, Amount(b, c))
        /\ \A a \in Assets : a # c => Amount(Applied(b, x, at), a) = Amount(b, a)
    BY <2>2, PlannedAmounts
  <2>5. Amount(v, c) \in Nat /\ Amount(b, c) \in Nat /\ Amount(v, c) <= Amount(b, c)
    BY AmountNat
  <2>6. Amount(v, c) - Of(f, Amount(v, c)) <= Amount(b, c) - Of(f, Amount(b, c))
    BY <2>5, OfMono
  <2>. QED
    BY <2>3, <2>4, <2>6
<1>. QED
  BY <1>1, <1>2

\* What the tick owes an asset its batch only sells.
Level(left, a) ==
    KeepsUp(left, Amount(cycle.before.vault, a), cycle.book.hold[a],
            SumFunction(SoldOf(cycle.trades, a)), Len(cycle.trades))
OnlySold(a) == SellsOnly(cycle.trades, a, cycle.before.processed)

Closing(books) ==
    /\ Replay(policy, cycle.at, books, cycle.intents)
    /\ \A a \in Assets : Amount(state.vault, a) <= Amount(books[0], a)
    /\ ~policy.paused =>
          \A a \in Assets : OnlySold(a) => Level(Amount(books[Len(cycle.intents)], a), a)

Catching ==
    cycle.step = "executing" /\ cycle.clean => \E books : Closing(books)

Caught ==
    cycle.step = "report" /\ cycle.clean /\ ~policy.paused =>
        \A a \in Assets : OnlySold(a) => Level(Amount(state.vault, a), a)

\* The tape numbers its trades, so no two of a batch are one.
Numbered == \A i \in 1..Len(tape) : tape[i].id = i
BatchDistinct ==
    cycle.step = "reading" /\ cycle.trades # NotRead => DistinctIds(cycle.trades)

CatchInv == PooledInv /\ Numbered /\ BatchDistinct /\ Catching /\ Caught

LEMMA LeaderNumbers ==
    LeaderTypeOK /\ Numbered /\ (LeaderNext \/ UNCHANGED leaderVars) => Numbered'
<1> SUFFICES ASSUME LeaderTypeOK, Numbered, LeaderNext \/ UNCHANGED leaderVars PROVE Numbered'
  OBVIOUS
<1>1. tape \in Seq(LeaderTrade)
  BY DEF LeaderTypeOK
<1>2. CASE tape' = tape
  BY <1>2 DEF Numbered
<1>3. ASSUME NEW t, tape' = Append(tape, t), t.id = Len(tape) + 1 PROVE Numbered'
  <2>1. Len(tape) \in Nat /\ Len(tape') = Len(tape) + 1
    BY <1>1, <1>3
  <2>2. \A i \in 1..Len(tape) : tape'[i] = tape[i]
    BY <1>1, <1>3
  <2>3. tape'[Len(tape) + 1] = t
    BY <1>1, <1>3
  <2>4. \A i \in 1..Len(tape') : i \in 1..Len(tape) \/ i = Len(tape) + 1
    BY <2>1
  <2>. QED
    BY <1>3, <2>2, <2>3, <2>4 DEF Numbered
<1>4. ASSUME NEW side, NEW a, NEW amount, NEW usd, NEW hold, Traded(side, a, amount, usd, hold)
      PROVE  Numbered'
  <2> DEFINE t == [id |-> Len(tape) + 1, side |-> side, asset |-> a,
                   amount |-> amount, usd |-> usd, ts |-> now]
  <2>1. tape' = Append(tape, t) /\ t.id = Len(tape) + 1
    BY <1>4 DEF Traded
  <2> HIDE DEF t
  <2>. QED
    BY <1>3, <2>1
<1>5. CASE LeaderNext
  <2>1. CASE LeaderCollapses \/ Clock
    BY <1>2, <2>1 DEF LeaderCollapses, Clock
  <2>2. CASE \E a \in Assets : \/ \E usd \in BuyUsd : LeaderBuys(a, usd)
                               \/ \E n \in 1..MaxTrades : LeaderSells(a, n)
    BY <1>4, <2>2 DEF LeaderBuys, LeaderSells
  <2>. QED
    BY <1>5, <2>1, <2>2 DEF LeaderNext
<1>6. CASE UNCHANGED leaderVars
  BY <1>2, <1>6 DEF leaderVars
<1>. QED
  BY <1>5, <1>6

LEMMA PollDistinct ==
    ASSUME LeaderTypeOK, Numbered, NEW cursor \in Nat
    PROVE  DistinctIds(poll(cursor).trades)
<1>1. tape \in Seq(LeaderTrade) /\ PollLimit \in Nat /\ Len(tape) \in Nat
  BY MirrorAssumption DEF LeaderTypeOK
<1> DEFINE from == IF Len(tape) - PollLimit > cursor THEN Len(tape) - PollLimit ELSE cursor
           batch == SubSeq(tape, from + 1, Len(tape))
<1>2. from \in Nat
  BY <1>1
<1>3. poll(cursor).trades = batch
  BY DEF poll
<1> HIDE DEF from
<1>4. \A i \in (from + 1)..Len(tape) : tape[i] \in LeaderTrade
  <2>1. \A i \in (from + 1)..Len(tape) : i \in 1..Len(tape)
    BY <1>1, <1>2
  <2>. QED
    BY <1>1, <2>1
<1>5. /\ Len(batch) = IF from + 1 <= Len(tape) THEN Len(tape) - (from + 1) + 1 ELSE 0
      /\ \A i \in 1..Len(batch) : batch[i] = tape[(from + 1) + i - 1]
  <2>1. from + 1 \in Int /\ Len(tape) \in Int
    BY <1>1, <1>2
  <2>. QED
    BY <1>4, <2>1, SubSeqProperties
<1> HIDE DEF batch
<1>6. \A i \in 1..Len(batch) : batch[i].id = from + i
  <2>1. SUFFICES ASSUME NEW i \in 1..Len(batch) PROVE batch[i].id = from + i
    OBVIOUS
  <2>2. (from + 1) + i - 1 = from + i /\ from + i \in 1..Len(tape)
    BY <1>1, <1>2, <1>5
  <2>. QED
    BY <1>5, <2>2 DEF Numbered
<1>7. \A i, j \in 1..Len(batch) : i # j => from + i # from + j
  BY <1>2
<1>. QED
  BY <1>3, <1>6, <1>7 DEF DistinctIds

LEMMA CatchStarts == LeaderInit /\ PooledInit => CatchInv
<1> SUFFICES ASSUME LeaderInit, PooledInit PROVE CatchInv
  OBVIOUS
<1>1. tape = <<>> /\ cycle = Idle
  BY DEF LeaderInit, PooledInit
<1>2. Numbered
  BY <1>1 DEF Numbered
<1>. QED
  BY <1>1, <1>2, PooledStarts DEF CatchInv, BatchDistinct, Catching, Caught, Idle

\* A tick that is not executing has nothing to catch up with.
LEMMA ReadCatches ==
    ASSUME CatchInv, PooledInv', Numbered',
           StartTick \/ ReadTrades \/ ReadLeader \/ Report \/ UNCHANGED pooledVars
           \/ \E landed \in BOOLEAN : ExecutionThrows(landed)
    PROVE  CatchInv'
<1>1. CASE StartTick
  <2>1. cycle'.step = "reading" /\ cycle'.trades = NotRead
    BY <1>1 DEF StartTick
  <2>. QED
    BY <2>1 DEF CatchInv, BatchDistinct, Catching, Caught
<1>2. CASE ReadTrades
  <2>1. state.cursor \in Nat /\ LeaderTypeOK /\ Numbered /\ cycle \in ReadingTick
    <3>1. PooledTypeOK /\ LeaderTypeOK /\ Numbered /\ cycle.step = "reading"
      BY <1>2 DEF CatchInv, PooledInv, ReadTrades
    <3>. QED
      BY <3>1, TickShape DEF PooledTypeOK, RunnerState
  <2>2. PICK trades, cursor, late : /\ trades = poll(state.cursor).trades
                                    /\ cursor = poll(state.cursor).cursor
                                    /\ late = (cycle.book = NotRead)
    OBVIOUS
  <2>3. cycle' = [cycle EXCEPT !.trades = trades, !.cursor = cursor, !.late = late]
    BY <1>2, <2>2 DEF ReadTrades
  <2>4. cycle'.step = "reading" /\ cycle'.trades = trades
    BY <2>1, <2>3 DEF ReadingTick
  <2>5. DistinctIds(trades)
    BY <2>1, <2>2, PollDistinct
  <2>. QED
    BY <2>4, <2>5 DEF CatchInv, BatchDistinct, Catching, Caught
<1>3. CASE ReadLeader
  <2>1. cycle \in ReadingTick
    <3>1. PooledTypeOK /\ cycle.step = "reading"
      BY <1>3 DEF CatchInv, PooledInv, ReadLeader
    <3>. QED
      BY <3>1, TickShape
  <2>2. cycle' = [cycle EXCEPT !.book = leader]
    BY <1>3 DEF ReadLeader
  <2>3. cycle'.step = "reading" /\ cycle'.trades = cycle.trades /\ cycle.step = "reading"
    BY <2>1, <2>2 DEF ReadingTick
  <2>. QED
    BY <2>3 DEF CatchInv, BatchDistinct, Catching, Caught
<1>4. CASE Report \/ \E landed \in BOOLEAN : ExecutionThrows(landed)
  <2>1. cycle' = Idle
    BY <1>4 DEF Report, ExecutionThrows
  <2>. QED
    BY <2>1 DEF CatchInv, BatchDistinct, Catching, Caught, Idle
<1>5. CASE UNCHANGED pooledVars
  <2>1. cycle' = cycle /\ state' = state /\ policy' = policy
    BY <1>5 DEF pooledVars
  <2>. QED
    BY <2>1 DEF CatchInv, BatchDistinct, Catching, Caught, Closing, OnlySold, Level
<1>. QED
  BY <1>1, <1>2, <1>3, <1>4, <1>5

LEMMA PlanCatches ==
    ASSUME CatchInv, PooledInv', Numbered', Plan
    PROVE  CatchInv'
<1>1. PooledInv /\ cycle.step = "reading" /\ cycle.trades # NotRead /\ DistinctIds(cycle.trades)
  BY DEF CatchInv, BatchDistinct, Plan
<1>2. PICK marked, markets : Made(marked, markets)
  BY <1>1, PlanMade
<1>3. PICK intents : intents = PlannedFor(marked, markets)
  OBVIOUS
<1>4. cycle' = Planned(marked, intents) /\ state' = marked /\ policy' = policy
  BY <1>2, <1>3 DEF Made
<1>5. /\ cycle'.step = "executing" /\ cycle'.at = cycle.at /\ cycle'.trades = cycle.trades
      /\ cycle'.book = cycle.book /\ cycle'.before = marked /\ cycle'.intents = intents
  BY <1>4 DEF Planned
<1>6. /\ Plannable(policy, cycle.trades, cycle.book, marked.vault, markets, marked.processed, cycle.at)
      /\ checkBreakers(policy, marked.vault, Marks(marked), cycle.book) # "max-drawdown"
      /\ marked.vault \in VaultState
  BY <1>2 DEF Made
<1>7. \A a \in Assets : Amount(marked.vault, a) <= Amount(marked.vault, a)
  BY <1>6, AmountNat
<1>8. CASE policy.paused
  <2>1. PICK books : Replay(policy, cycle.at, books, intents) /\ books[0] = marked.vault
    BY <1>3, <1>6, PlanReplays DEF PlannedFor
  <2>2. Closing(books)'
    BY <1>4, <1>5, <1>7, <1>8, <2>1 DEF Closing
  <2>. QED
    BY <1>5, <2>2 DEF CatchInv, BatchDistinct, Catching, Caught
<1>9. CASE ~policy.paused
  <2> DEFINE N == Len(cycle.trades)
  <2>1. cycle.trades \in Seq(LeaderTrade) /\ N \in Nat
    BY <1>6 DEF Plannable
  <2>2. PICK planned : Unfolds(planned, policy, cycle.trades, cycle.book, marked.vault, markets,
                               marked.processed, Marks(marked), cycle.at)
    BY <1>6, <2>1, PlanUnfolds
  <2>3. intents = planned[N].intents
    <3>1. checkBreakers(policy, marked.vault, Marks(marked), cycle.book) # "paused"
      BY <1>9 DEF checkBreakers
    <3>. QED
      BY <1>3, <2>2, <3>1 DEF Unfolds, PlannedFor
  <2>4. Carried(policy, cycle.at, marked.vault, marked.processed, planned[N])
    BY <1>6, <2>1, <2>2, PlanCarries
  <2>5. PICK books : /\ Replay(policy, cycle.at, books, intents)
                     /\ books[0] = marked.vault /\ books[Len(intents)] = planned[N].vault
    BY <2>3, <2>4 DEF Carried
  <2>6. ASSUME NEW a \in Assets, SellsOnly(cycle.trades, a, marked.processed)
        PROVE  KeepsUp(Amount(books[Len(intents)], a), Amount(marked.vault, a),
                       cycle.book.hold[a], SumFunction(SoldOf(cycle.trades, a)), N)
    <3>1. KeepsUp(Amount(planned[N].vault, a), Amount(marked.vault, a), cycle.book.hold[a],
                  SumFunction(SoldOf(cycle.trades, a)), N)
      BY <1>1, <1>6, <2>2, <2>6, PlanKeepsUp
    <3>. QED
      BY <2>5, <3>1
  <2>7. Closing(books)'
    BY <1>4, <1>5, <1>7, <2>5, <2>6 DEF Closing, OnlySold, Level
  <2>. QED
    BY <1>5, <2>7 DEF CatchInv, BatchDistinct, Catching, Caught
<1>. QED
  BY <1>8, <1>9

LEMMA FillCatches ==
    ASSUME CatchInv, PooledInv', Numbered', NEW filled \in Filled, ExecutedOk(filled)
    PROVE  CatchInv'
<1>1. PooledInv /\ HasIntent
  BY DEF CatchInv, Filled
<1>2. /\ cycle \in ActingTick /\ cycle.intents \in Seq(MirrorIntent) /\ cycle.intents # <<>>
      /\ cycle.step = "executing" /\ cycle.at \in Nat /\ NextIntent \in MirrorIntent
  BY <1>1, NextIntentTyped
<1>3. PICK processed, next : /\ processed = state.processed \cup {NextIntent.id}
                             /\ next = applyFill(state.vault, NextIntent, filled, cycle.at)
  OBVIOUS
<1>4. /\ state' = [state EXCEPT !.processed = processed, !.vault = next]
      /\ cycle' = [cycle EXCEPT !.intents = Tail(cycle.intents)] /\ policy' = policy
  BY <1>3 DEF ExecutedOk
<1>5. state \in RunnerState /\ state' \in RunnerState
  BY <1>1 DEF PooledInv, PooledTypeOK
<1>6. state'.vault = next /\ next \in VaultState /\ state.vault \in VaultState
  BY <1>4, <1>5 DEF RunnerState
<1>7. /\ cycle'.step = "executing" /\ cycle'.at = cycle.at /\ cycle'.trades = cycle.trades
      /\ cycle'.book = cycle.book /\ cycle'.before = cycle.before /\ cycle'.clean = cycle.clean
      /\ cycle'.intents = Tail(cycle.intents)
  BY <1>2, <1>4 DEF ActingTick
<1>8. SUFFICES ASSUME cycle.clean PROVE \E books : Closing(books)'
  BY <1>7 DEF CatchInv, BatchDistinct, Catching, Caught
<1>9. PICK books : Closing(books)
  BY <1>2, <1>8 DEF CatchInv, Catching
<1>10. PICK rest : /\ Replay(policy, cycle.at, rest, Tail(cycle.intents))
                   /\ Follows(policy, cycle.at, books[0], NextIntent, rest[0])
                   /\ rest[Len(Tail(cycle.intents))] = books[Len(cycle.intents)]
                   /\ books[0] \in VaultState
  BY <1>2, <1>9, ReplayTail DEF Closing, NextIntent
<1>11. filled \in Nat /\ (NextIntent.kind = "buy" => filled = NextIntent.usd)
  <2>1. CASE NextIntent.kind = "buy"
    <3>1. filled = NextIntent.usd
      BY <1>1, <2>1 DEF Filled
    <3>. QED
      BY <1>2, <2>1, <3>1 DEF MirrorIntent
  <2>2. CASE NextIntent.kind # "buy"
    <3>1. PICK a \in Assets, f \in Fraction : a = NextIntent.asset /\ f = NextIntent.fraction
      BY <1>2, <2>2 DEF MirrorIntent
    <3>2. PICK p \in FillPcts : filled = pct(p, Book(NextIntent))
      BY <2>2 DEF Filled
    <3>3. p \in Nat
      BY PooledAssumption
    <3>4. Usd(state.vault, a) \in Nat
      BY <1>6, BookReads DEF VaultState, IsBook
    <3>5. Book(NextIntent) \in Nat
      BY <3>1, <3>4, OfBelow DEF Book
    <3>. QED
      BY <2>2, <3>2, <3>3, <3>5, PctNat
  <2>. QED
    BY <2>1, <2>2
<1>12. \A a \in Assets : Amount(next, a) <= Amount(rest[0], a)
  <2>1. \A a \in Assets : Amount(state.vault, a) <= Amount(books[0], a)
    BY <1>9 DEF Closing
  <2>2. rest[0] = Applied(books[0], NextIntent, cycle.at)
    BY <1>10 DEF Follows
  <2>3. \A a \in Assets : Amount(next, a) <= Amount(Applied(books[0], NextIntent, cycle.at), a)
    BY <1>2, <1>3, <1>6, <1>10, <1>11, <2>1, FillAmounts
  <2>. QED
    BY <2>2, <2>3
<1>13. ~policy.paused =>
           \A a \in Assets : OnlySold(a) => Level(Amount(books[Len(cycle.intents)], a), a)
  BY <1>9 DEF Closing
<1>14. Closing(rest)'
  BY <1>4, <1>6, <1>7, <1>10, <1>12, <1>13 DEF Closing, OnlySold, Level
<1>. QED
  BY <1>14

LEMMA MissCatches ==
    ASSUME CatchInv, PooledInv', Numbered', ExecutedNot
    PROVE  CatchInv'
<1>1. cycle \in ActingTick
  <2>1. PooledInv /\ HasIntent
    BY DEF CatchInv, ExecutedNot
  <2>. QED
    BY <2>1, NextIntentTyped
<1>2. cycle' = [cycle EXCEPT !.intents = Tail(cycle.intents), !.clean = FALSE]
  BY DEF ExecutedNot
<1>3. cycle'.step = cycle.step /\ ~cycle'.clean /\ cycle.step = "executing"
  BY <1>1, <1>2 DEF ActingTick, ExecutedNot, HasIntent
<1>. QED
  BY <1>3 DEF CatchInv, BatchDistinct, Catching, Caught

LEMMA EndCatches ==
    ASSUME CatchInv, PooledInv', Numbered', EndTick
    PROVE  CatchInv'
<1>1. PooledInv /\ cycle.step = "executing" /\ cycle.intents = <<>>
  BY DEF CatchInv, EndTick
<1>2. cycle \in ActingTick /\ state \in RunnerState
  <2>1. PooledTypeOK
    BY <1>1 DEF PooledInv
  <2>. QED
    BY <1>1, <2>1, TickShape DEF PooledTypeOK
<1>3. state' = [state EXCEPT !.cursor = cycle.cursor] /\ cycle' = [cycle EXCEPT !.step = "report"]
      /\ policy' = policy
  BY DEF EndTick, histories
<1>4. state'.vault = state.vault /\ state.vault \in VaultState
  BY <1>2, <1>3 DEF RunnerState
<1>5. /\ cycle'.step = "report" /\ cycle'.trades = cycle.trades /\ cycle'.book = cycle.book
      /\ cycle'.before = cycle.before /\ cycle'.clean = cycle.clean
  BY <1>2, <1>3 DEF ActingTick
<1>6. /\ cycle.trades \in Seq(LeaderTrade) /\ cycle.before.vault \in VaultState
      /\ cycle.book \in LeaderBook
  BY <1>2 DEF ActingTick, RunnerState
<1>7. ASSUME cycle.clean, ~policy.paused, NEW a \in Assets, OnlySold(a)
      PROVE  Level(Amount(state.vault, a), a)
  <2>1. PICK books : Closing(books)
    BY <1>1, <1>7 DEF CatchInv, Catching
  <2>2. Len(cycle.intents) = 0
    BY <1>1
  <2>3. Level(Amount(books[0], a), a) /\ Amount(state.vault, a) <= Amount(books[0], a)
    BY <1>7, <2>1, <2>2 DEF Closing
  <2>4. books[0] \in VaultState
    BY <2>1, <2>2 DEF Closing, Replay
  <2>5. /\ Amount(state.vault, a) \in Nat /\ Amount(books[0], a) \in Nat
        /\ Amount(cycle.before.vault, a) \in Nat
    BY <1>4, <1>6, <2>4, AmountNat
  <2>6. cycle.book.hold[a] \in Nat /\ SumFunction(SoldOf(cycle.trades, a)) \in Nat
        /\ Len(cycle.trades) \in Nat
    BY <1>6, SoldNat DEF LeaderBook
  <2>. QED
    BY <2>3, <2>5, <2>6, KeepsUpBelow DEF Level
<1>8. Caught'
  BY <1>3, <1>4, <1>5, <1>7 DEF Caught, OnlySold, Level
<1>. QED
  BY <1>5, <1>8 DEF CatchInv, BatchDistinct, Catching

LEMMA CatchKeeps ==
    CatchInv /\ [PooledNext \/ (LeaderNext /\ UNCHANGED pooledVars)]_<<leaderVars, pooledVars>>
        => CatchInv'
<1> SUFFICES ASSUME CatchInv,
                    [PooledNext \/ (LeaderNext /\ UNCHANGED pooledVars)]_<<leaderVars, pooledVars>>
             PROVE  CatchInv'
  OBVIOUS
<1>1. PooledInv'
  BY PooledKeeps DEF CatchInv
<1>2. Numbered'
  <2>1. PooledNext => UNCHANGED leaderVars
    BY PooledLeavesLeader
  <2>2. LeaderNext \/ UNCHANGED leaderVars
    BY <2>1
  <2>. QED
    BY <2>2, LeaderNumbers DEF CatchInv, PooledInv
<1>3. CASE StartTick \/ ReadTrades \/ ReadLeader \/ Report \/ UNCHANGED pooledVars
           \/ \E landed \in BOOLEAN : ExecutionThrows(landed)
  BY <1>1, <1>2, <1>3, ReadCatches
<1>4. CASE Plan
  BY <1>1, <1>2, <1>4, PlanCatches
<1>5. ASSUME NEW filled \in Filled, ExecutedOk(filled) PROVE CatchInv'
  BY <1>1, <1>2, <1>5, FillCatches
<1>6. CASE ExecutedNot
  BY <1>1, <1>2, <1>6, MissCatches
<1>7. CASE EndTick
  BY <1>1, <1>2, <1>7, EndCatches
<1>. QED
  BY <1>3, <1>4, <1>5, <1>6, <1>7 DEF PooledNext

\* A tick whose intents all filled leaves the vault with no larger part of an
\* asset its batch only sold than the leader kept, a token a trade aside,
\* whatever was bought and sold beside it (sizing.ts:112-120,
\* guardrails.ts:91-94).
THEOREM NeverBehind == PooledSpec => []NeverLagsTheLeader
<1>1. CatchInv => NeverLagsTheLeader
  <2> SUFFICES ASSUME CatchInv, cycle.step = "report", cycle.clean, ~policy.paused,
                      NEW a \in Held(cycle.before.vault), SoldOnly(a)
               PROVE  (Amount(state.vault, a) - Len(cycle.trades)) * (cycle.book.hold[a] + LeaderSold(a))
                          <= Amount(cycle.before.vault, a) * cycle.book.hold[a]
    BY DEF NeverLagsTheLeader
  <2>1. cycle.trades \in Seq(LeaderTrade) /\ a \in Assets
    <3>1. PooledTypeOK
      BY DEF CatchInv, PooledInv
    <3>. QED
      BY <3>1, TickShape DEF ActingTick, Held
  <2>2. OnlySold(a)
    <3>1. DOMAIN cycle.trades = 1..Len(cycle.trades)
      BY <2>1
    <3>. QED
      BY <3>1 DEF SoldOnly, OnlySold, SellsOnly
  <2>3. LeaderSold(a) = SumFunction(SoldOf(cycle.trades, a))
    BY DEF LeaderSold, SoldOf
  <2>4. Level(Amount(state.vault, a), a)
    BY <2>1, <2>2 DEF CatchInv, Caught
  <2>. QED
    BY <2>3, <2>4 DEF Level, KeepsUp
<1>. QED
  BY <1>1, CatchStarts, CatchKeeps, PTL DEF PooledSpec

----------------------------------------------------------------------------
(* A follower's wallet *)

\* One day's budget, at most: the equity a percentage is taken of is the
\* wallet's, which never exceeds what it started with.
DayBudget == pct(terms.dailyDeployPct, Equity)

Solvent == Total(wallet) <= Equity

\* Outside a plan, a day has spent what is remembered, or a budget more for
\* each cycle that threw.
Remembered ==
    /\ memory.deployed <= DayBudget
    /\ round.step # "executing" => spent <= memory.deployed + lost * DayBudget

\* Within one, what is spent is what is remembered and what the cycle adds,
\* and the provisional book has counted both.
Foreseen ==
    round.step = "executing" =>
        /\ spent <= memory.deployed + round.deployed + lost * DayBudget
        /\ memory.deployed + round.deployed <= DayBudget
        /\ \E books : /\ Replay(terms, round.at, books, round.intents)
                      /\ books[0].equity <= Equity
                      /\ memory.deployed + round.deployed <= books[0].deployed

FollowInv == LeaderTypeOK /\ FollowTypeOK /\ Solvent /\ Remembered /\ Foreseen

LEMMA BudgetNat ==
    ASSUME FollowTypeOK
    PROVE  DayBudget \in Nat /\ lost \in Nat /\ spent \in Nat /\ memory.deployed \in Nat
           /\ lost * DayBudget \in Nat
<1>1. terms \in Policies /\ Equity \in Nat /\ lost \in 0..MaxLost /\ MaxLost \in Nat
  BY MirrorAssumption, FollowWalletAssumption DEF FollowTypeOK
<1>2. DayBudget \in Nat
  BY <1>1, PctNat, PolicyTypes DEF DayBudget
<1>3. lost \in Nat
  BY <1>1
<1>4. lost * DayBudget \in Nat
  BY <1>2, <1>3
<1>. QED
  BY <1>2, <1>3, <1>4 DEF FollowTypeOK, FollowMemory

\* A wallet changed at one asset.
LEMMA WalletChange ==
    ASSUME NEW v \in WalletBook, NEW q \in Nat, NEW a \in Assets, NEW x \in Position \cup {NoPos},
           NEW w, w = [quote |-> q, pos |-> [v.pos EXCEPT ![a] = x]]
    PROVE  /\ w \in WalletBook
           /\ Positions(v) \in Nat /\ Usd(v, a) \in Nat
           /\ x = NoPos => Total(w) = q + Positions(v) - Usd(v, a)
           /\ x \in Position => Total(w) = q + Positions(v) + x.usd - Usd(v, a)
<1>1. IsBook(v.pos)
  BY DEF WalletBook, IsBook
<1>2. w \in WalletBook /\ w.quote = q /\ w.pos = [v.pos EXCEPT ![a] = x] /\ IsBook(w.pos)
  BY <1>1 DEF WalletBook, IsBook
<1>3. Changed(v, w, a, x)
  BY <1>1, <1>2 DEF Changed, IsBook
<1>4. Positions(w) = Positions(v) + (Usd(w, a) - Usd(v, a)) /\ Positions(v) \in Nat
  BY <1>1, <1>3, PositionsChange, PositionsNat
<1>5. Usd(v, a) \in Nat /\ Usd(w, a) \in Nat
  BY <1>1, <1>2, BookReads
<1>6. x = NoPos => Total(w) = q + Positions(v) - Usd(v, a)
  BY <1>2, <1>3, <1>4, <1>5, ChangedReads DEF Total
<1>7. x \in Position => Total(w) = q + Positions(v) + x.usd - Usd(v, a)
  BY <1>2, <1>3, <1>4, <1>5, ChangedReads DEF Total, Position
<1>. QED
  BY <1>2, <1>4, <1>5, <1>6, <1>7

LEMMA RoundShape ==
    ASSUME FollowTypeOK
    PROVE  /\ round.step = "reading" => round \in ReadingRound
           /\ round.step \in {"executing", "report"} => round \in ActingRound
<1>1. round \in {Waiting} \cup ReadingRound \cup ActingRound
  BY DEF FollowTypeOK
<1>2. CASE round = Waiting
  BY <1>2 DEF Waiting
<1>3. CASE round \in ReadingRound
  BY <1>3 DEF ReadingRound
<1>4. CASE round \in ActingRound
  BY <1>4 DEF ActingRound
<1>. QED
  BY <1>1, <1>2, <1>3, <1>4

LEMMA FollowStarts == LeaderInit /\ FollowInit => FollowInv
<1> SUFFICES ASSUME LeaderInit, FollowInit PROVE FollowInv
  OBVIOUS
<1>1. /\ terms \in Policies /\ sub = [cursor |-> 0, processed |-> {}, day |-> 0]
      /\ memory = [deployed |-> 0, lastExit |-> [a \in Assets |-> NoExit]]
      /\ wallet = [quote |-> Equity, pos |-> [a \in Assets |-> NoPos]]
      /\ round = Waiting /\ spent = 0 /\ lost = 0 /\ hand = 0
  BY DEF FollowInit, emptyMemory
<1>2. Equity \in Nat /\ 0 \in 0..MaxLost /\ 0 \in 0..MaxHand
  BY MirrorAssumption, FollowWalletAssumption
<1>3. /\ sub \in Subscriber /\ memory \in FollowMemory /\ memory.deployed = 0
      /\ wallet \in WalletBook /\ wallet.quote = Equity
      /\ \A a \in Assets : wallet.pos[a] = NoPos
  BY <1>1, <1>2 DEF Subscriber, FollowMemory, WalletBook
<1>4. FollowTypeOK
  BY <1>1, <1>2, <1>3 DEF FollowTypeOK
<1>5. Solvent
  <2>1. \A a \in Assets : Usd(wallet, a) = 0
    BY <1>3 DEF Usd, Held
  <2> DEFINE u == [a \in Assets |-> Usd(wallet, a)]
  <2>2. \A a \in Assets : u[a] = 0
    BY <2>1
  <2>3. SumFunctionOnSet(u, Assets) = 0
    <3> HIDE DEF u
    <3>. QED
      BY <2>2, MirrorAssumption, SumZero
  <2>. QED
    BY <1>2, <1>3, <2>3 DEF Solvent, Total, Positions
<1>6. Remembered
  <2>1. DayBudget \in Nat /\ lost * DayBudget \in Nat
    BY <1>4, BudgetNat
  <2>. QED
    BY <1>1, <1>3, <2>1 DEF Remembered
<1>7. Foreseen
  BY <1>1 DEF Foreseen, Waiting
<1>. QED
  BY <1>4, <1>5, <1>6, <1>7, LeaderStarts DEF FollowInv

\* A step outside a plan that leaves the remembered and the spent alone.
LEMMA IdleKeeps ==
    ASSUME FollowInv, LeaderTypeOK', FollowTypeOK', Solvent', round.step # "executing",
           round'.step # "executing", UNCHANGED <<terms, memory, spent, lost>>
    PROVE  FollowInv'
<1>1. Remembered'
  BY DEF FollowInv, Remembered, DayBudget
<1>2. Foreseen'
  BY DEF Foreseen
<1>. QED
  BY <1>1, <1>2 DEF FollowInv

\* The owner sells a position, or the market takes its value: at any time.
LEMMA OwnerKeeps ==
    ASSUME FollowInv, LeaderTypeOK', NEW a \in Assets, OwnerSells(a) \/ Devalued(a)
    PROVE  FollowInv'
<1>1. /\ FollowTypeOK /\ Solvent /\ Remembered /\ Foreseen /\ wallet \in WalletBook
      /\ a \in Held(wallet) /\ hand < MaxHand /\ hand' = hand + 1
      /\ UNCHANGED <<terms, sub, memory, round, spent, lost>>
  BY DEF FollowInv, FollowTypeOK, OwnerSells, Devalued
<1>2. IsBook(wallet.pos) /\ wallet.quote \in Nat
  BY <1>1 DEF WalletBook, IsBook
<1>3. PICK u \in Nat : u = Usd(wallet, a)
  BY <1>2, BookReads
<1>4. wallet.pos[a] \in Position
  BY <1>1, <1>2, BookReads
<1>5. wallet' \in WalletBook /\ Total(wallet') <= Total(wallet)
  <2>1. CASE OwnerSells(a)
    <3>1. PICK q \in Nat : q = wallet.quote + u
      BY <1>2
    <3>2. wallet' = [quote |-> q, pos |-> [wallet.pos EXCEPT ![a] = NoPos]]
      BY <1>1, <1>3, <2>1, <3>1 DEF OwnerSells, WalletBook
    <3>3. wallet' \in WalletBook /\ Positions(wallet) \in Nat
          /\ Total(wallet') = q + Positions(wallet) - u
      BY <1>1, <1>3, <3>2, WalletChange
    <3>. QED
      BY <1>2, <3>1, <3>3 DEF Total
  <2>2. CASE Devalued(a)
    <3>1. PICK x \in Position : x = [wallet.pos[a] EXCEPT !.usd = 0] /\ x.usd = 0
      <4>1. /\ [wallet.pos[a] EXCEPT !.usd = 0] \in Position
            /\ [wallet.pos[a] EXCEPT !.usd = 0].usd = 0
        BY <1>4 DEF Position
      <4>. QED
        BY <4>1
    <3>2. wallet' = [quote |-> wallet.quote, pos |-> [wallet.pos EXCEPT ![a] = x]]
      BY <1>1, <2>2, <3>1 DEF Devalued, WalletBook
    <3>3. wallet' \in WalletBook /\ Positions(wallet) \in Nat
          /\ Total(wallet') = wallet.quote + Positions(wallet) + x.usd - u
      BY <1>1, <1>2, <1>3, <3>2, WalletChange
    <3>. QED
      BY <1>2, <3>1, <3>3 DEF Total
  <2>. QED
    BY <2>1, <2>2
<1>6. FollowTypeOK'
  <2>1. hand' \in 0..MaxHand
    BY <1>1, FollowWalletAssumption DEF FollowTypeOK
  <2>. QED
    BY <1>1, <1>5, <2>1 DEF FollowTypeOK
<1>7. Solvent'
  <2>1. Total(wallet) \in Int /\ Total(wallet') \in Int /\ Equity \in Nat
    <3>1. IsBook(wallet'.pos) /\ wallet'.quote \in Nat
      BY <1>5 DEF WalletBook, IsBook
    <3>2. Positions(wallet) \in Nat /\ Positions(wallet') \in Nat
      BY <1>2, <3>1, PositionsNat
    <3>. QED
      BY <1>2, <3>1, <3>2, MirrorAssumption DEF Total
  <2>. QED
    BY <1>1, <1>5, <2>1 DEF Solvent
<1>8. Remembered' /\ Foreseen'
  BY <1>1 DEF Remembered, Foreseen, DayBudget
<1>. QED
  BY <1>6, <1>7, <1>8 DEF FollowInv

LEMMA ReadsKeep ==
    FollowInv /\ LeaderTypeOK' /\ (StartCycle \/ WatcherAnswers \/ LeaderBookAnswers \/ Reported)
        => FollowInv'
<1> SUFFICES ASSUME FollowInv, LeaderTypeOK',
                    StartCycle \/ WatcherAnswers \/ LeaderBookAnswers \/ Reported
             PROVE  FollowInv'
  OBVIOUS
<1>1. /\ FollowTypeOK /\ LeaderTypeOK /\ Solvent /\ sub.cursor \in Nat
      /\ now \in 0..MaxTime /\ leader \in LeaderBook
  BY DEF FollowInv, FollowTypeOK, LeaderTypeOK, Subscriber
<1>2. UNCHANGED <<terms, sub, memory, wallet, spent, lost, hand>>
  BY DEF StartCycle, WatcherAnswers, LeaderBookAnswers, Reported
<1>3. round.step # "executing" /\ round' \in {Waiting} \cup ReadingRound
  <2>1. CASE StartCycle
    <3>1. round' = [step |-> "reading", at |-> now, trades |-> NotRead, book |-> NotRead, late |-> FALSE]
      BY <2>1 DEF StartCycle
    <3>2. round' \in ReadingRound
      BY <1>1, <3>1 DEF ReadingRound
    <3>. QED
      BY <2>1, <3>2 DEF StartCycle, Waiting
  <2>2. CASE WatcherAnswers
    <3>1. round.step = "reading" /\ round \in ReadingRound
      BY <1>1, <2>2, RoundShape DEF WatcherAnswers
    <3>2. PICK trades \in Seq(LeaderTrade), late \in BOOLEAN :
              trades = poll(sub.cursor).trades /\ late = (round.book = NotRead)
      BY <1>1, PollTyped
    <3>3. round' = [round EXCEPT !.trades = trades, !.late = late]
      BY <2>2, <3>2 DEF WatcherAnswers
    <3>. QED
      BY <3>1, <3>3 DEF ReadingRound
  <2>3. CASE LeaderBookAnswers
    <3>1. round.step = "reading" /\ round \in ReadingRound
      BY <1>1, <2>3, RoundShape DEF LeaderBookAnswers
    <3>2. round' = [round EXCEPT !.book = leader]
      BY <2>3 DEF LeaderBookAnswers
    <3>. QED
      BY <1>1, <3>1, <3>2 DEF ReadingRound
  <2>4. CASE Reported
    BY <2>4 DEF Reported
  <2>. QED
    BY <2>1, <2>2, <2>3, <2>4
<1>4. round'.step # "executing"
  BY <1>3 DEF Waiting, ReadingRound
<1>5. FollowTypeOK' /\ Solvent'
  BY <1>1, <1>2, <1>3 DEF FollowTypeOK, Solvent
<1>. QED
  BY <1>2, <1>3, <1>4, <1>5, IdleKeeps

\* The wallet as the engine reads it.
LEMMA WalletIsAVault ==
    ASSUME wallet \in WalletBook, NEW mem \in FollowMemory
    PROVE  LET v == vaultStateFromWallet(mem)
           IN  v \in VaultState /\ v.equity = Total(wallet) /\ v.deployed = mem.deployed
<1>1. IsBook(wallet.pos) /\ wallet.quote \in Nat
  BY DEF WalletBook, IsBook
<1>2. Positions(wallet) \in Nat
  BY <1>1, PositionsNat
<1> DEFINE counted == {a \in Held(wallet) : wallet.pos[a].usd >= DUST_USD /\ wallet.pos[a].amount > 0}
<1>3. PICK pos \in [Assets -> Position \cup {NoPos}] :
          pos = [a \in Assets |-> IF a \in counted THEN wallet.pos[a] ELSE NoPos]
  <2>1. \A a \in Assets : wallet.pos[a] \in Position \cup {NoPos}
    BY <1>1 DEF IsBook
  <2> HIDE DEF counted
  <2>2. [a \in Assets |-> IF a \in counted THEN wallet.pos[a] ELSE NoPos]
            \in [Assets -> Position \cup {NoPos}]
    BY <2>1
  <2>. QED
    BY <2>2
<1>4. SumFunction([a \in Assets |-> Usd(wallet, a)]) = Positions(wallet)
  BY DEF SumFunction, Positions
<1>5. PICK equity \in Nat : equity = Total(wallet)
  BY <1>1, <1>2 DEF Total
<1>6. vaultStateFromWallet(mem) =
          [equity |-> equity, quote |-> wallet.quote, pos |-> pos,
           deployed |-> mem.deployed, lastExit |-> mem.lastExit]
  BY <1>3, <1>4, <1>5 DEF vaultStateFromWallet, Total
<1>7. mem.deployed \in Nat /\ mem.lastExit \in [Assets -> Nat \cup {NoExit}]
  BY DEF FollowMemory
<1>8. wallet.quote \in Int
  BY <1>1
<1>. QED
  BY <1>5, <1>6, <1>7, <1>8 DEF VaultState

\* The cycle that has planned.
PlannedRound(before, intents) ==
    [step |-> "executing", at |-> round.at, trades |-> round.trades, book |-> round.book,
     late |-> round.late, refused |-> FALSE, seen |-> sub.processed, before |-> before,
     deployed |-> 0, filled |-> FALSE, intents |-> intents]

IntentsFor(before, markets) ==
    planCycle(terms, round.trades, round.book, before, markets, sub.processed,
              MarksNow(before), round.at)

\* What PlanRound reads and what it plans with.
RoundMade(day, mem, before, markets) ==
    /\ round \in ReadingRound /\ round.trades \in Seq(LeaderTrade) /\ round.book \in LeaderBook
    /\ round.at \in 0..MaxTime /\ round.at \in Nat /\ round.step = "reading"
    /\ day \in Nat
    /\ mem \in FollowMemory
    /\ sub.day = day => mem = memory
    /\ sub.day # day => mem.deployed = 0
    /\ before \in VaultState /\ before = vaultStateFromWallet(mem)
    /\ before.equity = Total(wallet) /\ before.deployed = mem.deployed
    /\ checkBreakers(terms, before, MarksNow(before), round.book) # "max-drawdown"
    /\ Plannable(terms, round.trades, round.book, before, markets, sub.processed, round.at)
    /\ memory' = mem /\ sub' = [sub EXCEPT !.day = day]
    /\ spent' = IF sub.day = day THEN spent ELSE 0
    /\ UNCHANGED <<terms, wallet, lost, hand>>
    /\ round' = PlannedRound(before, IntentsFor(before, markets))

LEMMA PlanRoundMade ==
    ASSUME FollowInv, PlanRound
    PROVE  \E day, mem, before, markets : RoundMade(day, mem, before, markets)
<1>1. /\ FollowTypeOK /\ Solvent /\ Remembered
      /\ terms \in Policies /\ sub \in Subscriber /\ memory \in FollowMemory
      /\ wallet \in WalletBook /\ Equity \in Nat
  BY MirrorAssumption DEF FollowInv, FollowTypeOK
<1>2. /\ round \in ReadingRound /\ round.trades \in Seq(LeaderTrade) /\ round.book \in LeaderBook
      /\ round.at \in 0..MaxTime /\ round.at \in Nat /\ round.step = "reading"
  <2>1. round.step = "reading" /\ round.trades # NotRead /\ round.book # NotRead
    BY DEF PlanRound
  <2>2. round \in ReadingRound
    BY <1>1, <2>1, RoundShape
  <2>3. round.at \in 0..MaxTime /\ MaxTime \in Nat
    BY <2>2, MirrorAssumption DEF ReadingRound
  <2>4. round.at \in Nat
    BY <2>3
  <2>. QED
    BY <2>1, <2>2, <2>3, <2>4 DEF ReadingRound
<1>3. PICK day \in Nat : day = utcDay(round.at)
  <2>1. DayTicks \in Nat /\ DayTicks > 0
    BY MirrorAssumption
  <2>. QED
    BY <1>2, <2>1, DivNat DEF utcDay
<1>4. PICK mem \in FollowMemory :
          /\ mem = rollDayFor(memory)
          /\ sub.day = day => mem = memory
          /\ sub.day # day => mem.deployed = 0
  <2>1. [memory EXCEPT !.deployed = 0] \in FollowMemory /\ [memory EXCEPT !.deployed = 0].deployed = 0
    BY <1>1 DEF FollowMemory
  <2>. QED
    BY <1>1, <1>3, <2>1 DEF rollDayFor
<1>5. PICK before \in VaultState :
          /\ before = vaultStateFromWallet(mem)
          /\ before.equity = Total(wallet) /\ before.deployed = mem.deployed
  BY <1>1, WalletIsAVault
<1>6. PICK markets \in Markets(round.trades) :
          round' = PlannedRound(before, IntentsFor(before, markets))
  BY <1>4, <1>5 DEF PlanRound, PlannedRound, IntentsFor
<1>7. /\ memory' = mem /\ sub' = [sub EXCEPT !.day = day]
      /\ spent' = IF sub.day = day THEN spent ELSE 0
      /\ UNCHANGED <<terms, wallet, lost, hand>>
  BY <1>3, <1>4 DEF PlanRound
<1>8. checkBreakers(terms, before, MarksNow(before), round.book) # "max-drawdown"
  <2>1. before.equity \in Nat /\ terms.maxDrawdownPct * before.equity \in Nat
    BY <1>1, PolicyTypes DEF VaultState
  <2>2. ~Fell(before.equity, before.equity, terms.maxDrawdownPct)
    BY <2>1 DEF Fell
  <2>3. MarksNow(before).highWater = before.equity
    BY DEF MarksNow
  <2>. QED
    BY <2>2, <2>3 DEF checkBreakers
<1>9. Plannable(terms, round.trades, round.book, before, markets, sub.processed, round.at)
  BY <1>1, <1>2, <1>5, <1>6 DEF Plannable
<1>10. RoundMade(day, mem, before, markets)
  BY <1>2, <1>3, <1>4, <1>5, <1>6, <1>7, <1>8, <1>9 DEF RoundMade
<1>. QED
  BY <1>10

LEMMA PlanRoundKeeps == FollowInv /\ LeaderTypeOK' /\ PlanRound => FollowInv'
<1> SUFFICES ASSUME FollowInv, LeaderTypeOK', PlanRound PROVE FollowInv'
  OBVIOUS
<1>1. /\ FollowTypeOK /\ Solvent /\ Remembered
      /\ terms \in Policies /\ sub \in Subscriber /\ memory \in FollowMemory
      /\ wallet \in WalletBook /\ Equity \in Nat
  BY MirrorAssumption DEF FollowInv, FollowTypeOK
<1>2. PICK day, mem, before, markets : RoundMade(day, mem, before, markets)
  BY PlanRoundMade
<1>3. /\ round \in ReadingRound /\ round.trades \in Seq(LeaderTrade) /\ round.book \in LeaderBook
      /\ round.at \in 0..MaxTime /\ round.at \in Nat /\ round.step # "executing"
  BY <1>2 DEF RoundMade
<1>4. /\ day \in Nat /\ mem \in FollowMemory
      /\ sub.day = day => mem = memory
      /\ sub.day # day => mem.deployed = 0
  BY <1>2 DEF RoundMade
<1>5. /\ before \in VaultState
      /\ before.equity = Total(wallet) /\ before.deployed = mem.deployed
  BY <1>2 DEF RoundMade
<1>6. PICK intents : /\ intents = IntentsFor(before, markets)
                     /\ round' = PlannedRound(before, intents)
  BY <1>2 DEF RoundMade
<1>7. /\ memory' = mem /\ sub' = [sub EXCEPT !.day = day]
      /\ spent' = IF sub.day = day THEN spent ELSE 0
      /\ UNCHANGED <<terms, wallet, lost, hand>>
  BY <1>2 DEF RoundMade
<1>8. PICK books : Replay(terms, round.at, books, intents) /\ books[0] = before
  BY <1>2, <1>6, PlanReplays DEF RoundMade, IntentsFor
<1>10. /\ round' \in ActingRound /\ round'.step = "executing" /\ round'.at = round.at
       /\ round'.intents = intents /\ round'.deployed = 0
  <2>1. /\ intents \in Seq(MirrorIntent) /\ round.late \in BOOLEAN
        /\ sub.processed \in SUBSET (0..MaxTrades)
    BY <1>1, <1>3, <1>8 DEF Replay, ReadingRound, Subscriber
  <2>. QED
    BY <1>3, <1>5, <1>6, <2>1 DEF ActingRound, PlannedRound
<1>11. FollowTypeOK'
  <2>1. sub' \in Subscriber
    BY <1>1, <1>4, <1>7 DEF Subscriber
  <2>2. spent' \in Nat
    BY <1>1, <1>7 DEF FollowTypeOK
  <2>. QED
    BY <1>1, <1>4, <1>7, <1>10, <2>1, <2>2 DEF FollowTypeOK
<1>12. Solvent'
  BY <1>1, <1>7 DEF Solvent
<1>13. PICK budget \in Nat, more \in Nat : budget = DayBudget /\ more = lost * DayBudget
  BY <1>1, BudgetNat
<1>14. /\ mem.deployed \in Nat /\ mem.deployed <= budget /\ spent' <= mem.deployed + more
  <2>1. memory.deployed <= budget /\ spent <= memory.deployed + more /\ memory.deployed \in Nat
    BY <1>1, <1>3, <1>13 DEF Remembered, FollowMemory
  <2>. QED
    BY <1>4, <1>7, <1>13, <2>1
<1>15. DayBudget' = budget /\ (lost * DayBudget)' = more
  BY <1>7, <1>13 DEF DayBudget
<1>16. Remembered'
  BY <1>7, <1>10, <1>14, <1>15 DEF Remembered
<1>17. Foreseen'
  <2>1. /\ Replay(terms', round'.at, books, round'.intents) /\ books[0].equity <= Equity
        /\ memory'.deployed + round'.deployed <= books[0].deployed
    BY <1>1, <1>5, <1>7, <1>8, <1>10, <1>14 DEF Solvent
  <2>2. /\ spent' <= memory'.deployed + round'.deployed + lost' * DayBudget'
        /\ memory'.deployed + round'.deployed <= DayBudget'
    BY <1>7, <1>10, <1>13, <1>14, <1>15
  <2>. QED
    BY <2>1, <2>2 DEF Foreseen
<1>. QED
  BY <1>11, <1>12, <1>16, <1>17 DEF FollowInv

\* The intent a cycle is at.
LEMMA IntentTyped ==
    ASSUME FollowTypeOK, Executing
    PROVE  /\ round \in ActingRound /\ round.step = "executing" /\ round.intents # <<>>
           /\ round.intents \in Seq(MirrorIntent) /\ Tail(round.intents) \in Seq(MirrorIntent)
           /\ Intent \in MirrorIntent /\ Intent.id \in 0..MaxTrades /\ Intent.asset \in Assets
           /\ Cost \in Nat /\ round.deployed \in Nat /\ round.at \in Nat
<1>1. round.step = "executing" /\ round.intents # <<>>
  BY DEF Executing
<1>2. round \in ActingRound
  BY <1>1, RoundShape
<1>3. round.intents \in Seq(MirrorIntent) /\ round.at \in 0..MaxTime /\ round.deployed \in Nat
  BY <1>2 DEF ActingRound
<1>4. Intent \in MirrorIntent /\ Tail(round.intents) \in Seq(MirrorIntent)
  BY <1>1, <1>3, HeadTailProperties DEF Intent
<1>5. Intent.id \in 0..MaxTrades /\ Intent.asset \in Assets /\ round.at \in Nat
  BY <1>3, <1>4, MirrorAssumption DEF MirrorIntent
<1>6. Cost \in Nat
  BY <1>4 DEF Cost, MirrorIntent
<1>. QED
  BY <1>1, <1>2, <1>3, <1>4, <1>5, <1>6

\* The dollars a balance of u fetches when n of its m units are sold.
LEMMA SaleValue ==
    ASSUME NEW u \in Nat, NEW n \in Nat, NEW m \in Nat, 0 < n, n <= m
    PROVE  /\ (u * n) \div m \in Nat /\ (u * n) \div m <= u
           /\ n = m => (u * n) \div m = u
<1> DEFINE f == <<n, m>>
<1>1. f \in Fraction /\ f[1] = n /\ f[2] = m
  BY DEF Fraction
<1>2. Of(f, u) = (u * n) \div m
  BY <1>1 DEF Of
<1> HIDE DEF f
<1>3. Of(f, u) \in Nat /\ Of(f, u) <= u
  BY <1>1, OfBelow
<1>4. n = m => Of(f, u) = u
  BY <1>1, WholeIsAll DEF Whole
<1>. QED
  BY <1>2, <1>3, <1>4

\* What the chain executes neither mints dollars nor leaves a balance negative.
LEMMA LandedWallet ==
    ASSUME FollowInv, Executing, Executable
    PROVE  Landed \in WalletBook /\ Total(Landed) <= Equity
<1>1. /\ FollowTypeOK /\ wallet \in WalletBook /\ wallet.quote \in Nat /\ IsBook(wallet.pos)
      /\ Total(wallet) <= Equity /\ Equity \in Nat
  BY MirrorAssumption DEF FollowInv, FollowTypeOK, Solvent, WalletBook, IsBook
<1>2. /\ round \in ActingRound /\ Intent \in MirrorIntent /\ Intent.asset \in Assets
  BY <1>1, IntentTyped
<1>3. PICK a \in Assets : a = Intent.asset
  BY <1>2
<1>4. PICK u \in Nat, m \in Nat : u = Usd(wallet, a) /\ m = Amount(wallet, a)
  BY <1>1, BookReads
<1>5. PICK held \in Nat : held = Positions(wallet)
  BY <1>1, PositionsNat
<1>6. wallet.quote + held <= Equity
  BY <1>1, <1>5 DEF Total
<1>7. CASE Intent.kind = "buy"
  <2>1. PICK usd \in Nat : usd = Intent.usd
    BY <1>2, <1>7 DEF MirrorIntent
  <2>2. usd <= wallet.quote
    BY <1>7, <2>1 DEF Executable
  <2>3. PICK q \in Nat : q = wallet.quote - usd
    BY <1>1, <2>1, <2>2
  <2>4. PICK x \in Position : x = [amount |-> m + usd, usd |-> u + usd] /\ x.usd = u + usd
    <3>1. [amount |-> m + usd, usd |-> u + usd] \in Position
      BY <1>4, <2>1 DEF Position
    <3>. QED
      BY <3>1
  <2>5. Landed = [quote |-> q, pos |-> [wallet.pos EXCEPT ![a] = x]]
    BY <1>3, <1>4, <1>7, <2>1, <2>3, <2>4 DEF Landed
  <2>6. Landed \in WalletBook /\ Total(Landed) = q + held + x.usd - u
    BY <1>1, <1>4, <1>5, <2>5, WalletChange
  <2>. QED
    BY <1>1, <1>4, <1>5, <1>6, <2>1, <2>3, <2>4, <2>6
<1>8. CASE Intent.kind # "buy"
  <2>1. PICK n : n = ToSell
    OBVIOUS
  <2>2. n > 0 /\ n <= m
    BY <1>3, <1>4, <1>8, <2>1 DEF Executable
  <2>3. n \in Nat
    <3>1. Intent.fraction \in Fraction
      BY <1>2, <1>8 DEF MirrorIntent
    <3>2. round.before \in VaultState
      BY <1>2 DEF ActingRound
    <3>3. Amount(round.before, a) \in Nat
      <4>1. IsBook(round.before.pos)
        BY <3>2 DEF VaultState, IsBook
      <4>. QED
        BY <4>1, BookReads
    <3>. QED
      BY <1>3, <2>1, <3>1, <3>3, OfBelow DEF ToSell, PositionAmount
  <2>4. PICK value \in Nat : value = (u * n) \div m /\ value <= u /\ (n = m => value = u)
    BY <1>4, <2>2, <2>3, SaleValue
  <2>5. PICK q \in Nat : q = wallet.quote + value
    BY <1>1, <2>4
  <2>6. a \in Held(wallet) /\ wallet.pos[a] \in Position /\ wallet.pos[a].usd = u
        /\ wallet.pos[a].amount = m
    <3>1. m # 0
      BY <2>2, <2>3
    <3>2. a \in Held(wallet)
      BY <1>1, <1>4, <3>1, BookReads
    <3>. QED
      BY <1>1, <1>4, <3>2, BookReads
  <2>7. CASE n = m
    <3>1. Landed = [quote |-> q, pos |-> [wallet.pos EXCEPT ![a] = NoPos]]
      BY <1>3, <1>4, <1>8, <2>1, <2>4, <2>5, <2>7 DEF Landed
    <3>2. Landed \in WalletBook /\ Total(Landed) = q + held - u
      BY <1>1, <1>4, <1>5, <3>1, WalletChange
    <3>. QED
      BY <1>1, <1>4, <1>5, <1>6, <2>4, <2>5, <2>7, <3>2
  <2>8. CASE n # m
    <3>1. PICK x \in Position : x = [amount |-> m - n, usd |-> u - value] /\ x.usd = u - value
      <4>1. m - n \in Nat /\ u - value \in Nat
        BY <1>4, <2>2, <2>3, <2>4
      <4>2. [amount |-> m - n, usd |-> u - value] \in Position
        BY <4>1 DEF Position
      <4>. QED
        BY <4>2
    <3>2. Landed = [quote |-> q, pos |-> [wallet.pos EXCEPT ![a] = x]]
      <4>1. Landed = [quote |-> q,
                      pos |-> [wallet.pos EXCEPT ![a] = [amount |-> @.amount - n, usd |-> @.usd - value]]]
        BY <1>3, <1>4, <1>8, <2>1, <2>4, <2>5, <2>8 DEF Landed
      <4>. QED
        BY <2>6, <3>1, <4>1
    <3>3. Landed \in WalletBook /\ Total(Landed) = q + held + x.usd - u
      BY <1>1, <1>4, <1>5, <3>2, WalletChange
    <3>. QED
      BY <1>1, <1>4, <1>5, <1>6, <2>4, <2>5, <3>1, <3>3
  <2>. QED
    BY <2>7, <2>8
<1>. QED
  BY <1>7, <1>8

\* A cycle past its next intent, filled or not.
Past(books) ==
    /\ Replay(terms, round.at, books, Tail(round.intents))
    /\ books[0].equity <= Equity
    /\ memory.deployed + round.deployed + Cost <= books[0].deployed

LEMMA NextForeseen ==
    ASSUME FollowInv, Executing
    PROVE  /\ memory.deployed + round.deployed + Cost <= DayBudget
           /\ \E rest : Past(rest)
<1>1. /\ FollowTypeOK /\ terms \in Policies /\ Equity \in Nat /\ memory.deployed \in Nat
      /\ memory.deployed + round.deployed <= DayBudget
  BY MirrorAssumption DEF FollowInv, FollowTypeOK, FollowMemory, Foreseen, Executing
<1>2. /\ round \in ActingRound /\ round.step = "executing" /\ round.intents # <<>>
      /\ Intent \in MirrorIntent /\ Intent.asset \in Assets
      /\ Cost \in Nat /\ round.deployed \in Nat /\ round.at \in Nat
  BY <1>1, IntentTyped
<1>3. PICK books : /\ Replay(terms, round.at, books, round.intents)
                   /\ books[0].equity <= Equity
                   /\ memory.deployed + round.deployed <= books[0].deployed
  BY <1>2 DEF FollowInv, Foreseen
<1>4. /\ books[0] \in VaultState /\ books[1] \in VaultState
      /\ Follows(terms, round.at, books[0], Intent, books[1])
  BY <1>2, <1>3, ReplayTail DEF Intent
<1>5. PICK rest : Replay(terms, round.at, rest, Tail(round.intents)) /\ rest[0] = books[1]
  BY <1>2, <1>3, ReplayTail
<1>6. books[0].deployed \in Nat /\ books[0].equity \in Nat
  BY <1>4 DEF VaultState
<1>7. CASE Intent.kind = "buy"
  <2>1. PICK usd \in Nat : usd = Intent.usd /\ Cost = usd
    BY <1>2, <1>7 DEF MirrorIntent, Cost
  <2>2. /\ rest[0] = Bought(books[0], Intent.asset, usd)
        /\ books[0].deployed + usd <= Budget(terms, books[0].equity)
    BY <1>4, <1>5, <1>7, <2>1 DEF Follows, Applied, Fits
  <2>3. rest[0].equity = books[0].equity /\ rest[0].deployed = books[0].deployed + usd
    <3>1. Intent.asset \in Assets /\ books[0] \in VaultState /\ usd \in Nat
      BY <1>2, <1>4, <2>1
    <3>2. rest[0] = Bought(books[0], Intent.asset, usd)
      BY <2>2
    <3>. QED
      BY <3>1, <3>2, BuyEffect
  <2>4. Budget(terms, books[0].equity) \in Nat /\ DayBudget \in Nat
        /\ Budget(terms, books[0].equity) <= DayBudget
    BY <1>1, <1>3, <1>6, PolicyTypes, PctMono, PctNat DEF Budget, DayBudget
  <2>5. memory.deployed + round.deployed + Cost <= rest[0].deployed
    BY <1>1, <1>2, <1>3, <1>6, <2>1, <2>3
  <2>6. memory.deployed + round.deployed + Cost <= DayBudget
    BY <1>1, <1>2, <1>3, <1>6, <2>1, <2>2, <2>4
  <2>. QED
    BY <1>3, <1>5, <2>3, <2>5, <2>6 DEF Past
<1>8. CASE Intent.kind # "buy"
  <2>1. Cost = 0
    BY <1>8 DEF Cost
  <2>2. Intent.fraction \in Fraction
    BY <1>2, <1>8 DEF MirrorIntent
  <2>3. rest[0] = applySell(books[0], Intent.asset, Intent.fraction, round.at)
    BY <1>4, <1>5, <1>8 DEF Follows, Applied
  <2>4. rest[0].equity = books[0].equity /\ rest[0].deployed = books[0].deployed
    BY <1>2, <1>4, <2>2, <2>3, PlannedSale
  <2>5. memory.deployed + round.deployed + Cost <= rest[0].deployed
    BY <1>1, <1>2, <1>3, <1>6, <2>1, <2>4
  <2>6. memory.deployed + round.deployed + Cost <= DayBudget
    BY <1>1, <1>2, <2>1
  <2>. QED
    BY <1>3, <1>5, <2>4, <2>5, <2>6 DEF Past
<1>. QED
  BY <1>7, <1>8

LEMMA FillsKeep == FollowInv /\ LeaderTypeOK' /\ Fills => FollowInv'
<1> SUFFICES ASSUME FollowInv, LeaderTypeOK', Fills PROVE FollowInv'
  OBVIOUS
<1>1. Executing /\ Executable /\ FollowTypeOK
  BY DEF Fills, FollowInv
<1>2. /\ round \in ActingRound /\ round.step = "executing" /\ Tail(round.intents) \in Seq(MirrorIntent)
      /\ Intent.id \in 0..MaxTrades /\ Cost \in Nat /\ round.deployed \in Nat
  BY <1>1, IntentTyped
<1>3. PICK n \in Nat : n = round.deployed + Cost
  BY <1>2
<1>4. /\ wallet' = Landed /\ spent' = spent + Cost
      /\ sub' = [sub EXCEPT !.processed = @ \cup {Intent.id}]
      /\ round' = [round EXCEPT !.intents = Tail(round.intents), !.deployed = n, !.filled = TRUE]
      /\ UNCHANGED <<terms, memory, lost, hand>>
  BY <1>3 DEF Fills
<1>5. wallet' \in WalletBook /\ Solvent'
  <2>1. Landed \in WalletBook /\ Total(Landed) <= Equity
    BY <1>1, LandedWallet
  <2>. QED
    BY <1>4, <2>1 DEF Solvent
<1>6. /\ round' \in ActingRound /\ round'.step = "executing" /\ round'.at = round.at
      /\ round'.intents = Tail(round.intents) /\ round'.deployed = n
  BY <1>2, <1>3, <1>4 DEF ActingRound
<1>7. sub' \in Subscriber
  BY <1>1, <1>2, <1>4 DEF FollowTypeOK, Subscriber
<1>8. /\ DayBudget \in Nat /\ lost * DayBudget \in Nat /\ spent \in Nat /\ memory.deployed \in Nat
  BY <1>1, BudgetNat
<1>9. FollowTypeOK'
  <2>1. spent' \in Nat
    BY <1>2, <1>4, <1>8
  <2>. QED
    BY <1>1, <1>4, <1>5, <1>6, <1>7, <2>1 DEF FollowTypeOK
<1>10. DayBudget' = DayBudget /\ (lost * DayBudget)' = lost * DayBudget
  BY <1>4 DEF DayBudget
<1>11. Remembered'
  BY <1>4, <1>6, <1>10 DEF FollowInv, Remembered
<1>12. Foreseen'
  <2>1. /\ memory.deployed + round.deployed + Cost <= DayBudget
        /\ \E rest : Past(rest)
    BY <1>1, NextForeseen
  <2>2. PICK rest : Past(rest)
    BY <2>1
  <2>3. memory.deployed + round.deployed + Cost = memory.deployed + n
    BY <1>2, <1>3, <1>8
  <2>4. /\ Replay(terms', round'.at, rest, round'.intents) /\ rest[0].equity <= Equity
        /\ memory'.deployed + round'.deployed <= rest[0].deployed
    BY <1>4, <1>6, <2>2, <2>3 DEF Past
  <2>5. memory'.deployed + round'.deployed <= DayBudget'
    BY <1>4, <1>6, <1>10, <2>1, <2>3
  <2>6. spent' <= memory'.deployed + round'.deployed + lost' * DayBudget'
    <3>1. spent <= memory.deployed + round.deployed + lost * DayBudget
      BY <1>2 DEF FollowInv, Foreseen
    <3>2. spent + Cost <= memory.deployed + n + lost * DayBudget
      BY <1>2, <1>3, <1>8, <3>1
    <3>. QED
      BY <1>4, <1>6, <1>10, <3>2
  <2>. QED
    BY <2>4, <2>5, <2>6 DEF Foreseen
<1>. QED
  BY <1>5, <1>9, <1>11, <1>12 DEF FollowInv

LEMMA RefusedKeeps == FollowInv /\ LeaderTypeOK' /\ Refused => FollowInv'
<1> SUFFICES ASSUME FollowInv, LeaderTypeOK', Refused PROVE FollowInv'
  OBVIOUS
<1>1. Executing /\ FollowTypeOK
  BY DEF Refused, FollowInv
<1>2. /\ round \in ActingRound /\ round.step = "executing" /\ Tail(round.intents) \in Seq(MirrorIntent)
      /\ Cost \in Nat /\ round.deployed \in Nat
  BY <1>1, IntentTyped
<1>3. PICK refused \in BOOLEAN : refused = (round.refused \/ Executable)
  OBVIOUS
<1>4. /\ round' = [round EXCEPT !.intents = Tail(round.intents), !.refused = refused]
      /\ UNCHANGED <<terms, sub, memory, wallet, spent, lost, hand>>
  BY <1>3 DEF Refused
<1>5. /\ round' \in ActingRound /\ round'.step = "executing" /\ round'.at = round.at
      /\ round'.intents = Tail(round.intents) /\ round'.deployed = round.deployed
  BY <1>2, <1>4 DEF ActingRound
<1>6. FollowTypeOK' /\ Solvent'
  BY <1>1, <1>4, <1>5 DEF FollowInv, FollowTypeOK, Solvent
<1>7. DayBudget' = DayBudget /\ (lost * DayBudget)' = lost * DayBudget
  BY <1>4 DEF DayBudget
<1>8. Remembered'
  BY <1>4, <1>5, <1>7 DEF FollowInv, Remembered
<1>9. Foreseen'
  <2>1. PICK rest : Past(rest)
    BY <1>1, NextForeseen
  <2>2. memory.deployed + round.deployed <= rest[0].deployed
    <3>1. memory.deployed \in Nat
      BY <1>1, BudgetNat
    <3>2. rest[0] \in VaultState
      <4>1. 0 \in 0..Len(Tail(round.intents))
        BY <1>2
      <4>. QED
        BY <2>1, <4>1 DEF Past, Replay
    <3>3. rest[0].deployed \in Nat
      BY <3>2 DEF VaultState
    <3>. QED
      BY <1>2, <2>1, <3>1, <3>3 DEF Past
  <2>3. /\ Replay(terms', round'.at, rest, round'.intents) /\ rest[0].equity <= Equity
        /\ memory'.deployed + round'.deployed <= rest[0].deployed
    BY <1>4, <1>5, <2>1, <2>2 DEF Past
  <2>4. /\ spent <= memory.deployed + round.deployed + lost * DayBudget
        /\ memory.deployed + round.deployed <= DayBudget
    BY <1>2 DEF FollowInv, Foreseen
  <2>5. /\ spent' <= memory'.deployed + round'.deployed + lost' * DayBudget'
        /\ memory'.deployed + round'.deployed <= DayBudget'
    BY <1>4, <1>5, <1>7, <2>4
  <2>. QED
    BY <2>3, <2>5 DEF Foreseen
<1>. QED
  BY <1>6, <1>8, <1>9 DEF FollowInv

\* A throw forgets what the cycle spent, the buy that may have landed
\* included: one budget at the most.
LEMMA ThrowsKeep ==
    ASSUME FollowInv, LeaderTypeOK', NEW landed \in BOOLEAN, Throws(landed)
    PROVE  FollowInv'
<1>1. Executing /\ FollowTypeOK /\ lost < MaxLost /\ (landed => Executable)
  BY DEF Throws, FollowInv
<1>2. /\ round \in ActingRound /\ round.step = "executing" /\ Cost \in Nat /\ round.deployed \in Nat
  BY <1>1, IntentTyped
<1>3. /\ landed => wallet' = Landed /\ spent' = spent + Cost
      /\ ~landed => wallet' = wallet /\ spent' = spent
      /\ lost' = lost + 1 /\ round' = Waiting
      /\ UNCHANGED <<terms, sub, memory, hand>>
  BY DEF Throws
<1>4. wallet' \in WalletBook /\ Solvent'
  <2>1. CASE landed
    <3>1. Landed \in WalletBook /\ Total(Landed) <= Equity
      BY <1>1, <2>1, LandedWallet
    <3>. QED
      BY <1>3, <2>1, <3>1 DEF Solvent
  <2>2. CASE ~landed
    BY <1>3, <2>2 DEF FollowInv, FollowTypeOK, Solvent
  <2>. QED
    BY <2>1, <2>2
<1>5. PICK budget \in Nat, more \in Nat :
          budget = DayBudget /\ more = lost * DayBudget /\ lost \in Nat
  BY <1>1, BudgetNat
<1>6. spent \in Nat /\ memory.deployed \in Nat
  BY <1>1, BudgetNat
<1>7. spent' \in Nat /\ spent' <= spent + Cost
  BY <1>2, <1>3, <1>6
<1>8. lost' \in 0..MaxLost
  BY <1>1, <1>3, FollowWalletAssumption DEF FollowTypeOK
<1>9. FollowTypeOK'
  BY <1>1, <1>3, <1>4, <1>7, <1>8 DEF FollowTypeOK
<1>10. DayBudget' = budget /\ lost' * budget = more + budget
  BY <1>3, <1>5 DEF DayBudget
<1>11. spent' <= memory.deployed + (more + budget)
  <2>1. memory.deployed + round.deployed + Cost <= budget
    BY <1>1, <1>5, NextForeseen
  <2>2. spent <= memory.deployed + round.deployed + more
    BY <1>2, <1>5 DEF FollowInv, Foreseen
  <2>. QED
    BY <1>2, <1>5, <1>6, <1>7, <2>1, <2>2
<1>12. Remembered'
  <2>1. memory'.deployed <= DayBudget'
    BY <1>3, <1>5, <1>10 DEF FollowInv, Remembered
  <2>2. spent' <= memory'.deployed + lost' * DayBudget'
    BY <1>3, <1>10, <1>11
  <2>. QED
    BY <2>1, <2>2 DEF Remembered
<1>13. Foreseen'
  BY <1>3 DEF Foreseen, Waiting
<1>. QED
  BY <1>4, <1>9, <1>12, <1>13 DEF FollowInv

\* A batch has a newest trade, the first of those that share its block time.
LEMMA NewestIsATrade ==
    ASSUME NEW trades \in Seq(LeaderTrade), trades # <<>>
    PROVE  newestOf(trades) \in Nat
<1> DEFINE Newest(t) == \A u \in Range(trades) : t.ts > u.ts \/ (t.ts = u.ts /\ t.id <= u.id)
           ages == {MaxTime - t.ts : t \in Range(trades)}
<1>1. Range(trades) \subseteq LeaderTrade /\ Range(trades) # {}
  <2>1. \A i \in 1..Len(trades) : trades[i] \in LeaderTrade
    OBVIOUS
  <2>2. Len(trades) \in Nat /\ Len(trades) # 0 /\ DOMAIN trades = 1..Len(trades)
    BY EmptySeq
  <2>3. 1 \in 1..Len(trades)
    BY <2>2
  <2>. QED
    BY <2>1, <2>2, <2>3 DEF Range
<1>2. \A t \in Range(trades) : t.ts \in Nat /\ MaxTime - t.ts \in Nat /\ t.id \in Nat
  <2>1. \A t \in LeaderTrade : t.ts \in 0..MaxTime /\ t.id \in 1..MaxTrades
    BY DEF LeaderTrade
  <2>. QED
    BY <1>1, <2>1, MirrorAssumption
<1>3. PICK age \in ages : \A x \in ages : age <= x
  <2>1. ages \subseteq Nat /\ ages # {}
    BY <1>1, <1>2
  <2> HIDE DEF ages
  <2>. QED
    BY <2>1, LeastExists
<1> DEFINE ids == {t.id : t \in {u \in Range(trades) : MaxTime - u.ts = age}}
<1>4. PICK id \in ids : \A x \in ids : id <= x
  <2>1. ids \subseteq Nat /\ ids # {}
    BY <1>2, <1>3
  <2> HIDE DEF ids
  <2>. QED
    BY <2>1, LeastExists
<1>5. PICK t \in Range(trades) : MaxTime - t.ts = age /\ t.id = id
  BY <1>4
<1>6. Newest(t)
  <2>1. SUFFICES ASSUME NEW u \in Range(trades) PROVE t.ts > u.ts \/ (t.ts = u.ts /\ t.id <= u.id)
    OBVIOUS
  <2>2. age <= MaxTime - u.ts
    BY <1>3
  <2>3. u.ts = t.ts => u.id \in ids
    BY <1>5
  <2>4. u.ts = t.ts => id <= u.id
    BY <1>4, <2>3
  <2>5. t.ts \in Nat /\ u.ts \in Nat /\ MaxTime \in Nat
    BY <1>2, MirrorAssumption
  <2>6. t.ts > u.ts \/ t.ts = u.ts
    BY <1>5, <2>2, <2>5
  <2>. QED
    BY <1>5, <2>4, <2>6
<1>7. (CHOOSE x \in Range(trades) : Newest(x)) \in Range(trades)
  <2> HIDE DEF Newest
  <2>. QED
    BY <1>6
<1>. QED
  BY <1>2, <1>7 DEF newestOf

LEMMA EndRoundKeeps == FollowInv /\ LeaderTypeOK' /\ EndRound => FollowInv'
<1> SUFFICES ASSUME FollowInv, LeaderTypeOK', EndRound PROVE FollowInv'
  OBVIOUS
<1>1. /\ FollowTypeOK /\ round.step = "executing" /\ memory \in FollowMemory /\ sub \in Subscriber
  BY DEF EndRound, FollowInv, FollowTypeOK
<1>2. /\ round \in ActingRound /\ round.trades \in Seq(LeaderTrade) /\ round.deployed \in Nat
      /\ round.at \in Nat
  <2>1. round \in ActingRound
    BY <1>1, RoundShape
  <2>2. round.at \in 0..MaxTime
    BY <2>1 DEF ActingRound
  <2>3. round.at \in Nat
    BY <2>2, MirrorAssumption
  <2>. QED
    BY <2>1, <2>3 DEF ActingRound
<1>3. PICK after :
          memory' = rememberCycle(round.before, after, round.at)
  BY DEF EndRound
<1>4. memory.deployed \in Nat /\ memory.lastExit \in [Assets -> Nat \cup {NoExit}]
  BY <1>1 DEF FollowMemory
<1>5. PICK n \in Nat : n = memory.deployed + round.deployed
  BY <1>2, <1>4
<1>6. memory' \in FollowMemory /\ memory'.deployed = n
  <2> DEFINE exits == [a \in Assets |-> IF a \in Held(round.before) \ Held(after) THEN round.at
                                        ELSE memory.lastExit[a]]
  <2>1. exits \in [Assets -> Nat \cup {NoExit}]
    BY <1>2, <1>4
  <2>2. memory' = [deployed |-> n, lastExit |-> exits]
    BY <1>3, <1>5 DEF rememberCycle, Deployed
  <2> HIDE DEF exits
  <2>. QED
    BY <2>1, <2>2 DEF FollowMemory
<1>7. PICK cursor \in Nat :
          cursor = IF round.trades = <<>> THEN sub.cursor ELSE newestOf(round.trades)
  <2>1. sub.cursor \in Nat
    BY <1>1 DEF Subscriber
  <2>. QED
    BY <1>2, <2>1, NewestIsATrade
<1>8. /\ sub' = [sub EXCEPT !.cursor = cursor]
      /\ round' = [round EXCEPT !.step = "report"]
      /\ UNCHANGED <<terms, wallet, spent, lost, hand>>
  BY <1>7 DEF EndRound
<1>9. /\ round' \in ActingRound /\ round'.step = "report"
  BY <1>2, <1>8 DEF ActingRound
<1>10. FollowTypeOK' /\ Solvent'
  <2>1. sub' \in Subscriber
    BY <1>1, <1>7, <1>8 DEF Subscriber
  <2>. QED
    BY <1>1, <1>6, <1>8, <1>9, <2>1 DEF FollowTypeOK, FollowInv, Solvent
<1>11. DayBudget' = DayBudget /\ (lost * DayBudget)' = lost * DayBudget
  BY <1>8 DEF DayBudget
<1>12. /\ spent <= n + lost * DayBudget /\ n <= DayBudget
  BY <1>1, <1>5 DEF FollowInv, Foreseen
<1>13. Remembered'
  BY <1>6, <1>8, <1>11, <1>12 DEF Remembered
<1>14. Foreseen'
  BY <1>9 DEF Foreseen
<1>. QED
  BY <1>10, <1>13, <1>14 DEF FollowInv

LEMMA OthersKeepFollow ==
    FollowInv /\ LeaderTypeOK' /\ UNCHANGED followVars => FollowInv'
  BY DEF followVars, FollowInv, FollowTypeOK, Solvent, Remembered, Foreseen, DayBudget

LEMMA FollowKeeps ==
    FollowInv /\ [FollowNext \/ (LeaderNext /\ UNCHANGED followVars)]_<<leaderVars, followVars>>
        => FollowInv'
<1> SUFFICES ASSUME FollowInv,
                    [FollowNext \/ (LeaderNext /\ UNCHANGED followVars)]_<<leaderVars, followVars>>
             PROVE  FollowInv'
  OBVIOUS
<1>1. LeaderTypeOK'
  <2>1. FollowNext => UNCHANGED leaderVars
    BY DEF FollowNext, OwnerSells, Devalued, StartCycle, WatcherAnswers, LeaderBookAnswers,
           PlanRound, Fills, Refused, Throws, EndRound, Reported
  <2>2. LeaderNext \/ UNCHANGED leaderVars
    BY <2>1
  <2>. QED
    BY <2>2, LeaderKeeps DEF FollowInv
<1>2. ASSUME NEW a \in Assets, OwnerSells(a) \/ Devalued(a) PROVE FollowInv'
  BY <1>1, <1>2, OwnerKeeps
<1>3. CASE StartCycle \/ WatcherAnswers \/ LeaderBookAnswers \/ Reported
  BY <1>1, <1>3, ReadsKeep
<1>4. CASE PlanRound
  BY <1>1, <1>4, PlanRoundKeeps
<1>5. CASE Fills
  BY <1>1, <1>5, FillsKeep
<1>6. CASE Refused
  BY <1>1, <1>6, RefusedKeeps
<1>7. ASSUME NEW landed \in BOOLEAN, Throws(landed) PROVE FollowInv'
  BY <1>1, <1>7, ThrowsKeep
<1>8. CASE EndRound
  BY <1>1, <1>8, EndRoundKeeps
<1>9. CASE UNCHANGED followVars
  BY <1>1, <1>9, OthersKeepFollow
<1>. QED
  BY <1>2, <1>3, <1>4, <1>5, <1>6, <1>7, <1>8, <1>9 DEF FollowNext

\* The follower's loop and memory have the types their interfaces declare.
THEOREM FollowTypeCorrect == FollowWalletSpec => [](LeaderTypeOK /\ FollowTypeOK)
<1>1. FollowInv => LeaderTypeOK /\ FollowTypeOK
  BY DEF FollowInv
<1>. QED
  BY <1>1, FollowStarts, FollowKeeps, PTL DEF FollowWalletSpec

\* However often cycles throw and forget, and whatever the owner does by hand
\* meanwhile, a day spends one budget and one more for each cycle that threw
\* (wallet-state.ts:28-36, runner.ts:193-198).
THEOREM SpendingStaysBounded == FollowWalletSpec => []SpendingBounded
<1>1. ASSUME FollowInv PROVE SpendingBounded
  <2>1. FollowTypeOK
    BY <1>1 DEF FollowInv
  <2>2. PICK budget \in Nat, more \in Nat :
            budget = DayBudget /\ more = lost * DayBudget /\ lost \in Nat /\ spent \in Nat
            /\ memory.deployed \in Nat
    BY <2>1, BudgetNat
  <2>3. spent <= budget + more
    <3>1. CASE round.step = "executing"
      <4>1. /\ spent <= memory.deployed + round.deployed + more
            /\ memory.deployed + round.deployed <= budget
        BY <1>1, <2>2, <3>1 DEF FollowInv, Foreseen
      <4>2. round.deployed \in Nat
        BY <2>1, <3>1, RoundShape DEF ActingRound
      <4>. QED
        BY <2>2, <4>1, <4>2
    <3>2. CASE round.step # "executing"
      <4>1. spent <= memory.deployed + more /\ memory.deployed <= budget
        BY <1>1, <2>2, <3>2 DEF FollowInv, Remembered
      <4>. QED
        BY <2>2, <4>1
    <3>. QED
      BY <3>1, <3>2
  <2>4. (1 + lost) * budget = budget + more
    BY <2>2
  <2>. QED
    BY <2>2, <2>3, <2>4 DEF SpendingBounded, DayBudget
<1>. QED
  BY <1>1, FollowStarts, FollowKeeps, PTL DEF FollowWalletSpec
----------------------------------------------------------------------------
(* An exit that is all of an asset in a batch.  Until its intent is executed *)
(* the wallet holds what it held before the cycle; after it, or when there   *)
(* is none, no more than the part the leader kept.                           *)

NoneOf(intents, a) == \A i \in 1..Len(intents) : intents[i].asset # a

OneExit(intents, a, A, h, s) ==
    \E j \in 1..Len(intents) :
        /\ intents[j].asset = a /\ intents[j].kind = "sell"
        /\ PartKept(A - Of(intents[j].fraction, A), A, h, s)
        /\ \A i \in 1..Len(intents) : intents[i].asset = a => i = j

Due(intents, a, left, A, h, s) ==
    \/ NoneOf(intents, a) /\ PartKept(left, A, h, s)
    \/ left = A /\ OneExit(intents, a, A, h, s)

LEMMA NoneAppended ==
    ASSUME NEW intents \in Seq(MirrorIntent), NEW x, NEW a, NoneOf(intents, a), x.asset # a
    PROVE  NoneOf(Append(intents, x), a)
<1>1. /\ Len(Append(intents, x)) = Len(intents) + 1 /\ Len(intents) \in Nat
      /\ \A i \in 1..Len(intents) : Append(intents, x)[i] = intents[i]
      /\ Append(intents, x)[Len(intents) + 1] = x
  OBVIOUS
<1>2. \A i \in 1..(Len(intents) + 1) : i \in 1..Len(intents) \/ i = Len(intents) + 1
  BY <1>1
<1>. QED
  BY <1>1, <1>2 DEF NoneOf

LEMMA ExitAppended ==
    ASSUME NEW intents \in Seq(MirrorIntent), NEW x, NEW a, NEW A, NEW h, NEW s,
           NoneOf(intents, a), x.asset = a, x.kind = "sell",
           PartKept(A - Of(x.fraction, A), A, h, s)
    PROVE  OneExit(Append(intents, x), a, A, h, s)
<1>1. /\ Len(Append(intents, x)) = Len(intents) + 1 /\ Len(intents) \in Nat
      /\ \A i \in 1..Len(intents) : Append(intents, x)[i] = intents[i]
      /\ Append(intents, x)[Len(intents) + 1] = x
  OBVIOUS
<1>2. /\ \A i \in 1..(Len(intents) + 1) : i \in 1..Len(intents) \/ i = Len(intents) + 1
      /\ Len(intents) + 1 \in 1..(Len(intents) + 1)
  BY <1>1
<1>3. \A i \in 1..(Len(intents) + 1) : Append(intents, x)[i].asset = a => i = Len(intents) + 1
  BY <1>1, <1>2 DEF NoneOf
<1>. QED
  BY <1>1, <1>2, <1>3 DEF OneExit

LEMMA ElseAppended ==
    ASSUME NEW intents \in Seq(MirrorIntent), NEW x, NEW a, NEW A, NEW h, NEW s,
           OneExit(intents, a, A, h, s), x.asset # a
    PROVE  OneExit(Append(intents, x), a, A, h, s)
<1>1. /\ Len(Append(intents, x)) = Len(intents) + 1 /\ Len(intents) \in Nat
      /\ \A i \in 1..Len(intents) : Append(intents, x)[i] = intents[i]
      /\ Append(intents, x)[Len(intents) + 1] = x
  OBVIOUS
<1>2. /\ \A i \in 1..(Len(intents) + 1) : i \in 1..Len(intents) \/ i = Len(intents) + 1
      /\ \A i \in 1..Len(intents) : i \in 1..(Len(intents) + 1)
  BY <1>1
<1>3. PICK j \in 1..Len(intents) :
          /\ intents[j].asset = a /\ intents[j].kind = "sell"
          /\ PartKept(A - Of(intents[j].fraction, A), A, h, s)
          /\ \A i \in 1..Len(intents) : intents[i].asset = a => i = j
  BY DEF OneExit
<1>4. \A i \in 1..(Len(intents) + 1) : Append(intents, x)[i].asset = a => i = j
  BY <1>1, <1>2, <1>3
<1>5. Append(intents, x)[j] = intents[j] /\ j \in 1..(Len(intents) + 1)
  BY <1>1, <1>2
<1>. QED
  BY <1>1, <1>3, <1>4, <1>5 DEF OneExit

\* What is due after the first intent.
LEMMA DueTail ==
    ASSUME NEW intents \in Seq(MirrorIntent), intents # <<>>, NEW a, NEW left, NEW A, NEW h, NEW s,
           Due(intents, a, left, A, h, s)
    PROVE  /\ Head(intents).asset # a => Due(Tail(intents), a, left, A, h, s)
           /\ Head(intents).asset = a =>
                 /\ left = A /\ Head(intents).kind = "sell"
                 /\ PartKept(A - Of(Head(intents).fraction, A), A, h, s)
                 /\ NoneOf(Tail(intents), a)
<1>1. PICK n \in Nat : n + 1 = Len(intents)
  <2>1. Len(intents) \in Nat \ {0}
    BY EmptySeq
  <2>. QED
    BY <2>1, OneLess
<1>2. /\ Head(intents) = intents[1] /\ Len(Tail(intents)) = n
      /\ \A i \in 1..n : Tail(intents)[i] = intents[i + 1]
  BY <1>1, HeadTailProperties
<1>3. /\ 1 \in 1..(n + 1)
      /\ \A i \in 1..n : i + 1 \in 1..(n + 1) /\ i + 1 # 1
      /\ \A j \in 1..(n + 1) : j # 1 => j - 1 \in 1..n /\ (j - 1) + 1 = j
  OBVIOUS
<1>4. CASE NoneOf(intents, a) /\ PartKept(left, A, h, s)
  <2>1. Head(intents).asset # a /\ NoneOf(Tail(intents), a)
    BY <1>1, <1>2, <1>3, <1>4 DEF NoneOf
  <2>. QED
    BY <1>4, <2>1 DEF Due
<1>5. CASE left = A /\ OneExit(intents, a, A, h, s)
  <2>1. PICK j \in 1..(n + 1) :
            /\ intents[j].asset = a /\ intents[j].kind = "sell"
            /\ PartKept(A - Of(intents[j].fraction, A), A, h, s)
            /\ \A i \in 1..(n + 1) : intents[i].asset = a => i = j
    BY <1>1, <1>5 DEF OneExit
  <2>2. CASE j = 1
    <3>1. NoneOf(Tail(intents), a)
      BY <1>2, <1>3, <2>1, <2>2 DEF NoneOf
    <3>. QED
      BY <1>2, <1>5, <2>1, <2>2, <3>1
  <2>3. CASE j # 1
    <3>1. Head(intents).asset # a
      BY <1>2, <1>3, <2>1, <2>3
    <3>2. PICK k \in 1..n : k = j - 1 /\ Tail(intents)[k] = intents[j]
      BY <1>2, <1>3, <2>3
    <3>3. \A i \in 1..n : Tail(intents)[i].asset = a => i = k
      <4>1. SUFFICES ASSUME NEW i \in 1..n, Tail(intents)[i].asset = a PROVE i = k
        OBVIOUS
      <4>2. i + 1 \in 1..(n + 1) /\ intents[i + 1].asset = a
        BY <1>2, <1>3, <4>1
      <4>3. i + 1 = j
        BY <2>1, <4>2
      <4>. QED
        BY <3>2, <4>3
    <3>4. OneExit(Tail(intents), a, A, h, s)
      BY <1>2, <2>1, <3>2, <3>3 DEF OneExit
    <3>. QED
      BY <1>5, <3>1, <3>4 DEF Due
  <2>. QED
    BY <2>2, <2>3
<1>. QED
  BY <1>4, <1>5 DEF Due

\* The k-th trade of a batch exits a, and no other trades it.
Lone(trades, a, k, processed) ==
    /\ k \in 1..Len(trades)
    /\ trades[k].asset = a /\ trades[k].side = "sell" /\ trades[k].id \notin processed
    /\ \A i \in 1..Len(trades) : trades[i].asset = a => i = k

LEMMA LonePlan ==
    ASSUME NEW planned, NEW p, NEW trades, NEW book, NEW vault, NEW markets, NEW processed,
           NEW marks, NEW at,
           Plannable(p, trades, book, vault, markets, processed, at),
           Unfolds(planned, p, trades, book, vault, markets, processed, marks, at),
           DistinctIds(trades), NEW a \in Assets, NEW k, Lone(trades, a, k, processed)
    PROVE  LET A == Amount(vault, a)
           IN  Due(planned[Len(trades)].intents, a, A, A, book.hold[a], trades[k].amount)
<1> DEFINE Before(n) == NoneOf(planned[n].intents, a) /\ Amount(planned[n].vault, a) = Amount(vault, a)
           After0(n) == Due(planned[n].intents, a, Amount(vault, a), Amount(vault, a),
                            book.hold[a], trades[k].amount)
           Good == {n \in Nat : n <= Len(trades) =>
                       (n < k => Before(n)) /\ (n >= k => After0(n))}
<1>1. /\ trades \in Seq(LeaderTrade) /\ book \in LeaderBook /\ vault \in VaultState
      /\ at \in Nat /\ p \in Policies /\ Len(trades) \in Nat
  BY DEF Plannable
<1>2. PICK N \in Nat : N = Len(trades)
  BY <1>1
<1>3. k \in 1..N
  BY <1>2 DEF Lone
<1>4. PICK h \in Nat, A \in Nat : h = book.hold[a] /\ A = Amount(vault, a)
  BY <1>1, AmountNat DEF LeaderBook
<1>5. PICK s \in Nat : s = trades[k].amount
  <2>1. trades[k] \in LeaderTrade
    BY <1>1, <1>2, <1>3
  <2>. QED
    BY <2>1 DEF LeaderTrade
<1>6. 0 \in Good
  <2>1. planned[0].vault = vault /\ planned[0].intents = <<>>
    BY DEF Unfolds, Empty
  <2>2. Before(0)
    BY <2>1 DEF NoneOf
  <2>. QED
    BY <1>3, <2>2
<1>7. ASSUME NEW n \in Nat, n \in Good PROVE n + 1 \in Good
  <2>1. SUFFICES ASSUME n + 1 <= N
                 PROVE  (n + 1 < k => Before(n + 1)) /\ (n + 1 >= k => After0(n + 1))
    BY <1>2
  <2>2. (n < k => Before(n)) /\ (n >= k => After0(n))
    BY <1>2, <1>7, <2>1
  <2> DEFINE acc == planned[n]
             next == planned[n + 1]
  <2>3. /\ acc.vault \in VaultState /\ acc.intents \in Seq(MirrorIntent)
        /\ next.vault \in VaultState /\ next.intents \in Seq(MirrorIntent)
    <3>1. n <= Len(trades) /\ n + 1 <= Len(trades) /\ n + 1 \in Nat
      BY <1>2, <2>1
    <3>. QED
      BY <3>1, PlanCarries DEF Carried
  <2>4. PICK trade \in LeaderTrade : trade = trades[n + 1] /\ Stepped(p, at, acc, next, trade)
    BY <1>2, <2>1, <2>3, PlanSteps
  <2>5. next = acc \/ \E x \in MirrorIntent : /\ next.intents = Append(acc.intents, x)
                                              /\ OfTrade(x, trade)
    BY <2>4 DEF Stepped, Adds
  <2>6. CASE n + 1 = k
    <3>1. Before(n)
      BY <1>3, <2>2, <2>6
    <3>2. /\ trade.asset = a /\ trade.side = "sell" /\ trade.amount = s
          /\ trade.id \notin processed
      BY <1>5, <2>4, <2>6 DEF Lone
    <3>3. trade.id \notin acc.processed
      BY <1>2, <2>1, <2>4, <3>2, NotYetMarked
    <3>4. next = PlanTrade(acc, p, trade, book, markets, at, checkBreakers(p, vault, marks, book))
      BY <1>2, <2>1, <2>4 DEF Unfolds
    <3>5. Exits(acc, next, trade, book.hold[trade.asset])
      BY <1>1, <2>3, <3>2, <3>3, <3>4, SalePlanned
    <3>6. /\ PartKept(Amount(next.vault, a), A, h, s)
          /\ \A x \in MirrorIntent :
                x.kind = "sell" /\ x.asset = a /\ next.intents = Append(acc.intents, x)
                    => PartKept(A - Of(x.fraction, A), A, h, s)
      BY <1>4, <3>1, <3>2, <3>5 DEF Exits
    <3> HIDE DEF acc, next
    <3>7. CASE next = acc
      <4>1. PartKept(A, A, h, s) /\ NoneOf(next.intents, a)
        BY <1>4, <3>1, <3>6, <3>7 DEF acc
      <4>. QED
        BY <1>4, <1>5, <2>6, <4>1 DEF Due, next
    <3>8. ASSUME NEW x \in MirrorIntent, next.intents = Append(acc.intents, x), OfTrade(x, trade)
          PROVE  After0(n + 1)
      <4>1. x.kind = "sell" /\ x.asset = a
        BY <3>2, <3>8 DEF OfTrade
      <4>2. PartKept(A - Of(x.fraction, A), A, h, s)
        BY <3>6, <3>8, <4>1
      <4>3. NoneOf(acc.intents, a)
        BY <3>1 DEF acc
      <4>4. OneExit(next.intents, a, A, h, s)
        BY <2>3, <3>8, <4>1, <4>2, <4>3, ExitAppended
      <4>. QED
        BY <1>4, <1>5, <4>4 DEF Due, next
    <3>. QED
      BY <2>5, <2>6, <3>7, <3>8 DEF next
  <2>7. CASE n + 1 # k
    <3>1. trade.asset # a
      <4>1. n + 1 \in 1..N
        BY <2>1
      <4>. QED
        BY <1>2, <2>4, <2>7, <4>1 DEF Lone
    <3>2. Amount(next.vault, a) = Amount(acc.vault, a)
      BY <1>1, <2>3, <2>4, <3>1, StepAmounts
    <3>3. next = acc \/ \E x \in MirrorIntent : next.intents = Append(acc.intents, x) /\ x.asset # a
      BY <2>5, <3>1 DEF OfTrade
    <3>4. NoneOf(acc.intents, a) => NoneOf(next.intents, a)
      <4> HIDE DEF acc, next
      <4>1. CASE next = acc
        BY <4>1
      <4>2. ASSUME NEW x \in MirrorIntent, next.intents = Append(acc.intents, x), x.asset # a,
                   NoneOf(acc.intents, a)
            PROVE  NoneOf(next.intents, a)
        <5>1. NoneOf(Append(acc.intents, x), a)
          BY <2>3, <4>2, NoneAppended
        <5>. QED
          BY <4>2, <5>1
      <4>. QED
        BY <3>3, <4>1, <4>2
    <3>5. Due(acc.intents, a, A, A, h, s) => Due(next.intents, a, A, A, h, s)
      <4>1. OneExit(acc.intents, a, A, h, s) => OneExit(next.intents, a, A, h, s)
        <5> HIDE DEF acc, next
        <5>. QED
          BY <2>3, <3>3, ElseAppended
      <4>. QED
        BY <3>4, <4>1 DEF Due
    <3>6. CASE n + 1 < k
      <4>1. Before(n)
        BY <1>3, <2>2, <3>6
      <4>. QED
        BY <1>3, <3>2, <3>4, <3>6, <4>1
    <3>7. CASE n >= k
      <4>1. After0(n)
        BY <2>2, <3>7
      <4>. QED
        BY <1>3, <1>4, <1>5, <3>5, <3>7, <4>1
    <3>. QED
      BY <1>3, <2>7, <3>6, <3>7
  <2>. QED
    BY <2>6, <2>7
<1>8. Nat \subseteq Good
  <2> HIDE DEF Good
  <2>. QED
    BY <1>6, <1>7, SuccessorInduction
<1>9. After0(N)
  BY <1>2, <1>3, <1>8
<1>. QED
  BY <1>2, <1>9

\* While nothing was refused and the owner has not stepped in, each exit that is
\* all of its asset in the batch is still due, or done.
Exiting ==
    round.step \in {"executing", "report"} /\ hand = 0 /\ ~round.refused /\ ~terms.paused =>
        \A a \in Held(round.before) : \A k \in DOMAIN round.trades :
            LoneExit(a, k) =>
                Due(round.intents, a, Amount(wallet, a), Amount(round.before, a),
                    round.book.hold[a], round.trades[k].amount)

RoundDistinct ==
    round.step = "reading" /\ round.trades # NotRead => DistinctIds(round.trades)

\* A cycle ends when its intents do.
Finished == round.step = "report" => round.intents = <<>>

ExitInv == FollowInv /\ Numbered /\ RoundDistinct /\ Exiting /\ Finished

LEMMA WalletAmountNat ==
    ASSUME wallet \in WalletBook, NEW a \in Assets
    PROVE  Amount(wallet, a) \in Nat
<1>1. IsBook(wallet.pos)
  BY DEF WalletBook, IsBook
<1>. QED
  BY <1>1, BookReads

\* What a landed intent does to the amounts.
LEMMA LandedAmounts ==
    ASSUME FollowInv, Executing, Executable
    PROVE  /\ \A b \in Assets : b # Intent.asset => Amount(Landed, b) = Amount(wallet, b)
           /\ Intent.kind = "sell" =>
                 Amount(Landed, Intent.asset) = Amount(wallet, Intent.asset) - ToSell
<1>1. /\ FollowTypeOK /\ wallet \in WalletBook /\ IsBook(wallet.pos)
  BY DEF FollowInv, FollowTypeOK, WalletBook, IsBook
<1>2. /\ round \in ActingRound /\ Intent \in MirrorIntent /\ Intent.asset \in Assets
  BY <1>1, IntentTyped
<1>3. PICK a \in Assets, m \in Nat : a = Intent.asset /\ m = Amount(wallet, a)
  BY <1>1, <1>2, BookReads
<1>4. Landed \in WalletBook /\ IsBook(Landed.pos)
  BY LandedWallet DEF WalletBook, IsBook
<1>5. ASSUME NEW q, NEW x \in Position \cup {NoPos},
             Landed = [quote |-> q, pos |-> [wallet.pos EXCEPT ![a] = x]]
      PROVE  Changed(wallet, Landed, a, x)
  <2>1. Landed.pos = [wallet.pos EXCEPT ![a] = x]
    BY <1>5
  <2>. QED
    BY <1>1, <1>4, <2>1 DEF Changed, IsBook
<1>6. CASE Intent.kind = "buy"
  <2>1. PICK usd \in Nat, u \in Nat : usd = Intent.usd /\ u = Usd(wallet, a)
    BY <1>1, <1>2, <1>6, BookReads DEF MirrorIntent
  <2>2. PICK x \in Position : x = [amount |-> m + usd, usd |-> u + usd]
    <3>1. [amount |-> m + usd, usd |-> u + usd] \in Position
      BY <2>1 DEF Position
    <3>. QED
      BY <3>1
  <2>3. Landed = [quote |-> wallet.quote - usd, pos |-> [wallet.pos EXCEPT ![a] = x]]
    BY <1>3, <1>6, <2>1, <2>2 DEF Landed
  <2>4. Changed(wallet, Landed, a, x)
    BY <1>5, <2>3
  <2>5. \A b \in Assets : b # a => Amount(Landed, b) = Amount(wallet, b)
    BY <2>4, ChangedReads
  <2>. QED
    BY <1>3, <1>6, <2>5
<1>7. CASE Intent.kind # "buy"
  <2>1. PICK n, value : n = ToSell /\ value = (Usd(wallet, a) * n) \div m
    OBVIOUS
  <2>2. n > 0 /\ n <= m
    BY <1>3, <1>7, <2>1 DEF Executable
  <2>3. n \in Nat
    <3>1. Intent.fraction \in Fraction
      BY <1>2, <1>7 DEF MirrorIntent
    <3>2. round.before \in VaultState
      BY <1>2 DEF ActingRound
    <3>3. Amount(round.before, a) \in Nat
      BY <3>2, AmountNat
    <3>. QED
      BY <1>3, <2>1, <3>1, <3>3, OfBelow DEF ToSell, PositionAmount
  <2>4. PICK u \in Nat : u = Usd(wallet, a) /\ value \in Nat /\ value <= u
    <3>1. PICK u \in Nat : u = Usd(wallet, a)
      BY <1>1, BookReads
    <3>. QED
      BY <2>1, <2>2, <2>3, <3>1, SaleValue
  <2>5. a \in Held(wallet) /\ wallet.pos[a].usd = u /\ wallet.pos[a].amount = m
    <3>1. m # 0
      BY <2>2, <2>3
    <3>2. a \in Held(wallet)
      BY <1>1, <1>3, <3>1, BookReads
    <3>. QED
      BY <1>1, <1>3, <2>4, <3>2, BookReads
  <2>6. CASE n = m
    <3>1. Landed = [quote |-> wallet.quote + value, pos |-> [wallet.pos EXCEPT ![a] = NoPos]]
      BY <1>3, <1>7, <2>1, <2>6 DEF Landed
    <3>2. Changed(wallet, Landed, a, NoPos)
      BY <1>5, <3>1
    <3>3. \A b \in Assets : b # a => Amount(Landed, b) = Amount(wallet, b)
      BY <3>2, ChangedReads
    <3>4. Amount(Landed, a) = 0
      BY <3>2, ChangedAmount
    <3>. QED
      BY <1>3, <2>1, <2>6, <3>3, <3>4
  <2>7. CASE n # m
    <3>1. PICK x \in Position : x = [amount |-> m - n, usd |-> u - value] /\ x.amount = m - n
      <4>1. m - n \in Nat /\ u - value \in Nat
        BY <2>2, <2>3, <2>4
      <4>2. [amount |-> m - n, usd |-> u - value] \in Position
        BY <4>1 DEF Position
      <4>. QED
        BY <4>2
    <3>2. Landed = [quote |-> wallet.quote + value, pos |-> [wallet.pos EXCEPT ![a] = x]]
      <4>1. Landed = [quote |-> wallet.quote + value,
                      pos |-> [wallet.pos EXCEPT ![a] = [amount |-> @.amount - n, usd |-> @.usd - value]]]
        BY <1>3, <1>7, <2>1, <2>7 DEF Landed
      <4>. QED
        BY <2>5, <3>1, <4>1
    <3>3. Changed(wallet, Landed, a, x)
      BY <1>5, <3>2
    <3>4. \A b \in Assets : b # a => Amount(Landed, b) = Amount(wallet, b)
      BY <3>3, ChangedReads
    <3>5. Amount(Landed, a) = m - n
      BY <3>1, <3>3, ChangedAmount
    <3>. QED
      BY <1>3, <2>1, <3>4, <3>5
  <2>. QED
    BY <2>6, <2>7
<1>. QED
  BY <1>6, <1>7

\* What the engine counts of the wallet is what the wallet holds.
LEMMA CountedAmount ==
    ASSUME NEW mem, NEW v, v = vaultStateFromWallet(mem), NEW a \in Held(v)
    PROVE  a \in Assets /\ Amount(v, a) = Amount(wallet, a)
<1> DEFINE counted == {b \in Held(wallet) : wallet.pos[b].usd >= DUST_USD /\ wallet.pos[b].amount > 0}
<1>1. v.pos = [b \in Assets |-> IF b \in counted THEN wallet.pos[b] ELSE NoPos]
  BY DEF vaultStateFromWallet
<1>2. a \in Assets /\ v.pos[a] # NoPos
  BY DEF Held
<1>3. a \in counted /\ v.pos[a] = wallet.pos[a]
  <2> HIDE DEF counted
  <2>. QED
    BY <1>1, <1>2
<1>4. a \in Held(wallet)
  BY <1>3
<1>. QED
  BY <1>2, <1>3, <1>4 DEF Amount

LEMMA ExitStarts == LeaderInit /\ FollowInit => ExitInv
<1> SUFFICES ASSUME LeaderInit, FollowInit PROVE ExitInv
  OBVIOUS
<1>1. tape = <<>> /\ round = Waiting
  BY DEF LeaderInit, FollowInit
<1>2. Numbered
  BY <1>1 DEF Numbered
<1>. QED
  BY <1>1, <1>2, FollowStarts DEF ExitInv, RoundDistinct, Exiting, Finished, Waiting

\* A cycle that is not executing owes nothing; the owner's own moves excuse it.
LEMMA ReadsExit ==
    ASSUME ExitInv, FollowInv', Numbered',
           \/ StartCycle \/ WatcherAnswers \/ LeaderBookAnswers \/ Reported
           \/ UNCHANGED followVars
           \/ \E landed \in BOOLEAN : Throws(landed)
    PROVE  ExitInv'
<1>1. CASE StartCycle
  <2>1. round'.step = "reading" /\ round'.trades = NotRead
    BY <1>1 DEF StartCycle
  <2>. QED
    BY <2>1 DEF ExitInv, RoundDistinct, Exiting, Finished
<1>2. CASE WatcherAnswers
  <2>1. sub.cursor \in Nat /\ LeaderTypeOK /\ Numbered /\ round \in ReadingRound
    <3>1. FollowTypeOK /\ LeaderTypeOK /\ Numbered /\ round.step = "reading"
      BY <1>2 DEF ExitInv, FollowInv, WatcherAnswers
    <3>. QED
      BY <3>1, RoundShape DEF FollowTypeOK, Subscriber
  <2>2. PICK trades, late : trades = poll(sub.cursor).trades /\ late = (round.book = NotRead)
    OBVIOUS
  <2>3. round' = [round EXCEPT !.trades = trades, !.late = late]
    BY <1>2, <2>2 DEF WatcherAnswers
  <2>4. round'.step = "reading" /\ round'.trades = trades
    BY <2>1, <2>3 DEF ReadingRound
  <2>5. DistinctIds(trades)
    BY <2>1, <2>2, PollDistinct
  <2>. QED
    BY <2>4, <2>5 DEF ExitInv, RoundDistinct, Exiting, Finished
<1>3. CASE LeaderBookAnswers
  <2>1. round \in ReadingRound
    <3>1. FollowTypeOK /\ round.step = "reading"
      BY <1>3 DEF ExitInv, FollowInv, LeaderBookAnswers
    <3>. QED
      BY <3>1, RoundShape
  <2>2. round' = [round EXCEPT !.book = leader]
    BY <1>3 DEF LeaderBookAnswers
  <2>3. round'.step = "reading" /\ round'.trades = round.trades /\ round.step = "reading"
    BY <2>1, <2>2 DEF ReadingRound
  <2>. QED
    BY <2>3 DEF ExitInv, RoundDistinct, Exiting, Finished
<1>4. CASE Reported \/ \E landed \in BOOLEAN : Throws(landed)
  <2>1. round' = Waiting
    BY <1>4 DEF Reported, Throws
  <2>. QED
    BY <2>1 DEF ExitInv, RoundDistinct, Exiting, Finished, Waiting
<1>5. CASE UNCHANGED followVars
  <2>1. round' = round /\ wallet' = wallet /\ hand' = hand /\ terms' = terms
    BY <1>5 DEF followVars
  <2>. QED
    BY <2>1 DEF ExitInv, RoundDistinct, Exiting, Finished, LoneExit
<1>. QED
  BY <1>1, <1>2, <1>3, <1>4, <1>5

LEMMA OwnerExits ==
    ASSUME ExitInv, FollowInv', Numbered', NEW a \in Assets, OwnerSells(a) \/ Devalued(a)
    PROVE  ExitInv'
<1>1. hand' = hand + 1 /\ round' = round /\ hand \in Nat
  <2>1. hand \in 0..MaxHand
    BY DEF ExitInv, FollowInv, FollowTypeOK
  <2>. QED
    BY <2>1, FollowWalletAssumption DEF OwnerSells, Devalued
<1>2. hand' # 0
  BY <1>1
<1>. QED
  BY <1>1, <1>2 DEF ExitInv, RoundDistinct, Exiting, Finished

LEMMA PlanExits ==
    ASSUME ExitInv, FollowInv', Numbered', PlanRound
    PROVE  ExitInv'
<1>1. FollowInv /\ round.step = "reading" /\ DistinctIds(round.trades)
  BY DEF ExitInv, RoundDistinct, PlanRound
<1>2. PICK day, mem, before, markets : RoundMade(day, mem, before, markets)
  BY <1>1, PlanRoundMade
<1>3. PICK intents : intents = IntentsFor(before, markets)
  OBVIOUS
<1>4. round' = PlannedRound(before, intents) /\ UNCHANGED <<terms, wallet, lost, hand>>
  BY <1>2, <1>3 DEF RoundMade
<1>5. /\ round'.step = "executing" /\ round'.trades = round.trades /\ round'.book = round.book
      /\ round'.before = before /\ round'.intents = intents /\ round'.seen = sub.processed
  BY <1>4 DEF PlannedRound
<1>6. /\ Plannable(terms, round.trades, round.book, before, markets, sub.processed, round.at)
      /\ checkBreakers(terms, before, MarksNow(before), round.book) # "max-drawdown"
      /\ before = vaultStateFromWallet(mem) /\ round.trades \in Seq(LeaderTrade)
  BY <1>2 DEF RoundMade
<1>7. ASSUME ~terms.paused, NEW a \in Held(before), NEW k \in DOMAIN round.trades,
             Lone(round.trades, a, k, sub.processed)
      PROVE  Due(intents, a, Amount(wallet, a), Amount(before, a), round.book.hold[a],
                 round.trades[k].amount)
  <2>1. a \in Assets /\ Amount(before, a) = Amount(wallet, a)
    BY <1>6, <1>7, CountedAmount
  <2>2. PICK planned : Unfolds(planned, terms, round.trades, round.book, before, markets,
                               sub.processed, MarksNow(before), round.at)
    BY <1>6, PlanUnfolds
  <2>3. intents = planned[Len(round.trades)].intents
    <3>1. checkBreakers(terms, before, MarksNow(before), round.book) # "paused"
      BY <1>7 DEF checkBreakers
    <3>. QED
      BY <1>3, <2>2, <3>1 DEF Unfolds, IntentsFor
  <2>4. Due(planned[Len(round.trades)].intents, a, Amount(before, a), Amount(before, a),
            round.book.hold[a], round.trades[k].amount)
    BY <1>1, <1>6, <1>7, <2>1, <2>2, LonePlan
  <2>. QED
    BY <2>1, <2>3, <2>4
<1>8. ASSUME NEW a, NEW k, LoneExit(a, k)', k \in DOMAIN round.trades
      PROVE  Lone(round.trades, a, k, sub.processed)
  <2>1. DOMAIN round.trades = 1..Len(round.trades)
    BY <1>6
  <2>. QED
    BY <1>5, <1>8, <2>1 DEF LoneExit, Lone
<1>9. Exiting'
  BY <1>4, <1>5, <1>7, <1>8 DEF Exiting
<1>. QED
  BY <1>5, <1>9 DEF ExitInv, RoundDistinct, Finished

\* What is due, asset by asset, before and after an intent.
LEMMA StillDue ==
    ASSUME ExitInv, Executing, hand = 0, ~round.refused, ~terms.paused,
           NEW a \in Held(round.before), NEW k \in DOMAIN round.trades, LoneExit(a, k)
    PROVE  LET A == Amount(round.before, a)
               h == round.book.hold[a]
               s == round.trades[k].amount
           IN  /\ A \in Nat
               /\ Intent.asset # a => Due(Tail(round.intents), a, Amount(wallet, a), A, h, s)
               /\ Intent.asset = a =>
                     /\ Amount(wallet, a) = A /\ Intent.kind = "sell"
                     /\ PartKept(A - ToSell, A, h, s)
                     /\ NoneOf(Tail(round.intents), a)
<1> DEFINE A == Amount(round.before, a)
           h == round.book.hold[a]
           s == round.trades[k].amount
<1>1. /\ round \in ActingRound /\ round.step = "executing" /\ round.intents # <<>>
      /\ round.intents \in Seq(MirrorIntent)
  <2>1. FollowTypeOK
    BY DEF ExitInv, FollowInv
  <2>. QED
    BY <2>1, IntentTyped
<1>2. a \in Assets /\ A \in Nat
  <2>1. round.before \in VaultState
    BY <1>1 DEF ActingRound
  <2>. QED
    BY <2>1, AmountNat DEF Held
<1>3. Due(round.intents, a, Amount(wallet, a), A, h, s)
  BY <1>1 DEF ExitInv, Exiting
<1> HIDE DEF h, s
<1>4. /\ Intent.asset # a => Due(Tail(round.intents), a, Amount(wallet, a), A, h, s)
      /\ Intent.asset = a =>
            /\ Amount(wallet, a) = A /\ Intent.kind = "sell"
            /\ PartKept(A - Of(Intent.fraction, A), A, h, s)
            /\ NoneOf(Tail(round.intents), a)
  <2> HIDE DEF A
  <2>. QED
    BY <1>1, <1>3, DueTail DEF Intent
<1>5. Intent.asset = a => ToSell = Of(Intent.fraction, A)
  BY DEF ToSell, PositionAmount
<1>. QED
  BY <1>2, <1>4, <1>5 DEF h, s

LEMMA FillsExit ==
    ASSUME ExitInv, FollowInv', Numbered', Fills
    PROVE  ExitInv'
<1>1. FollowInv /\ Executing /\ Executable
  BY DEF ExitInv, Fills
<1>2. PICK n : n = round.deployed + Cost
  OBVIOUS
<1>3. /\ wallet' = Landed
      /\ round' = [round EXCEPT !.intents = Tail(round.intents), !.deployed = n, !.filled = TRUE]
      /\ UNCHANGED <<terms, hand>>
  BY <1>2 DEF Fills
<1>4. /\ round'.step = "executing" /\ round'.intents = Tail(round.intents)
      /\ round'.trades = round.trades /\ round'.book = round.book
      /\ round'.before = round.before /\ round'.seen = round.seen
      /\ round'.refused = round.refused
  <2>1. round \in ActingRound /\ round.step = "executing"
    BY <1>1, IntentTyped DEF FollowInv
  <2>. QED
    BY <1>3, <2>1 DEF ActingRound
<1>5. ASSUME hand = 0, ~round.refused, ~terms.paused,
             NEW a \in Held(round.before), NEW k \in DOMAIN round.trades, LoneExit(a, k)
      PROVE  Due(Tail(round.intents), a, Amount(Landed, a), Amount(round.before, a),
                 round.book.hold[a], round.trades[k].amount)
  <2>1. CASE Intent.asset # a
    <3>1. Amount(Landed, a) = Amount(wallet, a)
      BY <1>1, <2>1, LandedAmounts DEF Held
    <3>. QED
      BY <1>1, <1>5, <2>1, <3>1, StillDue
  <2>2. CASE Intent.asset = a
    <3>1. /\ Amount(wallet, a) = Amount(round.before, a) /\ Intent.kind = "sell"
          /\ PartKept(Amount(round.before, a) - ToSell, Amount(round.before, a),
                      round.book.hold[a], round.trades[k].amount)
          /\ NoneOf(Tail(round.intents), a)
      BY <1>1, <1>5, <2>2, StillDue
    <3>2. Amount(Landed, a) = Amount(round.before, a) - ToSell
      BY <1>1, <2>2, <3>1, LandedAmounts
    <3>. QED
      BY <3>1, <3>2 DEF Due
  <2>. QED
    BY <2>1, <2>2
<1>6. Exiting'
  BY <1>3, <1>4, <1>5 DEF Exiting, LoneExit
<1>. QED
  BY <1>4, <1>6 DEF ExitInv, RoundDistinct, Finished

\* An exit that cannot be executed asks for nothing.
LEMMA RefusedExits ==
    ASSUME ExitInv, FollowInv', Numbered', Refused
    PROVE  ExitInv'
<1>1. FollowInv /\ Executing /\ FollowTypeOK
  BY DEF ExitInv, FollowInv, Refused
<1>2. PICK refused \in BOOLEAN : refused = (round.refused \/ Executable)
  OBVIOUS
<1>3. /\ round' = [round EXCEPT !.intents = Tail(round.intents), !.refused = refused]
      /\ UNCHANGED <<terms, wallet, hand>>
  BY <1>2 DEF Refused
<1>4. /\ round'.step = "executing" /\ round'.intents = Tail(round.intents)
      /\ round'.trades = round.trades /\ round'.book = round.book
      /\ round'.before = round.before /\ round'.seen = round.seen
      /\ round'.refused = refused
  <2>1. round \in ActingRound /\ round.step = "executing"
    BY <1>1, IntentTyped
  <2>. QED
    BY <1>3, <2>1 DEF ActingRound
<1>5. ASSUME hand = 0, ~refused, ~terms.paused,
             NEW a \in Held(round.before), NEW k \in DOMAIN round.trades, LoneExit(a, k)
      PROVE  Due(Tail(round.intents), a, Amount(wallet, a), Amount(round.before, a),
                 round.book.hold[a], round.trades[k].amount)
  <2>1. ~round.refused /\ ~Executable
    BY <1>2, <1>5
  <2>2. CASE Intent.asset # a
    BY <1>1, <1>5, <2>1, <2>2, StillDue
  <2>3. CASE Intent.asset = a
    <3>1. PICK A \in Nat :
              /\ A = Amount(round.before, a)
              /\ Amount(wallet, a) = A /\ Intent.kind = "sell"
              /\ PartKept(A - ToSell, A, round.book.hold[a], round.trades[k].amount)
              /\ NoneOf(Tail(round.intents), a)
      BY <1>1, <1>5, <2>1, <2>3, StillDue
    <3>2. ToSell \in Nat /\ ToSell <= A
      <4>1. Intent \in MirrorIntent
        BY <1>1, IntentTyped
      <4>2. Intent.fraction \in Fraction
        BY <3>1, <4>1 DEF MirrorIntent
      <4>3. ToSell = Of(Intent.fraction, A)
        BY <2>3, <3>1 DEF ToSell, PositionAmount
      <4>. QED
        BY <4>2, <4>3, OfBelow
    <3>3. ~(ToSell > 0)
      BY <2>1, <2>3, <3>1, <3>2 DEF Executable
    <3>4. A - ToSell = A
      BY <3>2, <3>3
    <3>. QED
      BY <3>1, <3>4 DEF Due
  <2>. QED
    BY <2>2, <2>3
<1>6. Exiting'
  BY <1>3, <1>4, <1>5 DEF Exiting, LoneExit
<1>. QED
  BY <1>4, <1>6 DEF ExitInv, RoundDistinct, Finished

LEMMA EndExits ==
    ASSUME ExitInv, FollowInv', Numbered', EndRound
    PROVE  ExitInv'
<1>1. round.step = "executing" /\ round.intents = <<>> /\ round \in ActingRound
  <2>1. FollowTypeOK /\ round.step = "executing" /\ round.intents = <<>>
    BY DEF ExitInv, FollowInv, EndRound
  <2>. QED
    BY <2>1, RoundShape
<1>2. round' = [round EXCEPT !.step = "report"] /\ UNCHANGED <<terms, wallet, hand>>
  BY DEF EndRound
<1>3. /\ round'.step = "report" /\ round'.intents = round.intents
      /\ round'.trades = round.trades /\ round'.book = round.book
      /\ round'.before = round.before /\ round'.seen = round.seen
      /\ round'.refused = round.refused
  BY <1>1, <1>2 DEF ActingRound
<1>4. Exiting'
  BY <1>1, <1>2, <1>3 DEF ExitInv, Exiting, LoneExit
<1>. QED
  BY <1>1, <1>3, <1>4 DEF ExitInv, RoundDistinct, Finished

LEMMA ExitKeeps ==
    ExitInv /\ [FollowNext \/ (LeaderNext /\ UNCHANGED followVars)]_<<leaderVars, followVars>>
        => ExitInv'
<1> SUFFICES ASSUME ExitInv,
                    [FollowNext \/ (LeaderNext /\ UNCHANGED followVars)]_<<leaderVars, followVars>>
             PROVE  ExitInv'
  OBVIOUS
<1>1. FollowInv'
  BY FollowKeeps DEF ExitInv
<1>2. Numbered'
  <2>1. FollowNext => UNCHANGED leaderVars
    BY DEF FollowNext, OwnerSells, Devalued, StartCycle, WatcherAnswers, LeaderBookAnswers,
           PlanRound, Fills, Refused, Throws, EndRound, Reported
  <2>2. LeaderNext \/ UNCHANGED leaderVars
    BY <2>1
  <2>. QED
    BY <2>2, LeaderNumbers DEF ExitInv, FollowInv
<1>3. ASSUME NEW a \in Assets, OwnerSells(a) \/ Devalued(a) PROVE ExitInv'
  BY <1>1, <1>2, <1>3, OwnerExits
<1>4. CASE \/ StartCycle \/ WatcherAnswers \/ LeaderBookAnswers \/ Reported
           \/ UNCHANGED followVars
           \/ \E landed \in BOOLEAN : Throws(landed)
  BY <1>1, <1>2, <1>4, ReadsExit
<1>5. CASE PlanRound
  BY <1>1, <1>2, <1>5, PlanExits
<1>6. CASE Fills
  BY <1>1, <1>2, <1>6, FillsExit
<1>7. CASE Refused
  BY <1>1, <1>2, <1>7, RefusedExits
<1>8. CASE EndRound
  BY <1>1, <1>2, <1>8, EndExits
<1>. QED
  BY <1>3, <1>4, <1>5, <1>6, <1>7, <1>8 DEF FollowNext

\* A follower whose market refused nothing and who stepped in at no point keeps
\* no larger part of an asset than the leader did, a token aside, when an exit
\* is all of it in the batch: whatever the exit is sized on is what is sold
\* (sizing.ts:112-120, follow/runner.ts:164-168).
THEOREM ExitsKeepUp == FollowWalletSpec => []ExitKeepsUp
<1>1. ASSUME ExitInv PROVE ExitKeepsUp
  <2> SUFFICES ASSUME Followed, hand = 0, NEW a \in Held(round.before),
                      NEW k \in DOMAIN round.trades, LoneExit(a, k)
               PROVE  (Amount(wallet, a) - 1) * (round.book.hold[a] + round.trades[k].amount)
                          <= Amount(round.before, a) * round.book.hold[a]
    BY DEF ExitKeepsUp
  <2>1. round.step = "report" /\ ~round.refused /\ ~terms.paused /\ round.intents = <<>>
    BY <1>1 DEF Followed, ExitInv, Finished
  <2>2. Due(<<>>, a, Amount(wallet, a), Amount(round.before, a), round.book.hold[a],
            round.trades[k].amount)
    BY <1>1, <2>1 DEF ExitInv, Exiting
  <2>3. PartKept(Amount(wallet, a), Amount(round.before, a), round.book.hold[a],
                 round.trades[k].amount)
    BY <2>2 DEF Due, OneExit
  <2>. QED
    BY <2>3 DEF PartKept
<1>. QED
  BY <1>1, ExitStarts, ExitKeeps, PTL DEF FollowWalletSpec

=============================================================================
