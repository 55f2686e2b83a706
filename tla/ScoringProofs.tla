--------------------------- MODULE ScoringProofs ---------------------------
(***************************************************************************)
(* Proofs about TraderProfile and the scorers it calls, for any tape, any  *)
(* window of it, any market and any candidates: the record both scorers    *)
(* read off a tape is the cash that tape moved, and a seat is offered only *)
(* to who earned it.                                                       *)
(***************************************************************************)
EXTENDS TraderProfile, LedgerMath, SequenceTheorems

-----------------------------------------------------------------------------
(* Lists and numbers. *)

Measure == Int \cup {Unmeasured}
IsList(xs, T) == IsFiniteSet(DOMAIN xs) /\ \A i \in DOMAIN xs : xs[i] \in T

\* What a filter leaves of a list is a list.
LEMMA RestrictList ==
    ASSUME NEW T, NEW xs, IsList(xs, T), NEW S, S \subseteq DOMAIN xs
    PROVE  IsList(Restrict(xs, S), T) /\ DOMAIN Restrict(xs, S) = S
<1>1. IsFiniteSet(S)
  BY FS_Subset DEF IsList
<1>. QED
  BY <1>1 DEF IsList, Restrict

LEMMA CountNat ==
    ASSUME NEW xs, IsFiniteSet(DOMAIN xs)
    PROVE  Count(xs) \in Nat /\ (Count(xs) = 0 <=> DOMAIN xs = {})
  BY FS_CardinalityType, FS_EmptySet DEF Count

LEMMA TotalInt ==
    ASSUME NEW xs, IsList(xs, Int)
    PROVE  Total(xs) \in Int
<1>1. SumFunctionOnSet(xs, DOMAIN xs) \in Int
  BY SumInt DEF IsList
<1>. QED
  BY <1>1 DEF Total, SumFunction

LEMMA RatioInt ==
    ASSUME NEW a \in Int, NEW b \in Int, b # 0
    PROVE  Ratio(a, b) \in Int
<1>1. CASE b < 0
  <2>1. -b \in Int /\ -b > 0 /\ -a \in Int
    BY <1>1
  <2>. QED BY <1>1, <2>1 DEF Ratio
<1>2. CASE b > 0
  BY <1>2 DEF Ratio
<1>. QED
  BY <1>1, <1>2

LEMMA MeanMeasure ==
    ASSUME NEW xs, IsList(xs, Int)
    PROVE  /\ mean(xs) \in Measure
           /\ Count(xs) # 0 => mean(xs) \in Int
<1>1. Total(xs) \in Int /\ Count(xs) \in Nat
  BY TotalInt, CountNat DEF IsList
<1>2. CASE Count(xs) = 0
  BY <1>2 DEF mean, Measure
<1>3. CASE Count(xs) # 0
  <2>1. Ratio(Total(xs), Count(xs)) \in Int
    BY <1>1, <1>3, RatioInt
  <2>. QED BY <1>3, <2>1 DEF mean, Measure
<1>. QED
  BY <1>2, <1>3

\* A finite set of integers has a least and a greatest element.
LEMMA Extremes ==
    ASSUME NEW S, S \subseteq Int, IsFiniteSet(S), S # {}
    PROVE  /\ Max(S) \in S /\ \A y \in S : Max(S) >= y
           /\ Min(S) \in S /\ \A y \in S : Min(S) <= y
<1> DEFINE Top(T) == \E x \in T : \A y \in T : x >= y
           Bottom(T) == \E x \in T : \A y \in T : x <= y
           Good == {T \in SUBSET S : T # {} => Top(T) /\ Bottom(T)}
<1>1. {} \in Good
  OBVIOUS
<1>2. ASSUME NEW T \in SUBSET S, T # {}, \A x \in T : T \ {x} \in Good
      PROVE  T \in Good
  <2>1. PICK x \in T : TRUE
    BY <1>2
  <2>2. CASE T \ {x} = {}
    <3>1. T = {x} /\ x \in Int
      BY <2>1, <2>2
    <3>2. \A y \in T : x >= y /\ x <= y
      BY <3>1
    <3>. QED BY <2>1, <3>2
  <2>3. CASE T \ {x} # {}
    <3>1. Top(T \ {x}) /\ Bottom(T \ {x})
      BY <1>2, <2>1, <2>3
    <3>2. PICK t \in T \ {x} : \A y \in T \ {x} : t >= y
      BY <3>1
    <3>3. PICK b \in T \ {x} : \A y \in T \ {x} : b <= y
      BY <3>1
    <3>4. T \subseteq Int /\ x \in T
      BY <2>1
    <3>5. Top(T)
      <4>1. CASE t >= x
        <5>1. \A y \in T : t >= y
          BY <3>2, <4>1
        <5>. QED BY <3>2, <5>1
      <4>2. CASE ~ (t >= x)
        <5>1. \A y \in T : x >= y
          BY <3>2, <3>4, <4>2
        <5>. QED BY <3>4, <5>1
      <4>. QED BY <4>1, <4>2
    <3>6. Bottom(T)
      <4>1. CASE b <= x
        <5>1. \A y \in T : b <= y
          BY <3>3, <4>1
        <5>. QED BY <3>3, <5>1
      <4>2. CASE ~ (b <= x)
        <5>1. \A y \in T : x <= y
          BY <3>3, <3>4, <4>2
        <5>. QED BY <3>4, <5>1
      <4>. QED BY <4>1, <4>2
    <3>. QED BY <3>5, <3>6
  <2>. QED BY <2>2, <2>3
<1>3. S \in Good
  <2> HIDE DEF Good
  <2>. QED BY <1>1, <1>2, SubsetInduction
<1>4. Top(S) /\ Bottom(S)
  BY <1>3
<1>. QED
  BY <1>4 DEF Max, Min

\* The image of a finite set is finite.
LEMMA ImageFinite ==
    ASSUME NEW S, IsFiniteSet(S), NEW f
    PROVE  IsFiniteSet({f[x] : x \in S})
<1> DEFINE T == {f[x] : x \in S}
           g == [x \in S |-> f[x]]
<1>1. g \in Surjection(S, T)
  BY DEF Surjection
<1>. QED
  <2> HIDE DEF g, T
  <2>1. IsFiniteSet(T)
    BY <1>1, FS_Surjection
  <2>. QED BY <2>1 DEF T

LEMMA RangeFinite ==
    ASSUME NEW T, NEW xs, IsList(xs, T)
    PROVE  IsFiniteSet(Range(xs)) /\ Range(xs) \subseteq T
<1>1. IsFiniteSet({xs[i] : i \in DOMAIN xs})
  BY ImageFinite DEF IsList
<1>. QED
  BY <1>1 DEF Range, IsList

LEMMA ClampIn ==
    ASSUME NEW x \in Int, NEW lo \in Int, NEW hi \in Int, lo <= hi
    PROVE  Clamp(x, lo, hi) \in lo..hi
  BY DEF Clamp

\* Some element of a list has the rank asked for, and the percentile is one.
Below(xs, x) == Cardinality({i \in DOMAIN xs : xs[i] < x})
UpTo(xs, x) == Cardinality({i \in DOMAIN xs : xs[i] <= x})
RankOf(xs, p) == Clamp((p * Count(xs) + 99) \div 100, 1, Count(xs))

LEMMA RankExists ==
    ASSUME NEW xs, IsList(xs, Int), NEW k \in 1..Count(xs)
    PROVE  \E x \in Range(xs) : Below(xs, x) < k /\ k <= UpTo(xs, x)
<1> DEFINE D == DOMAIN xs
           R == Range(xs)
           G == {x \in R : k <= UpTo(xs, x)}
<1>1. /\ IsFiniteSet(D) /\ \A i \in D : xs[i] \in Int /\ xs[i] \in R
      /\ IsFiniteSet(R) /\ R \subseteq Int
      /\ Count(xs) \in Nat /\ Count(xs) # 0 /\ D # {}
  <2>1. IsFiniteSet(D) /\ (\A i \in D : xs[i] \in Int) /\ (\A i \in D : xs[i] \in R)
    BY DEF IsList, Range
  <2>2. IsFiniteSet(R) /\ R \subseteq Int
    BY RangeFinite
  <2>3. Count(xs) \in Nat /\ (Count(xs) = 0 <=> D = {})
    BY <2>1, CountNat
  <2>4. Count(xs) # 0
    BY <2>3
  <2>. QED BY <2>1, <2>2, <2>3, <2>4
<1>2. \A S \in SUBSET D : IsFiniteSet(S) /\ Cardinality(S) \in Nat
  BY <1>1, FS_Subset, FS_CardinalityType
<1>3. R # {}
  BY <1>1
<1>4. Max(R) \in G
  <2>1. Max(R) \in R /\ \A y \in R : Max(R) >= y
    BY <1>1, <1>3, Extremes
  <2>2. {i \in D : xs[i] <= Max(R)} = D
    BY <1>1, <2>1
  <2>3. UpTo(xs, Max(R)) = Count(xs)
    BY <2>2 DEF UpTo, Count
  <2>. QED BY <2>1, <2>3, <1>1
<1>5. G \subseteq Int /\ IsFiniteSet(G) /\ G # {}
  BY <1>1, <1>4, FS_Subset
<1> DEFINE m == Min(G)
<1>6. m \in G /\ \A y \in G : m <= y
  <2> HIDE DEF G
  <2>. QED BY <1>5, Extremes
<1>7. m \in R /\ m \in Int /\ k <= UpTo(xs, m)
  BY <1>1, <1>6
<1>8. Below(xs, m) < k
  <2> DEFINE L == {x \in R : x < m}
  <2> HIDE DEF m
  <2>1. CASE L = {}
    <3>1. {i \in D : xs[i] < m} = {}
      BY <2>1, <1>1
    <3>. QED BY <3>1, FS_EmptySet, <1>1 DEF Below
  <2>2. CASE L # {}
    <3> DEFINE y == Max(L)
    <3>1. L \subseteq Int /\ IsFiniteSet(L)
      BY <1>1, FS_Subset
    <3>2. y \in L /\ \A z \in L : y >= z
      <4> HIDE DEF L
      <4>. QED BY <2>2, <3>1, Extremes
    <3> HIDE DEF y
    <3>3. y \in R /\ y \in Int /\ y < m
      BY <3>2, <1>1
    <3>4. \A i \in D : xs[i] < m <=> xs[i] <= y
      <4>1. SUFFICES ASSUME NEW i \in D PROVE xs[i] < m <=> xs[i] <= y
        OBVIOUS
      <4>2. xs[i] \in R /\ xs[i] \in Int
        BY <1>1
      <4>3. xs[i] < m => xs[i] \in L
        BY <4>2
      <4>. QED BY <4>2, <4>3, <3>2, <3>3, <1>7
    <3>5. Below(xs, m) = UpTo(xs, y)
      <4>1. {i \in D : xs[i] < m} = {i \in D : xs[i] <= y}
        BY <3>4
      <4>. QED BY <4>1 DEF Below, UpTo
    <3>6. y \notin G
      BY <1>6, <1>7, <3>3
    <3>7. UpTo(xs, y) \in Nat
      BY <1>2 DEF UpTo
    <3>. QED BY <3>3, <3>5, <3>6, <3>7
  <2>. QED BY <2>1, <2>2
<1>. QED
  BY <1>7, <1>8

\* It is Unmeasured of an empty list only, a member of any other, and fewer
\* than its rank are smaller.
LEMMA PercentileRank ==
    ASSUME NEW xs, IsList(xs, Int), NEW p \in Nat
    PROVE  /\ percentile(xs, p) \in Measure
           /\ percentile(xs, p) # Unmeasured =>
                 /\ Count(xs) \in Nat /\ Count(xs) # 0
                 /\ RankOf(xs, p) \in 1..Count(xs)
                 /\ percentile(xs, p) \in Int
                 /\ Below(xs, percentile(xs, p)) < RankOf(xs, p)
<1>1. Count(xs) \in Nat
  BY CountNat DEF IsList
<1>2. CASE Count(xs) = 0
  BY <1>2 DEF percentile, Measure
<1>3. CASE Count(xs) # 0
  <2> DEFINE k == RankOf(xs, p)
             Fits(x) == Below(xs, x) < k /\ k <= UpTo(xs, x)
  <2>1. k \in 1..Count(xs)
    <3>1. (p * Count(xs) + 99) \div 100 \in Int
      <4> DEFINE q == p * Count(xs)
      <4>1. q \in Nat
        BY <1>1, ProductMono
      <4>2. (q + 99) \div 100 \in Int
        <5> HIDE DEF q
        <5>. QED BY <4>1
      <4>. QED BY <4>2
    <3>2. 1 <= Count(xs) /\ Count(xs) \in Int
      BY <1>1, <1>3
    <3>3. \A x \in Int : Clamp(x, 1, Count(xs)) \in 1..Count(xs)
      BY <3>2 DEF Clamp
    <3>. QED BY <3>1, <3>3 DEF RankOf
  <2>2. \E x \in Range(xs) : Fits(x)
    <3> HIDE DEF k
    <3>. QED BY <2>1, RankExists
  <2>3. percentile(xs, p) = CHOOSE x \in Range(xs) : Fits(x)
    BY <1>3 DEF percentile, RankOf, Below, UpTo
  <2>4. percentile(xs, p) \in Range(xs) /\ Fits(percentile(xs, p))
    <3> HIDE DEF Fits
    <3>. QED BY <2>2, <2>3
  <2>5. Range(xs) \subseteq Int
    BY RangeFinite
  <2>. QED BY <1>1, <1>3, <2>1, <2>4, <2>5 DEF Measure
<1>. QED
  BY <1>2, <1>3

-----------------------------------------------------------------------------
(* Fills become episodes: the types. *)

Fill == [ts : Nat, id : Int, asset : Tokens, side : {"buy", "sell"}, qty : Nat \ {0}, usd : Nat \ {0}]

LEMMA FeeNat ==
    ASSUME NEW n \in Nat
    PROVE  fomoFeeUsd(n) \in Nat
<1>1. (n * 50) \div 10000 \in Nat
  OBVIOUS
<1>. QED
  BY <1>1 DEF fomoFeeUsd, Larger

LEMMA FillTypes ==
    ASSUME NEW fill \in Fill
    PROVE  /\ fill.asset \in Tokens /\ fill.ts \in Nat /\ fill.side \in {"buy", "sell"}
           /\ fill.qty \in Nat \ {0} /\ fill.usd \in Nat \ {0}
           /\ Price(fill) \in Nat
           /\ fomoFeeUsd(fill.usd) \in Nat
<1>1. /\ fill.asset \in Tokens /\ fill.ts \in Nat /\ fill.side \in {"buy", "sell"}
      /\ fill.qty \in Nat \ {0} /\ fill.usd \in Nat \ {0}
  BY DEF Fill
<1>2. Price(fill) \in Nat
  <2>1. \A q \in Nat \ {0}, u \in Nat : u \div q \in Nat
    BY DivNat
  <2>. QED BY <1>1, <2>1 DEF Price
<1>. QED
  BY <1>1, <1>2, FeeNat

\* An open position has bought something, and still holds what it has not sold.
OpenOK(ep) ==
    /\ ep \in Episode
    /\ ep.closedAt = Unmeasured
    /\ ep.bought > 0
    /\ ep.held = ep.bought - ep.sold

ClosedOK(ep) ==
    /\ ep \in Episode
    /\ ep.closedAt \in Nat
    /\ ep.bought > 0

BookOK(book) ==
    /\ book \in [open : [Tokens -> Episode \cup {Unmeasured}], done : Seq(Episode)]
    /\ \A t \in Tokens : book.open[t] # Unmeasured => OpenOK(book.open[t])
    /\ \A i \in 1..Len(book.done) : ClosedOK(book.done[i])

LEMMA NewEpisodeOK ==
    ASSUME NEW fill \in Fill
    PROVE  /\ NewEpisode(fill) \in Episode
           /\ NewEpisode(fill).closedAt = Unmeasured
           /\ NewEpisode(fill).held = NewEpisode(fill).bought - NewEpisode(fill).sold
           /\ NewEpisode(fill).bought = 0 /\ NewEpisode(fill).held = 0
           /\ Net(NewEpisode(fill)) = 0
  BY FillTypes DEF NewEpisode, Episode, Net

\* What a buy and a sale do to a position.
LEMMA BoughtOK ==
    ASSUME NEW fill \in Fill, NEW ep \in Episode, ep.closedAt = Unmeasured,
           ep.held = ep.bought - ep.sold
    PROVE  /\ OpenOK(Bought(ep, fill))
           /\ Bought(ep, fill).bought = ep.bought + fill.qty
           /\ Bought(ep, fill).held = ep.held + fill.qty
           /\ Net(Bought(ep, fill)) = Net(ep) - fill.usd - fomoFeeUsd(fill.usd)
<1> DEFINE fee == fomoFeeUsd(fill.usd)
           worth == (ep.held + fill.qty) * Price(fill)
           peak == Larger(ep.peak, worth)
<1>1. /\ fill.qty \in Nat \ {0} /\ fill.usd \in Nat \ {0} /\ fee \in Nat /\ Price(fill) \in Nat
  BY FillTypes
<1>2. /\ ep.token \in Tokens /\ ep.opened \in Nat /\ ep.bought \in Nat /\ ep.sold \in Nat
      /\ ep.cost \in Nat /\ ep.proceeds \in Nat /\ ep.fees \in Nat /\ ep.peak \in Nat /\ ep.held \in Int
  BY DEF Episode
<1>3. worth \in Int
  BY <1>1, <1>2
<1>4. peak \in Nat
  <2> HIDE DEF worth
  <2>. QED BY <1>2, <1>3 DEF Larger
<1>5. /\ ep.bought + fill.qty \in Nat /\ ep.cost + fill.usd \in Nat
      /\ ep.held + fill.qty \in Int /\ ep.fees + fee \in Nat
  BY <1>1, <1>2
<1>. QED
  <2>1. Bought(ep, fill) \in Episode
    BY <1>4, <1>5 DEF Bought, Episode
  <2>2. /\ Bought(ep, fill).closedAt = Unmeasured
        /\ Bought(ep, fill).bought = ep.bought + fill.qty
        /\ Bought(ep, fill).sold = ep.sold
        /\ Bought(ep, fill).held = ep.held + fill.qty
        /\ Bought(ep, fill).proceeds = ep.proceeds
        /\ Bought(ep, fill).cost = ep.cost + fill.usd
        /\ Bought(ep, fill).fees = ep.fees + fee
    BY DEF Bought, Episode
  <2> HIDE DEF peak, fee
  <2>3. OpenOK(Bought(ep, fill))
    BY <1>1, <1>2, <2>1, <2>2 DEF OpenOK
  <2>4. Net(Bought(ep, fill)) = Net(ep) - fill.usd - fee
    BY <1>1, <1>2, <2>2 DEF Net
  <2>. QED BY <2>2, <2>3, <2>4 DEF fee

LEMMA SoldOK ==
    ASSUME NEW fill \in Fill, NEW ep, OpenOK(ep)
    PROVE  /\ OpenOK(Sold(ep, fill))
           /\ Sold(ep, fill).bought = ep.bought
           /\ Sold(ep, fill).held = ep.held - fill.qty
           /\ Net(Sold(ep, fill)) = Net(ep) + fill.usd - fomoFeeUsd(fill.usd)
<1> DEFINE fee == fomoFeeUsd(fill.usd)
<1>1. /\ fill.qty \in Nat \ {0} /\ fill.usd \in Nat \ {0} /\ fee \in Nat
  BY FillTypes
<1>2. /\ ep \in Episode
      /\ ep.token \in Tokens /\ ep.opened \in Nat /\ ep.bought \in Nat /\ ep.sold \in Nat
      /\ ep.cost \in Nat /\ ep.proceeds \in Nat /\ ep.fees \in Nat /\ ep.peak \in Nat /\ ep.held \in Int
      /\ ep.bought > 0 /\ ep.held = ep.bought - ep.sold /\ ep.closedAt = Unmeasured
  BY DEF Episode, OpenOK
<1>3. /\ ep.sold + fill.qty \in Nat /\ ep.proceeds + fill.usd \in Nat
      /\ ep.held - fill.qty \in Int /\ ep.fees + fee \in Nat
  BY <1>1, <1>2
<1>. QED
  <2>1. Sold(ep, fill) \in Episode
    BY <1>2, <1>3 DEF Sold, Episode
  <2>2. /\ Sold(ep, fill).closedAt = Unmeasured
        /\ Sold(ep, fill).bought = ep.bought
        /\ Sold(ep, fill).sold = ep.sold + fill.qty
        /\ Sold(ep, fill).held = ep.held - fill.qty
        /\ Sold(ep, fill).proceeds = ep.proceeds + fill.usd
        /\ Sold(ep, fill).cost = ep.cost
        /\ Sold(ep, fill).fees = ep.fees + fee
    BY <1>2 DEF Sold, Episode
  <2> HIDE DEF fee
  <2>3. OpenOK(Sold(ep, fill))
    BY <1>1, <1>2, <2>1, <2>2 DEF OpenOK
  <2>4. Net(Sold(ep, fill)) = Net(ep) + fill.usd - fee
    BY <1>1, <1>2, <2>2 DEF Net
  <2>. QED BY <2>2, <2>3, <2>4 DEF fee

LEMMA ShutOK ==
    ASSUME NEW ep, OpenOK(ep), NEW ts \in Nat
    PROVE  LET shut == [ep EXCEPT !.closedAt = ts]
           IN  /\ ClosedOK(shut)
               /\ shut.bought = ep.bought /\ shut.sold = ep.sold
               /\ Net(shut) = Net(ep)
<1> DEFINE shut == [ep EXCEPT !.closedAt = ts]
<1>1. ep \in Episode /\ ep.bought > 0
  BY DEF OpenOK
<1>2. shut \in Episode
  BY <1>1 DEF Episode
<1>3. /\ shut.bought = ep.bought /\ shut.sold = ep.sold /\ shut.closedAt = ts
      /\ shut.proceeds = ep.proceeds /\ shut.cost = ep.cost /\ shut.fees = ep.fees
  BY <1>1 DEF Episode
<1> HIDE DEF shut
<1>4. ClosedOK(shut) /\ Net(shut) = Net(ep)
  BY <1>1, <1>2, <1>3 DEF ClosedOK, Net
<1>. QED
  BY <1>3, <1>4 DEF shut

\* The outcomes of one fill.
Put(book, t, ep) == [open |-> [book.open EXCEPT ![t] = ep], done |-> book.done]
Shut(book, fill, ep) ==
    [open |-> [book.open EXCEPT ![fill.asset] = Unmeasured],
     done |-> Append(book.done, [ep EXCEPT !.closedAt = fill.ts])]
Base(book, fill) ==
    IF book.open[fill.asset] = Unmeasured THEN NewEpisode(fill) ELSE book.open[fill.asset]

LEMMA OneFillCases ==
    ASSUME NEW book, BookOK(book), NEW fill \in Fill
    PROVE  LET sold == Sold(book.open[fill.asset], fill)
           IN  /\ fill.side = "buy" =>
                     OneFill(book, fill) = Put(book, fill.asset, Bought(Base(book, fill), fill))
               /\ fill.side = "sell" /\ book.open[fill.asset] = Unmeasured =>
                     OneFill(book, fill) = book
               /\ fill.side = "sell" /\ book.open[fill.asset] # Unmeasured /\ ReturnedFlat(sold) =>
                     OneFill(book, fill) = Shut(book, fill, sold)
               /\ fill.side = "sell" /\ book.open[fill.asset] # Unmeasured /\ ~ ReturnedFlat(sold) =>
                     OneFill(book, fill) = Put(book, fill.asset, sold)
<1>1. \A t, ep : [book EXCEPT !.open[t] = ep] = Put(book, t, ep)
  <2>1. book \in [open : [Tokens -> Episode \cup {Unmeasured}], done : Seq(Episode)]
    BY DEF BookOK
  <2>. QED BY <2>1 DEF Put
<1>2. "buy" # "sell"
  OBVIOUS
<1>. QED
  BY <1>1, <1>2 DEF OneFill, Base, Shut

LEMMA PutOK ==
    ASSUME NEW book, BookOK(book), NEW t \in Tokens, NEW ep, OpenOK(ep)
    PROVE  BookOK(Put(book, t, ep))
<1> DEFINE new == [book.open EXCEPT ![t] = ep]
<1>1. /\ book.open \in [Tokens -> Episode \cup {Unmeasured}] /\ book.done \in Seq(Episode)
      /\ \A u \in Tokens : book.open[u] # Unmeasured => OpenOK(book.open[u])
      /\ \A i \in 1..Len(book.done) : ClosedOK(book.done[i])
  BY DEF BookOK
<1>2. ep \in Episode
  BY DEF OpenOK
<1>3. new \in [Tokens -> Episode \cup {Unmeasured}]
  BY <1>1, <1>2
<1>4. \A u \in Tokens : new[u] # Unmeasured => OpenOK(new[u])
  BY <1>1
<1>. QED
  <2>1. Put(book, t, ep) = [open |-> new, done |-> book.done]
    BY DEF Put
  <2> HIDE DEF new
  <2>. QED BY <1>1, <1>3, <1>4, <2>1 DEF BookOK

LEMMA ShutBookOK ==
    ASSUME NEW book, BookOK(book), NEW fill \in Fill, NEW ep, OpenOK(ep)
    PROVE  BookOK(Shut(book, fill, ep))
<1> DEFINE t == fill.asset
           new == [book.open EXCEPT ![t] = Unmeasured]
           last == [ep EXCEPT !.closedAt = fill.ts]
           done == Append(book.done, last)
<1>1. /\ book.open \in [Tokens -> Episode \cup {Unmeasured}] /\ book.done \in Seq(Episode)
      /\ \A u \in Tokens : book.open[u] # Unmeasured => OpenOK(book.open[u])
      /\ \A i \in 1..Len(book.done) : ClosedOK(book.done[i])
  BY DEF BookOK
<1>2. fill.ts \in Nat /\ t \in Tokens
  BY FillTypes
<1>3. ClosedOK(last) /\ last \in Episode
  BY <1>2, ShutOK DEF ClosedOK
<1>4. new \in [Tokens -> Episode \cup {Unmeasured}]
  BY <1>1
<1>5. \A u \in Tokens : new[u] # Unmeasured => OpenOK(new[u])
  BY <1>1
<1>6. done \in Seq(Episode) /\ \A i \in 1..Len(done) : ClosedOK(done[i])
  <2> HIDE DEF last
  <2>. QED BY <1>1, <1>3, AppendProperties
<1>. QED
  <2>1. Shut(book, fill, ep) = [open |-> new, done |-> done]
    BY DEF Shut
  <2> HIDE DEF new, done
  <2>. QED BY <1>4, <1>5, <1>6, <2>1 DEF BookOK

LEMMA BaseOK ==
    ASSUME NEW book, BookOK(book), NEW fill \in Fill
    PROVE  /\ Base(book, fill) \in Episode
           /\ Base(book, fill).closedAt = Unmeasured
           /\ Base(book, fill).held = Base(book, fill).bought - Base(book, fill).sold
           /\ OpenOK(Bought(Base(book, fill), fill))
<1>1. /\ Base(book, fill) \in Episode
      /\ Base(book, fill).closedAt = Unmeasured
      /\ Base(book, fill).held = Base(book, fill).bought - Base(book, fill).sold
  <2>1. fill.asset \in Tokens
    BY FillTypes
  <2>2. CASE book.open[fill.asset] = Unmeasured
    BY <2>2, NewEpisodeOK DEF Base
  <2>3. CASE book.open[fill.asset] # Unmeasured
    BY <2>1, <2>3 DEF Base, BookOK, OpenOK
  <2>. QED BY <2>2, <2>3
<1>. QED
  BY <1>1, BoughtOK

LEMMA OneFillOK ==
    ASSUME NEW book, BookOK(book), NEW fill \in Fill
    PROVE  BookOK(OneFill(book, fill))
<1> DEFINE ep == book.open[fill.asset]
<1>1. fill.asset \in Tokens /\ fill.side \in {"buy", "sell"}
  BY FillTypes
<1>2. CASE fill.side = "buy"
  BY <1>1, <1>2, BaseOK, PutOK, OneFillCases
<1>3. CASE fill.side = "sell" /\ ep = Unmeasured
  BY <1>3, OneFillCases
<1>4. CASE fill.side = "sell" /\ ep # Unmeasured
  <2>1. OpenOK(Sold(ep, fill))
    BY <1>1, <1>4, SoldOK DEF BookOK
  <2>2. CASE ReturnedFlat(Sold(ep, fill))
    BY <1>4, <2>1, <2>2, ShutBookOK, OneFillCases
  <2>3. CASE ~ ReturnedFlat(Sold(ep, fill))
    BY <1>1, <1>4, <2>1, <2>3, PutOK, OneFillCases
  <2>. QED BY <2>2, <2>3
<1>. QED
  BY <1>1, <1>2, <1>3, <1>4

-----------------------------------------------------------------------------
(* The recursion over the fills exists, and every book is typed. *)

EmptyBook == [open |-> [t \in Tokens |-> Unmeasured], done |-> <<>>]

IsBooks(sorted, N, b) ==
    b = [n \in 0..N |-> IF n = 0 THEN EmptyBook ELSE OneFill(b[n - 1], sorted[n])]

LEMMA BooksExist ==
    ASSUME NEW sorted
    PROVE  \A N \in Nat : \E b : IsBooks(sorted, N, b)
<1> DEFINE Good == {N \in Nat : \E b : IsBooks(sorted, N, b)}
<1>1. 0 \in Good
  <2> DEFINE b == [n \in 0..0 |-> EmptyBook]
  <2>1. b = [n \in 0..0 |-> IF n = 0 THEN EmptyBook ELSE OneFill(b[n - 1], sorted[n])]
    OBVIOUS
  <2>2. IsBooks(sorted, 0, b)
    BY <2>1 DEF IsBooks
  <2>. QED BY <2>2
<1>2. ASSUME NEW N \in Nat, N \in Good PROVE N + 1 \in Good
  <2>1. PICK b : IsBooks(sorted, N, b)
    BY <1>2
  <2> DEFINE c == [n \in 0..(N + 1) |-> IF n <= N THEN b[n] ELSE OneFill(b[N], sorted[N + 1])]
             d == [n \in 0..(N + 1) |-> IF n = 0 THEN EmptyBook ELSE OneFill(c[n - 1], sorted[n])]
  <2>2. ASSUME NEW n \in 0..(N + 1) PROVE c[n] = d[n]
    <3>1. \A k \in 0..N : b[k] = IF k = 0 THEN EmptyBook ELSE OneFill(b[k - 1], sorted[k])
      BY <2>1 DEF IsBooks
    <3>2. CASE n = 0
      BY <3>1, <3>2
    <3>3. CASE n # 0 /\ n <= N
      <4>1. n \in 0..N /\ n - 1 \in 0..(N + 1) /\ n - 1 <= N
        BY <3>3
      <4>2. c[n - 1] = b[n - 1] /\ c[n] = b[n]
        BY <4>1
      <4>. QED BY <3>1, <3>3, <4>1, <4>2
    <3>4. CASE n = N + 1
      <4>1. n - 1 = N /\ n # 0 /\ ~ (n <= N) /\ N \in 0..(N + 1) /\ N <= N
        BY <3>4
      <4>2. c[n - 1] = b[N] /\ c[n] = OneFill(b[N], sorted[N + 1])
        BY <4>1
      <4>. QED BY <3>4, <4>1, <4>2
    <3>. QED BY <3>2, <3>3, <3>4
  <2>3. c = d
    BY <2>2
  <2>4. IsBooks(sorted, N + 1, c)
    BY <2>3 DEF IsBooks
  <2>. QED BY <2>4
<1>. QED
  <2> HIDE DEF Good
  <2>1. Nat \subseteq Good
    BY <1>1, <1>2, SuccessorInduction
  <2>. QED BY <2>1 DEF Good

LEMMA BooksEquation ==
    ASSUME NEW sorted, Len(sorted) \in Nat
    PROVE  /\ Books(sorted)[0] = EmptyBook
           /\ \A n \in 1..Len(sorted) : Books(sorted)[n] = OneFill(Books(sorted)[n - 1], sorted[n])
<1> DEFINE N == Len(sorted)
<1>1. Books(sorted) = CHOOSE b : IsBooks(sorted, N, b)
  BY DEF Books, IsBooks, EmptyBook
<1>2. IsBooks(sorted, N, Books(sorted))
  <2>1. \E b : IsBooks(sorted, N, b)
    BY BooksExist
  <2>. QED BY <1>1, <2>1
<1>3. \A n \in 0..N : Books(sorted)[n] =
          IF n = 0 THEN EmptyBook ELSE OneFill(Books(sorted)[n - 1], sorted[n])
  BY <1>2 DEF IsBooks
<1>. QED
  BY <1>3

LEMMA BooksOK ==
    ASSUME NEW sorted, Len(sorted) \in Nat, \A n \in 1..Len(sorted) : sorted[n] \in Fill
    PROVE  \A n \in 0..Len(sorted) : BookOK(Books(sorted)[n])
<1> DEFINE Good == {n \in Nat : n <= Len(sorted) => BookOK(Books(sorted)[n])}
<1>1. BookOK(EmptyBook)
  BY DEF BookOK, EmptyBook
<1>2. 0 \in Good
  BY <1>1, BooksEquation
<1>3. ASSUME NEW n \in Nat, n \in Good PROVE n + 1 \in Good
  <2>1. SUFFICES ASSUME n + 1 <= Len(sorted) PROVE BookOK(Books(sorted)[n + 1])
    OBVIOUS
  <2>2. n + 1 \in 1..Len(sorted) /\ (n + 1) - 1 = n
    BY <2>1
  <2>3. Books(sorted)[n + 1] = OneFill(Books(sorted)[n], sorted[n + 1])
    BY <2>2, BooksEquation
  <2>4. BookOK(Books(sorted)[n])
    BY <1>3, <2>1
  <2>. QED BY <2>2, <2>3, <2>4, OneFillOK
<1>. QED
  <2> HIDE DEF Good
  <2>1. Nat \subseteq Good
    BY <1>2, <1>3, SuccessorInduction
  <2>. QED BY <2>1 DEF Good

-----------------------------------------------------------------------------
(* Putting fills in order loses none. *)

Distinct(trades) ==
    /\ trades \in Seq(Fill)
    /\ \A i, j \in 1..Len(trades) : i # j => trades[i].id # trades[j].id

RankIn(trades, i) == Cardinality({j \in DOMAIN trades : Earlier(trades[j], trades[i])})
PlaceOf(trades, n) == CHOOSE i \in DOMAIN trades : RankIn(trades, i) = n - 1

LEMMA EarlierOrder ==
    ASSUME NEW u \in Fill, NEW v \in Fill, NEW w \in Fill
    PROVE  /\ ~ Earlier(u, u)
           /\ Earlier(u, v) /\ Earlier(v, w) => Earlier(u, w)
           /\ u.id # v.id => Earlier(u, v) \/ Earlier(v, u)
<1>1. /\ u.ts \in Nat /\ u.id \in Int /\ v.ts \in Nat /\ v.id \in Int
      /\ w.ts \in Nat /\ w.id \in Int
  BY DEF Fill
<1>2. ~ Earlier(u, u)
  BY <1>1 DEF Earlier
<1>3. Earlier(u, v) /\ Earlier(v, w) => Earlier(u, w)
  BY <1>1 DEF Earlier
<1>4. u.id # v.id => Earlier(u, v) \/ Earlier(v, u)
  BY <1>1 DEF Earlier
<1>. QED
  BY <1>2, <1>3, <1>4

LEMMA EarlierIsTotal ==
    ASSUME NEW trades, Distinct(trades)
    PROVE  \A i, j, k \in 1..Len(trades) :
               /\ ~ Earlier(trades[i], trades[i])
               /\ Earlier(trades[i], trades[j]) /\ Earlier(trades[j], trades[k]) => Earlier(trades[i], trades[k])
               /\ i # j => Earlier(trades[i], trades[j]) \/ Earlier(trades[j], trades[i])
<1>1. \A i \in 1..Len(trades) : trades[i] \in Fill
  BY DEF Distinct
<1>2. \A i, j \in 1..Len(trades) : i # j => trades[i].id # trades[j].id
  BY DEF Distinct
<1>. QED
  BY <1>1, <1>2, EarlierOrder, Zenon

LEMMA RankGrows ==
    ASSUME NEW trades, Distinct(trades),
           NEW i \in 1..Len(trades), NEW j \in 1..Len(trades), Earlier(trades[i], trades[j])
    PROVE  RankIn(trades, i) < RankIn(trades, j)
<1> DEFINE D == DOMAIN trades
           S == {k \in D : Earlier(trades[k], trades[i])}
           T == {k \in D : Earlier(trades[k], trades[j])}
<1>1. D = 1..Len(trades) /\ IsFiniteSet(D)
  <2>1. D = 1..Len(trades) /\ Len(trades) \in Nat
    BY LenProperties DEF Distinct
  <2>. QED BY <2>1, FS_Interval
<1>2. IsFiniteSet(T) /\ IsFiniteSet(S)
  BY <1>1, FS_Subset
<1>3. S \subseteq T /\ i \in T /\ i \notin S
  BY <1>1, EarlierIsTotal
<1>4. S \subseteq T \ {i} /\ IsFiniteSet(T \ {i})
  BY <1>2, <1>3, FS_Subset
<1>5. Cardinality(S) <= Cardinality(T \ {i})
  <2> HIDE DEF S, T
  <2>. QED BY <1>4, FS_Subset
<1>6. Cardinality(T \ {i}) = Cardinality(T) - 1
  <2> HIDE DEF S, T
  <2>. QED BY <1>2, <1>3, FS_RemoveElement
<1>7. Cardinality(S) \in Nat /\ Cardinality(T) \in Nat
  BY <1>2, FS_CardinalityType
<1>. QED
  BY <1>5, <1>6, <1>7 DEF RankIn

\* Every rank is taken by one fill, and every fill has one.
LEMMA RanksArePlaces ==
    ASSUME NEW trades, Distinct(trades)
    PROVE  /\ \A n \in 1..Len(trades) :
                  /\ PlaceOf(trades, n) \in 1..Len(trades)
                  /\ RankIn(trades, PlaceOf(trades, n)) = n - 1
           /\ \A i \in 1..Len(trades) :
                  /\ RankIn(trades, i) + 1 \in 1..Len(trades)
                  /\ PlaceOf(trades, RankIn(trades, i) + 1) = i
<1> DEFINE N == Len(trades)
           D == 1..N
           f == [i \in D |-> RankIn(trades, i) + 1]
<1>1. N \in Nat /\ DOMAIN trades = D /\ IsFiniteSet(D) /\ Cardinality(D) = N
  <2>1. N \in Nat /\ DOMAIN trades = D
    BY LenProperties DEF Distinct
  <2>2. IsFiniteSet(1..N) /\ Cardinality(1..N) = IF 1 > N THEN 0 ELSE N - 1 + 1
    <3>1. 1 \in Int /\ N \in Int
      BY <2>1
    <3> HIDE DEF N
    <3>. QED BY <3>1, FS_Interval
  <2>3. (IF 1 > N THEN 0 ELSE N - 1 + 1) = N
    BY <2>1
  <2>. QED BY <2>1, <2>2, <2>3
<1>2. \A i \in D : f[i] \in D
  <2>1. SUFFICES ASSUME NEW i \in D PROVE RankIn(trades, i) + 1 \in 1..N
    OBVIOUS
  <2> DEFINE S == {j \in DOMAIN trades : Earlier(trades[j], trades[i])}
  <2>2. S \subseteq D \ {i} /\ IsFiniteSet(D \ {i})
    BY <1>1, EarlierIsTotal, FS_Subset
  <2>3. Cardinality(D \ {i}) = N - 1
    BY <1>1, FS_RemoveElement
  <2>4. Cardinality(S) <= N - 1 /\ Cardinality(S) \in Nat
    <3> HIDE DEF S
    <3>1. IsFiniteSet(S) /\ Cardinality(S) <= Cardinality(D \ {i})
      BY <2>2, FS_Subset
    <3>2. Cardinality(S) \in Nat
      BY <3>1, FS_CardinalityType
    <3>. QED BY <2>3, <3>1, <3>2
  <2>. QED BY <1>1, <2>4 DEF RankIn
<1>3. \A i, j \in D : i # j => f[i] # f[j]
  <2>1. SUFFICES ASSUME NEW i \in D, NEW j \in D, i # j PROVE f[i] # f[j]
    OBVIOUS
  <2>2. RankIn(trades, i) \in Int /\ RankIn(trades, j) \in Int
    <3>1. \A k \in D : RankIn(trades, k) \in Int
      <4>1. SUFFICES ASSUME NEW k \in D PROVE RankIn(trades, k) \in Int
        OBVIOUS
      <4>2. IsFiniteSet({l \in DOMAIN trades : Earlier(trades[l], trades[k])})
        BY <1>1, FS_Subset
      <4>. QED BY <4>2, FS_CardinalityType DEF RankIn
    <3>. QED BY <3>1
  <2>3. RankIn(trades, i) < RankIn(trades, j) \/ RankIn(trades, j) < RankIn(trades, i)
    BY <2>1, EarlierIsTotal, RankGrows
  <2>. QED BY <2>2, <2>3
<1>4. f \in Injection(D, D)
  BY <1>2, <1>3 DEF Injection, IsInjective
<1>5. f \in Surjection(D, D)
  <2> HIDE DEF f, D
  <2>. QED BY <1>1, <1>4, FS_Injection
<1>6. ASSUME NEW n \in D
      PROVE  PlaceOf(trades, n) \in D /\ RankIn(trades, PlaceOf(trades, n)) = n - 1
  <2>1. PICK i \in D : f[i] = n
    BY <1>5 DEF Surjection
  <2>2. RankIn(trades, i) = n - 1
    <3>1. RankIn(trades, i) \in Int
      <4>1. IsFiniteSet({l \in DOMAIN trades : Earlier(trades[l], trades[i])})
        BY <1>1, FS_Subset
      <4>. QED BY <4>1, FS_CardinalityType DEF RankIn
    <3>. QED BY <2>1, <3>1
  <2>. QED BY <1>1, <2>2 DEF PlaceOf
<1>7. ASSUME NEW i \in D
      PROVE  f[i] \in D /\ PlaceOf(trades, f[i]) = i
  <2>1. f[i] \in D
    BY <1>2
  <2>2. /\ PlaceOf(trades, f[i]) \in D
        /\ RankIn(trades, PlaceOf(trades, f[i])) = f[i] - 1
    <3> HIDE DEF f
    <3>. QED BY <1>6, <2>1
  <2>3. f[PlaceOf(trades, f[i])] = f[i]
    <3>1. f[PlaceOf(trades, f[i])] = RankIn(trades, PlaceOf(trades, f[i])) + 1
      BY <2>2
    <3> HIDE DEF f
    <3>. QED BY <3>1, <2>1, <2>2
  <2>. QED BY <1>3, <2>1, <2>2, <2>3
<1>. QED
  BY <1>6, <1>7

LEMMA InOrderOK ==
    ASSUME NEW trades, Distinct(trades)
    PROVE  /\ Len(trades) \in Nat
           /\ Len(InOrder(trades)) = Len(trades)
           /\ \A n \in 1..Len(trades) :
                 /\ InOrder(trades)[n] = trades[PlaceOf(trades, n)]
                 /\ InOrder(trades)[n] \in Fill
<1>1. Len(trades) \in Nat /\ DOMAIN trades = 1..Len(trades) /\ \A i \in 1..Len(trades) : trades[i] \in Fill
  BY LenProperties DEF Distinct
<1>2. InOrder(trades) = [n \in 1..Len(trades) |-> trades[PlaceOf(trades, n)]]
  BY <1>1 DEF InOrder, PlaceOf, RankIn
<1>3. \A n \in 1..Len(trades) : trades[PlaceOf(trades, n)] \in Fill
  BY <1>1, RanksArePlaces
<1>4. InOrder(trades) \in Seq(Fill)
  BY <1>1, <1>2, <1>3, SeqDef
<1>5. Len(InOrder(trades)) = Len(trades)
  BY <1>1, <1>2, <1>4, LenProperties
<1>. QED
  BY <1>1, <1>2, <1>3, <1>5

-----------------------------------------------------------------------------
(* The tape, and the part of it that is scored. *)

TapeOK ==
    /\ tape \in Seq(Fill)
    /\ \A i \in 1..Len(tape) : tape[i].id \in {i, -i}
    /\ \A i, j \in 1..Len(tape) : i <= j => tape[i].ts <= tape[j].ts

Window(from) == SubSeq(tape, from, Len(tape))

LEMMA TapeTypes ==
    ASSUME TapeOK
    PROVE  /\ Len(tape) \in Nat
           /\ DOMAIN tape = 1..Len(tape)
           /\ \A k \in 1..Len(tape) :
                 /\ tape[k] \in Fill
                 /\ tape[k].asset \in Tokens
                 /\ tape[k].side \in {"buy", "sell"}
                 /\ tape[k].qty \in Nat \ {0}
                 /\ tape[k].usd \in Nat \ {0}
           /\ \A i, j \in 1..Len(tape) : i # j => tape[i].id # tape[j].id
<1>1. /\ Len(tape) \in Nat /\ DOMAIN tape = 1..Len(tape)
      /\ \A k \in 1..Len(tape) : tape[k] \in Fill
  BY LenProperties DEF TapeOK
<1>2. \A i, j \in 1..Len(tape) : i # j => tape[i].id # tape[j].id
  BY DEF TapeOK
<1>3. \A k \in 1..Len(tape) :
         /\ tape[k].asset \in Tokens /\ tape[k].side \in {"buy", "sell"}
         /\ tape[k].qty \in Nat \ {0} /\ tape[k].usd \in Nat \ {0}
  BY <1>1, FillTypes
<1>. QED
  BY <1>1, <1>2, <1>3

LEMMA WindowOK ==
    ASSUME TapeOK, NEW from \in 1..Len(tape)
    PROVE  /\ Distinct(Window(from))
           /\ Len(Window(from)) = Len(tape) - from + 1
           /\ \A i \in 1..Len(Window(from)) : Window(from)[i] = tape[from - 1 + i]
<1> DEFINE L == Len(tape)
           trades == Window(from)
<1>1. L \in Nat /\ tape \in Seq(Fill)
  BY TapeTypes DEF TapeOK
<1>2. /\ trades \in Seq(Fill) /\ Len(trades) = L - from + 1
      /\ \A i \in 1..(L - from + 1) : trades[i] = tape[from + i - 1]
  BY <1>1, SubSeqProperties DEF Window
<1>3. \A i \in 1..(L - from + 1) : from + i - 1 = from - 1 + i /\ from - 1 + i \in 1..L
  BY <1>1
<1>4. \A i \in 1..Len(trades) : trades[i] = tape[from - 1 + i]
  BY <1>2, <1>3
<1>5. ASSUME NEW i \in 1..Len(trades), NEW j \in 1..Len(trades), i # j
      PROVE  trades[i].id # trades[j].id
  <2>1. from - 1 + i \in 1..L /\ from - 1 + j \in 1..L /\ from - 1 + i # from - 1 + j
    BY <1>2, <1>3, <1>5
  <2>. QED BY <1>4, <2>1, TapeTypes
<1>. QED
  BY <1>2, <1>4, <1>5 DEF Distinct

\* When a fill of the window is read, and that none is skipped or read twice.
Stage(from, k) == RankIn(Window(from), k - from + 1) + 1

LEMMA StagesOK ==
    ASSUME TapeOK, NEW from \in 1..Len(tape)
    PROVE  /\ \A k \in from..Len(tape) : Stage(from, k) \in 1..Len(Window(from))
           /\ \A n \in 1..Len(Window(from)) : \E k \in from..Len(tape) :
                 Stage(from, k) = n /\ InOrder(Window(from))[n] = tape[k]
           /\ \A j, k \in from..Len(tape) : Stage(from, j) = Stage(from, k) => j = k
           /\ \A j, k \in from..Len(tape) : Earlier(tape[j], tape[k]) => Stage(from, j) < Stage(from, k)
<1> DEFINE trades == Window(from)
           N == Len(trades)
           L == Len(tape)
<1>1. /\ Distinct(trades) /\ N = L - from + 1 /\ L \in Nat
      /\ \A i \in 1..N : trades[i] = tape[from - 1 + i]
  BY WindowOK, TapeTypes
<1>2. \A k \in from..L : k - from + 1 \in 1..N /\ trades[k - from + 1] = tape[k]
  <2>1. \A k \in from..L : k - from + 1 \in 1..N /\ from - 1 + (k - from + 1) = k
    BY <1>1
  <2> HIDE DEF trades
  <2>. QED BY <1>1, <2>1
<1>3. /\ \A n \in 1..N : PlaceOf(trades, n) \in 1..N /\ RankIn(trades, PlaceOf(trades, n)) = n - 1
      /\ \A i \in 1..N : RankIn(trades, i) + 1 \in 1..N /\ PlaceOf(trades, RankIn(trades, i) + 1) = i
      /\ \A n \in 1..N : InOrder(trades)[n] = trades[PlaceOf(trades, n)]
  BY <1>1, RanksArePlaces, InOrderOK
<1> HIDE DEF trades
<1>4. ASSUME NEW n \in 1..N
      PROVE  \E k \in from..L : RankIn(trades, k - from + 1) + 1 = n /\ InOrder(trades)[n] = tape[k]
  <2> DEFINE i == PlaceOf(trades, n)
             k == from - 1 + i
  <2>1. i \in 1..N /\ RankIn(trades, i) = n - 1 /\ InOrder(trades)[n] = trades[i]
    BY <1>3
  <2> HIDE DEF i
  <2>2. k \in from..L /\ k - from + 1 = i
    BY <1>1, <2>1
  <2>3. RankIn(trades, k - from + 1) + 1 = n
    BY <2>1, <2>2
  <2>. QED BY <1>1, <2>1, <2>2, <2>3
<1>5. ASSUME NEW j \in from..L, NEW k \in from..L,
             RankIn(trades, j - from + 1) + 1 = RankIn(trades, k - from + 1) + 1
      PROVE  j = k
  <2>1. j - from + 1 = k - from + 1
    BY <1>2, <1>3, <1>5
  <2>. QED BY <2>1, <1>1
<1>6. ASSUME NEW j \in from..L, NEW k \in from..L, Earlier(tape[j], tape[k])
      PROVE  RankIn(trades, j - from + 1) + 1 < RankIn(trades, k - from + 1) + 1
  <2>1. RankIn(trades, j - from + 1) < RankIn(trades, k - from + 1)
    BY <1>1, <1>2, <1>6, RankGrows
  <2> DEFINE a == RankIn(trades, j - from + 1)
             b == RankIn(trades, k - from + 1)
  <2>3. a \in Int /\ b \in Int
    <3>1. \A i \in 1..N : RankIn(trades, i) \in Int
      <4>1. \A i \in 1..N : IsFiniteSet({l \in DOMAIN trades : Earlier(trades[l], trades[i])})
        <5>1. IsFiniteSet(DOMAIN trades)
          BY <1>1, LenProperties, FS_Interval DEF Distinct
        <5>. QED BY <5>1, FS_Subset
      <4>. QED BY <4>1, FS_CardinalityType DEF RankIn
    <3>. QED BY <1>2, <3>1
  <2>. QED BY <2>1, <2>3
<1>. QED
  BY <1>2, <1>3, <1>4, <1>5, <1>6 DEF Stage, trades

-----------------------------------------------------------------------------
(* What the tape says, one fill at a time. *)

LEMMA SignedAndCash ==
    ASSUME TapeOK
    PROVE  /\ \A k \in 1..Len(tape) : Signed[k] \in Int /\ Cash[k] \in Int
           /\ \A k \in 1..Len(tape) :
                 /\ tape[k].side = "buy" =>
                       Signed[k] = tape[k].qty /\ Cash[k] = (-tape[k].usd) - fomoFeeUsd(tape[k].usd)
                 /\ tape[k].side = "sell" =>
                       Signed[k] = -tape[k].qty /\ Cash[k] = tape[k].usd - fomoFeeUsd(tape[k].usd)
<1>1. SUFFICES ASSUME NEW k \in 1..Len(tape)
      PROVE  /\ Signed[k] \in Int /\ Cash[k] \in Int
             /\ tape[k].side = "buy" =>
                   Signed[k] = tape[k].qty /\ Cash[k] = (-tape[k].usd) - fomoFeeUsd(tape[k].usd)
             /\ tape[k].side = "sell" =>
                   Signed[k] = -tape[k].qty /\ Cash[k] = tape[k].usd - fomoFeeUsd(tape[k].usd)
  OBVIOUS
<1>2. /\ k \in DOMAIN tape /\ tape[k].side \in {"buy", "sell"}
      /\ tape[k].qty \in Nat /\ tape[k].usd \in Nat /\ fomoFeeUsd(tape[k].usd) \in Nat
  BY TapeTypes, FeeNat
<1>3. /\ Signed[k] = IF tape[k].side = "buy" THEN tape[k].qty ELSE -tape[k].qty
      /\ Cash[k] = (IF tape[k].side = "sell" THEN tape[k].usd ELSE -tape[k].usd) - fomoFeeUsd(tape[k].usd)
  BY <1>2 DEF Signed, Cash
<1>4. CASE tape[k].side = "buy"
  <2>1. tape[k].side # "sell"
    BY <1>4
  <2>2. Signed[k] = tape[k].qty /\ Cash[k] = (-tape[k].usd) - fomoFeeUsd(tape[k].usd)
    BY <1>3, <1>4, <2>1
  <2>. QED BY <1>2, <2>1, <2>2
<1>5. CASE tape[k].side = "sell"
  <2>1. tape[k].side # "buy"
    BY <1>5
  <2>2. Signed[k] = -tape[k].qty /\ Cash[k] = tape[k].usd - fomoFeeUsd(tape[k].usd)
    BY <1>3, <1>5, <2>1
  <2>. QED BY <1>2, <2>1, <2>2
<1>. QED
  BY <1>2, <1>4, <1>5

\* Sums over fills, w being either.
IntOn(w) == \A k \in 1..Len(tape) : w[k] \in Int

LEMMA FillSums ==
    ASSUME TapeOK, NEW w, IntOn(w), NEW S, S \subseteq 1..Len(tape)
    PROVE  /\ IsFiniteSet(S)
           /\ SumFunctionOnSet(w, S) \in Int
           /\ \A k \in 1..Len(tape) : k \notin S =>
                 SumFunctionOnSet(w, S \cup {k}) = SumFunctionOnSet(w, S) + w[k]
           /\ \A T \in SUBSET S :
                 SumFunctionOnSet(w, S) = SumFunctionOnSet(w, T) + SumFunctionOnSet(w, S \ T)
<1> DEFINE D == 1..Len(tape)
<1>1. IsFiniteSet(D)
  <2>1. 1 \in Int /\ Len(tape) \in Int
    BY TapeTypes
  <2>. QED BY <2>1, FS_Interval
<1>2. \A T \in SUBSET D : IsFiniteSet(T) /\ SumFunctionOnSet(w, T) \in Int
  <2>1. SUFFICES ASSUME NEW T \in SUBSET D PROVE IsFiniteSet(T) /\ SumFunctionOnSet(w, T) \in Int
    OBVIOUS
  <2>2. IsFiniteSet(T)
    BY <1>1, FS_Subset
  <2>3. \A x \in T : w[x] \in Int
    BY DEF IntOn
  <2>. QED BY <2>2, <2>3, SumInt
<1>3. ASSUME NEW k \in D, k \notin S
      PROVE  SumFunctionOnSet(w, S \cup {k}) = SumFunctionOnSet(w, S) + w[k]
  <2>1. IsFiniteSet(S \cup {k}) /\ k \in S \cup {k} /\ (S \cup {k}) \ {k} = S
    BY <1>2, <1>3
  <2>2. \A x \in S \cup {k} : w[x] \in Int
    BY DEF IntOn
  <2>3. SumFunctionOnSet(w, S \cup {k}) = w[k] + SumFunctionOnSet(w, (S \cup {k}) \ {k})
    BY <2>1, <2>2, SumRemove
  <2>4. SumFunctionOnSet(w, S) \in Int /\ w[k] \in Int
    BY <1>2, <2>2
  <2>5. SumFunctionOnSet(w, S \cup {k}) = w[k] + SumFunctionOnSet(w, S)
    BY <2>1, <2>3, Zenon
  <2>. QED BY <2>4, <2>5
<1>4. ASSUME NEW T \in SUBSET S
      PROVE  SumFunctionOnSet(w, S) = SumFunctionOnSet(w, T) + SumFunctionOnSet(w, S \ T)
  <2>1. IsFiniteSet(T) /\ IsFiniteSet(S \ T) /\ T \cap (S \ T) = {} /\ T \cup (S \ T) = S
    BY <1>2
  <2>2. \A x \in T \cup (S \ T) : w[x] \in Int
    BY DEF IntOn
  <2>3. SumFunctionOnSet(w, T \cup (S \ T)) = SumFunctionOnSet(w, T) + SumFunctionOnSet(w, S \ T)
    BY <2>1, <2>2, SumDisjoint
  <2>. QED BY <2>1, <2>3
<1>. QED
  BY <1>2, <1>3, <1>4

LEMMA HeldStep ==
    ASSUME TapeOK, NEW t \in Tokens, NEW k \in 1..Len(tape)
    PROVE  /\ HeldAt(t, k) \in Int /\ HeldAt(t, k - 1) \in Int
           /\ tape[k].asset = t => HeldAt(t, k) = HeldAt(t, k - 1) + Signed[k]
           /\ tape[k].asset # t => HeldAt(t, k) = HeldAt(t, k - 1)
<1>1. IntOn(Signed) /\ Len(tape) \in Nat
  BY SignedAndCash, TapeTypes DEF IntOn
<1>2. /\ Fills(t, k - 1) \subseteq 1..Len(tape) /\ Fills(t, k) \subseteq 1..Len(tape)
      /\ k \notin Fills(t, k - 1)
  BY <1>1 DEF Fills
<1>3. HeldAt(t, k) \in Int /\ HeldAt(t, k - 1) \in Int
  BY <1>1, <1>2, FillSums DEF HeldAt
<1>4. CASE tape[k].asset = t
  <2>1. Fills(t, k) = Fills(t, k - 1) \cup {k}
    BY <1>1, <1>4 DEF Fills
  <2>2. SumFunctionOnSet(Signed, Fills(t, k - 1) \cup {k})
            = SumFunctionOnSet(Signed, Fills(t, k - 1)) + Signed[k]
    BY <1>1, <1>2, FillSums
  <2>. QED BY <1>3, <1>4, <2>1, <2>2 DEF HeldAt
<1>5. CASE tape[k].asset # t
  <2>1. Fills(t, k) = Fills(t, k - 1)
    BY <1>1, <1>5 DEF Fills
  <2>. QED BY <1>3, <1>5, <2>1 DEF HeldAt
<1>. QED
  BY <1>4, <1>5

LEMMA BoughtStep ==
    ASSUME TapeOK, NEW t \in Tokens, NEW from \in 1..Len(tape), NEW k \in from..Len(tape)
    PROVE  /\ BoughtIn(t, from, k) \in Nat /\ BoughtIn(t, from, k - 1) \in Nat
           /\ tape[k].asset = t /\ tape[k].side = "buy" =>
                 BoughtIn(t, from, k) = BoughtIn(t, from, k - 1) + tape[k].qty
           /\ ~ (tape[k].asset = t /\ tape[k].side = "buy") =>
                 BoughtIn(t, from, k) = BoughtIn(t, from, k - 1)
<1> DEFINE S(i) == {j \in Fills(t, i) : j >= from /\ tape[j].side = "buy"}
<1>1. IntOn(Signed) /\ Len(tape) \in Nat /\ k \in 1..Len(tape)
  BY SignedAndCash, TapeTypes DEF IntOn
<1>2. S(k - 1) \subseteq 1..Len(tape) /\ S(k) \subseteq 1..Len(tape) /\ k \notin S(k - 1)
  BY <1>1 DEF Fills
<1>3. \A T \in SUBSET (1..Len(tape)) :
          (\A j \in T : tape[j].side = "buy") => SumFunctionOnSet(Signed, T) \in Nat
  <2>1. SUFFICES ASSUME NEW T \in SUBSET (1..Len(tape)), \A j \in T : tape[j].side = "buy"
                 PROVE  SumFunctionOnSet(Signed, T) \in Nat
    OBVIOUS
  <2>2. IsFiniteSet(T)
    BY <1>1, FillSums
  <2>3. \A j \in T : Signed[j] \in Nat
    <3>1. SUFFICES ASSUME NEW j \in T PROVE Signed[j] \in Nat
      OBVIOUS
    <3>2. j \in 1..Len(tape) /\ tape[j].side = "buy"
      BY <2>1
    <3>. QED BY <3>2, SignedAndCash, TapeTypes
  <2>. QED BY <2>2, <2>3, SumNat
<1>4. /\ BoughtIn(t, from, k) = SumFunctionOnSet(Signed, S(k))
      /\ BoughtIn(t, from, k - 1) = SumFunctionOnSet(Signed, S(k - 1))
  BY DEF BoughtIn
<1>5. BoughtIn(t, from, k) \in Nat /\ BoughtIn(t, from, k - 1) \in Nat
  <2>1. (\A j \in S(k) : tape[j].side = "buy") /\ (\A j \in S(k - 1) : tape[j].side = "buy")
    OBVIOUS
  <2> HIDE DEF S
  <2>. QED BY <1>2, <1>3, <1>4, <2>1
<1>6. CASE tape[k].asset = t /\ tape[k].side = "buy"
  <2>1. S(k) = S(k - 1) \cup {k}
    BY <1>1, <1>6 DEF Fills
  <2>2. SumFunctionOnSet(Signed, S(k - 1) \cup {k}) = SumFunctionOnSet(Signed, S(k - 1)) + Signed[k]
    <3> HIDE DEF S
    <3>. QED BY <1>1, <1>2, FillSums
  <2>3. Signed[k] = tape[k].qty
    BY <1>1, <1>6, SignedAndCash
  <2> HIDE DEF S
  <2>. QED BY <1>4, <1>5, <1>6, <2>1, <2>2, <2>3
<1>7. CASE ~ (tape[k].asset = t /\ tape[k].side = "buy")
  <2>1. S(k) = S(k - 1)
    BY <1>1, <1>7 DEF Fills
  <2> HIDE DEF S
  <2>. QED BY <1>4, <1>5, <1>7, <2>1
<1>. QED
  BY <1>6, <1>7, <1>5

\* The fills of a token up to one, those since the trader last had none of it,
\* and the ones before.
Since(t, from, i) == {k \in from..i : tape[k].asset = t}
Pending(t, from, i) == {k \in Since(t, from, i) : \A j \in k..i : HeldAt(t, j) # 0}
Cleared(t, from, i) == Since(t, from, i) \ Pending(t, from, i)

\* Nothing changes between two fills of a token.
Quiet(t, i, m) == \A j \in (i + 1)..m : tape[j].asset # t

LEMMA QuietChangesNothing ==
    ASSUME TapeOK, NEW t \in Tokens, NEW from \in 1..Len(tape),
           NEW i \in (from - 1)..Len(tape), NEW m \in i..Len(tape), Quiet(t, i, m)
    PROVE  /\ HeldAt(t, m) = HeldAt(t, i)
           /\ BoughtIn(t, from, m) = BoughtIn(t, from, i)
           /\ Pending(t, from, m) = Pending(t, from, i)
           /\ Cleared(t, from, m) = Cleared(t, from, i)
<1>1. Len(tape) \in Nat /\ \A j \in (i + 1)..m : tape[j].asset # t
  BY TapeTypes DEF Quiet
<1>2. \A l \in i..m : Fills(t, l) = Fills(t, i)
  BY <1>1 DEF Fills
<1>3. \A l \in i..m : HeldAt(t, l) = HeldAt(t, i)
  BY <1>2 DEF HeldAt
<1>4. BoughtIn(t, from, m) = BoughtIn(t, from, i)
  <2>1. Fills(t, m) = Fills(t, i)
    BY <1>2
  <2>. QED BY <2>1 DEF BoughtIn
<1>5. Since(t, from, m) = Since(t, from, i)
  BY <1>1 DEF Since
<1>6. \A k \in Since(t, from, i) :
         (\A j \in k..m : HeldAt(t, j) # 0) <=> (\A j \in k..i : HeldAt(t, j) # 0)
  <2>1. SUFFICES ASSUME NEW k \in Since(t, from, i)
                 PROVE  (\A j \in k..m : HeldAt(t, j) # 0) <=> (\A j \in k..i : HeldAt(t, j) # 0)
    OBVIOUS
  <2>2. k \in from..i
    BY DEF Since
  <2>3. ASSUME \A j \in k..i : HeldAt(t, j) # 0, NEW j \in k..m PROVE HeldAt(t, j) # 0
    <3>1. CASE j <= i
      BY <2>2, <2>3, <3>1
    <3>2. CASE ~ (j <= i)
      <4>1. j \in i..m /\ i \in k..i
        BY <2>2, <3>2
      <4>. QED BY <1>3, <2>3, <4>1
    <3>. QED BY <3>1, <3>2
  <2>4. k..i \subseteq k..m
    BY <2>2
  <2>. QED BY <2>3, <2>4
<1>7. Pending(t, from, m) = Pending(t, from, i)
  BY <1>5, <1>6 DEF Pending
<1>. QED
  <2>1. m \in i..m
    BY <1>1
  <2>. QED BY <1>3, <1>4, <1>5, <1>7, <2>1 DEF Cleared

\* A fill joins the pending ones, and clears them when it leaves nothing.
LEMMA PendingStep ==
    ASSUME TapeOK, NEW t \in Tokens, NEW from \in 1..Len(tape),
           NEW k \in from..Len(tape), tape[k].asset = t
    PROVE  /\ k \notin Since(t, from, k - 1)
           /\ HeldAt(t, k - 1) = 0 => Pending(t, from, k - 1) = {}
           /\ HeldAt(t, k) # 0 =>
                 /\ Pending(t, from, k) = Pending(t, from, k - 1) \cup {k}
                 /\ Cleared(t, from, k) = Cleared(t, from, k - 1)
           /\ HeldAt(t, k) = 0 => Cleared(t, from, k) = Since(t, from, k - 1) \cup {k}
<1>1. Len(tape) \in Nat /\ k - 1 \in Nat
  BY TapeTypes
<1>2. Since(t, from, k) = Since(t, from, k - 1) \cup {k} /\ k \notin Since(t, from, k - 1)
  BY <1>1 DEF Since
<1>3. \A j \in Since(t, from, k - 1) : j \in from..(k - 1) /\ k - 1 \in j..(k - 1) /\ k \in j..k
  BY <1>1 DEF Since
<1>4. HeldAt(t, k - 1) = 0 => Pending(t, from, k - 1) = {}
  BY <1>3 DEF Pending
<1>5. ASSUME HeldAt(t, k) # 0
      PROVE  Pending(t, from, k) = Pending(t, from, k - 1) \cup {k}
  <2>1. \A j \in Since(t, from, k - 1) :
           (\A m \in j..k : HeldAt(t, m) # 0) <=> (\A m \in j..(k - 1) : HeldAt(t, m) # 0)
    <3>1. \A j \in Since(t, from, k - 1) : j..k = (j..(k - 1)) \cup {k}
      BY <1>1, <1>3
    <3>. QED BY <1>5, <3>1
  <2>2. \A m \in k..k : HeldAt(t, m) # 0
    BY <1>1, <1>5
  <2>. QED BY <1>2, <2>1, <2>2 DEF Pending
<1>6. ASSUME HeldAt(t, k) # 0
      PROVE  Cleared(t, from, k) = Cleared(t, from, k - 1)
  BY <1>2, <1>5, <1>6 DEF Cleared
<1>7. ASSUME HeldAt(t, k) = 0
      PROVE  Cleared(t, from, k) = Since(t, from, k - 1) \cup {k}
  <2>1. \A j \in Since(t, from, k) : k \in j..k
    BY <1>1, <1>2, <1>3
  <2>2. Pending(t, from, k) = {}
    BY <1>7, <2>1 DEF Pending
  <2>. QED BY <1>2, <2>2 DEF Cleared
<1>. QED
  BY <1>2, <1>4, <1>5, <1>6, <1>7

LEMMA CashSums ==
    ASSUME TapeOK, NEW t \in Tokens, NEW from \in 1..Len(tape), NEW k \in from..Len(tape),
           tape[k].asset = t
    PROVE  /\ SumFunctionOnSet(Cash, Pending(t, from, k - 1)) \in Int
           /\ SumFunctionOnSet(Cash, Cleared(t, from, k - 1)) \in Int
           /\ SumFunctionOnSet(Cash, Pending(t, from, k - 1) \cup {k})
                 = SumFunctionOnSet(Cash, Pending(t, from, k - 1)) + Cash[k]
           /\ HeldAt(t, k) # 0 =>
                 /\ SumFunctionOnSet(Cash, Pending(t, from, k))
                       = SumFunctionOnSet(Cash, Pending(t, from, k - 1)) + Cash[k]
                 /\ Cleared(t, from, k) = Cleared(t, from, k - 1)
           /\ HeldAt(t, k) = 0 =>
                 SumFunctionOnSet(Cash, Cleared(t, from, k))
                     = SumFunctionOnSet(Cash, Cleared(t, from, k - 1))
                       + (SumFunctionOnSet(Cash, Pending(t, from, k - 1)) + Cash[k])
<1> DEFINE S == Since(t, from, k - 1)
           P == Pending(t, from, k - 1)
           C == Cleared(t, from, k - 1)
<1>1. IntOn(Cash) /\ Len(tape) \in Nat /\ k \in 1..Len(tape)
  BY SignedAndCash, TapeTypes DEF IntOn
<1>2. S \subseteq 1..Len(tape) /\ P \in SUBSET S /\ C = S \ P
  BY <1>1 DEF Since, Pending, Cleared
<1>3. k \notin S
  BY PendingStep
<1>4. P \subseteq 1..Len(tape) /\ C \subseteq 1..Len(tape) /\ k \notin P
  BY <1>2, <1>3
<1>5. Cash[k] \in Int
  BY <1>1 DEF IntOn
<1> HIDE DEF S, P, C
<1>6. SumFunctionOnSet(Cash, P) \in Int /\ SumFunctionOnSet(Cash, C) \in Int
      /\ SumFunctionOnSet(Cash, P \cup {k}) = SumFunctionOnSet(Cash, P) + Cash[k]
  BY <1>1, <1>4, FillSums
<1>7. SumFunctionOnSet(Cash, S) = SumFunctionOnSet(Cash, P) + SumFunctionOnSet(Cash, C)
  <2>1. IsFiniteSet(P) /\ IsFiniteSet(C)
    BY <1>1, <1>4, FillSums
  <2>2. P \cap C = {} /\ P \cup C = S
    BY <1>2
  <2>3. \A x \in P \cup C : Cash[x] \in Int
    BY <1>1, <1>4 DEF IntOn
  <2>4. SumFunctionOnSet(Cash, P \cup C) = SumFunctionOnSet(Cash, P) + SumFunctionOnSet(Cash, C)
    BY <2>1, <2>2, <2>3, SumDisjoint
  <2>. QED BY <2>2, <2>4, Zenon
<1>8. SumFunctionOnSet(Cash, S \cup {k}) = SumFunctionOnSet(Cash, S) + Cash[k]
  BY <1>1, <1>2, <1>3, FillSums
<1>9. ASSUME HeldAt(t, k) # 0
      PROVE  /\ SumFunctionOnSet(Cash, Pending(t, from, k)) = SumFunctionOnSet(Cash, P) + Cash[k]
             /\ Cleared(t, from, k) = C
  <2>1. Pending(t, from, k) = P \cup {k} /\ Cleared(t, from, k) = C
    BY <1>9, PendingStep DEF P, C
  <2>. QED BY <1>6, <2>1
<1>10. ASSUME HeldAt(t, k) = 0
       PROVE  SumFunctionOnSet(Cash, Cleared(t, from, k))
                  = SumFunctionOnSet(Cash, C) + (SumFunctionOnSet(Cash, P) + Cash[k])
  <2>1. Cleared(t, from, k) = S \cup {k}
    BY <1>10, PendingStep DEF S
  <2>2. SumFunctionOnSet(Cash, Cleared(t, from, k)) = SumFunctionOnSet(Cash, S) + Cash[k]
    BY <1>8, <2>1, Zenon
  <2>. QED BY <1>5, <1>6, <1>7, <2>2
<1>. QED
  BY <1>6, <1>9, <1>10 DEF P, C

\* On a readable tape nothing is ever owed, and what is held is never a trace.
LEMMA ReadableHeld ==
    ASSUME TapeOK, NEW from \in 1..Len(tape), Readable(from),
           NEW t \in Tokens, NEW i \in (from - 1)..Len(tape)
    PROVE  /\ HeldAt(t, i) \in Nat /\ BoughtIn(t, from, i) \in Nat
           /\ HeldAt(t, i) # 0 => HeldAt(t, i) * 100 > BoughtIn(t, from, i) * FLAT_EPSILON
<1>1. Len(tape) \in Nat
  BY TapeTypes
<1>2. CASE i = from - 1
  <2>1. HeldAt(t, i) = 0
    BY <1>2 DEF Readable
  <2>2. from \in from..Len(tape)
    BY <1>1
  <2>3. BoughtIn(t, from, from - 1) \in Nat
    BY <2>2, BoughtStep
  <2>. QED BY <1>2, <2>1, <2>3
<1>3. CASE i # from - 1
  <2>1. i \in from..Len(tape) /\ i \in 1..Len(tape)
    BY <1>1, <1>3
  <2>2. HeldAt(t, i) \in Int
    BY <2>1, HeldStep
  <2>3. BoughtIn(t, from, i) \in Nat
    BY <2>1, BoughtStep
  <2>4. HeldAt(t, i) = 0 \/ HeldAt(t, i) * 100 > FLAT_EPSILON * BoughtIn(t, from, i)
    BY <2>1 DEF Readable
  <2>. QED BY <2>2, <2>3, <2>4 DEF FLAT_EPSILON
<1>. QED
  BY <1>2, <1>3

\* What the scorer has of a token agrees with the tape up to one fill.
Right(t, from, i, ep) ==
    /\ ep = Unmeasured <=> HeldAt(t, i) = 0
    /\ ep # Unmeasured =>
          /\ ep.held = HeldAt(t, i)
          /\ ep.bought <= BoughtIn(t, from, i)
          /\ Net(ep) = SumFunctionOnSet(Cash, Pending(t, from, i))

LEMMA BuyRight ==
    ASSUME TapeOK, NEW from \in 1..Len(tape), Readable(from), NEW k \in from..Len(tape),
           tape[k].side = "buy", NEW book, BookOK(book),
           Right(tape[k].asset, from, k - 1, book.open[tape[k].asset])
    PROVE  /\ Right(tape[k].asset, from, k, Bought(Base(book, tape[k]), tape[k]))
           /\ HeldAt(tape[k].asset, k) # 0
<1> DEFINE fill == tape[k]
           t == fill.asset
           base == Base(book, fill)
           new == Bought(base, fill)
<1>1. /\ k \in 1..Len(tape) /\ k - 1 \in (from - 1)..Len(tape) /\ k \in (from - 1)..Len(tape)
      /\ fill \in Fill /\ t \in Tokens /\ fill.qty \in Nat \ {0}
      /\ fill.usd \in Nat /\ fomoFeeUsd(fill.usd) \in Nat
  <2>1. k \in 1..Len(tape) /\ k - 1 \in (from - 1)..Len(tape) /\ k \in (from - 1)..Len(tape)
    BY TapeTypes
  <2>2. fill \in Fill /\ t \in Tokens /\ fill.qty \in Nat \ {0} /\ fill.usd \in Nat
    BY <2>1, TapeTypes
  <2>. QED BY <2>1, <2>2, FeeNat
<1>2. HeldAt(t, k - 1) \in Nat /\ HeldAt(t, k) = HeldAt(t, k - 1) + fill.qty /\ HeldAt(t, k) # 0
  <2>1. HeldAt(t, k - 1) \in Nat
    BY <1>1, ReadableHeld
  <2>2. HeldAt(t, k) = HeldAt(t, k - 1) + Signed[k]
    BY <1>1, HeldStep
  <2>3. Signed[k] = fill.qty
    BY <1>1, SignedAndCash
  <2>4. HeldAt(t, k) = HeldAt(t, k - 1) + fill.qty
    BY <2>2, <2>3
  <2>5. fill.qty \in Nat /\ fill.qty # 0
    BY <1>1
  <2> HIDE DEF t, fill
  <2>. QED BY <2>1, <2>4, <2>5
<1>3. /\ BoughtIn(t, from, k - 1) \in Nat
      /\ BoughtIn(t, from, k) = BoughtIn(t, from, k - 1) + fill.qty
  BY <1>1, BoughtStep
<1>4. Cash[k] = (-fill.usd) - fomoFeeUsd(fill.usd)
  BY <1>1, SignedAndCash
<1>5. /\ SumFunctionOnSet(Cash, Pending(t, from, k - 1)) \in Int
      /\ SumFunctionOnSet(Cash, Pending(t, from, k))
            = SumFunctionOnSet(Cash, Pending(t, from, k - 1)) + Cash[k]
  BY <1>1, <1>2, CashSums
<1>6. /\ base \in Episode /\ base.closedAt = Unmeasured /\ base.held = base.bought - base.sold
  BY <1>1, BaseOK
<1>7. /\ OpenOK(new) /\ new.bought = base.bought + fill.qty /\ new.held = base.held + fill.qty
      /\ Net(new) = Net(base) - fill.usd - fomoFeeUsd(fill.usd)
  <2> HIDE DEF base, fill
  <2>. QED BY <1>1, <1>6, BoughtOK
<1>8. /\ base.held = HeldAt(t, k - 1)
      /\ base.bought <= BoughtIn(t, from, k - 1)
      /\ Net(base) = SumFunctionOnSet(Cash, Pending(t, from, k - 1))
  <2>1. CASE book.open[t] = Unmeasured
    <3>1. HeldAt(t, k - 1) = 0
      BY <2>1 DEF Right
    <3>2. base.held = 0 /\ base.bought = 0 /\ Net(base) = 0
      BY <1>1, <2>1, NewEpisodeOK DEF Base
    <3>3. Pending(t, from, k - 1) = {}
      BY <1>1, <3>1, PendingStep
    <3>4. SumFunctionOnSet(Cash, Pending(t, from, k - 1)) = 0
      BY <3>3, SumEmpty
    <3>. QED BY <1>3, <3>1, <3>2, <3>4
  <2>2. CASE book.open[t] # Unmeasured
    BY <2>2 DEF Base, Right
  <2>. QED BY <2>1, <2>2
<1>9. base.bought \in Nat /\ base.held \in Int
  BY <1>6 DEF Episode
<1>10. new # Unmeasured
  BY <1>7, NullAssumption DEF OpenOK
<1>11. new.held = HeldAt(t, k)
  BY <1>2, <1>7, <1>8
<1>12. new.bought <= BoughtIn(t, from, k)
  <2>1. fill.qty \in Nat
    BY <1>1
  <2> HIDE DEF base, new, t, fill
  <2>2. base.bought + fill.qty <= BoughtIn(t, from, k - 1) + fill.qty
    BY <1>3, <1>8, <1>9, <2>1
  <2>. QED BY <1>3, <1>7, <2>2
<1>13. Net(new) = SumFunctionOnSet(Cash, Pending(t, from, k))
  <2>1. fill.usd \in Int /\ fomoFeeUsd(fill.usd) \in Int
    BY <1>1
  <2> HIDE DEF base, new, t, fill
  <2>2. Net(base) \in Int
    BY <1>5, <1>8
  <2>3. Net(base) - fill.usd - fomoFeeUsd(fill.usd) = Net(base) + ((-fill.usd) - fomoFeeUsd(fill.usd))
    BY <2>1, <2>2
  <2>. QED BY <1>4, <1>5, <1>7, <1>8, <2>3
<1>. QED
  <2>1. Right(t, from, k, new)
    <3> HIDE DEF new, t
    <3>. QED BY <1>2, <1>10, <1>11, <1>12, <1>13 DEF Right
  <2>. QED BY <1>2, <2>1

LEMMA FlatOrNot ==
    ASSUME NEW ep, ep.held \in Nat, ep.bought \in Nat
    PROVE  /\ ep.held = 0 => ReturnedFlat(ep)
           /\ \A n \in Nat : ep.bought <= n /\ ep.held * 100 > n * FLAT_EPSILON => ~ ReturnedFlat(ep)
  BY DEF ReturnedFlat, FLAT_EPSILON

LEMMA SellRight ==
    ASSUME TapeOK, NEW from \in 1..Len(tape), Readable(from), NEW k \in from..Len(tape),
           tape[k].side = "sell", NEW ep, ep # Unmeasured => OpenOK(ep),
           Right(tape[k].asset, from, k - 1, ep)
    PROVE  /\ ep # Unmeasured
           /\ OpenOK(Sold(ep, tape[k]))
           /\ Net(Sold(ep, tape[k]))
                 = SumFunctionOnSet(Cash, Pending(tape[k].asset, from, k - 1)) + Cash[k]
           /\ HeldAt(tape[k].asset, k) = 0 =>
                 /\ ReturnedFlat(Sold(ep, tape[k]))
                 /\ Sold(ep, tape[k]).sold = Sold(ep, tape[k]).bought
           /\ HeldAt(tape[k].asset, k) # 0 =>
                 /\ ~ ReturnedFlat(Sold(ep, tape[k]))
                 /\ Right(tape[k].asset, from, k, Sold(ep, tape[k]))
<1> DEFINE fill == tape[k]
           t == fill.asset
           new == Sold(ep, fill)
<1>1. /\ k \in 1..Len(tape) /\ k - 1 \in (from - 1)..Len(tape) /\ k \in (from - 1)..Len(tape)
      /\ fill \in Fill /\ t \in Tokens /\ fill.qty \in Nat \ {0}
      /\ fill.usd \in Nat /\ fomoFeeUsd(fill.usd) \in Nat
  BY TapeTypes, FeeNat
<1>2. HeldAt(t, k - 1) \in Nat /\ HeldAt(t, k) \in Nat /\ HeldAt(t, k) = HeldAt(t, k - 1) - fill.qty
  <2>1. HeldAt(t, k - 1) \in Nat /\ HeldAt(t, k) \in Nat
    BY <1>1, ReadableHeld
  <2>2. HeldAt(t, k) = HeldAt(t, k - 1) + Signed[k]
    BY <1>1, HeldStep
  <2>3. Signed[k] = -fill.qty
    BY <1>1, SignedAndCash
  <2>. QED BY <1>1, <2>1, <2>2, <2>3
<1>3. ep # Unmeasured
  <2>1. HeldAt(t, k - 1) # 0
    BY <1>1, <1>2
  <2>. QED BY <2>1 DEF Right
<1>4. /\ BoughtIn(t, from, k - 1) \in Nat
      /\ BoughtIn(t, from, k) = BoughtIn(t, from, k - 1)
  BY <1>1, BoughtStep
<1>5. Cash[k] = fill.usd - fomoFeeUsd(fill.usd)
  BY <1>1, SignedAndCash
<1>6. /\ ep.held = HeldAt(t, k - 1) /\ ep.bought <= BoughtIn(t, from, k - 1)
      /\ Net(ep) = SumFunctionOnSet(Cash, Pending(t, from, k - 1))
  BY <1>3 DEF Right
<1>7. /\ OpenOK(new) /\ new.bought = ep.bought /\ new.held = ep.held - fill.qty
      /\ Net(new) = Net(ep) + fill.usd - fomoFeeUsd(fill.usd)
  <2> HIDE DEF fill
  <2>. QED BY <1>1, <1>3, SoldOK
<1>8. /\ SumFunctionOnSet(Cash, Pending(t, from, k - 1)) \in Int
      /\ HeldAt(t, k) # 0 => SumFunctionOnSet(Cash, Pending(t, from, k))
            = SumFunctionOnSet(Cash, Pending(t, from, k - 1)) + Cash[k]
  BY <1>1, CashSums
<1>9. /\ new.bought \in Nat /\ new.sold \in Nat /\ new.bought > 0 /\ new.held = new.bought - new.sold
      /\ new # Unmeasured
  BY <1>7, NullAssumption DEF OpenOK, Episode
<1>10. new.held = HeldAt(t, k)
  BY <1>2, <1>6, <1>7
<1> HIDE DEF new, t, fill
<1>11. Net(new) = SumFunctionOnSet(Cash, Pending(t, from, k - 1)) + Cash[k]
  BY <1>1, <1>5, <1>6, <1>7, <1>8
<1>12. ASSUME HeldAt(t, k) = 0
       PROVE  ReturnedFlat(new) /\ new.sold = new.bought
  <2>1. new.held = 0
    BY <1>10, <1>12
  <2>2. new.sold = new.bought
    BY <1>9, <2>1
  <2>3. ReturnedFlat(new)
    BY <1>9, <2>1, FlatOrNot
  <2>. QED BY <2>2, <2>3
<1>13. ASSUME HeldAt(t, k) # 0
       PROVE  ~ ReturnedFlat(new) /\ Right(t, from, k, new)
  <2>1. HeldAt(t, k) * 100 > BoughtIn(t, from, k) * FLAT_EPSILON
    BY <1>1, <1>13, ReadableHeld
  <2>2. new.bought <= BoughtIn(t, from, k)
    BY <1>4, <1>6, <1>7
  <2>3. ~ ReturnedFlat(new)
    <3>1. BoughtIn(t, from, k) \in Nat /\ new.held \in Nat /\ new.bought \in Nat
      BY <1>2, <1>4, <1>9, <1>10
    <3>2. new.held * 100 > BoughtIn(t, from, k) * FLAT_EPSILON
      BY <1>10, <2>1
    <3>. QED BY <2>2, <3>1, <3>2, FlatOrNot
  <2>4. Net(new) = SumFunctionOnSet(Cash, Pending(t, from, k))
    BY <1>8, <1>11, <1>13
  <2>. QED BY <1>9, <1>10, <1>13, <2>2, <2>3, <2>4 DEF Right
<1>. QED
  BY <1>3, <1>7, <1>11, <1>12, <1>13 DEF new, t, fill

-----------------------------------------------------------------------------
(* The episodes of a readable tape account for its cash. *)

Worth(eps) == [i \in DOMAIN eps |-> Net(eps[i])]

LEMMA NetInt ==
    ASSUME NEW ep \in Episode
    PROVE  Net(ep) \in Int
  BY DEF Net, Episode

LEMMA NetIsSum ==
    ASSUME NEW eps, IsList(eps, Episode)
    PROVE  /\ NetOf(eps) = SumFunctionOnSet(Worth(eps), DOMAIN eps)
           /\ NetOf(eps) \in Int
           /\ \A i \in DOMAIN eps : Worth(eps)[i] = Net(eps[i]) /\ Worth(eps)[i] \in Int
<1>1. \A i \in DOMAIN eps : Worth(eps)[i] = Net(eps[i]) /\ Worth(eps)[i] \in Int
  BY NetInt DEF IsList, Worth
<1>2. DOMAIN Worth(eps) = DOMAIN eps
  BY DEF Worth
<1>3. NetOf(eps) = SumFunctionOnSet(Worth(eps), DOMAIN eps)
  <2>1. NetOf(eps) = SumFunction(Worth(eps))
    BY DEF NetOf, Total, Each, Worth
  <2>. QED BY <1>2, <2>1 DEF SumFunction
<1>4. SumFunctionOnSet(Worth(eps), DOMAIN eps) \in Int
  BY <1>1, SumInt DEF IsList
<1>. QED
  BY <1>1, <1>3, <1>4

LEMMA SeqIsList ==
    ASSUME NEW T, NEW xs \in Seq(T)
    PROVE  IsList(xs, T) /\ Count(xs) = Len(xs)
<1>1. Len(xs) \in Nat /\ DOMAIN xs = 1..Len(xs) /\ \A i \in 1..Len(xs) : xs[i] \in T
  BY LenProperties
<1>2. IsFiniteSet(1..Len(xs)) /\ Cardinality(1..Len(xs)) = Len(xs)
  <2>1. 1 \in Int /\ Len(xs) \in Int
    BY <1>1
  <2>2. IsFiniteSet(1..Len(xs)) /\ Cardinality(1..Len(xs)) = IF 1 > Len(xs) THEN 0 ELSE Len(xs) - 1 + 1
    BY <2>1, FS_Interval
  <2>. QED BY <1>1, <2>2
<1>. QED
  BY <1>1, <1>2 DEF IsList, Count

LEMMA NetOfAppend ==
    ASSUME NEW done \in Seq(Episode), NEW ep \in Episode
    PROVE  /\ NetOf(done) \in Int
           /\ NetOf(Append(done, ep)) = NetOf(done) + Net(ep)
           /\ NetOf(<<>>) = 0
<1> DEFINE more == Append(done, ep)
           n == Len(done)
<1>1. /\ more \in Seq(Episode) /\ Len(more) = n + 1
      /\ \A i \in 1..n : more[i] = done[i]
      /\ more[n + 1] = ep
      /\ n \in Nat
  BY AppendProperties, LenProperties
<1>2. IsList(done, Episode) /\ IsList(more, Episode)
  BY <1>1, SeqIsList
<1>3. DOMAIN done = 1..n /\ DOMAIN more = 1..(n + 1)
  BY <1>1, LenProperties
<1> HIDE DEF more
<1>4. /\ NetOf(done) = SumFunctionOnSet(Worth(done), 1..n)
      /\ NetOf(done) \in Int
      /\ NetOf(more) = SumFunctionOnSet(Worth(more), 1..(n + 1))
      /\ \A i \in 1..n : Worth(done)[i] = Net(done[i])
      /\ \A i \in 1..(n + 1) : Worth(more)[i] = Net(more[i]) /\ Worth(more)[i] \in Int
  BY <1>2, <1>3, NetIsSum
<1>5. IsFiniteSet(1..(n + 1)) /\ IsFiniteSet(1..n)
  BY <1>2, <1>3 DEF IsList
<1>6. n + 1 \in 1..(n + 1) /\ (1..(n + 1)) \ {n + 1} = 1..n /\ \A i \in 1..n : i \in 1..(n + 1)
  BY <1>1
<1>7. SumFunctionOnSet(Worth(more), 1..(n + 1))
          = Worth(more)[n + 1] + SumFunctionOnSet(Worth(more), (1..(n + 1)) \ {n + 1})
  BY <1>4, <1>5, <1>6, SumRemove
<1>8. SumFunctionOnSet(Worth(more), 1..n) = SumFunctionOnSet(Worth(done), 1..n)
  <2>1. \A i \in 1..n : Worth(more)[i] = Worth(done)[i]
    BY <1>1, <1>4, <1>6
  <2>. QED BY <1>5, <2>1, SumSame
<1>9. Worth(more)[n + 1] = Net(ep) /\ Net(ep) \in Int
  BY <1>1, <1>4, <1>6
<1>10. NetOf(more) = Net(ep) + NetOf(done)
  BY <1>4, <1>6, <1>7, <1>8, <1>9
<1>11. NetOf(<<>>) = 0
  <2>1. IsList(<<>>, Episode) /\ DOMAIN <<>> = {}
    <3>1. <<>> \in Seq(Episode) /\ Len(<<>>) = 0
      BY EmptySeq
    <3>2. DOMAIN <<>> = 1..0
      BY <3>1, LenProperties
    <3>3. IsList(<<>>, Episode)
      BY <3>1, SeqIsList
    <3>4. 1..0 = {}
      OBVIOUS
    <3>. QED BY <3>2, <3>3, <3>4
  <2>2. NetOf(<<>>) = SumFunctionOnSet(Worth(<<>>), {})
    BY <2>1, NetIsSum
  <2>. QED BY <2>2, SumEmpty
<1>. QED
  BY <1>4, <1>9, <1>10, <1>11 DEF more

\* How far into each token's fills the scorer has read: what it closed so far
\* is the cash those fills cleared.
Cuts(from) == [Tokens -> (from - 1)..Len(tape)]
TakenAt(t, from, i) == SumFunctionOnSet(Cash, Cleared(t, from, i))
Taken(from, cut) == [t \in Tokens |-> TakenAt(t, from, cut[t])]

Accounted(from, cut, book) ==
    /\ \A t \in Tokens : Right(t, from, cut[t], book.open[t])
    /\ NetOf(book.done) = SumFunctionOnSet(Taken(from, cut), Tokens)
    /\ \A i \in 1..Len(book.done) : book.done[i].sold = book.done[i].bought

LEMMA TakenInt ==
    ASSUME TapeOK, NEW from \in 1..Len(tape), NEW t \in Tokens, NEW i \in (from - 1)..Len(tape)
    PROVE  TakenAt(t, from, i) \in Int
<1>1. IntOn(Cash) /\ Len(tape) \in Nat
  BY SignedAndCash, TapeTypes DEF IntOn
<1>2. Cleared(t, from, i) \subseteq 1..Len(tape)
  BY <1>1 DEF Cleared, Since
<1>. QED
  BY <1>1, <1>2, FillSums DEF TakenAt

\* Reading on as far as a fill of t changes the sum by what t cleared.
LEMMA TakenStep ==
    ASSUME TapeOK, NEW from \in 1..Len(tape), NEW cut \in Cuts(from),
           NEW t \in Tokens, NEW k \in (from - 1)..Len(tape)
    PROVE  /\ [cut EXCEPT ![t] = k] \in Cuts(from)
           /\ SumFunctionOnSet(Taken(from, cut), Tokens) \in Int
           /\ SumFunctionOnSet(Taken(from, [cut EXCEPT ![t] = k]), Tokens)
                 = SumFunctionOnSet(Taken(from, cut), Tokens)
                   + (TakenAt(t, from, k) - TakenAt(t, from, cut[t]))
<1> DEFINE new == [cut EXCEPT ![t] = k]
           v == Taken(from, new)
           w == Taken(from, cut)
<1>1. new \in Cuts(from) /\ new[t] = k /\ \A u \in Tokens : u # t => new[u] = cut[u]
  BY DEF Cuts
<1>2. \A u \in Tokens : cut[u] \in (from - 1)..Len(tape) /\ new[u] \in (from - 1)..Len(tape)
  BY <1>1 DEF Cuts
<1> HIDE DEF new
<1>3. \A u \in Tokens : w[u] \in Int /\ v[u] \in Int
  BY <1>2, TakenInt DEF Taken
<1>4. \A u \in Tokens : u # t => v[u] = w[u]
  BY <1>1 DEF Taken
<1>5. v[t] = TakenAt(t, from, k) /\ w[t] = TakenAt(t, from, cut[t])
  BY <1>1 DEF Taken
<1>6. IsFiniteSet(Tokens)
  BY ProfileAssumption
<1> HIDE DEF v, w
<1>7. SumFunctionOnSet(w, Tokens) \in Int
  BY <1>3, <1>6, SumInt
<1>8. SumFunctionOnSet(v, Tokens) = SumFunctionOnSet(w, Tokens) + (v[t] - w[t])
  BY <1>3, <1>4, <1>6, SumUpdate
<1>. QED
  BY <1>1, <1>5, <1>7, <1>8 DEF v, w, new

LEMMA PutAccounted ==
    ASSUME TapeOK, NEW from \in 1..Len(tape), NEW cut \in Cuts(from), NEW book,
           BookOK(book), Accounted(from, cut, book), NEW t \in Tokens,
           NEW k \in (from - 1)..Len(tape), NEW ep, Right(t, from, k, ep),
           TakenAt(t, from, k) = TakenAt(t, from, cut[t])
    PROVE  Accounted(from, [cut EXCEPT ![t] = k], Put(book, t, ep))
<1> DEFINE new == [cut EXCEPT ![t] = k]
           next == Put(book, t, ep)
<1>1. /\ \A u \in Tokens : new[u] = IF u = t THEN k ELSE cut[u]
      /\ \A u \in Tokens : next.open[u] = IF u = t THEN ep ELSE book.open[u]
      /\ next.done = book.done
  BY DEF Cuts, Put, BookOK
<1>2. SumFunctionOnSet(Taken(from, new), Tokens) = SumFunctionOnSet(Taken(from, cut), Tokens)
  <2>1. /\ SumFunctionOnSet(Taken(from, cut), Tokens) \in Int
        /\ SumFunctionOnSet(Taken(from, new), Tokens)
              = SumFunctionOnSet(Taken(from, cut), Tokens) + (TakenAt(t, from, k) - TakenAt(t, from, cut[t]))
    BY TakenStep
  <2>2. TakenAt(t, from, k) \in Int
    BY TakenInt
  <2>3. TakenAt(t, from, k) - TakenAt(t, from, cut[t]) = 0
    BY <2>2
  <2> HIDE DEF new
  <2>. QED BY <2>1, <2>3
<1> HIDE DEF new, next
<1>3. \A u \in Tokens : Right(u, from, new[u], next.open[u])
  <2>1. SUFFICES ASSUME NEW u \in Tokens PROVE Right(u, from, new[u], next.open[u])
    OBVIOUS
  <2>2. CASE u = t
    <3>1. new[u] = k /\ next.open[u] = ep
      BY <1>1, <2>2
    <3>. QED BY <2>2, <3>1, Zenon
  <2>3. CASE u # t
    <3>1. new[u] = cut[u] /\ next.open[u] = book.open[u]
      BY <1>1, <2>3
    <3>2. Right(u, from, cut[u], book.open[u])
      BY DEF Accounted
    <3>. QED BY <3>1, <3>2, Zenon
  <2>. QED BY <2>2, <2>3
<1>. QED
  BY <1>1, <1>2, <1>3 DEF Accounted, new, next

LEMMA ShutAccounted ==
    ASSUME TapeOK, NEW from \in 1..Len(tape), NEW cut \in Cuts(from), NEW book,
           BookOK(book), Accounted(from, cut, book),
           NEW k \in from..Len(tape), NEW ep, OpenOK(ep), ep.sold = ep.bought,
           HeldAt(tape[k].asset, k) = 0,
           TakenAt(tape[k].asset, from, k) = TakenAt(tape[k].asset, from, cut[tape[k].asset]) + Net(ep)
    PROVE  Accounted(from, [cut EXCEPT ![tape[k].asset] = k], Shut(book, tape[k], ep))
<1> DEFINE t == tape[k].asset
           new == [cut EXCEPT ![t] = k]
           next == Shut(book, tape[k], ep)
           last == [ep EXCEPT !.closedAt = tape[k].ts]
<1>0. /\ k \in 1..Len(tape) /\ k \in (from - 1)..Len(tape)
      /\ tape[k] \in Fill /\ tape[k].ts \in Nat /\ t \in Tokens
  <2>1. k \in 1..Len(tape) /\ k \in (from - 1)..Len(tape)
    BY TapeTypes
  <2>2. tape[k] \in Fill
    BY <2>1, TapeTypes
  <2>. QED BY <2>1, <2>2, FillTypes
<1>1. /\ \A u \in Tokens : new[u] = IF u = t THEN k ELSE cut[u]
      /\ \A u \in Tokens : next.open[u] = IF u = t THEN Unmeasured ELSE book.open[u]
      /\ next.done = Append(book.done, last)
  BY DEF Cuts, Shut, BookOK
<1>2. /\ ClosedOK(last) /\ last.bought = ep.bought /\ last.sold = ep.sold /\ Net(last) = Net(ep)
  BY <1>0, ShutOK
<1>3. last \in Episode /\ Net(last) \in Int /\ book.done \in Seq(Episode)
  BY <1>2, NetInt DEF ClosedOK, BookOK
<1>4. cut[t] \in (from - 1)..Len(tape)
  BY <1>0 DEF Cuts
<1> HIDE DEF last
<1>5. NetOf(next.done) = SumFunctionOnSet(Taken(from, new), Tokens)
  <2>1. /\ SumFunctionOnSet(Taken(from, cut), Tokens) \in Int
        /\ SumFunctionOnSet(Taken(from, new), Tokens)
              = SumFunctionOnSet(Taken(from, cut), Tokens) + (TakenAt(t, from, k) - TakenAt(t, from, cut[t]))
    BY <1>0, TakenStep
  <2>2. TakenAt(t, from, cut[t]) \in Int
    BY <1>0, <1>4, TakenInt
  <2>3. TakenAt(t, from, k) - TakenAt(t, from, cut[t]) = Net(last)
    BY <1>2, <1>3, <2>2
  <2>4. NetOf(next.done) = NetOf(book.done) + Net(last)
    BY <1>1, <1>3, NetOfAppend
  <2>5. NetOf(book.done) = SumFunctionOnSet(Taken(from, cut), Tokens)
    BY DEF Accounted
  <2> HIDE DEF new, next, t
  <2>. QED BY <2>1, <2>3, <2>4, <2>5
<1>6. \A i \in 1..Len(next.done) : next.done[i].sold = next.done[i].bought
  <2>1. /\ Len(next.done) = Len(book.done) + 1 /\ Len(book.done) \in Nat
        /\ \A i \in 1..Len(book.done) : next.done[i] = book.done[i]
        /\ next.done[Len(book.done) + 1] = last
    BY <1>1, <1>3, AppendProperties, LenProperties
  <2>2. last.sold = last.bought
    BY <1>2
  <2>3. \A i \in 1..Len(book.done) : book.done[i].sold = book.done[i].bought
    BY DEF Accounted
  <2>4. \A i \in 1..(Len(book.done) + 1) : i \in 1..Len(book.done) \/ i = Len(book.done) + 1
    BY <2>1
  <2> HIDE DEF next
  <2>. QED BY <2>1, <2>2, <2>3, <2>4
<1>7. \A u \in Tokens : Right(u, from, new[u], next.open[u])
  <2>1. SUFFICES ASSUME NEW u \in Tokens PROVE Right(u, from, new[u], next.open[u])
    OBVIOUS
  <2>2. CASE u = t
    <3>1. new[u] = k /\ next.open[u] = Unmeasured
      BY <1>1, <2>2
    <3>2. Right(t, from, k, Unmeasured)
      BY DEF Right
    <3> HIDE DEF new, next, t
    <3>. QED BY <2>2, <3>1, <3>2, Zenon
  <2>3. CASE u # t
    <3>1. new[u] = cut[u] /\ next.open[u] = book.open[u]
      BY <1>1, <2>3
    <3>2. Right(u, from, cut[u], book.open[u])
      BY DEF Accounted
    <3> HIDE DEF new, next, t
    <3>. QED BY <3>1, <3>2, Zenon
  <2>. QED BY <2>2, <2>3
<1>. QED
  <2> HIDE DEF new, next, t
  <2>1. Accounted(from, new, next)
    BY <1>5, <1>6, <1>7 DEF Accounted
  <2>. QED BY <2>1 DEF new, next, t

LEMMA FillAccounted ==
    ASSUME TapeOK, NEW from \in 1..Len(tape), Readable(from), NEW cut \in Cuts(from),
           NEW book, BookOK(book), Accounted(from, cut, book),
           NEW k \in from..Len(tape),
           cut[tape[k].asset] <= k - 1, Quiet(tape[k].asset, cut[tape[k].asset], k - 1)
    PROVE  Accounted(from, [cut EXCEPT ![tape[k].asset] = k], OneFill(book, tape[k]))
<1> DEFINE t == tape[k].asset
           ep == book.open[t]
           i == cut[t]
<1>1. /\ k \in 1..Len(tape) /\ k \in (from - 1)..Len(tape) /\ k - 1 \in (from - 1)..Len(tape)
      /\ tape[k] \in Fill /\ t \in Tokens /\ tape[k].side \in {"buy", "sell"}
  <2>1. k \in 1..Len(tape) /\ k \in (from - 1)..Len(tape) /\ k - 1 \in (from - 1)..Len(tape)
    BY TapeTypes
  <2>. QED BY <2>1, TapeTypes
<1>2. i \in (from - 1)..Len(tape) /\ k - 1 \in i..Len(tape)
  BY <1>1 DEF Cuts
<1>3. /\ HeldAt(t, k - 1) = HeldAt(t, i)
      /\ BoughtIn(t, from, k - 1) = BoughtIn(t, from, i)
      /\ Pending(t, from, k - 1) = Pending(t, from, i)
      /\ Cleared(t, from, k - 1) = Cleared(t, from, i)
  BY <1>1, <1>2, QuietChangesNothing
<1>4. Right(t, from, k - 1, ep)
  <2>1. Right(t, from, i, ep)
    BY <1>1 DEF Accounted
  <2>. QED BY <1>3, <2>1 DEF Right
<1>5. TakenAt(t, from, i) = SumFunctionOnSet(Cash, Cleared(t, from, k - 1))
  BY <1>3 DEF TakenAt
<1>6. ASSUME HeldAt(t, k) # 0
      PROVE  TakenAt(t, from, k) = TakenAt(t, from, i)
  <2>1. Cleared(t, from, k) = Cleared(t, from, k - 1)
    BY <1>1, <1>6, CashSums
  <2>. QED BY <1>5, <2>1 DEF TakenAt
<1>7. CASE tape[k].side = "buy"
  <2>1. Right(t, from, k, Bought(Base(book, tape[k]), tape[k])) /\ HeldAt(t, k) # 0
    BY <1>4, <1>7, BuyRight
  <2>2. OneFill(book, tape[k]) = Put(book, t, Bought(Base(book, tape[k]), tape[k]))
    BY <1>1, <1>7, OneFillCases
  <2>3. TakenAt(t, from, k) = TakenAt(t, from, i)
    BY <1>6, <2>1
  <2> HIDE DEF t
  <2>4. Accounted(from, [cut EXCEPT ![t] = k], Put(book, t, Bought(Base(book, tape[k]), tape[k])))
    BY <1>1, <2>1, <2>3, PutAccounted
  <2>5. Accounted(from, [cut EXCEPT ![t] = k], OneFill(book, tape[k]))
    BY <2>2, <2>4, Zenon
  <2>. QED BY <2>5 DEF t
<1>8. CASE tape[k].side = "sell"
  <2> DEFINE sold == Sold(ep, tape[k])
  <2>1. ep # Unmeasured => OpenOK(ep)
    BY <1>1 DEF BookOK
  <2>2. /\ ep # Unmeasured
        /\ OpenOK(sold)
        /\ Net(sold) = SumFunctionOnSet(Cash, Pending(t, from, k - 1)) + Cash[k]
        /\ HeldAt(t, k) = 0 => ReturnedFlat(sold) /\ sold.sold = sold.bought
        /\ HeldAt(t, k) # 0 => ~ ReturnedFlat(sold) /\ Right(t, from, k, sold)
    BY <1>4, <1>8, <2>1, SellRight
  <2>3. CASE HeldAt(t, k) = 0
    <3>1. OneFill(book, tape[k]) = Shut(book, tape[k], sold)
      BY <1>1, <1>8, <2>2, <2>3, OneFillCases
    <3>2. TakenAt(t, from, k) = TakenAt(t, from, i) + Net(sold)
      <4>1. SumFunctionOnSet(Cash, Cleared(t, from, k))
                = SumFunctionOnSet(Cash, Cleared(t, from, k - 1))
                  + (SumFunctionOnSet(Cash, Pending(t, from, k - 1)) + Cash[k])
        BY <1>1, <2>3, CashSums
      <4>. QED BY <1>5, <2>2, <4>1 DEF TakenAt
    <3>3. OpenOK(sold) /\ sold.sold = sold.bought
      BY <2>2, <2>3
    <3>4. Accounted(from, [cut EXCEPT ![tape[k].asset] = k], Shut(book, tape[k], sold))
      <4> HIDE DEF sold
      <4>. QED BY <2>3, <3>2, <3>3, ShutAccounted
    <3>. QED BY <3>1, <3>4, Zenon
  <2>4. CASE HeldAt(t, k) # 0
    <3>1. OneFill(book, tape[k]) = Put(book, t, sold)
      BY <1>1, <1>8, <2>2, <2>4, OneFillCases
    <3>2. TakenAt(t, from, k) = TakenAt(t, from, i)
      BY <1>6, <2>4
    <3>3. Right(t, from, k, sold)
      BY <2>2, <2>4
    <3> HIDE DEF t, sold
    <3>4. Accounted(from, [cut EXCEPT ![t] = k], Put(book, t, sold))
      BY <1>1, <3>2, <3>3, PutAccounted
    <3>5. Accounted(from, [cut EXCEPT ![t] = k], OneFill(book, tape[k]))
      BY <3>1, <3>4, Zenon
    <3>. QED BY <3>5 DEF t
  <2>. QED BY <2>3, <2>4
<1>. QED
  BY <1>1, <1>7, <1>8

\* On a readable tape the fills of one token are read in the order of the tape.
LEMMA TokenInOrder ==
    ASSUME TapeOK, NEW from \in 1..Len(tape), Readable(from),
           NEW i \in from..Len(tape), NEW j \in from..Len(tape), i < j,
           tape[i].asset = tape[j].asset
    PROVE  Stage(from, i) < Stage(from, j)
<1>1. i \in 1..Len(tape) /\ j \in 1..Len(tape) /\ i <= j
  BY TapeTypes
<1>2. tape[i].ts <= tape[j].ts
  BY <1>1 DEF TapeOK
<1>3. tape[i].ts = tape[j].ts => tape[i].id < tape[j].id
  BY DEF Readable
<1>4. tape[i].ts \in Nat /\ tape[j].ts \in Nat
  <2>1. tape[i] \in Fill /\ tape[j] \in Fill
    BY <1>1, TapeTypes
  <2>. QED BY <2>1, FillTypes
<1>5. Earlier(tape[i], tape[j])
  BY <1>2, <1>3, <1>4 DEF Earlier
<1>. QED
  BY <1>5, StagesOK

\* Which fills have been read after n of them.
Reads(from, n, cut) ==
    \A k \in from..Len(tape) : Stage(from, k) <= n <=> k <= cut[tape[k].asset]

LEMMA ReadsStep ==
    ASSUME TapeOK, NEW from \in 1..Len(tape), Readable(from), NEW n \in Nat,
           NEW cut \in Cuts(from), Reads(from, n, cut),
           NEW k \in from..Len(tape), Stage(from, k) = n + 1
    PROVE  /\ cut[tape[k].asset] <= k - 1
           /\ Quiet(tape[k].asset, cut[tape[k].asset], k - 1)
           /\ Reads(from, n + 1, [cut EXCEPT ![tape[k].asset] = k])
<1> DEFINE t == tape[k].asset
           new == [cut EXCEPT ![t] = k]
<1>1. Len(tape) \in Nat /\ t \in Tokens /\ \A j \in from..Len(tape) : tape[j].asset \in Tokens
  <2>1. \A j \in from..Len(tape) : j \in 1..Len(tape)
    BY TapeTypes
  <2>. QED BY <2>1, TapeTypes
<1>2. \A j \in from..Len(tape) : Stage(from, j) \in Int
  <2>1. Len(Window(from)) \in Nat
    BY WindowOK, TapeTypes
  <2>. QED BY <2>1, StagesOK
<1>3. cut[t] \in (from - 1)..Len(tape)
  BY <1>1 DEF Cuts
<1>4. cut[t] <= k - 1
  <2>1. ~ (Stage(from, k) <= n)
    OBVIOUS
  <2>2. ~ (k <= cut[t])
    BY <2>1 DEF Reads
  <2>. QED BY <1>1, <1>3, <2>2
<1>5. ASSUME NEW j \in (cut[t] + 1)..(k - 1), tape[j].asset = t
      PROVE  FALSE
  <2>1. j \in from..Len(tape) /\ j < k /\ ~ (j <= cut[t])
    <3>1. \A c \in (from - 1)..Len(tape) : \A x \in (c + 1)..(k - 1) :
             x \in from..Len(tape) /\ x < k /\ ~ (x <= c)
      BY <1>1
    <3>. QED BY <1>3, <3>1
  <2>2. ~ (Stage(from, j) <= n)
    BY <1>5, <2>1 DEF Reads
  <2>3. Stage(from, j) < Stage(from, k)
    BY <1>5, <2>1, TokenInOrder
  <2>. QED BY <1>2, <2>1, <2>2, <2>3
<1>6. \A u \in Tokens : new[u] = IF u = t THEN k ELSE cut[u]
  BY DEF Cuts
<1> HIDE DEF new, t
<1>7. ASSUME NEW j \in from..Len(tape)
      PROVE  Stage(from, j) <= n + 1 <=> j <= new[tape[j].asset]
  <2>1. Stage(from, j) \in Int /\ Stage(from, j) <= n <=> Stage(from, j) \in Int /\ j <= cut[tape[j].asset]
    BY DEF Reads
  <2>2. CASE tape[j].asset = t
    <3>1. new[tape[j].asset] = k
      BY <1>1, <1>6, <2>2
    <3>2. CASE j < k
      <4>1. Stage(from, j) < Stage(from, k)
        BY <2>2, <3>2, TokenInOrder DEF t
      <4>. QED BY <1>2, <3>1, <3>2, <4>1
    <3>3. CASE j = k
      BY <1>2, <3>1, <3>3
    <3>4. CASE j > k
      <4>1. Stage(from, k) < Stage(from, j)
        BY <2>2, <3>4, TokenInOrder DEF t
      <4>. QED BY <1>2, <3>1, <3>4, <4>1
    <3>. QED BY <3>2, <3>3, <3>4
  <2>3. CASE tape[j].asset # t
    <3>1. new[tape[j].asset] = cut[tape[j].asset]
      BY <1>1, <1>6, <2>3
    <3>2. j # k
      BY <2>3 DEF t
    <3>3. Stage(from, j) # n + 1
      BY <3>2, StagesOK
    <3>4. Stage(from, j) <= n + 1 <=> Stage(from, j) <= n
      BY <1>2, <3>3
    <3>5. Stage(from, j) <= n <=> j <= cut[tape[j].asset]
      BY DEF Reads
    <3>. QED BY <3>1, <3>4, <3>5
  <2>. QED BY <2>2, <2>3
<1>8. Reads(from, n + 1, new)
  BY <1>7 DEF Reads
<1>9. Quiet(t, cut[t], k - 1)
  BY <1>5 DEF Quiet
<1>. QED
  BY <1>4, <1>8, <1>9 DEF new, t

LEMMA StagesAccounted ==
    ASSUME TapeOK, NEW from \in 1..Len(tape), Readable(from)
    PROVE  \A n \in 0..Len(Window(from)) :
              \E cut \in Cuts(from) :
                 Reads(from, n, cut) /\ Accounted(from, cut, Books(InOrder(Window(from)))[n])
<1> DEFINE trades == Window(from)
           sorted == InOrder(trades)
           N == Len(trades)
           Good == {n \in Nat : n <= N => \E cut \in Cuts(from) :
                        Reads(from, n, cut) /\ Accounted(from, cut, Books(sorted)[n])}
<1>1. /\ N \in Nat /\ Len(sorted) = N
      /\ \A n \in 1..N : sorted[n] \in Fill
  BY WindowOK, InOrderOK
<1>2. /\ Books(sorted)[0] = EmptyBook
      /\ \A n \in 1..N : Books(sorted)[n] = OneFill(Books(sorted)[n - 1], sorted[n])
      /\ \A n \in 0..N : BookOK(Books(sorted)[n])
  <2> HIDE DEF sorted, trades
  <2>1. Len(sorted) \in Nat
    BY <1>1
  <2>2. \A n \in 0..Len(sorted) : BookOK(Books(sorted)[n])
    BY <1>1, <2>1, BooksOK
  <2>. QED BY <1>1, <2>1, <2>2, BooksEquation
<1>3. 0 \in Good
  <2> DEFINE cut == [t \in Tokens |-> from - 1]
  <2>1. Len(tape) \in Nat /\ cut \in Cuts(from)
    BY TapeTypes DEF Cuts
  <2>2. \A k \in from..Len(tape) : Stage(from, k) \in 1..N
    BY StagesOK
  <2>3. Reads(from, 0, cut)
    <3>1. \A k \in from..Len(tape) : tape[k].asset \in Tokens
      <4>1. \A k \in from..Len(tape) : k \in 1..Len(tape)
        BY <2>1
      <4>. QED BY <4>1, TapeTypes
    <3>2. SUFFICES ASSUME NEW k \in from..Len(tape)
                   PROVE  Stage(from, k) <= 0 <=> k <= cut[tape[k].asset]
      BY DEF Reads
    <3>3. cut[tape[k].asset] = from - 1
      BY <3>1
    <3>4. ~ (Stage(from, k) <= 0)
      BY <1>1, <2>2
    <3>5. ~ (k <= from - 1)
      BY <2>1
    <3> HIDE DEF cut
    <3>. QED BY <3>3, <3>4, <3>5
  <2>4. \A t \in Tokens : Right(t, from, cut[t], EmptyBook.open[t])
    <3>1. \A t \in Tokens : HeldAt(t, from - 1) = 0
      BY DEF Readable
    <3>. QED BY <3>1 DEF Right, EmptyBook
  <2>5. SumFunctionOnSet(Taken(from, cut), Tokens) = 0
    <3>1. \A t \in Tokens : Since(t, from, from - 1) = {}
      BY <2>1 DEF Since
    <3>2. \A t \in Tokens : Cleared(t, from, from - 1) = {}
      BY <3>1 DEF Cleared
    <3>3. \A t \in Tokens : TakenAt(t, from, from - 1) = 0
      BY <3>2, SumEmpty DEF TakenAt
    <3>4. \A t \in Tokens : Taken(from, cut)[t] = 0
      BY <3>3 DEF Taken
    <3>5. IsFiniteSet(Tokens)
      BY ProfileAssumption
    <3>. QED BY <3>4, <3>5, SumZero
  <2>6. NetOf(EmptyBook.done) = 0 /\ Len(EmptyBook.done) = 0
    <3>1. NewEpisode([ts |-> 0, id |-> 0, asset |-> tape[from].asset, side |-> "buy", qty |-> 1, usd |-> 1]) \in Episode
      <4>1. from \in 1..Len(tape) /\ tape[from].asset \in Tokens
        BY TapeTypes
      <4>. QED BY <4>1 DEF NewEpisode, Episode
    <3>2. <<>> \in Seq(Episode) /\ Len(<<>>) = 0
      BY EmptySeq
    <3>3. NetOf(<<>>) = 0
      BY <3>1, <3>2, NetOfAppend
    <3>4. EmptyBook.done = <<>>
      BY DEF EmptyBook
    <3>. QED BY <3>2, <3>3, <3>4
  <2>7. Accounted(from, cut, EmptyBook)
    <3> HIDE DEF cut
    <3>1. \A i \in 1..Len(EmptyBook.done) : EmptyBook.done[i].sold = EmptyBook.done[i].bought
      BY <2>6
    <3>. QED BY <2>4, <2>5, <2>6, <3>1 DEF Accounted
  <2> HIDE DEF cut, trades, sorted
  <2>. QED BY <1>2, <2>1, <2>3, <2>7
<1>4. ASSUME NEW n \in Nat, n \in Good
      PROVE  n + 1 \in Good
  <2> HIDE DEF trades, sorted
  <2>1. SUFFICES ASSUME n + 1 <= N
                 PROVE  \E cut \in Cuts(from) :
                            Reads(from, n + 1, cut) /\ Accounted(from, cut, Books(sorted)[n + 1])
    OBVIOUS
  <2>2. n <= N /\ n \in 0..N /\ n + 1 \in 1..N /\ (n + 1) - 1 = n
    BY <1>1, <2>1
  <2>3. PICK cut \in Cuts(from) : Reads(from, n, cut) /\ Accounted(from, cut, Books(sorted)[n])
    BY <1>4, <2>2
  <2>4. PICK k \in from..Len(tape) : Stage(from, k) = n + 1 /\ sorted[n + 1] = tape[k]
    BY <2>2, StagesOK DEF trades, sorted
  <2>5. BookOK(Books(sorted)[n]) /\ Books(sorted)[n + 1] = OneFill(Books(sorted)[n], tape[k])
    BY <1>2, <2>2, <2>4
  <2> DEFINE new == [cut EXCEPT ![tape[k].asset] = k]
  <2>6. /\ cut[tape[k].asset] <= k - 1
        /\ Quiet(tape[k].asset, cut[tape[k].asset], k - 1)
        /\ Reads(from, n + 1, new)
    BY <2>3, <2>4, ReadsStep
  <2>7. Accounted(from, new, OneFill(Books(sorted)[n], tape[k]))
    BY <2>3, <2>5, <2>6, FillAccounted
  <2>8. new \in Cuts(from)
    <3>1. k \in (from - 1)..Len(tape)
      BY TapeTypes
    <3>. QED BY <3>1 DEF Cuts
  <2> HIDE DEF new
  <2>. QED BY <2>5, <2>6, <2>7, <2>8
<1>. QED
  <2> HIDE DEF Good, trades, sorted
  <2>1. Nat \subseteq Good
    BY <1>3, <1>4, SuccessorInduction
  <2>2. \A n \in 0..N : n \in Nat /\ n <= N
    BY <1>1
  <2>. QED BY <2>1, <2>2 DEF Good, trades, sorted

\* What is realised is what was cleared by the end of the tape.
LEMMA BankedIsCleared ==
    ASSUME TapeOK, NEW from \in 1..Len(tape), Readable(from), NEW t \in Tokens
    PROVE  Banked(t, from) = TakenAt(t, from, Len(tape))
<1> DEFINE L == Len(tape)
           Z == {i \in (from - 1)..L : HeldAt(t, i) = 0}
           flat == Max(Z)
<1>1. L \in Nat
  BY TapeTypes
<1>2. from - 1 \in Z /\ Z \subseteq Int
  <2>1. HeldAt(t, from - 1) = 0
    BY DEF Readable
  <2>. QED BY <1>1, <2>1
<1>3. IsFiniteSet(Z)
  <2>1. from - 1 \in Int /\ L \in Int
    BY <1>1
  <2>2. IsFiniteSet((from - 1)..L)
    BY <2>1, FS_Interval
  <2>. QED BY <2>2, FS_Subset
<1>4. flat \in Z /\ \A y \in Z : flat >= y
  <2> HIDE DEF Z
  <2>. QED BY <1>2, <1>3, Extremes
<1>5. flat \in (from - 1)..L /\ HeldAt(t, flat) = 0
  BY <1>4
<1>6. \A i \in (from - 1)..L : HeldAt(t, i) = 0 => i <= flat
  BY <1>4
<1>7. Banked(t, from) = SumFunctionOnSet(Cash, {k \in Fills(t, flat) : k >= from})
  BY DEF Banked
<1> HIDE DEF flat, Z
<1>8. {k \in Fills(t, flat) : k >= from} = {k \in Since(t, from, L) : k <= flat}
  BY <1>1, <1>5 DEF Fills, Since
<1>9. \A k \in Since(t, from, L) : k <= flat <=> ~ (\A j \in k..L : HeldAt(t, j) # 0)
  <2>1. SUFFICES ASSUME NEW k \in Since(t, from, L)
                 PROVE  k <= flat <=> \E j \in k..L : HeldAt(t, j) = 0
    OBVIOUS
  <2>2. k \in from..L
    BY DEF Since
  <2>3. ASSUME k <= flat PROVE \E j \in k..L : HeldAt(t, j) = 0
    <3>1. flat \in k..L
      BY <1>1, <1>5, <2>2, <2>3
    <3>. QED BY <1>5, <3>1
  <2>4. ASSUME NEW j \in k..L, HeldAt(t, j) = 0 PROVE k <= flat
    <3>1. j \in (from - 1)..L
      BY <1>1, <2>2
    <3>2. j <= flat
      BY <1>6, <2>4, <3>1
    <3>. QED BY <1>1, <1>5, <2>2, <3>2
  <2>. QED BY <2>3, <2>4
<1>10. {k \in Since(t, from, L) : k <= flat} = Cleared(t, from, L)
  BY <1>9 DEF Cleared, Pending
<1>. QED
  BY <1>7, <1>8, <1>10 DEF TakenAt

LEMMA RealisedByClosed ==
    ASSUME TapeOK, NEW from \in 1..Len(tape), Readable(from)
    PROVE  LET closed == buildEpisodes(Window(from)).closed
           IN  /\ NetOf(closed) = Realised(from)
               /\ \A i \in 1..Len(closed) : closed[i].sold = closed[i].bought
<1> DEFINE N == Len(Window(from))
           book == Books(InOrder(Window(from)))[N]
           L == Len(tape)
<1>1. N \in Nat /\ L \in Nat /\ N \in 0..N
  <2>1. N \in Nat /\ L \in Nat
    BY WindowOK, TapeTypes
  <2>. QED BY <2>1
<1>2. PICK cut \in Cuts(from) : Reads(from, N, cut) /\ Accounted(from, cut, book)
  BY <1>1, StagesAccounted
<1>3. \A k \in from..L : k <= cut[tape[k].asset]
  <2>1. \A k \in from..L : Stage(from, k) <= N
    BY <1>1, StagesOK
  <2>. QED BY <1>2, <2>1 DEF Reads
<1>4. ASSUME NEW t \in Tokens
      PROVE  Taken(from, cut)[t] = Banked(t, from)
  <2>1. cut[t] \in (from - 1)..L
    BY <1>2 DEF Cuts
  <2>2. ASSUME NEW j \in (cut[t] + 1)..L, tape[j].asset = t PROVE FALSE
    <3>1. j \in from..L /\ ~ (j <= cut[t])
      BY <1>1, <2>1
    <3>. QED BY <1>3, <2>2, <3>1
  <2>3. Quiet(t, cut[t], L) /\ L \in cut[t]..L
    BY <1>1, <2>1, <2>2 DEF Quiet
  <2>4. Cleared(t, from, L) = Cleared(t, from, cut[t])
    BY <2>1, <2>3, QuietChangesNothing
  <2>5. Banked(t, from) = TakenAt(t, from, L)
    BY BankedIsCleared
  <2>. QED BY <2>4, <2>5 DEF TakenAt, Taken
<1>5. SumFunctionOnSet(Taken(from, cut), Tokens) = Realised(from)
  <2> DEFINE b == [t \in Tokens |-> Banked(t, from)]
  <2>1. \A t \in Tokens : Taken(from, cut)[t] = b[t]
    BY <1>4
  <2>2. IsFiniteSet(Tokens)
    BY ProfileAssumption
  <2>3. SumFunctionOnSet(Taken(from, cut), Tokens) = SumFunctionOnSet(b, Tokens)
    <3> HIDE DEF b
    <3>. QED BY <2>1, <2>2, SumSame
  <2>4. Realised(from) = SumFunctionOnSet(b, Tokens)
    BY DEF Realised, SumFunction
  <2>. QED BY <2>3, <2>4
<1>6. buildEpisodes(Window(from)).closed = book.done
  BY DEF buildEpisodes
<1> HIDE DEF book
<1>. QED
  BY <1>2, <1>5, <1>6 DEF Accounted

LEMMA ClosedTypes ==
    ASSUME TapeOK, NEW from \in 1..Len(tape)
    PROVE  LET book == Books(InOrder(Window(from)))[Len(Window(from))]
           IN  /\ BookOK(book)
               /\ buildEpisodes(Window(from)).closed = book.done
               /\ book.done \in Seq(Episode)
               /\ \A i \in 1..Len(book.done) : ClosedOK(book.done[i])
<1> DEFINE trades == Window(from)
           sorted == InOrder(trades)
           book == Books(sorted)[Len(trades)]
<1>1. /\ Len(trades) \in Nat /\ Len(sorted) = Len(trades)
      /\ \A n \in 1..Len(trades) : sorted[n] \in Fill
  BY WindowOK, InOrderOK
<1>2. BookOK(book)
  <2> HIDE DEF sorted, trades
  <2>1. Len(sorted) \in Nat /\ \A n \in 1..Len(sorted) : sorted[n] \in Fill
    BY <1>1
  <2>2. \A n \in 0..Len(sorted) : BookOK(Books(sorted)[n])
    BY <2>1, BooksOK
  <2>. QED BY <1>1, <2>2
<1>3. buildEpisodes(trades).closed = book.done
  BY DEF buildEpisodes
<1>4. book.done \in Seq(Episode) /\ \A i \in 1..Len(book.done) : ClosedOK(book.done[i])
  <2> HIDE DEF book
  <2>. QED BY <1>2 DEF BookOK
<1>. QED
  BY <1>2, <1>3, <1>4

\* What the ability profile leaves out of the closed episodes is a list too,
\* and leaves out nothing when every one of them sold what it had bought.
LEMMA JudgedOK ==
    ASSUME NEW closed \in Seq(Episode), \A i \in 1..Len(closed) : ClosedOK(closed[i])
    PROVE  /\ IsList(Judged(closed), Episode)
           /\ DOMAIN Judged(closed) \subseteq 1..Len(closed)
           /\ \A i \in DOMAIN Judged(closed) :
                 Judged(closed)[i] = closed[i] /\ ClosedOK(Judged(closed)[i])
           /\ (\A i \in 1..Len(closed) : closed[i].sold = closed[i].bought) =>
                 NetOf(Judged(closed)) = NetOf(closed)
<1> DEFINE S == {i \in DOMAIN closed : isSelfContained(closed[i])}
<1>1. IsList(closed, Episode) /\ DOMAIN closed = 1..Len(closed) /\ S \subseteq DOMAIN closed
  BY SeqIsList, LenProperties
<1>2. Judged(closed) = Restrict(closed, S)
  BY DEF Judged, RestrictValues
<1>3. IsList(Judged(closed), Episode) /\ DOMAIN Judged(closed) = S
  <2> HIDE DEF S
  <2>. QED BY <1>1, <1>2, RestrictList
<1>4. \A i \in S : Judged(closed)[i] = closed[i]
  BY <1>2 DEF Restrict
<1>5. ASSUME \A i \in 1..Len(closed) : closed[i].sold = closed[i].bought
      PROVE  NetOf(Judged(closed)) = NetOf(closed)
  <2>1. \A i \in 1..Len(closed) : isSelfContained(closed[i])
    <3>1. SUFFICES ASSUME NEW i \in 1..Len(closed) PROVE isSelfContained(closed[i])
      OBVIOUS
    <3>2. closed[i].bought \in Nat /\ closed[i].bought > 0
      BY DEF ClosedOK, Episode
    <3>3. closed[i].sold = closed[i].bought
      BY <1>5
    <3>. QED BY <3>2, <3>3 DEF isSelfContained, QTY_BALANCE_TOLERANCE
  <2>2. S = DOMAIN closed
    BY <1>1, <2>1
  <2>3. \A i \in DOMAIN closed : Worth(Judged(closed))[i] = Worth(closed)[i]
    <3>1. \A i \in DOMAIN closed : Judged(closed)[i] = closed[i] /\ i \in DOMAIN Judged(closed)
      BY <1>3, <1>4, <2>2
    <3>. QED BY <3>1 DEF Worth
  <2>4. NetOf(Judged(closed)) = SumFunctionOnSet(Worth(Judged(closed)), DOMAIN closed)
    <3>1. NetOf(Judged(closed)) = SumFunctionOnSet(Worth(Judged(closed)), DOMAIN Judged(closed))
      BY <1>3, NetIsSum
    <3>. QED BY <1>3, <2>2, <3>1, Zenon
  <2>5. NetOf(closed) = SumFunctionOnSet(Worth(closed), DOMAIN closed)
    BY <1>1, NetIsSum
  <2>6. IsFiniteSet(DOMAIN closed)
    BY <1>1 DEF IsList
  <2>. QED BY <2>3, <2>4, <2>5, <2>6, SumSame
<1>. QED
  BY <1>1, <1>3, <1>4, <1>5

-----------------------------------------------------------------------------
(* A page only ever shows a score of a tape as it stands. *)

Page(s) == \E from \in 1..Len(tape), view \in Markets : s = scoreCandidate(from, view)

HeldOK == held \in [Tokens -> Nat]

ProfileInv ==
    /\ TapeOK
    /\ HeldOK
    /\ score = NoScore \/ Page(score)

LEMMA PageRecord ==
    ASSUME TapeOK, NEW from \in 1..Len(tape), NEW view \in Markets
    PROVE  LET s == scoreCandidate(from, view)
               closed == buildEpisodes(Window(from)).closed
           IN  /\ s.from = from
               /\ s.copy.net = NetOf(closed)
               /\ s.ability.net = NetOf(Judged(closed))
<1> DEFINE s == scoreCandidate(from, view)
           closed == buildEpisodes(Window(from)).closed
<1>1. s.from = from
  BY DEF scoreCandidate
<1>2. s.copy.net = NetOf(closed)
  BY DEF scoreCandidate, scoreEpisodes, Window
<1>3. s.ability.net = NetOf(Judged(closed))
  BY DEF scoreCandidate, buildProfile, Window
<1>. QED
  BY <1>1, <1>2, <1>3

LEMMA PageIsTheTape == ProfileInv => RecordIsTheTape
<1>1. SUFFICES ASSUME ProfileInv, score # NoScore, Readable(score.from)
               PROVE  /\ score.copy.net = Realised(score.from)
                      /\ score.ability.net = Realised(score.from)
  BY DEF RecordIsTheTape
<1>2. PICK from \in 1..Len(tape), view \in Markets : score = scoreCandidate(from, view)
  BY <1>1 DEF ProfileInv, Page
<1> DEFINE closed == buildEpisodes(Window(from)).closed
<1>3. TapeOK
  BY <1>1 DEF ProfileInv
<1>4. /\ score.from = from /\ score.copy.net = NetOf(closed)
      /\ score.ability.net = NetOf(Judged(closed))
  BY <1>2, <1>3, PageRecord
<1>5. Readable(from)
  BY <1>1, <1>4
<1>6. /\ NetOf(closed) = Realised(from)
      /\ \A i \in 1..Len(closed) : closed[i].sold = closed[i].bought
  BY <1>3, <1>5, RealisedByClosed
<1>7. closed \in Seq(Episode) /\ \A i \in 1..Len(closed) : ClosedOK(closed[i])
  BY <1>3, ClosedTypes
<1> HIDE DEF closed
<1>8. NetOf(Judged(closed)) = NetOf(closed)
  BY <1>6, <1>7, JudgedOK
<1>. QED
  BY <1>4, <1>6, <1>8

LEMMA ProfileStarts == ProfileInit => ProfileInv
<1>1. SUFFICES ASSUME ProfileInit PROVE ProfileInv
  OBVIOUS
<1>2. tape \in Seq(Fill) /\ Len(tape) = 0
  BY <1>1, EmptySeq DEF ProfileInit
<1>3. TapeOK
  BY <1>2 DEF TapeOK
<1>4. HeldOK
  BY <1>1 DEF ProfileInit, HeldOK
<1>. QED
  BY <1>1, <1>3, <1>4 DEF ProfileInit, ProfileInv

LEMMA TradeKeeps ==
    ASSUME ProfileInv, NEW asset \in Tokens, NEW side \in {"buy", "sell"},
           NEW size \in [qty : Nat \ {0}, usd : Nat \ {0}], NEW gap \in [sec : Nat, early : BOOLEAN],
           trade(asset, side, size, gap)
    PROVE  ProfileInv'
<1> DEFINE n == Len(tape) + 1
           last == IF tape = <<>> THEN 0 ELSE tape[Len(tape)].ts
           id == IF gap.early THEN -n ELSE n
           fill == [ts |-> last + gap.sec, id |-> id, asset |-> asset, side |-> side,
                    qty |-> size.qty, usd |-> size.usd]
<1>1. TapeOK /\ HeldOK
  BY DEF ProfileInv
<1>2. /\ tape' = Append(tape, fill) /\ score' = NoScore
      /\ side = "sell" => held[asset] >= size.qty
      /\ held' = [held EXCEPT ![asset] = IF side = "buy" THEN @ + size.qty ELSE @ - size.qty]
  BY DEF trade
<1>3. /\ tape \in Seq(Fill) /\ Len(tape) \in Nat
      /\ \A i \in 1..Len(tape) : tape[i] \in Fill /\ tape[i].ts \in Nat
  <2>1. tape \in Seq(Fill) /\ Len(tape) \in Nat /\ \A i \in 1..Len(tape) : tape[i] \in Fill
    BY <1>1, TapeTypes DEF TapeOK
  <2>. QED BY <2>1, FillTypes
<1>4. last \in Nat /\ \A i \in 1..Len(tape) : tape[i].ts <= last
  <2>1. CASE tape = <<>>
    <3>1. Len(tape) = 0
      BY <2>1, EmptySeq
    <3>. QED BY <2>1, <3>1
  <2>2. CASE tape # <<>>
    <3>1. Len(tape) \in 1..Len(tape)
      BY <1>3, <2>2, EmptySeq
    <3>2. last = tape[Len(tape)].ts
      BY <2>2
    <3>3. \A i \in 1..Len(tape) : tape[i].ts <= tape[Len(tape)].ts
      BY <1>1, <3>1 DEF TapeOK
    <3> HIDE DEF last
    <3>. QED BY <1>3, <3>1, <3>2, <3>3
  <2>. QED BY <2>1, <2>2
<1> HIDE DEF last
<1>5. id \in {n, -n} /\ n \in Nat
  BY <1>3
<1>6. last + gap.sec \in Nat /\ last <= last + gap.sec
  BY <1>4
<1>7. fill \in Fill /\ fill.id = id /\ fill.ts = last + gap.sec
  <2>1. id \in Int /\ size.qty \in Nat \ {0} /\ size.usd \in Nat \ {0}
    BY <1>5
  <2> HIDE DEF id
  <2>. QED BY <1>6, <2>1 DEF Fill
<1> HIDE DEF fill, id
<1>8. /\ tape' \in Seq(Fill) /\ Len(tape') = n
      /\ \A i \in 1..Len(tape) : tape'[i] = tape[i]
      /\ tape'[n] = fill
  BY <1>2, <1>3, <1>7, AppendProperties
<1>9. \A i \in 1..n : i \in 1..Len(tape) \/ i = n
  BY <1>3
<1>10. \A i \in 1..Len(tape') : tape'[i].id \in {i, -i}
  <2>1. \A i \in 1..Len(tape) : tape[i].id \in {i, -i}
    BY <1>1 DEF TapeOK
  <2>. QED BY <1>5, <1>7, <1>8, <1>9, <2>1
<1>11. \A i, j \in 1..Len(tape') : i <= j => tape'[i].ts <= tape'[j].ts
  <2>1. SUFFICES ASSUME NEW i \in 1..n, NEW j \in 1..n, i <= j PROVE tape'[i].ts <= tape'[j].ts
    BY <1>8
  <2>2. CASE j = n
    <3>1. tape'[j].ts = last + gap.sec
      BY <1>7, <1>8, <2>2
    <3>2. CASE i = n
      BY <1>6, <2>2, <3>1, <3>2
    <3>3. CASE i # n
      <4>1. i \in 1..Len(tape) /\ tape'[i] = tape[i]
        BY <1>8, <1>9, <3>3
      <4>2. tape[i].ts <= last /\ tape[i].ts \in Nat
        BY <1>3, <1>4, <4>1
      <4>. QED BY <1>4, <1>6, <3>1, <4>1, <4>2
    <3>. QED BY <3>2, <3>3
  <2>3. CASE j # n
    <3>1. j \in 1..Len(tape) /\ i \in 1..Len(tape)
      BY <1>3, <2>1, <2>3
    <3>2. tape'[i] = tape[i] /\ tape'[j] = tape[j] /\ tape[i].ts <= tape[j].ts
      BY <1>1, <1>8, <2>1, <3>1 DEF TapeOK
    <3>. QED BY <3>2
  <2>. QED BY <2>2, <2>3
<1>12. TapeOK'
  BY <1>8, <1>10, <1>11 DEF TapeOK
<1>13. HeldOK'
  <2>1. held \in [Tokens -> Nat] /\ size.qty \in Nat
    BY <1>1 DEF HeldOK
  <2>2. (IF side = "buy" THEN held[asset] + size.qty ELSE held[asset] - size.qty) \in Nat
    <3>1. held[asset] \in Nat
      BY <2>1
    <3>2. CASE side = "buy"
      BY <2>1, <3>1, <3>2
    <3>3. CASE side # "buy"
      <4>1. held[asset] >= size.qty
        BY <1>2, <3>3
      <4>. QED BY <2>1, <3>1, <3>3, <4>1
    <3>. QED BY <3>2, <3>3
  <2>. QED BY <1>2, <2>1, <2>2 DEF HeldOK
<1>. QED
  BY <1>2, <1>12, <1>13 DEF ProfileInv

LEMMA ProfileKeeps == ProfileInv /\ [ProfileNext]_profileVars => ProfileInv'
<1>1. SUFFICES ASSUME ProfileInv, [ProfileNext]_profileVars PROVE ProfileInv'
  OBVIOUS
<1>2. /\ Buys \cup Sells \subseteq [qty : Nat \ {0}, usd : Nat \ {0}]
      /\ Gaps \subseteq [sec : Nat, early : BOOLEAN]
  BY ProfileAssumption
<1>3. CASE Buy
  <2>1. PICK t \in Tokens, size \in Buys, gap \in Gaps : trade(t, "buy", size, gap)
    BY <1>3 DEF Buy
  <2>2. size \in [qty : Nat \ {0}, usd : Nat \ {0}] /\ gap \in [sec : Nat, early : BOOLEAN]
    BY <1>2
  <2>. QED BY <1>1, <2>1, <2>2, TradeKeeps
<1>4. CASE Sell
  <2>1. PICK t \in Tokens, size \in Sells, gap \in Gaps : trade(t, "sell", size, gap)
    BY <1>4 DEF Sell
  <2>2. size \in [qty : Nat \ {0}, usd : Nat \ {0}] /\ gap \in [sec : Nat, early : BOOLEAN]
    BY <1>2
  <2>. QED BY <1>1, <2>1, <2>2, TradeKeeps
<1>5. CASE Score
  <2>1. /\ tape' = tape /\ held' = held
        /\ \E from \in DOMAIN tape, view \in Markets : score' = scoreCandidate(from, view)
    BY <1>5 DEF Score
  <2>2. TapeOK /\ HeldOK
    BY <1>1 DEF ProfileInv
  <2>3. DOMAIN tape = 1..Len(tape)
    BY <2>2, TapeTypes
  <2>4. PICK from \in 1..Len(tape), view \in Markets : score' = scoreCandidate(from, view)
    BY <2>1, <2>3
  <2>5. scoreCandidate(from, view)' = scoreCandidate(from, view)
    BY <2>1 DEF scoreCandidate
  <2>6. Page(score)'
    <3>1. score' = scoreCandidate(from, view)'
      BY <2>4, <2>5
    <3>2. from \in (1..Len(tape))'
      BY <2>1, <2>4
    <3>. QED BY <3>1, <3>2 DEF Page
  <2>7. TapeOK' /\ HeldOK'
    BY <2>1, <2>2 DEF TapeOK, HeldOK
  <2>. QED BY <2>6, <2>7 DEF ProfileInv
<1>6. CASE UNCHANGED profileVars
  <2>1. tape' = tape /\ held' = held /\ score' = score
    BY <1>6 DEF profileVars
  <2>2. TapeOK' /\ HeldOK'
    BY <1>1, <2>1 DEF ProfileInv, TapeOK, HeldOK
  <2>3. (score = NoScore \/ Page(score))'
    <3>1. score = NoScore \/ Page(score)
      BY <1>1 DEF ProfileInv
    <3>2. CASE score = NoScore
      BY <2>1, <3>2
    <3>3. CASE Page(score)
      <4>1. PICK from \in 1..Len(tape), view \in Markets : score = scoreCandidate(from, view)
        BY <3>3 DEF Page
      <4>2. scoreCandidate(from, view)' = scoreCandidate(from, view)
        BY <2>1 DEF scoreCandidate
      <4>3. score' = scoreCandidate(from, view)' /\ from \in (1..Len(tape))'
        BY <2>1, <4>1, <4>2
      <4>. QED BY <4>3 DEF Page
    <3>. QED BY <3>1, <3>2, <3>3
  <2>. QED BY <2>2, <2>3 DEF ProfileInv
<1>. QED
  BY <1>1, <1>3, <1>4, <1>5, <1>6 DEF ProfileNext

\* Whatever is traded and whenever a score is made, the tape stays in time
\* order, holdings never go below nothing, and what the page shows is a score of
\* the tape as it stands (shortlist.ts, profile.ts).
THEOREM PagesShowTheTape == ProfileSpec => []ProfileInv
  BY ProfileStarts, ProfileKeeps, PTL DEF ProfileSpec

\* Both scorers' net result is the cash a readable tape took out of every
\* position that came back to nothing (episodes.ts, metrics.ts, ability.ts).
THEOREM RecordsAreTheTape == ProfileSpec => []RecordIsTheTape
  BY PagesShowTheTape, PageIsTheTape, PTL

-----------------------------------------------------------------------------
(* The numbers a score is made of: curves, averages, scatter. *)

LEMMA DivBetween ==
    ASSUME NEW x \in Int, NEW c \in Nat \ {0}, NEW lo \in Int, NEW hi \in Int,
           lo * c <= x, x <= hi * c
    PROVE  x \div c \in lo..hi
<1> DEFINE q == x \div c
<1>1. q \in Int /\ q * c <= x /\ x < q * c + c
  OBVIOUS
<1> HIDE DEF q
<1>2. lo <= q
  <2>1. SUFFICES ASSUME q + 1 <= lo PROVE FALSE
    BY <1>1
  <2>2. (q + 1) * c <= lo * c
    BY <1>1, <2>1
  <2>3. (q + 1) * c = q * c + c
    BY <1>1
  <2>. QED BY <1>1, <2>2, <2>3
<1>3. q <= hi
  <2>1. SUFFICES ASSUME hi + 1 <= q PROVE FALSE
    BY <1>1
  <2>2. (hi + 1) * c <= q * c
    BY <1>1, <2>1
  <2>3. (hi + 1) * c = hi * c + c
    OBVIOUS
  <2>. QED BY <1>1, <2>2, <2>3
<1>. QED
  BY <1>1, <1>2, <1>3 DEF q

LEMMA RatioBetween ==
    ASSUME NEW x \in Int, NEW c \in Nat \ {0}, NEW lo \in Int, NEW hi \in Int,
           lo * c <= x, x <= hi * c
    PROVE  Ratio(x, c) \in lo..hi
<1>1. Ratio(x, c) = x \div c
  BY DEF Ratio
<1>. QED
  BY <1>1, DivBetween

\* A table of rising inputs whose outputs stay in a range.
Table(points, lo, hi) ==
    /\ Len(points) \in Nat /\ Len(points) >= 2
    /\ \A i \in 1..Len(points) : points[i][1] \in Int /\ points[i][2] \in lo..hi
    /\ \A i \in 2..Len(points) : points[i - 1][1] < points[i][1]

LEMMA SlopeBetween ==
    ASSUME NEW u \in Int, NEW d \in Int, 0 < u, u <= d, NEW a \in Int, NEW b \in Int,
           NEW lo \in Int, NEW hi \in Int, a \in lo..hi, b \in lo..hi
    PROVE  a + Ratio(u * (b - a), d) \in lo..hi
<1> DEFINE e == b - a
<1>1. e \in Int /\ d \in Nat \ {0}
  OBVIOUS
<1> HIDE DEF e
<1>2. CASE e >= 0
  <2>1. u * e \in Int /\ 0 * d <= u * e /\ u * e <= e * d
    BY <1>1, <1>2
  <2>2. Ratio(u * e, d) \in 0..e
    <3> DEFINE w == u * e
    <3>1. w \in Int /\ 0 * d <= w /\ w <= e * d
      BY <2>1
    <3>2. 0 \in Int
      OBVIOUS
    <3> HIDE DEF w
    <3>3. Ratio(w, d) \in 0..e
      BY <1>1, <3>1, <3>2, RatioBetween
    <3>. QED BY <3>3 DEF w
  <2>. QED BY <1>1, <2>2 DEF e
<1>3. CASE e < 0
  <2>1. u * e \in Int /\ e * d <= u * e /\ u * e <= 0 * d
    <3>1. (-e) \in Nat /\ u \in Nat /\ d \in Nat /\ u <= d
      BY <1>1, <1>3
    <3>2. (-e) * u <= (-e) * d /\ (-e) * u \in Nat
      BY <3>1, ProductMono
    <3>3. (-e) * u = -(u * e) /\ (-e) * d = -(e * d)
      BY <1>1
    <3>. QED BY <1>1, <3>2, <3>3
  <2>2. Ratio(u * e, d) \in e..0
    BY <1>1, <2>1, RatioBetween
  <2>. QED BY <1>1, <2>2 DEF e
<1>. QED
  BY <1>1, <1>2, <1>3

LEMMA CurveBetween ==
    ASSUME NEW x \in Int, NEW lo \in Int, NEW hi \in Int, NEW points, Table(points, lo, hi)
    PROVE  curve(x, points) \in lo..hi
<1> DEFINE last == Len(points)
<1>1. /\ last \in Nat /\ last >= 2
      /\ \A i \in 1..last : points[i][1] \in Int /\ points[i][2] \in lo..hi
      /\ \A i \in 2..last : points[i - 1][1] < points[i][1]
  BY DEF Table
<1>2. CASE x <= points[1][1]
  BY <1>1, <1>2 DEF curve
<1>3. CASE ~ (x <= points[1][1]) /\ x >= points[last][1]
  BY <1>1, <1>3 DEF curve
<1>4. CASE ~ (x <= points[1][1]) /\ ~ (x >= points[last][1])
  <2> DEFINE Fits(i) == points[i - 1][1] < x /\ x <= points[i][1]
             i == CHOOSE i \in 2..last : Fits(i)
             S == {j \in 1..last : x <= points[j][1]}
  <2>1. \E j \in 2..last : Fits(j)
    <3>0. /\ 1 \in 1..last /\ last \in 1..last
          /\ points[1][1] \in Int /\ points[last][1] \in Int
      BY <1>1
    <3>1. last \in S /\ S \subseteq Nat
      <4>1. x <= points[last][1]
        BY <1>4, <3>0
      <4>. QED BY <1>1, <3>0, <4>1
    <3>2. PICK j \in S : \A k \in S : j <= k
      <4> HIDE DEF S
      <4>. QED BY <3>1, LeastExists
    <3>3. j \in 1..last /\ x <= points[j][1]
      BY <3>2
    <3>4. j # 1
      BY <1>4, <3>3
    <3>5. j \in 2..last /\ j - 1 \in 1..last /\ j - 1 < j
      BY <1>1, <3>3, <3>4
    <3>6. j - 1 \notin S
      <4> HIDE DEF S
      <4>. QED BY <3>2, <3>3, <3>5
    <3>7. ~ (x <= points[j - 1][1])
      BY <3>5, <3>6
    <3>8. points[j - 1][1] \in Int
      BY <1>1, <3>5
    <3>9. points[j - 1][1] < x
      BY <3>7, <3>8
    <3>. QED BY <3>3, <3>5, <3>9
  <2>2. i \in 2..last /\ Fits(i)
    <3> HIDE DEF Fits
    <3>. QED BY <2>1
  <2>3. curve(x, points) = points[i - 1][2]
            + Ratio((x - points[i - 1][1]) * (points[i][2] - points[i - 1][2]),
                    points[i][1] - points[i - 1][1])
    BY <1>4 DEF curve
  <2> HIDE DEF i
  <2> DEFINE p == points[i - 1][1]
             q == points[i][1]
             a == points[i - 1][2]
             b == points[i][2]
  <2>4. i \in 1..last /\ i - 1 \in 1..last
    BY <1>1, <2>2
  <2>5. p \in Int /\ q \in Int /\ a \in lo..hi /\ b \in lo..hi /\ p < x /\ x <= q
    BY <1>1, <2>2, <2>4
  <2>6. curve(x, points) = a + Ratio((x - p) * (b - a), q - p)
    BY <2>3
  <2> HIDE DEF p, q, a, b
  <2>7. x - p \in Int /\ q - p \in Int /\ 0 < x - p /\ x - p <= q - p /\ a \in Int /\ b \in Int
    BY <2>5
  <2>8. a + Ratio((x - p) * (b - a), q - p) \in lo..hi
    BY <2>5, <2>7, SlopeBetween
  <2>. QED BY <2>6, <2>8
<1>. QED
  BY <1>2, <1>3, <1>4

LEMMA LosingTables ==
    /\ Table(<<<<0, 0>>, <<50, 15>>, <<100, 30>>>>, 0, 100)
    /\ Table(<<<<0, 0>>, <<50, 12>>, <<100, 25>>>>, 0, 25)
<1>1. Table(<<<<0, 0>>, <<50, 15>>, <<100, 30>>>>, 0, 100)
  BY DEF Table
<1>2. Table(<<<<0, 0>>, <<50, 12>>, <<100, 25>>>>, 0, 25)
  BY DEF Table
<1>. QED
  BY <1>1, <1>2

LEMMA Log10Int ==
    ASSUME NEW x \in Int, 1 <= x
    PROVE  Log10(x) \in Int
<1> DEFINE Fits(d) == Decades[d] <= x /\ (d = 9 \/ x < Decades[d + 1])
           decade == CHOOSE d \in 1..9 : Fits(d)
           S == {d \in 1..9 : Decades[d] <= x}
<1>1. Decades[1] = 1 /\ \A d \in 1..9 : Decades[d] \in Nat \ {0}
  BY DEF Decades
<1>2. \E d \in 1..9 : Fits(d)
  <2>1. 1 \in S /\ S \subseteq 1..9
    BY <1>1
  <2>2. S \subseteq Int /\ IsFiniteSet(S)
    <3>1. IsFiniteSet(1..9)
      <4>1. 1 \in Int /\ 9 \in Int
        OBVIOUS
      <4>. QED BY <4>1, FS_Interval
    <3>2. S \subseteq Int
      BY <2>1
    <3> HIDE DEF S
    <3>. QED BY <2>1, <3>1, <3>2, FS_Subset
  <2> DEFINE d == Max(S)
  <2>3. d \in S /\ \A y \in S : d >= y
    <3> HIDE DEF S
    <3>. QED BY <2>1, <2>2, Extremes
  <2>4. d \in 1..9 /\ Decades[d] <= x
    BY <2>3
  <2> HIDE DEF d
  <2>5. ASSUME d # 9 PROVE x < Decades[d + 1]
    <3>1. d + 1 \in 1..9 /\ ~ (d >= d + 1)
      BY <2>4, <2>5
    <3>2. d + 1 \notin S
      <4> HIDE DEF S
      <4>. QED BY <2>3, <3>1
    <3>3. ~ (Decades[d + 1] <= x) /\ Decades[d + 1] \in Nat
      BY <1>1, <3>1, <3>2
    <3>. QED BY <3>3
  <2>. QED BY <2>4, <2>5
<1>3. decade \in 1..9
  <2> HIDE DEF Fits
  <2>. QED BY <1>2
<1> HIDE DEF decade
<1>4. x \div Decades[decade] \in Int
  <2>1. \A c \in Nat \ {0} : x \div c \in Int
    OBVIOUS
  <2>. QED BY <1>1, <1>3, <2>1
<1> DEFINE mark == x \div Decades[decade]
           step == CASE mark >= 7 -> 85 [] mark >= 5 -> 70 [] mark >= 3 -> 48
                     [] mark >= 2 -> 30 [] OTHER -> 0
<1>5. step \in Int
  <2> HIDE DEF mark
  <2>1. mark \in Int
    BY <1>4 DEF mark
  <2>. QED BY <2>1
<1>6. Log10(x) = 100 * (decade - 1) + step
  BY DEF Log10, decade
<1> HIDE DEF step
<1>. QED
  BY <1>3, <1>5, <1>6

LEMMA VarianceNat ==
    ASSUME NEW xs, IsList(xs, Int), Count(xs) >= 2
    PROVE  variance(xs) \in Nat
<1> DEFINE m == mean(xs)
           sq == [i \in DOMAIN xs |-> (xs[i] - m) * (xs[i] - m)]
<1>1. Count(xs) \in Nat /\ m \in Int
  <2>1. Count(xs) \in Nat
    BY CountNat DEF IsList
  <2>2. Count(xs) # 0
    BY <2>1
  <2>. QED BY <2>1, <2>2, MeanMeasure
<1>2. \A i \in DOMAIN xs : sq[i] \in Nat
  <2>1. \A i \in DOMAIN xs : xs[i] - m \in Int
    BY <1>1 DEF IsList
  <2>2. \A y \in Int : y * y \in Nat
    OBVIOUS
  <2> HIDE DEF m
  <2>. QED BY <2>1, <2>2
<1>3. variance(xs) = SumFunctionOnSet(sq, DOMAIN xs) \div (Count(xs) - 1)
  BY DEF variance, Total, Each, SumFunction
<1> HIDE DEF sq
<1>4. SumFunctionOnSet(sq, DOMAIN xs) \in Nat
  BY <1>2, SumNat DEF IsList
<1>5. Count(xs) - 1 \in Nat /\ Count(xs) - 1 > 0
  BY <1>1
<1>. QED
  BY <1>3, <1>4, <1>5, DivNat

\* The whole part of a root, up to n.
LEMMA RootExists ==
    ASSUME NEW n \in Nat, NEW v \in Nat
    PROVE  \E r \in 0..n : r * r <= v /\ (r = n \/ v < (r + 1) * (r + 1))
<1> DEFINE S == {r \in 0..n : r * r <= v}
           r == Max(S)
<1>1. 0 \in S /\ S \subseteq 0..n /\ S \subseteq Int
  OBVIOUS
<1>2. IsFiniteSet(S)
  <2>1. IsFiniteSet(0..n)
    <3>1. 0 \in Int /\ n \in Int
      OBVIOUS
    <3>. QED BY <3>1, FS_Interval
  <2> HIDE DEF S
  <2>. QED BY <1>1, <2>1, FS_Subset
<1>3. r \in S /\ \A y \in S : r >= y
  <2> HIDE DEF S
  <2>. QED BY <1>1, <1>2, Extremes
<1>4. r \in 0..n /\ r * r <= v
  BY <1>3
<1> HIDE DEF r
<1>5. ASSUME r # n PROVE v < (r + 1) * (r + 1)
  <2>1. r + 1 \in 0..n /\ ~ (r >= r + 1)
    BY <1>4, <1>5
  <2>2. r + 1 \notin S
    <3> HIDE DEF S
    <3>. QED BY <1>3, <2>1
  <2>3. ~ ((r + 1) * (r + 1) <= v)
    BY <2>1, <2>2
  <2>4. (r + 1) * (r + 1) \in Int
    BY <1>4
  <2>. QED BY <2>3, <2>4
<1>. QED
  BY <1>4, <1>5

LEMMA StdevBetween ==
    ASSUME NEW xs, IsList(xs, Int)
    PROVE  /\ stdev(xs) \in (0..MaxRoot) \cup {Unmeasured}
           /\ stdev(xs) \in Measure
<1>1. Count(xs) \in Nat
  BY CountNat DEF IsList
<1>2. CASE Count(xs) < 2
  BY <1>2 DEF stdev, Measure
<1>3. CASE ~ (Count(xs) < 2)
  <2> DEFINE Fits(r) == r * r <= variance(xs)
                        /\ (r = MaxRoot \/ variance(xs) < (r + 1) * (r + 1))
  <2>1. variance(xs) \in Nat /\ MaxRoot \in Nat
    BY <1>1, <1>3, VarianceNat DEF MaxRoot
  <2>2. \E r \in 0..MaxRoot : Fits(r)
    BY <2>1, RootExists
  <2>3. stdev(xs) = CHOOSE r \in 0..MaxRoot : Fits(r)
    BY <1>3, Zenon DEF stdev
  <2> HIDE DEF Fits
  <2>4. stdev(xs) \in 0..MaxRoot
    BY <2>2, <2>3, Zenon
  <2>. QED BY <2>1, <2>4 DEF Measure
<1>. QED
  BY <1>2, <1>3

\* Sums over the first few numbers, and over the ones that are known.
LEMMA SumNext ==
    ASSUME NEW n \in Nat, NEW v, \A i \in 1..(n + 1) : v[i] \in Int
    PROVE  /\ SumFunctionOnSet(v, 1..n) \in Int
           /\ SumFunctionOnSet(v, 1..(n + 1)) = SumFunctionOnSet(v, 1..n) + v[n + 1]
<1>1. IsFiniteSet(1..n) /\ IsFiniteSet(1..(n + 1))
  <2>1. 1 \in Int /\ n \in Int /\ n + 1 \in Int
    OBVIOUS
  <2>. QED BY <2>1, FS_Interval
<1>2. n + 1 \in 1..(n + 1) /\ (1..(n + 1)) \ {n + 1} = 1..n /\ \A i \in 1..n : i \in 1..(n + 1)
  OBVIOUS
<1>3. SumFunctionOnSet(v, 1..n) \in Int
  BY <1>1, <1>2, SumInt
<1>4. SumFunctionOnSet(v, 1..(n + 1)) = v[n + 1] + SumFunctionOnSet(v, (1..(n + 1)) \ {n + 1})
  BY <1>1, <1>2, SumRemove
<1>5. SumFunctionOnSet(v, 1..(n + 1)) = v[n + 1] + SumFunctionOnSet(v, 1..n)
  BY <1>2, <1>4
<1>6. v[n + 1] \in Int
  BY <1>2
<1>. QED
  BY <1>3, <1>5, <1>6

LEMMA SumFive ==
    ASSUME NEW v, \A i \in 1..5 : v[i] \in Int
    PROVE  SumFunctionOnSet(v, 1..5) = v[1] + v[2] + v[3] + v[4] + v[5]
<1>0. v[1] \in Int /\ v[2] \in Int /\ v[3] \in Int /\ v[4] \in Int /\ v[5] \in Int
  OBVIOUS
<1>1. SumFunctionOnSet(v, 1..0) = 0
  <2>1. 1..0 = {}
    OBVIOUS
  <2>. QED BY <2>1, SumEmpty
<1>2. \A n \in 0..4 : SumFunctionOnSet(v, 1..n) \in Int /\
         SumFunctionOnSet(v, 1..(n + 1)) = SumFunctionOnSet(v, 1..n) + v[n + 1]
  <2>1. SUFFICES ASSUME NEW n \in 0..4
                 PROVE  /\ SumFunctionOnSet(v, 1..n) \in Int
                        /\ SumFunctionOnSet(v, 1..(n + 1)) = SumFunctionOnSet(v, 1..n) + v[n + 1]
    OBVIOUS
  <2>2. n \in Nat /\ \A i \in 1..(n + 1) : v[i] \in Int
    OBVIOUS
  <2>. QED BY <2>2, SumNext
<1>3. SumFunctionOnSet(v, 1..1) = v[1]
  <2>1. SumFunctionOnSet(v, 1..(0 + 1)) = SumFunctionOnSet(v, 1..0) + v[0 + 1]
    BY <1>2
  <2>2. 0 + 1 = 1
    OBVIOUS
  <2>. QED BY <1>0, <1>1, <2>1, <2>2
<1>4. SumFunctionOnSet(v, 1..2) = v[1] + v[2]
  <2>1. SumFunctionOnSet(v, 1..(1 + 1)) = SumFunctionOnSet(v, 1..1) + v[1 + 1]
    BY <1>2
  <2>. QED BY <1>3, <2>1
<1>5. SumFunctionOnSet(v, 1..3) = v[1] + v[2] + v[3]
  <2>1. SumFunctionOnSet(v, 1..(2 + 1)) = SumFunctionOnSet(v, 1..2) + v[2 + 1]
    BY <1>2
  <2>. QED BY <1>4, <2>1
<1>6. SumFunctionOnSet(v, 1..4) = v[1] + v[2] + v[3] + v[4]
  <2>1. SumFunctionOnSet(v, 1..(3 + 1)) = SumFunctionOnSet(v, 1..3) + v[3 + 1]
    BY <1>2
  <2>. QED BY <1>5, <2>1
<1>7. SumFunctionOnSet(v, 1..(4 + 1)) = SumFunctionOnSet(v, 1..4) + v[4 + 1]
  BY <1>2
<1>. QED
  BY <1>6, <1>7

PaddedWithNothing(v, S, f, K) ==
    /\ \A x \in S : v[x] \in Int
    /\ \A x \in K : v[x] = f[x]
    /\ \A x \in S \ K : v[x] = 0

LEMMA SumKnown ==
    ASSUME NEW S, IsFiniteSet(S), NEW K, K \subseteq S, NEW f, NEW v, PaddedWithNothing(v, S, f, K)
    PROVE  SumFunctionOnSet(f, K) = SumFunctionOnSet(v, S)
<1>0. /\ \A x \in S : v[x] \in Int
      /\ \A x \in K : v[x] = f[x]
      /\ \A x \in S \ K : v[x] = 0
  BY DEF PaddedWithNothing
<1>1. IsFiniteSet(K) /\ IsFiniteSet(S \ K)
  BY FS_Subset
<1>2. K \cap (S \ K) = {} /\ K \cup (S \ K) = S
  OBVIOUS
<1>3. \A x \in K \cup (S \ K) : v[x] \in Int
  BY <1>0
<1>4. SumFunctionOnSet(v, K \cup (S \ K)) = SumFunctionOnSet(v, K) + SumFunctionOnSet(v, S \ K)
  BY <1>1, <1>2, <1>3, SumDisjoint
<1>5. SumFunctionOnSet(v, S \ K) = 0
  BY <1>0, <1>1, SumZero
<1>6. SumFunctionOnSet(v, K) = SumFunctionOnSet(f, K)
  BY <1>0, <1>1, SumSame
<1>7. SumFunctionOnSet(v, K) \in Int
  <2>1. \A x \in K : v[x] \in Int
    BY <1>0
  <2>. QED BY <1>1, <2>1, SumInt
<1>8. SumFunctionOnSet(v, S) = SumFunctionOnSet(v, K) + SumFunctionOnSet(v, S \ K)
  BY <1>2, <1>4, Zenon
<1>. QED
  BY <1>5, <1>6, <1>7, <1>8

LEMMA SumKnownFive ==
    ASSUME NEW K, K \subseteq 1..5, NEW f, NEW v, PaddedWithNothing(v, 1..5, f, K)
    PROVE  SumFunctionOnSet(f, K) = v[1] + v[2] + v[3] + v[4] + v[5]
<1> DEFINE D == 1..5
<1>1. IsFiniteSet(D)
  <2>1. 1 \in Int /\ 5 \in Int
    OBVIOUS
  <2>. QED BY <2>1, FS_Interval
<1>2. K \subseteq D /\ PaddedWithNothing(v, D, f, K)
  OBVIOUS
<1>3. SumFunctionOnSet(v, D) = v[1] + v[2] + v[3] + v[4] + v[5]
  BY SumFive DEF PaddedWithNothing
<1> HIDE DEF D
<1>4. SumFunctionOnSet(f, K) = SumFunctionOnSet(v, D)
  BY <1>1, <1>2, SumKnown
<1>. QED
  BY <1>3, <1>4

\* A composite is the weighted sum of the dimensions that could be measured,
\* over the sum of their weights.
Points(s, w) == IF s = Unmeasured THEN 0 ELSE s * w
Weight(s, w) == IF s = Unmeasured THEN 0 ELSE w

LEMMA PointsInt ==
    ASSUME NEW s \in Measure, NEW w \in Nat
    PROVE  Points(s, w) \in Int /\ Weight(s, w) \in 0..w
<1>1. CASE s = Unmeasured
  BY <1>1 DEF Points, Weight
<1>2. CASE s # Unmeasured
  <2>1. s \in Int
    BY <1>2 DEF Measure
  <2>. QED BY <1>2, <2>1 DEF Points, Weight
<1>. QED
  BY <1>1, <1>2

Averaged(s1, s2, s3, s4, s5, w1, w2, w3, w4, w5) ==
    Renormalised(<< <<s1, w1>>, <<s2, w2>>, <<s3, w3>>, <<s4, w4>>, <<s5, w5>> >>)
        = (s1 * w1 + Points(s2, w2) + Points(s3, w3) + Points(s4, w4) + Points(s5, w5))
          \div (w1 + Weight(s2, w2) + Weight(s3, w3) + Weight(s4, w4) + Weight(s5, w5))

LEMMA WeightedAverage ==
    ASSUME NEW s1 \in Int, NEW s2 \in Measure, NEW s3 \in Measure, NEW s4 \in Measure,
           NEW s5 \in Measure, NEW w1 \in Nat \ {0}, NEW w2 \in Nat, NEW w3 \in Nat,
           NEW w4 \in Nat, NEW w5 \in Nat
    PROVE  Averaged(s1, s2, s3, s4, s5, w1, w2, w3, w4, w5)
<1> DEFINE ws == << <<s1, w1>>, <<s2, w2>>, <<s3, w3>>, <<s4, w4>>, <<s5, w5>> >>
           K == {i \in DOMAIN ws : ws[i][1] # Unmeasured}
           f == [i \in K |-> ws[i][1] * ws[i][2]]
           g == [i \in K |-> ws[i][2]]
           p == [i \in 1..5 |-> Points(ws[i][1], ws[i][2])]
           q == [i \in 1..5 |-> Weight(ws[i][1], ws[i][2])]
<1>1. /\ DOMAIN ws = 1..5
      /\ ws[1] = <<s1, w1>> /\ ws[2] = <<s2, w2>> /\ ws[3] = <<s3, w3>>
      /\ ws[4] = <<s4, w4>> /\ ws[5] = <<s5, w5>>
  OBVIOUS
<1>2. /\ ws[1][1] = s1 /\ ws[2][1] = s2 /\ ws[3][1] = s3 /\ ws[4][1] = s4 /\ ws[5][1] = s5
      /\ ws[1][2] = w1 /\ ws[2][2] = w2 /\ ws[3][2] = w3 /\ ws[4][2] = w4 /\ ws[5][2] = w5
  BY <1>1
<1>3. s1 \in Measure /\ s1 # Unmeasured
  BY NullAssumption DEF Measure
<1>4. \A i \in 1..5 : i \in {1, 2, 3, 4, 5}
  OBVIOUS
<1>5. Renormalised(ws) = SumFunctionOnSet(f, K) \div SumFunctionOnSet(g, K)
  <2> DEFINE known == Restrict(ws, K)
  <2>1. 1 \in K /\ K \subseteq 1..5
    <3>1. 1 \in 1..5
      OBVIOUS
    <3> HIDE DEF ws
    <3>. QED BY <1>1, <1>2, <1>3, <3>1
  <2>2. IsFiniteSet(1..5)
    <3>1. 1 \in Int /\ 5 \in Int
      OBVIOUS
    <3>. QED BY <3>1, FS_Interval
  <2> HIDE DEF ws
  <2>3. DOMAIN known = K /\ \A i \in K : known[i] = ws[i]
    BY DEF Restrict
  <2>4. Count(known) # 0
    <3>1. IsFiniteSet(K)
      BY <2>1, <2>2, FS_Subset
    <3> HIDE DEF known, K
    <3>. QED BY <2>1, <2>3, <3>1, CountNat
  <2>5. Total([i \in DOMAIN known |-> known[i][1] * known[i][2]]) = SumFunctionOnSet(f, K)
    <3>1. [i \in DOMAIN known |-> known[i][1] * known[i][2]] = f
      BY <2>3
    <3>. QED BY <3>1 DEF Total, SumFunction
  <2>6. Total([i \in DOMAIN known |-> known[i][2]]) = SumFunctionOnSet(g, K)
    <3>1. [i \in DOMAIN known |-> known[i][2]] = g
      BY <2>3
    <3>. QED BY <3>1 DEF Total, SumFunction
  <2>7. Renormalised(ws) = IF Count(known) = 0 THEN Unmeasured
            ELSE Total([i \in DOMAIN known |-> known[i][1] * known[i][2]])
                 \div Total([i \in DOMAIN known |-> known[i][2]])
    BY DEF Renormalised, RestrictValues, Each
  <2> HIDE DEF known, f, g, K
  <2>. QED BY <2>4, <2>5, <2>6, <2>7
<1>6. /\ p[1] = s1 * w1 /\ p[2] = Points(s2, w2) /\ p[3] = Points(s3, w3)
      /\ p[4] = Points(s4, w4) /\ p[5] = Points(s5, w5)
      /\ q[1] = w1 /\ q[2] = Weight(s2, w2) /\ q[3] = Weight(s3, w3)
      /\ q[4] = Weight(s4, w4) /\ q[5] = Weight(s5, w5)
  <2>1. /\ p[1] = Points(s1, w1) /\ p[2] = Points(s2, w2) /\ p[3] = Points(s3, w3)
        /\ p[4] = Points(s4, w4) /\ p[5] = Points(s5, w5)
    <3> HIDE DEF ws
    <3>. QED BY <1>2
  <2>2. /\ q[1] = Weight(s1, w1) /\ q[2] = Weight(s2, w2) /\ q[3] = Weight(s3, w3)
        /\ q[4] = Weight(s4, w4) /\ q[5] = Weight(s5, w5)
    <3> HIDE DEF ws
    <3>. QED BY <1>2
  <2>3. Points(s1, w1) = s1 * w1 /\ Weight(s1, w1) = w1
    BY <1>3 DEF Points, Weight
  <2> HIDE DEF p, q
  <2>. QED BY <2>1, <2>2, <2>3
<1>7. \A i \in 1..5 : p[i] \in Int /\ q[i] \in Int
  <2>1. /\ Points(s2, w2) \in Int /\ Points(s3, w3) \in Int /\ Points(s4, w4) \in Int
        /\ Points(s5, w5) \in Int /\ s1 * w1 \in Int
    BY PointsInt
  <2>2. /\ Weight(s2, w2) \in Int /\ Weight(s3, w3) \in Int /\ Weight(s4, w4) \in Int
        /\ Weight(s5, w5) \in Int
    BY PointsInt
  <2> HIDE DEF p, q
  <2>3. \A i \in 1..5 : p[i] \in Int
    BY <1>4, <1>6, <2>1
  <2>4. \A i \in 1..5 : q[i] \in Int
    BY <1>4, <1>6, <2>2
  <2>. QED BY <2>3, <2>4
<1>8. PaddedWithNothing(p, 1..5, f, K) /\ PaddedWithNothing(q, 1..5, g, K) /\ K \subseteq 1..5
  <2> HIDE DEF ws
  <2>2. K \subseteq 1..5
    BY <1>1
  <2>3. \A i \in K : p[i] = f[i] /\ q[i] = g[i]
    BY <2>2 DEF Points, Weight
  <2>4. \A i \in (1..5) \ K : p[i] = 0 /\ q[i] = 0
    BY <1>1 DEF Points, Weight
  <2> HIDE DEF f, g, p, q, K
  <2>5. PaddedWithNothing(p, 1..5, f, K)
    BY <1>7, <2>3, <2>4 DEF PaddedWithNothing
  <2>6. PaddedWithNothing(q, 1..5, g, K)
    BY <1>7, <2>3, <2>4 DEF PaddedWithNothing
  <2>. QED BY <2>2, <2>5, <2>6
<1> HIDE DEF p, q, f, g, K
<1>9. /\ SumFunctionOnSet(f, K) = p[1] + p[2] + p[3] + p[4] + p[5]
      /\ SumFunctionOnSet(g, K) = q[1] + q[2] + q[3] + q[4] + q[5]
  <2>1. SumFunctionOnSet(f, K) = p[1] + p[2] + p[3] + p[4] + p[5]
    BY <1>8, SumKnownFive
  <2>2. SumFunctionOnSet(g, K) = q[1] + q[2] + q[3] + q[4] + q[5]
    BY <1>8, SumKnownFive
  <2>. QED BY <2>1, <2>2
<1>10. Renormalised(ws) = (p[1] + p[2] + p[3] + p[4] + p[5]) \div (q[1] + q[2] + q[3] + q[4] + q[5])
  <2> HIDE DEF ws
  <2>. QED BY <1>5, <1>9
<1> HIDE DEF ws
<1>11. Renormalised(ws) = (s1 * w1 + Points(s2, w2) + Points(s3, w3) + Points(s4, w4) + Points(s5, w5))
                 \div (w1 + Weight(s2, w2) + Weight(s3, w3) + Weight(s4, w4) + Weight(s5, w5))
  BY <1>6, <1>10
<1>. QED
  BY <1>11 DEF ws, Averaged

-----------------------------------------------------------------------------
(* What a filter or a sum over episodes is. *)

Amount == Nat \cup {Unmeasured}

LEMMA QuotientInt ==
    /\ \A x \in Int, c \in Nat \ {0} : x \div c \in Int
    /\ \A x \in Nat, c \in Nat \ {0} : x \div c \in Nat
<1>1. \A x \in Int, c \in Nat \ {0} : x \div c \in Int
  OBVIOUS
<1>2. \A x \in Nat, c \in Nat \ {0} : x \div c \in Nat
  BY DivNat
<1>. QED
  BY <1>1, <1>2

LEMMA NegativeSum ==
    ASSUME NEW S, IsFiniteSet(S), NEW w, \A x \in S : w[x] \in Int /\ w[x] < 0
    PROVE  /\ SumFunctionOnSet(w, S) \in Int
           /\ SumFunctionOnSet(w, S) <= 0
           /\ S # {} => SumFunctionOnSet(w, S) < 0
<1>1. \A T \in SUBSET S : SumFunctionOnSet(w, T) \in Int /\ SumFunctionOnSet(w, T) <= 0
  <2>1. SUFFICES ASSUME NEW T \in SUBSET S
                 PROVE  SumFunctionOnSet(w, T) \in Int /\ SumFunctionOnSet(w, T) <= 0
    OBVIOUS
  <2> DEFINE z == [x \in T |-> 0]
  <2>2. IsFiniteSet(T) /\ \A x \in T : w[x] \in Int
    BY FS_Subset
  <2>3. \A x \in T : w[x] \in Int /\ z[x] \in Int /\ w[x] <= z[x]
    OBVIOUS
  <2>4. \A x \in T : z[x] = 0
    OBVIOUS
  <2> HIDE DEF z
  <2>5. SumFunctionOnSet(z, T) = 0
    BY <2>2, <2>4, SumZero
  <2>6. SumFunctionOnSet(w, T) <= SumFunctionOnSet(z, T)
    BY <2>2, <2>3, SumBelow
  <2>7. SumFunctionOnSet(w, T) \in Int
    BY <2>2, SumInt
  <2>. QED BY <2>5, <2>6, <2>7
<1>2. ASSUME S # {} PROVE SumFunctionOnSet(w, S) < 0
  <2>1. PICK y \in S : TRUE
    BY <1>2
  <2>2. SumFunctionOnSet(w, S) = w[y] + SumFunctionOnSet(w, S \ {y})
    <3>1. \A x \in S : w[x] \in Int
      OBVIOUS
    <3>. QED BY <3>1, SumRemove
  <2>3. SumFunctionOnSet(w, S \ {y}) \in Int /\ SumFunctionOnSet(w, S \ {y}) <= 0
    BY <1>1
  <2>4. w[y] \in Int /\ w[y] < 0
    OBVIOUS
  <2>. QED BY <2>2, <2>3, <2>4
<1>. QED
  BY <1>1, <1>2

LEMMA WinsAndLosses ==
    ASSUME NEW eps, IsList(eps, Episode)
    PROVE  /\ IsList(Wins(eps), Episode)
           /\ \A i \in DOMAIN Wins(eps) : Net(Wins(eps)[i]) \in Int /\ Net(Wins(eps)[i]) > 0
           /\ IsList(Losses(eps), Episode)
           /\ \A i \in DOMAIN Losses(eps) : Net(Losses(eps)[i]) \in Int /\ Net(Losses(eps)[i]) < 0
<1> DEFINE W == {i \in DOMAIN eps : Net(eps[i]) > 0}
           L == {i \in DOMAIN eps : Net(eps[i]) < 0}
<1>1. Wins(eps) = Restrict(eps, W) /\ Losses(eps) = Restrict(eps, L)
  BY DEF Wins, Losses, RestrictValues
<1>2. /\ \A i \in W : Wins(eps)[i] = eps[i] /\ Net(eps[i]) > 0
      /\ \A i \in L : Losses(eps)[i] = eps[i] /\ Net(eps[i]) < 0
  BY <1>1 DEF Restrict
<1>3. W \subseteq DOMAIN eps /\ L \subseteq DOMAIN eps /\ \A i \in DOMAIN eps : Net(eps[i]) \in Int
  BY NetInt DEF IsList
<1> HIDE DEF W, L
<1>4. IsList(Wins(eps), Episode) /\ DOMAIN Wins(eps) = W
  BY <1>1, <1>3, RestrictList
<1>5. IsList(Losses(eps), Episode) /\ DOMAIN Losses(eps) = L
  BY <1>1, <1>3, RestrictList
<1>6. \A i \in W : Net(Wins(eps)[i]) \in Int /\ Net(Wins(eps)[i]) > 0
  BY <1>2, <1>3
<1>7. \A i \in L : Net(Losses(eps)[i]) \in Int /\ Net(Losses(eps)[i]) < 0
  BY <1>2, <1>3
<1>. QED
  BY <1>4, <1>5, <1>6, <1>7

LEMMA ProfitAndLoss ==
    ASSUME NEW eps, IsList(eps, Episode)
    PROVE  /\ Profit(eps) \in Nat /\ Loss(eps) \in Nat
           /\ Profit(eps) # 0 => DOMAIN Wins(eps) # {}
           /\ Count(Wins(eps)) \in Nat /\ Count(Losses(eps)) \in Nat
           /\ Count(Losses(eps)) # 0 => Loss(eps) > 0
<1> DEFINE ws == Wins(eps)
           ls == Losses(eps)
<1>1. /\ IsList(ws, Episode)
      /\ \A i \in DOMAIN ws : Net(ws[i]) \in Int /\ Net(ws[i]) > 0
      /\ IsList(ls, Episode)
      /\ \A i \in DOMAIN ls : Net(ls[i]) \in Int /\ Net(ls[i]) < 0
  BY WinsAndLosses
<1> HIDE DEF ws, ls
<1>2. /\ NetOf(ws) = SumFunctionOnSet(Worth(ws), DOMAIN ws)
      /\ \A i \in DOMAIN ws : Worth(ws)[i] \in Nat
      /\ NetOf(ls) = SumFunctionOnSet(Worth(ls), DOMAIN ls)
      /\ \A i \in DOMAIN ls : Worth(ls)[i] \in Int /\ Worth(ls)[i] < 0
  <2>1. /\ NetOf(ws) = SumFunctionOnSet(Worth(ws), DOMAIN ws)
        /\ NetOf(ls) = SumFunctionOnSet(Worth(ls), DOMAIN ls)
    BY <1>1, NetIsSum
  <2>2. /\ \A i \in DOMAIN ws : Worth(ws)[i] = Net(ws[i])
        /\ \A i \in DOMAIN ls : Worth(ls)[i] = Net(ls[i])
    BY DEF Worth
  <2>3. \A i \in DOMAIN ws : Worth(ws)[i] \in Nat
    BY <1>1, <2>2
  <2>4. \A i \in DOMAIN ls : Worth(ls)[i] \in Int /\ Worth(ls)[i] < 0
    BY <1>1, <2>2
  <2>. QED BY <2>1, <2>3, <2>4
<1>3. IsFiniteSet(DOMAIN ws) /\ IsFiniteSet(DOMAIN ls)
  BY <1>1 DEF IsList
<1>4. SumFunctionOnSet(Worth(ws), DOMAIN ws) \in Nat
  BY <1>2, <1>3, SumNat
<1>5. /\ SumFunctionOnSet(Worth(ls), DOMAIN ls) \in Int
      /\ SumFunctionOnSet(Worth(ls), DOMAIN ls) <= 0
      /\ DOMAIN ls # {} => SumFunctionOnSet(Worth(ls), DOMAIN ls) < 0
  BY <1>2, <1>3, NegativeSum
<1>6. /\ Count(ws) \in Nat /\ Count(ls) \in Nat
      /\ Count(ls) # 0 => DOMAIN ls # {}
  BY <1>3, CountNat
<1>7. DOMAIN ws = {} => NetOf(ws) = 0
  BY <1>2, SumEmpty
<1>8. Profit(eps) = NetOf(ws) /\ Loss(eps) = -NetOf(ls)
  BY DEF Profit, Loss, ws, ls
<1>9. Profit(eps) \in Nat /\ (Profit(eps) # 0 => DOMAIN ws # {})
  BY <1>2, <1>4, <1>7, <1>8
<1>10. Loss(eps) \in Nat /\ (DOMAIN ls # {} => Loss(eps) > 0)
  BY <1>2, <1>5, <1>8
<1>. QED
  BY <1>6, <1>9, <1>10 DEF ws, ls

LEMMA RecordNumbers ==
    ASSUME NEW eps, IsList(eps, Episode)
    PROVE  /\ WinRate(eps) \in Int
           /\ ProfitFactor(eps) \in Measure
           /\ TopEpisodeShare(eps) \in Measure
           /\ rewardToRisk(eps) \in Measure
<1>1. /\ Profit(eps) \in Nat /\ Loss(eps) \in Nat
      /\ Profit(eps) # 0 => DOMAIN Wins(eps) # {}
      /\ Count(Wins(eps)) \in Nat /\ Count(Losses(eps)) \in Nat
      /\ Count(Losses(eps)) # 0 => Loss(eps) > 0
      /\ Count(eps) \in Nat
  <2>1. Count(eps) \in Nat
    BY CountNat DEF IsList
  <2>. QED BY <2>1, ProfitAndLoss
<1>2. WinRate(eps) \in Int
  <2>1. CASE Count(eps) = 0
    BY <2>1 DEF WinRate
  <2>2. CASE Count(eps) # 0
    <3>1. 100 * Count(Wins(eps)) \in Int /\ Count(eps) \in Nat \ {0}
      BY <1>1, <2>2
    <3>. QED BY <2>2, <3>1, QuotientInt DEF WinRate
  <2>. QED BY <2>1, <2>2
<1>3. ProfitFactor(eps) \in Measure
  <2>1. CASE Loss(eps) > 0
    <3>1. 100 * Profit(eps) \in Int /\ Loss(eps) \in Nat \ {0}
      BY <1>1, <2>1
    <3>. QED BY <2>1, <3>1, QuotientInt DEF ProfitFactor, Measure
  <2>2. CASE ~ (Loss(eps) > 0)
    BY <2>2 DEF ProfitFactor, Measure
  <2>. QED BY <2>1, <2>2
<1>4. TopEpisodeShare(eps) \in Measure
  <2>1. CASE Profit(eps) = 0
    BY <2>1 DEF TopEpisodeShare, Measure
  <2>2. CASE Profit(eps) # 0
    <3> DEFINE ns == [i \in DOMAIN Wins(eps) |-> Net(Wins(eps)[i])]
    <3>1. IsList(ns, Int)
      BY WinsAndLosses DEF IsList
    <3>2. Range(ns) # {}
      BY <1>1, <2>2 DEF Range
    <3>3. IsFiniteSet(Range(ns)) /\ Range(ns) \subseteq Int
      <4> HIDE DEF ns
      <4>. QED BY <3>1, RangeFinite
    <3>4. TopEpisodeShare(eps) = (100 * Max(Range(ns))) \div Profit(eps)
      BY <2>2 DEF TopEpisodeShare, Each
    <3> HIDE DEF ns
    <3>5. Max(Range(ns)) \in Int
      BY <3>2, <3>3, Extremes
    <3>6. 100 * Max(Range(ns)) \in Int /\ Profit(eps) \in Nat \ {0}
      BY <1>1, <2>2, <3>5
    <3>. QED BY <3>4, <3>6, QuotientInt DEF Measure
  <2>. QED BY <2>1, <2>2
<1>5. rewardToRisk(eps) \in Measure
  <2>1. CASE Count(Wins(eps)) = 0 \/ Count(Losses(eps)) = 0
    BY <2>1 DEF rewardToRisk, Measure
  <2>2. CASE ~ (Count(Wins(eps)) = 0 \/ Count(Losses(eps)) = 0)
    <3>1. Loss(eps) * Count(Wins(eps)) \in Nat \ {0}
      <4>1. \A a, b \in Nat \ {0} : a * b \in Nat \ {0}
        OBVIOUS
      <4>2. Loss(eps) \in Nat \ {0} /\ Count(Wins(eps)) \in Nat \ {0}
        BY <1>1, <2>2
      <4>. QED BY <4>1, <4>2
    <3>2. 100 * Profit(eps) * Count(Losses(eps)) \in Int
      BY <1>1
    <3>3. rewardToRisk(eps) = (100 * Profit(eps) * Count(Losses(eps)))
                                  \div (Loss(eps) * Count(Wins(eps)))
      BY <2>2 DEF rewardToRisk
    <3>. QED BY <3>1, <3>2, <3>3, QuotientInt DEF Measure
  <2>. QED BY <2>1, <2>2
<1>. QED
  BY <1>2, <1>3, <1>4, <1>5

LEMMA SetListed ==
    ASSUME NEW S, IsFiniteSet(S)
    PROVE  SetToSeq(S) \in Seq(S)
<1>1. PICK n \in Nat : ExistsBijection(1..n, S)
  BY FS_NatBijection
<1>2. Cardinality(S) = n
  BY <1>1, FS_CountingElements
<1>3. PICK f \in Bijection(1..n, S) : TRUE
  BY <1>1 DEF ExistsBijection
<1>4. f \in [1..n -> S] /\ IsInjective(f)
  BY <1>3 DEF Bijection, Injection, IsInjective
<1>5. \E g \in [1..Cardinality(S) -> S] : IsInjective(g)
  BY <1>2, <1>4
<1>6. SetToSeq(S) \in [1..Cardinality(S) -> S]
  BY <1>5 DEF SetToSeq
<1>. QED
  BY <1>2, <1>6, SeqDef

\* The list of all episodes of a window.
LEMMA EveryOK ==
    ASSUME TapeOK, NEW from \in 1..Len(tape)
    PROVE  LET eps == buildEpisodes(Window(from))
           IN  /\ eps.closed \in Seq(Episode)
               /\ \A i \in 1..Len(eps.closed) : ClosedOK(eps.closed[i])
               /\ Every(eps) \in Seq(Episode)
<1> DEFINE eps == buildEpisodes(Window(from))
           book == Books(InOrder(Window(from)))[Len(Window(from))]
           S == {book.open[t] : t \in Tokens} \ {Unmeasured}
<1>1. /\ BookOK(book) /\ eps.closed = book.done /\ book.done \in Seq(Episode)
      /\ \A i \in 1..Len(book.done) : ClosedOK(book.done[i])
  BY ClosedTypes
<1>2. eps.open = SetToSeq(S)
  BY DEF buildEpisodes
<1> HIDE DEF book
<1>3. S \subseteq Episode
  BY <1>1 DEF BookOK
<1>4. IsFiniteSet(S)
  <2>1. IsFiniteSet(Tokens)
    BY ProfileAssumption
  <2> DEFINE o == book.open
             T == {o[t] : t \in Tokens}
  <2>2. IsFiniteSet(T)
    <3> HIDE DEF o
    <3>. QED BY <2>1, ImageFinite
  <2>3. S \subseteq T
    OBVIOUS
  <2> HIDE DEF T, S
  <2>. QED BY <2>2, <2>3, FS_Subset
<1> HIDE DEF S
<1>5. SetToSeq(S) \in Seq(S)
  BY <1>4, SetListed
<1>6. SetToSeq(S) \in Seq(Episode)
  BY <1>3, <1>5, SeqMonotonic
<1>7. Every(eps) \in Seq(Episode)
  <2>1. Every(eps) = eps.closed \o eps.open
    BY DEF Every
  <2>. QED BY <1>1, <1>2, <1>6, <2>1, ConcatProperties
<1>. QED
  BY <1>1, <1>7

-----------------------------------------------------------------------------
(* Every dimension of the copyability score is a number, or could not be       *)
(* measured.                                                                   *)

MarketOK(market) == market \in [Tokens -> {Unmeasured} \cup [px : Nat, liq : Nat]]
BookValueOK(equity) == equity \in {Unmeasured} \cup (Nat \ {0})

LEMMA QuoteTypes ==
    ASSUME NEW market, MarketOK(market), NEW t \in Tokens, NEW ts
    PROVE  /\ liquidityUsdAt(market, t, ts) \in Amount
           /\ priceUsdAt(market, t, ts) \in Amount
<1>1. CASE market[t] = Unmeasured
  BY <1>1 DEF liquidityUsdAt, priceUsdAt, Amount
<1>2. CASE market[t] # Unmeasured
  <2>1. market[t] \in [px : Nat, liq : Nat]
    BY <1>2 DEF MarketOK
  <2>. QED BY <1>2, <2>1 DEF liquidityUsdAt, priceUsdAt, Amount
<1>. QED
  BY <1>1, <1>2

LEMMA QuoteOfEpisode ==
    ASSUME NEW market, MarketOK(market), NEW e \in Episode, NEW ts
    PROVE  /\ liquidityUsdAt(market, e.token, ts) \in Amount
           /\ priceUsdAt(market, e.token, ts) \in Amount
<1>1. e.token \in Tokens
  BY DEF Episode
<1>. QED
  BY <1>1, QuoteTypes

LEMMA RoomInt ==
    ASSUME NEW market, MarketOK(market), NEW equity, BookValueOK(equity), NEW e \in Episode,
           equity # Unmeasured, e.peak > 0,
           liquidityUsdAt(market, e.token, e.opened) \notin {Unmeasured, 0}
    PROVE  (maxPctOfLiquidity * liquidityUsdAt(market, e.token, e.opened) * equity) \div e.peak \in Int
<1> DEFINE liq == liquidityUsdAt(market, e.token, e.opened)
<1>1. liq \in Amount
  BY QuoteOfEpisode
<1>2. liq \in Nat
  BY <1>1 DEF Amount
<1>3. equity \in Nat
  BY DEF BookValueOK
<1>4. maxPctOfLiquidity \in Nat
  BY ProfileAssumption
<1>5. e.peak \in Nat \ {0}
  BY DEF Episode
<1> HIDE DEF liq
<1>6. maxPctOfLiquidity * liq * equity \in Int
  <2>1. \A a, b, c \in Nat : a * b * c \in Int
    OBVIOUS
  <2>. QED BY <1>2, <1>3, <1>4, <2>1
<1>7. (maxPctOfLiquidity * liq * equity) \div e.peak \in Int
  BY <1>5, <1>6, QuotientInt
<1>. QED
  BY <1>7 DEF liq

LEMMA RoomsOK ==
    ASSUME NEW eps, Every(eps) \in Seq(Episode), NEW market, MarketOK(market),
           NEW equity, BookValueOK(equity)
    PROVE  IsList(ImpliedCapacities(eps, market, equity), Int)
<1> DEFINE all == Every(eps)
           liq(e) == liquidityUsdAt(market, e.token, e.opened)
           room(e) == (maxPctOfLiquidity * liq(e) * equity) \div e.peak
           fits(e) == /\ equity # Unmeasured /\ e.peak > 0
                      /\ liq(e) \notin {Unmeasured, 0}
           S == {i \in DOMAIN all : fits(all[i])}
           sized == Restrict(all, S)
           rooms == [i \in DOMAIN sized |-> room(sized[i])]
<1>1. ImpliedCapacities(eps, market, equity) = rooms
  BY DEF ImpliedCapacities, RestrictValues, Each
<1>2. IsList(all, Episode)
  BY SeqIsList
<1>3. \A e \in Episode : fits(e) => room(e) \in Int
  BY RoomInt
<1> HIDE DEF fits, room
<1>4. \A i \in S : sized[i] = all[i] /\ fits(all[i])
  BY DEF Restrict
<1>5. S \subseteq DOMAIN all
  OBVIOUS
<1> HIDE DEF S, all
<1>6. IsList(sized, Episode) /\ DOMAIN sized = S
  BY <1>2, <1>5, RestrictList
<1>7. \A i \in S : all[i] \in Episode
  BY <1>2, <1>5 DEF IsList
<1> HIDE DEF sized
<1>8. \A i \in S : room(sized[i]) \in Int
  BY <1>3, <1>4, <1>7
<1>9. IsList(rooms, Int)
  BY <1>6, <1>8 DEF IsList
<1>. QED
  BY <1>1, <1>9

LEMMA DelayedInt ==
    ASSUME NEW market, MarketOK(market), NEW e \in Episode, NEW ts,
           priceUsdAt(market, e.token, ts) \notin {Unmeasured, 0}
    PROVE  e.proceeds - e.bought * priceUsdAt(market, e.token, ts) - e.fees \in Int
<1> DEFINE px == priceUsdAt(market, e.token, ts)
<1>1. px \in Amount
  BY QuoteOfEpisode
<1>2. px \in Nat
  BY <1>1 DEF Amount
<1>3. e.proceeds \in Nat /\ e.bought \in Nat /\ e.fees \in Nat
  BY DEF Episode
<1> HIDE DEF px
<1>4. \A a, b, c, d \in Nat : a - b * c - d \in Int
  OBVIOUS
<1>5. e.proceeds - e.bought * px - e.fees \in Int
  BY <1>2, <1>3, <1>4
<1>. QED
  BY <1>5 DEF px

LEMMA RetentionMeasure ==
    ASSUME NEW eps, eps.closed \in Seq(Episode), NEW market, MarketOK(market), NEW delay \in Nat
    PROVE  retention(eps, market, delay) \in Measure
<1> DEFINE closed == eps.closed
           entry(e) == priceUsdAt(market, e.token, e.opened + delay)
           late(e) == e.proceeds - e.bought * entry(e) - e.fees
           known(e) == entry(e) \notin {Unmeasured, 0}
           S == {i \in DOMAIN closed : known(closed[i])}
           priced == Restrict(closed, S)
           moved == [i \in DOMAIN priced |-> late(priced[i])]
           base == NetOf(closed)
<1>1. retention(eps, market, delay) =
          IF Count(priced) = 0 \/ base = 0 THEN Unmeasured ELSE Ratio(100 * Total(moved), base)
  BY DEF retention, RestrictValues, Each
<1>2. IsList(closed, Episode)
  BY SeqIsList
<1>3. base \in Int
  BY <1>2, NetIsSum
<1>4. \A e \in Episode : known(e) => late(e) \in Int
  BY DelayedInt
<1> HIDE DEF known, late
<1>5. \A i \in S : priced[i] = closed[i] /\ known(closed[i])
  BY DEF Restrict
<1>6. S \subseteq DOMAIN closed
  OBVIOUS
<1> HIDE DEF S, closed
<1>7. IsList(priced, Episode) /\ DOMAIN priced = S
  BY <1>2, <1>6, RestrictList
<1>8. \A i \in S : closed[i] \in Episode
  BY <1>2, <1>6 DEF IsList
<1> HIDE DEF priced
<1>9. \A i \in S : late(priced[i]) \in Int
  BY <1>4, <1>5, <1>8
<1>10. IsList(moved, Int)
  BY <1>7, <1>9 DEF IsList
<1> HIDE DEF moved, base
<1>11. 100 * Total(moved) \in Int
  BY <1>10, TotalInt
<1>. QED
  BY <1>1, <1>3, <1>11, RatioInt DEF Measure

LEMMA RugMeasure ==
    ASSUME NEW eps, Every(eps) \in Seq(Episode), NEW market
    PROVE  rugRate(eps, market) \in Measure
<1> DEFINE all == Every(eps)
           px(e, after) == priceUsdAt(market, e.token, e.opened + after)
           S == {i \in DOMAIN all : px(all[i], 0) \notin {Unmeasured, 0}}
           sample == Restrict(all, S)
           R == {i \in DOMAIN sample : 100 * px(sample[i], 3600) <= 20 * px(sample[i], 0)}
           rugs == Restrict(sample, R)
<1>1. rugRate(eps, market) =
          IF Count(sample) = 0 THEN Unmeasured ELSE (100 * Count(rugs)) \div Count(sample)
  BY DEF rugRate, RestrictValues
<1>2. IsList(all, Episode)
  BY SeqIsList
<1>3. IsList(sample, Episode)
  <2>1. S \subseteq DOMAIN all
    OBVIOUS
  <2> HIDE DEF S
  <2>. QED BY <1>2, <2>1, RestrictList
<1>4. IsList(rugs, Episode)
  <2>1. R \subseteq DOMAIN sample
    OBVIOUS
  <2> HIDE DEF R, sample
  <2>. QED BY <1>3, <2>1, RestrictList
<1> HIDE DEF sample, rugs
<1>5. Count(sample) \in Nat /\ Count(rugs) \in Nat
  BY <1>3, <1>4, CountNat DEF IsList
<1>6. CASE Count(sample) = 0
  BY <1>1, <1>6 DEF Measure
<1>7. CASE Count(sample) # 0
  <2>1. 100 * Count(rugs) \in Int /\ Count(sample) \in Nat \ {0}
    BY <1>5, <1>7
  <2>. QED BY <1>1, <1>7, <2>1, QuotientInt DEF Measure
<1>. QED
  BY <1>6, <1>7

LEMMA CopyTables ==
    /\ Table(<<<<100, 45>>, <<150, 65>>, <<200, 80>>, <<300, 92>>, <<500, 100>>>>, 0, 100)
    /\ Table(<<<<300, 0>>, <<400, 20>>, <<500, 55>>, <<600, 85>>, <<700, 100>>>>, 0, 100)
    /\ Table(<<<<0, 0>>, <<30, 25>>, <<60, 60>>, <<85, 90>>, <<100, 100>>>>, 0, 100)
    /\ Table(<<<<10, 100>>, <<30, 80>>, <<50, 55>>, <<80, 25>>, <<100, 10>>>>, 0, 100)
    /\ Table(<<<<0, 100>>, <<5, 85>>, <<15, 55>>, <<30, 25>>, <<50, 0>>>>, 0, 100)
<1>1. Table(<<<<100, 45>>, <<150, 65>>, <<200, 80>>, <<300, 92>>, <<500, 100>>>>, 0, 100)
  BY DEF Table
<1>2. Table(<<<<300, 0>>, <<400, 20>>, <<500, 55>>, <<600, 85>>, <<700, 100>>>>, 0, 100)
  BY DEF Table
<1>3. Table(<<<<0, 0>>, <<30, 25>>, <<60, 60>>, <<85, 90>>, <<100, 100>>>>, 0, 100)
  BY DEF Table
<1>4. Table(<<<<10, 100>>, <<30, 80>>, <<50, 55>>, <<80, 25>>, <<100, 10>>>>, 0, 100)
  BY DEF Table
<1>5. Table(<<<<0, 100>>, <<5, 85>>, <<15, 55>>, <<30, 25>>, <<50, 0>>>>, 0, 100)
  BY DEF Table
<1>. QED
  BY <1>1, <1>2, <1>3, <1>4, <1>5

\* A curve over a table of points is a score of nought to a hundred.
LEMMA CurvePercent ==
    ASSUME NEW x \in Int, NEW points, Table(points, 0, 100)
    PROVE  curve(x, points) \in 0..100 /\ curve(x, points) \in Int
<1>1. 0 \in Int /\ 100 \in Int
  OBVIOUS
<1>2. curve(x, points) \in 0..100
  BY <1>1, CurveBetween
<1>. QED
  BY <1>2

LEMMA CopyDimensions ==
    ASSUME NEW closed \in Seq(Episode), NEW cap \in Measure, NEW kept \in Measure,
           NEW rugs \in Measure
    PROVE  /\ performanceScore(closed) \in Int
           /\ capacityScore(cap) \in Measure
           /\ latencyScore(kept) \in Measure
           /\ processScore(closed) \in Measure
           /\ hygieneScore(rugs) \in Measure
<1> DEFINE won == <<<<100, 45>>, <<150, 65>>, <<200, 80>>, <<300, 92>>, <<500, 100>>>>
           lost == <<<<0, 0>>, <<50, 15>>, <<100, 30>>>>
           room == <<<<300, 0>>, <<400, 20>>, <<500, 55>>, <<600, 85>>, <<700, 100>>>>
           late == <<<<0, 0>>, <<30, 25>>, <<60, 60>>, <<85, 90>>, <<100, 100>>>>
           spread == <<<<10, 100>>, <<30, 80>>, <<50, 55>>, <<80, 25>>, <<100, 10>>>>
           clean == <<<<0, 100>>, <<5, 85>>, <<15, 55>>, <<30, 25>>, <<50, 0>>>>
<1>1. /\ Table(won, 0, 100) /\ Table(lost, 0, 100) /\ Table(room, 0, 100)
      /\ Table(late, 0, 100) /\ Table(spread, 0, 100) /\ Table(clean, 0, 100)
  BY CopyTables, LosingTables
<1> DEFINE pf == IF ProfitFactor(closed) = Unmeasured THEN 300 ELSE ProfitFactor(closed)
           share == TopEpisodeShare(closed)
           base == IF share = Unmeasured THEN 60 ELSE curve(share, spread)
<1>2. /\ performanceScore(closed) =
             IF NetOf(closed) <= 0 THEN curve(WinRate(closed), lost) ELSE curve(pf, won)
      /\ capacityScore(cap) =
             IF cap = Unmeasured THEN Unmeasured ELSE curve(Log10(Larger(1, cap)), room)
      /\ latencyScore(kept) = IF kept = Unmeasured THEN Unmeasured ELSE curve(kept, late)
      /\ processScore(closed) =
             IF median(Each(Hold, closed)) < 60 THEN Clamp(base, 0, 40) ELSE base
      /\ hygieneScore(rugs) = IF rugs = Unmeasured THEN Unmeasured ELSE curve(rugs, clean)
  <2>1. performanceScore(closed) =
            IF NetOf(closed) <= 0 THEN curve(WinRate(closed), lost) ELSE curve(pf, won)
    BY DEF performanceScore
  <2>2. capacityScore(cap) =
            IF cap = Unmeasured THEN Unmeasured ELSE curve(Log10(Larger(1, cap)), room)
    BY DEF capacityScore
  <2>3. latencyScore(kept) = IF kept = Unmeasured THEN Unmeasured ELSE curve(kept, late)
    BY DEF latencyScore
  <2>4. processScore(closed) =
            IF median(Each(Hold, closed)) < 60 THEN Clamp(base, 0, 40) ELSE base
    BY DEF processScore
  <2>5. hygieneScore(rugs) = IF rugs = Unmeasured THEN Unmeasured ELSE curve(rugs, clean)
    BY DEF hygieneScore
  <2>. QED BY <2>1, <2>2, <2>3, <2>4, <2>5
<1> HIDE DEF won, lost, room, late, spread, clean, share
<1>3. /\ WinRate(closed) \in Int /\ ProfitFactor(closed) \in Measure /\ share \in Measure
  <2>1. IsList(closed, Episode)
    BY SeqIsList
  <2>. QED BY <2>1, RecordNumbers DEF share
<1>4. performanceScore(closed) \in Int
  <2>1. pf \in Int
    BY <1>3 DEF Measure
  <2> HIDE DEF pf
  <2>2. curve(WinRate(closed), lost) \in Int /\ curve(pf, won) \in Int
    BY <1>1, <1>3, <2>1, CurvePercent
  <2>. QED BY <1>2, <2>2
<1>5. capacityScore(cap) \in Measure
  <2>1. SUFFICES ASSUME cap # Unmeasured PROVE curve(Log10(Larger(1, cap)), room) \in Int
    BY <1>2 DEF Measure
  <2>2. Larger(1, cap) \in Int /\ 1 <= Larger(1, cap)
    <3>1. cap \in Int
      BY <2>1 DEF Measure
    <3>. QED BY <3>1 DEF Larger
  <2>3. Log10(Larger(1, cap)) \in Int
    BY <2>2, Log10Int
  <2>. QED BY <1>1, <2>3, CurvePercent
<1>6. latencyScore(kept) \in Measure
  <2>1. SUFFICES ASSUME kept # Unmeasured PROVE curve(kept, late) \in Int
    BY <1>2 DEF Measure
  <2>2. kept \in Int
    BY <2>1 DEF Measure
  <2>. QED BY <1>1, <2>2, CurvePercent
<1>7. hygieneScore(rugs) \in Measure
  <2>1. SUFFICES ASSUME rugs # Unmeasured PROVE curve(rugs, clean) \in Int
    BY <1>2 DEF Measure
  <2>2. rugs \in Int
    BY <2>1 DEF Measure
  <2>. QED BY <1>1, <2>2, CurvePercent
<1>8. processScore(closed) \in Measure
  <2>1. base \in Int
    <3>1. CASE share = Unmeasured
      BY <3>1
    <3>2. CASE share # Unmeasured
      <4>1. share \in Int
        BY <1>3, <3>2 DEF Measure
      <4>2. curve(share, spread) \in Int
        BY <1>1, <4>1, CurvePercent
      <4>. QED BY <3>2, <4>2
    <3>. QED BY <3>1, <3>2
  <2> HIDE DEF base
  <2>2. Clamp(base, 0, 40) \in Int
    BY <2>1 DEF Clamp
  <2>. QED BY <1>2, <2>1, <2>2 DEF Measure
<1>. QED
  BY <1>4, <1>5, <1>6, <1>7, <1>8

LEMMA CompositeInt ==
    ASSUME NEW s1 \in Int, NEW s2 \in Measure, NEW s3 \in Measure, NEW s4 \in Measure,
           NEW s5 \in Measure
    PROVE  Renormalised(<< <<s1, 30>>, <<s2, 25>>, <<s3, 25>>, <<s4, 12>>, <<s5, 8>> >>) \in Int
<1> DEFINE x == s1 * 30 + Points(s2, 25) + Points(s3, 25) + Points(s4, 12) + Points(s5, 8)
           y == 30 + Weight(s2, 25) + Weight(s3, 25) + Weight(s4, 12) + Weight(s5, 8)
<1>1. Renormalised(<< <<s1, 30>>, <<s2, 25>>, <<s3, 25>>, <<s4, 12>>, <<s5, 8>> >>) = x \div y
  <2> DEFINE w1 == 30
             w2 == 25
             w4 == 12
             w5 == 8
  <2>1. w1 \in Nat \ {0} /\ w2 \in Nat /\ w4 \in Nat /\ w5 \in Nat
    OBVIOUS
  <2> HIDE DEF w1, w2, w4, w5
  <2>2. Averaged(s1, s2, s3, s4, s5, w1, w2, w2, w4, w5)
    BY <2>1, WeightedAverage
  <2>. QED BY <2>2 DEF Averaged, w1, w2, w4, w5
<1>2. x \in Int
  <2>1. /\ Points(s2, 25) \in Int /\ Points(s3, 25) \in Int /\ Points(s4, 12) \in Int
        /\ Points(s5, 8) \in Int
    BY PointsInt
  <2>. QED BY <2>1
<1>3. y \in Nat \ {0}
  <2>1. /\ Weight(s2, 25) \in Nat /\ Weight(s3, 25) \in Nat /\ Weight(s4, 12) \in Nat
        /\ Weight(s5, 8) \in Nat
    BY PointsInt
  <2>. QED BY <2>1
<1> HIDE DEF x, y
<1>. QED
  BY <1>1, <1>2, <1>3, QuotientInt

-----------------------------------------------------------------------------
(* What a seat takes: the gates, the quarter that the capacity stands for, and *)
(* the order of the shortlist.                                                 *)

LEMMA GatesOK ==
    ASSUME NEW points \in Int, NEW cap \in Measure, NEW kept \in Measure, NEW net \in Int
    PROVE  /\ Gated(points, cap, kept, net) \in Int
           /\ net <= 0 => Gated(points, cap, kept, net) <= 30
           /\ kept # Unmeasured /\ kept < 30 => Gated(points, cap, kept, net) <= 35
<1> DEFINE roomy == IF cap # Unmeasured /\ cap < minViableVaultUsd THEN Clamp(points, 0, 40) ELSE points
           late == IF kept # Unmeasured /\ kept < 30 THEN Clamp(roomy, 0, 35) ELSE roomy
<1>1. roomy \in Int
  BY DEF Clamp
<1>2. Copyable(points, cap, kept) = late
  BY DEF Copyable
<1> HIDE DEF roomy
<1>3. Clamp(roomy, 0, 35) \in Int /\ Clamp(roomy, 0, 35) <= 35
  BY <1>1 DEF Clamp
<1>4. late \in Int /\ (kept # Unmeasured /\ kept < 30 => late <= 35)
  <2>1. CASE kept # Unmeasured /\ kept < 30
    <3>1. late = Clamp(roomy, 0, 35)
      BY <2>1
    <3> HIDE DEF late
    <3>. QED BY <3>1, <1>3
  <2>2. CASE ~ (kept # Unmeasured /\ kept < 30)
    <3>1. late = roomy
      BY <2>2
    <3> HIDE DEF late
    <3>. QED BY <2>2, <3>1, <1>1
  <2>. QED BY <2>1, <2>2
<1> HIDE DEF late
<1>5. Gated(points, cap, kept, net) = IF net <= 0 THEN Clamp(late, 0, 30) ELSE late
  BY <1>2 DEF Gated
<1>6. Clamp(late, 0, 30) \in Int /\ Clamp(late, 0, 30) <= 30
  BY <1>4 DEF Clamp
<1>7. CASE net <= 0
  <2>1. Gated(points, cap, kept, net) = Clamp(late, 0, 30)
    BY <1>5, <1>7
  <2>2. 30 <= 35
    OBVIOUS
  <2>. QED BY <2>1, <1>6
<1>8. CASE ~ (net <= 0)
  <2>1. Gated(points, cap, kept, net) = late
    BY <1>5, <1>8
  <2>. QED BY <2>1, <1>4, <1>8
<1>. QED
  BY <1>7, <1>8

LEMMA QuarterRank ==
    ASSUME NEW n \in Nat, n # 0, NEW r, r = Clamp((25 * n + 99) \div 100, 1, n)
    PROVE  r \in Int /\ 4 * r <= n + 3
<1> DEFINE q == (25 * n + 99) \div 100
<1>1. 25 * n + 99 \in Nat /\ 100 \in Nat /\ 100 > 0
  OBVIOUS
<1>2. q \in Nat /\ q * 100 <= 25 * n + 99
  BY <1>1, DivNat
<1> HIDE DEF q
<1>3. r = IF q < 1 THEN 1 ELSE IF q > n THEN n ELSE q
  BY DEF Clamp, q
<1>. QED
  BY <1>2, <1>3

\* The number that is known not to fit is below the rank that the capacity has.
LEMMA FewAreTight ==
    ASSUME NEW rooms, IsList(rooms, Int), percentile(rooms, 25) # Unmeasured,
           minCapacityUsd <= percentile(rooms, 25)
    PROVE  4 * Count(Tight(rooms)) < Count(rooms)
<1> DEFINE cap == percentile(rooms, 25)
           S == {i \in DOMAIN rooms : rooms[i] < minCapacityUsd}
           T == {i \in DOMAIN rooms : rooms[i] < cap}
           r == RankOf(rooms, 25)
           n == Count(rooms)
<1>1. 25 \in Nat
  OBVIOUS
<1>2. n \in Nat /\ n # 0 /\ cap \in Int /\ Below(rooms, cap) < r
  BY <1>1, PercentileRank
<1>3. Count(Tight(rooms)) = Cardinality(S)
  <2>1. Tight(rooms) = Restrict(rooms, S)
    BY DEF Tight, RestrictValues
  <2>2. S \subseteq DOMAIN rooms
    OBVIOUS
  <2> HIDE DEF S
  <2>3. DOMAIN Restrict(rooms, S) = S
    BY <2>2, RestrictList
  <2>. QED BY <2>1, <2>3 DEF Count
<1>4. S \subseteq T
  <2>1. \A i \in DOMAIN rooms : rooms[i] \in Int
    BY DEF IsList
  <2> HIDE DEF cap
  <2>2. minCapacityUsd <= cap
    BY DEF cap
  <2>3. minCapacityUsd \in Int
    BY ProfileAssumption
  <2>. QED BY <1>2, <2>1, <2>2, <2>3
<1>5. Below(rooms, cap) = Cardinality(T)
  BY DEF Below
<1>6. IsFiniteSet(T)
  <2>1. T \subseteq DOMAIN rooms
    OBVIOUS
  <2> HIDE DEF T
  <2>. QED BY <2>1, FS_Subset DEF IsList
<1> HIDE DEF S, T, cap
<1>7. Cardinality(S) \in Nat /\ Cardinality(T) \in Nat /\ Cardinality(S) <= Cardinality(T)
  BY <1>4, <1>6, FS_Subset, FS_CardinalityType
<1>8. r \in Int /\ 4 * r <= n + 3
  <2>1. r = Clamp((25 * n + 99) \div 100, 1, n)
    BY DEF RankOf
  <2> HIDE DEF r, n
  <2>. QED BY <1>2, <2>1, QuarterRank
<1> HIDE DEF r, n
<1>9. 4 * Cardinality(S) < n
  BY <1>2, <1>5, <1>7, <1>8
<1>. QED
  BY <1>3, <1>9 DEF n

Scored == [composite : Measure, capacityUsd : Measure]

\* With a seat given, no rival who was left waiting scored more.
LEMMA NobodyOvertaken ==
    ASSUME NEW candidates \in Seq(Scored), NEW i \in 1..Len(candidates), NEW k \in 1..Len(candidates),
           shortlist(candidates)[i] = "watch", shortlist(candidates)[k] = "list"
    PROVE  candidates[i].composite <= candidates[k].composite
<1>1. /\ DOMAIN candidates = 1..Len(candidates) /\ Len(candidates) \in Nat
      /\ \A j \in DOMAIN candidates : candidates[j].composite \in Measure
  <2>1. DOMAIN candidates = 1..Len(candidates) /\ Len(candidates) \in Nat
    OBVIOUS
  <2>2. \A j \in 1..Len(candidates) : candidates[j] \in Scored
    OBVIOUS
  <2>3. \A c \in Scored : c.composite \in Measure
    BY DEF Scored
  <2>. QED BY <2>1, <2>2, <2>3
<1>2. eligible(candidates[i]) /\ ~ (Cardinality(Ahead(candidates, i)) < seats)
  BY <1>1 DEF shortlist
<1>3. eligible(candidates[k]) /\ Cardinality(Ahead(candidates, k)) < seats
  BY <1>1 DEF shortlist
<1>4. candidates[i].composite \in Int /\ candidates[k].composite \in Int
  BY <1>1, <1>2, <1>3 DEF eligible, Measure
<1>5. SUFFICES ASSUME candidates[i].composite > candidates[k].composite PROVE FALSE
  BY <1>4
<1>6. Ahead(candidates, i) \subseteq Ahead(candidates, k)
  <2>1. SUFFICES ASSUME NEW j \in Ahead(candidates, i) PROVE j \in Ahead(candidates, k)
    OBVIOUS
  <2>2. /\ j \in DOMAIN candidates /\ eligible(candidates[j])
        /\ \/ candidates[j].composite > candidates[i].composite
           \/ candidates[j].composite = candidates[i].composite
    BY <2>1 DEF Ahead
  <2>3. candidates[j].composite \in Int
    BY <1>1, <2>2 DEF eligible, Measure
  <2>4. candidates[j].composite > candidates[k].composite
    BY <1>4, <1>5, <2>2, <2>3
  <2>. QED BY <2>2, <2>4 DEF Ahead
<1>7. IsFiniteSet(Ahead(candidates, k))
  <2>1. Ahead(candidates, k) \subseteq 1..Len(candidates)
    BY <1>1 DEF Ahead
  <2>2. IsFiniteSet(1..Len(candidates))
    <3>1. 1 \in Int /\ Len(candidates) \in Int
      BY <1>1
    <3>. QED BY <3>1, FS_Interval
  <2>. QED BY <2>1, <2>2, FS_Subset
<1>8. /\ Cardinality(Ahead(candidates, i)) <= Cardinality(Ahead(candidates, k))
      /\ Cardinality(Ahead(candidates, i)) \in Nat /\ Cardinality(Ahead(candidates, k)) \in Nat
  BY <1>6, <1>7, FS_Subset, FS_CardinalityType
<1>9. seats \in Nat
  BY ProfileAssumption
<1>. QED
  BY <1>2, <1>3, <1>8, <1>9

LEMMA CandidateList ==
    ASSUME NEW mine \in Scored
    PROVE  LET all == Append(Rivals, mine)
           IN  /\ all \in Seq(Scored) /\ Len(all) = Mine /\ Mine \in 1..Mine
               /\ all[Mine] = mine
               /\ \A i \in DOMAIN Rivals : i \in 1..Mine /\ all[i] = Rivals[i]
<1>1. Rivals \in Seq(Scored)
  BY ProfileAssumption DEF Scored, Measure
<1>2. Len(Rivals) \in Nat /\ DOMAIN Rivals = 1..Len(Rivals)
  BY <1>1
<1>3. Append(Rivals, mine) \in Seq(Scored)
  BY <1>1
<1>4. /\ Len(Append(Rivals, mine)) = Mine /\ Append(Rivals, mine)[Mine] = mine
      /\ \A i \in 1..Len(Rivals) : Append(Rivals, mine)[i] = Rivals[i]
  BY <1>1, AppendProperties DEF Mine
<1>5. Mine \in 1..Mine /\ \A i \in 1..Len(Rivals) : i \in 1..Mine
  BY <1>2 DEF Mine
<1>. QED
  BY <1>2, <1>3, <1>4, <1>5

LEMMA ViewOK ==
    ASSUME NEW view \in Markets
    PROVE  /\ MarketOK(view.prices) /\ BookValueOK(view.book)
           /\ view.candles \subseteq [token : Tokens, ts : Nat, open : Nat, high : Nat, close : Nat]
           /\ IsFiniteSet(view.candles)
  BY ProfileAssumption DEF MarketOK, BookValueOK

LEMMA GradeOfLoser ==
    ASSUME NEW points \in Int, points <= 30
    PROVE  gradeFor(points) = "F"
  BY DEF gradeFor

\* The copyability page.
LEMMA CopyPage ==
    ASSUME TapeOK, NEW from \in 1..Len(tape), NEW view \in Markets
    PROVE  LET eps == buildEpisodes(Window(from))
               rooms == ImpliedCapacities(eps, view.prices, view.book)
               copy == scoreEpisodes(eps, view.prices, view.book, judgeLatencySec)
           IN  /\ IsList(rooms, Int)
               /\ copy.capacityUsd = percentile(rooms, 25) /\ copy.capacityUsd \in Measure
               /\ copy.kept \in Measure
               /\ copy.composite \in Measure
               /\ copy.composite # Unmeasured =>
                     /\ NetOf(eps.closed) <= 0 => copy.composite <= 30
                     /\ copy.kept # Unmeasured /\ copy.kept < 30 => copy.composite <= 35
               /\ NetOf(eps.closed) <= 0 => copy.grade \in {"F", "insufficient-data"}
<1> DEFINE eps == buildEpisodes(Window(from))
           rooms == ImpliedCapacities(eps, view.prices, view.book)
           cap == capacity(eps, view.prices, view.book)
           kept == retention(eps, view.prices, judgeLatencySec)
           rugs == rugRate(eps, view.prices)
           net == NetOf(eps.closed)
           whole == Renormalised(<< <<performanceScore(eps.closed), 30>>, <<capacityScore(cap), 25>>,
                                    <<latencyScore(kept), 25>>, <<processScore(eps.closed), 12>>,
                                    <<hygieneScore(rugs), 8>> >>)
           points == Gated(whole, cap, kept, net)
           copy == scoreEpisodes(eps, view.prices, view.book, judgeLatencySec)
<1>1. /\ eps.closed \in Seq(Episode) /\ Every(eps) \in Seq(Episode)
      /\ \A i \in 1..Len(eps.closed) : ClosedOK(eps.closed[i])
  BY EveryOK
<1>2. MarketOK(view.prices) /\ BookValueOK(view.book) /\ judgeLatencySec \in Nat
  BY ViewOK, ProfileAssumption
<1>3. copy = IF Len(eps.closed) < minClosedEpisodes
             THEN [composite |-> Unmeasured, grade |-> "insufficient-data", capacityUsd |-> cap,
                   net |-> net, kept |-> kept]
             ELSE [composite |-> points, grade |-> gradeFor(points), capacityUsd |-> cap,
                   net |-> net, kept |-> kept]
  BY DEF scoreEpisodes
<1> HIDE DEF eps
<1>4. IsList(rooms, Int)
  BY <1>1, <1>2, RoomsOK
<1>5. cap = percentile(rooms, 25) /\ cap \in Measure
  <2>1. cap = percentile(rooms, 25)
    BY DEF capacity
  <2>2. 25 \in Nat
    OBVIOUS
  <2> HIDE DEF rooms, cap
  <2>. QED BY <1>4, <2>1, <2>2, PercentileRank
<1>6. kept \in Measure
  BY <1>1, <1>2, RetentionMeasure
<1>7. rugs \in Measure
  BY <1>1, RugMeasure
<1>8. net \in Int
  <2>1. IsList(eps.closed, Episode)
    BY <1>1, SeqIsList
  <2>. QED BY <2>1, NetIsSum
<1> HIDE DEF rooms, cap, kept, rugs
<1>9. whole \in Int
  <2>1. /\ performanceScore(eps.closed) \in Int /\ capacityScore(cap) \in Measure
        /\ latencyScore(kept) \in Measure /\ processScore(eps.closed) \in Measure
        /\ hygieneScore(rugs) \in Measure
    BY <1>1, <1>5, <1>6, <1>7, CopyDimensions
  <2>. QED BY <2>1, CompositeInt
<1> HIDE DEF whole, net
<1>10. /\ points \in Int
       /\ net <= 0 => points <= 30
       /\ kept # Unmeasured /\ kept < 30 => points <= 35
  BY <1>5, <1>6, <1>8, <1>9, GatesOK
<1> HIDE DEF points, copy
<1>11. net <= 0 => gradeFor(points) = "F"
  BY <1>10, GradeOfLoser
<1>12. copy.capacityUsd = cap /\ copy.kept = kept
  BY <1>3
<1>13. copy.composite \in Measure /\ (copy.composite # Unmeasured => copy.composite = points)
  BY <1>3, <1>10 DEF Measure
<1>14. net <= 0 => copy.grade \in {"F", "insufficient-data"}
  BY <1>3, <1>11
<1>15. copy.composite # Unmeasured =>
          /\ net <= 0 => copy.composite <= 30
          /\ copy.kept # Unmeasured /\ copy.kept < 30 => copy.composite <= 35
  BY <1>10, <1>12, <1>13
<1>. QED
  BY <1>4, <1>5, <1>6, <1>12, <1>13, <1>14, <1>15 DEF eps, rooms, copy, net

\* What a page that offers a seat says of it.
SeatEarned(s) ==
    s.verdicts[Mine] = "list" =>
        /\ ~ (Readable(s.from) /\ Realised(s.from) <= 0)
        /\ 4 * Count(Tight(s.rooms)) < Count(s.rooms)
        /\ s.copy.kept # Unmeasured => s.copy.kept >= 30
        /\ \A i \in DOMAIN Rivals :
              s.verdicts[i] = "watch" => Rivals[i].composite <= s.copy.composite

LEMMA PageEarnsSeat ==
    ASSUME TapeOK, NEW from \in 1..Len(tape), NEW view \in Markets
    PROVE  SeatEarned(scoreCandidate(from, view))
<1> DEFINE eps == buildEpisodes(Window(from))
           rooms == ImpliedCapacities(eps, view.prices, view.book)
           copy == scoreEpisodes(eps, view.prices, view.book, judgeLatencySec)
           mine == [composite |-> copy.composite, capacityUsd |-> copy.capacityUsd]
           all == Append(Rivals, mine)
           s == scoreCandidate(from, view)
<1>1. s.from = from /\ s.copy = copy /\ s.rooms = rooms /\ s.verdicts = shortlist(all)
  BY DEF scoreCandidate, Window
<1>2. /\ IsList(rooms, Int)
      /\ copy.capacityUsd = percentile(rooms, 25) /\ copy.capacityUsd \in Measure
      /\ copy.kept \in Measure
      /\ copy.composite \in Measure
      /\ copy.composite # Unmeasured =>
            /\ NetOf(eps.closed) <= 0 => copy.composite <= 30
            /\ copy.kept # Unmeasured /\ copy.kept < 30 => copy.composite <= 35
  BY CopyPage
<1>3. Readable(from) => Realised(from) = NetOf(eps.closed)
  BY RealisedByClosed
<1> HIDE DEF s, copy, rooms, eps
<1>4. mine \in Scored
  BY <1>2 DEF Scored
<1>5. mine.composite = copy.composite /\ mine.capacityUsd = copy.capacityUsd
  OBVIOUS
<1> HIDE DEF mine
<1>6. /\ all \in Seq(Scored) /\ Len(all) = Mine /\ Mine \in 1..Mine /\ all[Mine] = mine
      /\ \A i \in DOMAIN Rivals : i \in 1..Mine /\ all[i] = Rivals[i]
  BY <1>4, CandidateList
<1> HIDE DEF all
<1>7. SUFFICES ASSUME shortlist(all)[Mine] = "list"
      PROVE  /\ ~ (Readable(from) /\ Realised(from) <= 0)
             /\ 4 * Count(Tight(rooms)) < Count(rooms)
             /\ copy.kept # Unmeasured => copy.kept >= 30
             /\ \A i \in DOMAIN Rivals :
                   shortlist(all)[i] = "watch" => Rivals[i].composite <= copy.composite
  BY <1>1 DEF SeatEarned, s
<1>8. eligible(mine)
  <2>1. Mine \in DOMAIN all
    BY <1>6
  <2>. QED BY <1>6, <1>7, <2>1 DEF shortlist
<1>9. /\ copy.composite \in Int /\ copy.composite >= minComposite
      /\ copy.capacityUsd \in Int /\ copy.capacityUsd >= minCapacityUsd
      /\ copy.capacityUsd # Unmeasured /\ copy.composite # Unmeasured
  BY <1>2, <1>5, <1>8 DEF eligible, Measure
<1>10. minComposite \in Nat /\ minComposite > 35 /\ minCapacityUsd \in Nat
  BY ProfileAssumption
<1>11. ~ (Readable(from) /\ Realised(from) <= 0)
  BY <1>2, <1>3, <1>9, <1>10
<1>12. 4 * Count(Tight(rooms)) < Count(rooms)
  <2>1. minCapacityUsd \in Int /\ percentile(rooms, 25) # Unmeasured
        /\ minCapacityUsd <= percentile(rooms, 25)
    BY <1>2, <1>9, <1>10
  <2>. QED BY <1>2, <2>1, FewAreTight
<1>13. copy.kept # Unmeasured => copy.kept >= 30
  <2>1. SUFFICES ASSUME copy.kept # Unmeasured, ~ (copy.kept >= 30) PROVE FALSE
    OBVIOUS
  <2>2. copy.kept \in Int
    BY <1>2, <2>1 DEF Measure
  <2>3. copy.kept < 30
    BY <2>1, <2>2
  <2>4. copy.composite <= 35
    BY <1>2, <1>9, <2>1, <2>3
  <2>. QED BY <1>9, <1>10, <2>4
<1>14. ASSUME NEW i \in DOMAIN Rivals, shortlist(all)[i] = "watch"
       PROVE  Rivals[i].composite <= copy.composite
  <2>1. i \in 1..Len(all) /\ Mine \in 1..Len(all)
    BY <1>6
  <2>2. all[i].composite <= all[Mine].composite
    BY <1>6, <1>7, <1>14, <2>1, NobodyOvertaken
  <2>. QED BY <1>5, <1>6, <2>2
<1>. QED
  BY <1>11, <1>12, <1>13, <1>14

-----------------------------------------------------------------------------
(* Every dimension of the ability profile is a per cent, or could not be        *)
(* measured.                                                                    *)

Percent == (0..100) \cup {Unmeasured}

LEMMA SumWithin ==
    ASSUME NEW S, IsFiniteSet(S), NEW w, \A x \in S : w[x] \in 0..100
    PROVE  /\ SumFunctionOnSet(w, S) \in Nat
           /\ Cardinality(S) \in Nat
           /\ SumFunctionOnSet(w, S) <= 100 * Cardinality(S)
<1> DEFINE Good == {T \in SUBSET S : /\ SumFunctionOnSet(w, T) \in Nat
                                     /\ SumFunctionOnSet(w, T) <= 100 * Cardinality(T)}
<1>1. {} \in Good
  BY SumEmpty, FS_EmptySet
<1>2. ASSUME NEW T \in SUBSET S, T # {}, \A x \in T : T \ {x} \in Good
      PROVE  T \in Good
  <2>1. PICK y \in T : TRUE
    BY <1>2
  <2>2. IsFiniteSet(T) /\ Cardinality(T) \in Nat
    BY FS_Subset, FS_CardinalityType
  <2>3. Cardinality(T) = Cardinality(T \ {y}) + 1 /\ Cardinality(T \ {y}) \in Nat
    <3>1. IsFiniteSet(T \ {y}) /\ Cardinality(T \ {y}) = Cardinality(T) - 1
      BY <2>2, FS_RemoveElement
    <3>2. Cardinality(T \ {y}) \in Nat
      BY <3>1, FS_CardinalityType
    <3>. QED BY <2>2, <3>1, <3>2
  <2>4. SumFunctionOnSet(w, T) = w[y] + SumFunctionOnSet(w, T \ {y})
    <3>1. \A x \in T : w[x] \in Int
      OBVIOUS
    <3>. QED BY <2>2, <3>1, SumRemove
  <2>5. /\ SumFunctionOnSet(w, T \ {y}) \in Nat
        /\ SumFunctionOnSet(w, T \ {y}) <= 100 * Cardinality(T \ {y})
    BY <1>2
  <2>6. w[y] \in Nat /\ w[y] <= 100
    OBVIOUS
  <2>. QED BY <2>3, <2>4, <2>5, <2>6
<1>3. S \in Good
  <2> HIDE DEF Good
  <2>. QED BY <1>1, <1>2, SubsetInduction
<1>. QED
  BY <1>3, FS_CardinalityType

LEMMA MeanPercent ==
    ASSUME NEW xs, IsFiniteSet(DOMAIN xs), \A i \in DOMAIN xs : xs[i] \in 0..100
    PROVE  mean(xs) \in Percent
<1> DEFINE D == DOMAIN xs
<1>1. Total(xs) = SumFunctionOnSet(xs, D) /\ Count(xs) = Cardinality(D)
  BY DEF Total, Count, SumFunction
<1>2. /\ Total(xs) \in Nat /\ Count(xs) \in Nat
      /\ Total(xs) <= 100 * Count(xs)
  BY <1>1, SumWithin
<1>3. CASE Count(xs) = 0
  BY <1>3 DEF mean, Percent
<1>4. CASE Count(xs) # 0
  <2> DEFINE x == Total(xs)
             c == Count(xs)
  <2>1. x \in Int /\ c \in Nat \ {0} /\ 0 \in Int /\ 100 \in Int /\ 0 * c <= x /\ x <= 100 * c
    BY <1>2, <1>4
  <2> HIDE DEF x, c
  <2>2. Ratio(x, c) \in 0..100
    BY <2>1, RatioBetween
  <2>. QED BY <1>4, <2>2 DEF mean, Percent, x, c
<1>. QED
  BY <1>3, <1>4

LEMMA PartsPercent ==
    ASSUME NEW scores, IsList(scores, Percent)
    PROVE  Parts(scores) \in Percent
<1> DEFINE K == {i \in DOMAIN scores : scores[i] # Unmeasured}
           known == Restrict(scores, K)
<1>1. Measured(scores) = known
  BY DEF Measured, RestrictValues
<1>2. \A i \in K : known[i] = scores[i] /\ scores[i] # Unmeasured
  BY DEF Restrict
<1>3. K \subseteq DOMAIN scores
  OBVIOUS
<1> HIDE DEF K
<1>4. IsList(known, Percent) /\ DOMAIN known = K
  BY <1>3, RestrictList
<1> HIDE DEF known
<1>5. \A i \in DOMAIN known : known[i] \in 0..100
  <2>1. \A i \in K : scores[i] \in Percent
    BY <1>3 DEF IsList
  <2>. QED BY <1>2, <1>4, <2>1 DEF Percent
<1>6. mean(known) \in Percent
  BY <1>4, <1>5, MeanPercent DEF IsList
<1>. QED
  BY <1>1, <1>6 DEF Parts

LEMMA OnPercent ==
    ASSUME NEW x \in Measure, NEW points, Table(points, 0, 100)
    PROVE  On(x, points) \in Percent
<1>1. CASE x = Unmeasured
  BY <1>1 DEF On, Percent
<1>2. CASE x # Unmeasured
  <2>1. x \in Int
    BY <1>2 DEF Measure
  <2>. QED BY <1>2, <2>1, CurvePercent DEF On, Percent
<1>. QED
  BY <1>1, <1>2

LEMMA FirstPlaces ==
    ASSUME NEW n \in Nat
    PROVE  IsFiniteSet(1..n)
<1>1. 1 \in Int /\ n \in Int
  OBVIOUS
<1>. QED
  BY <1>1, FS_Interval

LEMMA PartsOfFew ==
    ASSUME NEW a \in Percent, NEW b \in Percent
    PROVE  /\ Parts(<<a, b>>) \in Percent
           /\ \A c \in Percent : Parts(<<a, b, c>>) \in Percent
<1>1. Parts(<<a, b>>) \in Percent
  <2> DEFINE s == <<a, b>>
  <2>1. s \in Seq(Percent)
    OBVIOUS
  <2> HIDE DEF s
  <2>2. IsList(s, Percent)
    BY <2>1, SeqIsList
  <2>. QED BY <2>2, PartsPercent DEF s
<1>2. ASSUME NEW c \in Percent PROVE Parts(<<a, b, c>>) \in Percent
  <2> DEFINE s == <<a, b, c>>
  <2>1. s \in Seq(Percent)
    OBVIOUS
  <2> HIDE DEF s
  <2>2. IsList(s, Percent)
    BY <2>1, SeqIsList
  <2>. QED BY <2>2, PartsPercent DEF s
<1>. QED
  BY <1>1, <1>2

LEMMA PartsOfFour ==
    ASSUME NEW a \in Percent, NEW b \in Percent, NEW c \in Percent, NEW d \in Percent
    PROVE  Parts(<<a, b, c, d>>) \in Percent
<1> DEFINE s == <<a, b, c, d>>
<1>1. s \in Seq(Percent)
  OBVIOUS
<1> HIDE DEF s
<1>2. IsList(s, Percent)
  BY <1>1, SeqIsList
<1>. QED
  BY <1>2, PartsPercent DEF s

LEMMA ShareMeasure ==
    ASSUME NEW xs, IsFiniteSet(DOMAIN xs), NEW ys, IsFiniteSet(DOMAIN ys)
    PROVE  Share(Count(xs), Count(ys)) \in Measure
<1>1. Count(xs) \in Nat /\ Count(ys) \in Nat
  BY CountNat
<1>2. CASE Count(ys) = 0
  BY <1>2 DEF Share, Measure
<1>3. CASE Count(ys) # 0
  <2>1. 100 * Count(xs) \in Int /\ Count(ys) \in Nat \ {0}
    BY <1>1, <1>3
  <2>. QED BY <1>3, <2>1, QuotientInt DEF Share, Measure
<1>. QED
  BY <1>2, <1>3

-----------------------------------------------------------------------------
(* Prices along a path.                                                         *)

Candle == [token : Tokens, ts : Nat, open : Nat, high : Nat, close : Nat]
Observation == [token : Tokens, ts : Nat, px : Nat]
CandlesOK(candles) == candles \subseteq Candle /\ IsFiniteSet(candles)
PathOK(path) == CandlesOK(path.candles) /\ path.observed \in Seq(Observation)

LEMMA AmountIsMeasure == Amount \subseteq Measure
  BY DEF Amount, Measure

LEMMA CandleFields ==
    ASSUME NEW c \in Candle
    PROVE  c.ts \in Nat /\ c.open \in Nat /\ c.high \in Nat /\ c.close \in Nat
  BY DEF Candle

LEMMA LastAndFirst ==
    ASSUME NEW S, CandlesOK(S), S # {}
    PROVE  /\ \E c \in S : \A d \in S : d.ts <= c.ts
           /\ \E c \in S : \A d \in S : c.ts <= d.ts
<1> DEFINE f == [c \in S |-> c.ts]
           T == {f[c] : c \in S}
<1>1. IsFiniteSet(T)
  <2> HIDE DEF f
  <2>. QED BY ImageFinite DEF CandlesOK
<1>2. \A c \in S : f[c] = c.ts /\ f[c] \in Int
  BY CandleFields DEF CandlesOK
<1> HIDE DEF f
<1>3. T \subseteq Int /\ T # {}
  BY <1>2
<1>4. \A c \in S : f[c] \in T
  OBVIOUS
<1> HIDE DEF T
<1>5. Max(T) \in T /\ Min(T) \in T /\ \A c \in S : f[c] <= Max(T) /\ Min(T) <= f[c]
  <2>1. /\ Max(T) \in T /\ \A y \in T : Max(T) >= y
        /\ Min(T) \in T /\ \A y \in T : Min(T) <= y
    BY <1>1, <1>3, Extremes
  <2>2. T \subseteq Int
    BY <1>3
  <2>. QED BY <1>4, <2>1, <2>2
<1>6. PICK c \in S : f[c] = Max(T)
  BY <1>5 DEF T
<1>7. PICK e \in S : f[e] = Min(T)
  BY <1>5 DEF T
<1>. QED
  BY <1>2, <1>5, <1>6, <1>7

LEMMA CandleAtAmount ==
    ASSUME NEW candles, CandlesOK(candles), NEW t, NEW ts
    PROVE  candleAt(candles, t, ts) \in Amount
<1> DEFINE S == Series(candles, t)
           begun == {c \in S : c.ts <= ts}
           IsLast(c) == \A d \in begun : d.ts <= c.ts
           IsFirst(c) == \A d \in S : c.ts <= d.ts
           last == CHOOSE c \in begun : IsLast(c)
           first == CHOOSE c \in S : IsFirst(c)
<1>1. candleAt(candles, t, ts) =
          IF S = {} THEN Unmeasured
          ELSE IF begun # {}
          THEN IF ts - last.ts > 2 * candleSec THEN Unmeasured ELSE last.close
          ELSE IF first.ts - ts > candleSec THEN Unmeasured ELSE first.open
  BY DEF candleAt
<1>2. S \subseteq candles
  BY DEF Series
<1> HIDE DEF S
<1>3. begun \subseteq S
  OBVIOUS
<1>4. CandlesOK(S)
  BY <1>2, FS_Subset DEF CandlesOK
<1>5. CandlesOK(begun)
  <2> HIDE DEF begun
  <2>. QED BY <1>3, <1>4, FS_Subset DEF CandlesOK
<1> HIDE DEF begun
<1>6. begun # {} => last.close \in Nat
  <2>1. SUFFICES ASSUME begun # {} PROVE last.close \in Nat
    OBVIOUS
  <2>2. \E c \in begun : IsLast(c)
    BY <1>5, <2>1, LastAndFirst
  <2> HIDE DEF IsLast
  <2>3. last \in begun
    BY <2>2
  <2> HIDE DEF last
  <2>. QED BY <1>5, <2>3, CandleFields DEF CandlesOK
<1>7. S # {} => first.open \in Nat
  <2>1. SUFFICES ASSUME S # {} PROVE first.open \in Nat
    OBVIOUS
  <2>2. \E c \in S : IsFirst(c)
    BY <1>4, <2>1, LastAndFirst
  <2> HIDE DEF IsFirst
  <2>3. first \in S
    BY <2>2
  <2> HIDE DEF first
  <2>. QED BY <1>4, <2>3, CandleFields DEF CandlesOK
<1> HIDE DEF last, first
<1>. QED
  BY <1>1, <1>6, <1>7 DEF Amount

LEMMA CandleMaxAmount ==
    ASSUME NEW candles, CandlesOK(candles), NEW t, NEW from, NEW to
    PROVE  candleMax(candles, t, from, to) \in Amount
<1> DEFINE S == {d \in Series(candles, t) : /\ from <= to /\ d.ts <= to
                                            /\ d.ts + candleSec > from /\ d.high > 0}
           f == [c \in S |-> c.high]
           T == {f[c] : c \in S}
<1>1. candleMax(candles, t, from, to) = IF T = {} THEN Unmeasured ELSE Max(T)
  <2>1. {c.high : c \in S} = T
    OBVIOUS
  <2>. QED BY <2>1 DEF candleMax
<1>2. S \subseteq candles
  BY DEF Series
<1> HIDE DEF S
<1>3. IsFiniteSet(S) /\ \A c \in S : f[c] = c.high /\ f[c] \in Nat
  BY <1>2, FS_Subset, CandleFields DEF CandlesOK
<1> HIDE DEF f
<1>4. IsFiniteSet(T)
  BY <1>3, ImageFinite
<1>5. T \subseteq Nat
  BY <1>3
<1> HIDE DEF T
<1>6. T # {} => Max(T) \in Nat
  <2>1. T \subseteq Int
    BY <1>5
  <2>. QED BY <1>4, <1>5, <2>1, Extremes
<1>. QED
  BY <1>1, <1>6 DEF Amount

LEMMA ObservationFields ==
    ASSUME NEW path \in Seq(Observation)
    PROVE  /\ IsFiniteSet(DOMAIN path) /\ DOMAIN path \subseteq Nat
           /\ \A i \in DOMAIN path : path[i].ts \in Nat /\ path[i].px \in Nat
<1>1. Len(path) \in Nat /\ DOMAIN path = 1..Len(path)
  OBVIOUS
<1>2. \A i \in 1..Len(path) : path[i] \in Observation
  OBVIOUS
<1>3. \A o \in Observation : o.ts \in Nat /\ o.px \in Nat
  BY DEF Observation
<1>4. IsFiniteSet(1..Len(path)) /\ 1..Len(path) \subseteq Nat
  BY <1>1, FirstPlaces
<1>. QED
  BY <1>1, <1>2, <1>3, <1>4

LEMMA GapNat ==
    ASSUME NEW a \in Nat, NEW b \in Nat
    PROVE  Gap(a, b) \in Nat
  BY DEF Gap

\* Where a natural number attached to the places is least.
LEMMA LeastPlace ==
    ASSUME NEW S, S # {}, NEW f, \A i \in S : f[i] \in Nat
    PROVE  \E i \in S : \A j \in S : f[i] <= f[j]
<1> DEFINE T == {f[i] : i \in S}
<1>1. T \subseteq Nat /\ T # {}
  OBVIOUS
<1>2. PICK x \in T : \A y \in T : x <= y
  <2> HIDE DEF T
  <2>. QED BY <1>1, LeastExists
<1>. QED
  BY <1>2

LEMMA PriceAtAmount ==
    ASSUME NEW path \in Seq(Observation), NEW t, NEW ts \in Nat
    PROVE  priceAt(path, t, ts) \in Amount
<1> DEFINE of == {i \in DOMAIN path : path[i].token = t /\ path[i].px > 0}
           near == {i \in of : \A j \in of : Gap(path[i].ts, ts) <= Gap(path[j].ts, ts)}
           early == {i \in near : \A j \in near : path[i].ts <= path[j].ts}
           best == path[Min(early)]
<1>1. priceAt(path, t, ts) = IF of = {} \/ Gap(best.ts, ts) > toleranceSec THEN Unmeasured ELSE best.px
  BY DEF priceAt
<1>2. of \subseteq DOMAIN path
  OBVIOUS
<1>3. IsFiniteSet(DOMAIN path) /\ DOMAIN path \subseteq Nat
      /\ \A i \in DOMAIN path : path[i].ts \in Nat /\ path[i].px \in Nat
  BY ObservationFields
<1> HIDE DEF of
<1>4. SUFFICES ASSUME of # {} PROVE best.px \in Nat
  BY <1>1 DEF Amount
<1>5. near # {}
  <2> DEFINE f == [i \in of |-> Gap(path[i].ts, ts)]
  <2>1. \A i \in of : f[i] = Gap(path[i].ts, ts) /\ f[i] \in Nat
    BY <1>2, <1>3, GapNat
  <2> HIDE DEF f
  <2>2. \E i \in of : \A j \in of : f[i] <= f[j]
    BY <1>4, <2>1, LeastPlace
  <2>. QED BY <2>1, <2>2
<1>6. near \subseteq of
  OBVIOUS
<1> HIDE DEF near
<1>7. early # {}
  <2> DEFINE f == [i \in near |-> path[i].ts]
  <2>1. \A i \in near : f[i] = path[i].ts /\ f[i] \in Nat
    BY <1>2, <1>3, <1>6
  <2> HIDE DEF f
  <2>2. \E i \in near : \A j \in near : f[i] <= f[j]
    BY <1>5, <2>1, LeastPlace
  <2>. QED BY <2>1, <2>2
<1>8. early \subseteq near
  OBVIOUS
<1> HIDE DEF early
<1>9. early \subseteq DOMAIN path /\ early \subseteq Int /\ IsFiniteSet(early)
  <2>1. early \subseteq DOMAIN path
    BY <1>2, <1>6, <1>8
  <2>2. early \subseteq Int
    BY <2>1, <1>3
  <2>. QED BY <1>3, <2>1, <2>2, FS_Subset
<1>10. Min(early) \in early
  BY <1>7, <1>9, Extremes
<1>. QED
  BY <1>3, <1>9, <1>10

LEMMA MaxBetweenAmount ==
    ASSUME NEW path \in Seq(Observation), NEW t, NEW from, NEW to
    PROVE  maxBetween(path, t, from, to) \in Amount
<1> DEFINE S == {j \in DOMAIN path : path[j].token = t /\ path[j].ts \in from..to}
           f == [i \in S |-> path[i].px]
           T == {f[i] : i \in S}
<1>1. maxBetween(path, t, from, to) = IF T = {} THEN Unmeasured ELSE Max(T)
  <2>1. {path[i].px : i \in S} = T
    OBVIOUS
  <2>. QED BY <2>1 DEF maxBetween
<1>2. S \subseteq DOMAIN path
  OBVIOUS
<1> HIDE DEF S
<1>3. IsFiniteSet(S) /\ \A i \in S : f[i] \in Nat
  <2>1. IsFiniteSet(DOMAIN path) /\ \A i \in DOMAIN path : path[i].px \in Nat
    BY ObservationFields
  <2>. QED BY <1>2, <2>1, FS_Subset
<1> HIDE DEF f
<1>4. IsFiniteSet(T)
  BY <1>3, ImageFinite
<1>5. T \subseteq Nat
  BY <1>3
<1> HIDE DEF T
<1>6. T # {} => Max(T) \in Nat
  <2>1. T \subseteq Int
    BY <1>5
  <2>. QED BY <1>4, <1>5, <2>1, Extremes
<1>. QED
  BY <1>1, <1>6 DEF Amount

LEMMA LayersAmount ==
    ASSUME NEW path, PathOK(path), NEW t, NEW from \in Nat, NEW to
    PROVE  layeredAt(path, t, from) \in Amount /\ layeredMax(path, t, from, to) \in Amount
<1> DEFINE now == candleAt(path.candles, t, from)
           high == candleMax(path.candles, t, from, to)
           seen == maxBetween(path.observed, t, from, to)
<1>1. now \in Amount /\ high \in Amount /\ seen \in Amount
      /\ priceAt(path.observed, t, from) \in Amount
  BY CandleAtAmount, CandleMaxAmount, MaxBetweenAmount, PriceAtAmount DEF PathOK
<1>2. layeredAt(path, t, from) = IF now \notin {Unmeasured, 0} THEN now ELSE priceAt(path.observed, t, from)
  BY DEF layeredAt
<1>3. layeredMax(path, t, from, to) =
          IF high = Unmeasured THEN seen ELSE IF seen = Unmeasured THEN high ELSE Larger(high, seen)
  BY DEF layeredMax
<1> HIDE DEF now, high, seen
<1>4. high # Unmeasured /\ seen # Unmeasured => Larger(high, seen) \in Amount
  BY <1>1 DEF Amount, Larger
<1>. QED
  BY <1>1, <1>2, <1>3, <1>4

\* What was observed: the fills of the window, and the prices now.
LEMMA ObservedOK ==
    ASSUME NEW trades \in Seq(Fill), NEW market, MarketOK(market), NEW now \in Nat
    PROVE  ObservedFrom(trades, market, now) \in Seq(Observation)
<1> DEFINE P == {t \in Tokens : /\ \E i \in DOMAIN trades : trades[i].asset = t
                                /\ market[t] # Unmeasured /\ market[t].px > 0}
           known == SetToSeq(P)
           mine == [i \in DOMAIN trades |->
                       [token |-> trades[i].asset, ts |-> trades[i].ts, px |-> Price(trades[i])]]
           today == [i \in DOMAIN known |-> [token |-> known[i], ts |-> now, px |-> market[known[i]].px]]
<1>1. ObservedFrom(trades, market, now) = mine \o today
  BY DEF ObservedFrom, Each
<1>2. mine \in Seq(Observation)
  <2>1. Len(trades) \in Nat /\ DOMAIN trades = 1..Len(trades) /\ \A i \in 1..Len(trades) : trades[i] \in Fill
    OBVIOUS
  <2>2. \A f \in Fill : [token |-> f.asset, ts |-> f.ts, px |-> Price(f)] \in Observation
    <3>1. SUFFICES ASSUME NEW f \in Fill
          PROVE  [token |-> f.asset, ts |-> f.ts, px |-> Price(f)] \in Observation
      OBVIOUS
    <3>2. f.asset \in Tokens /\ f.ts \in Nat /\ Price(f) \in Nat
      BY FillTypes
    <3>. QED BY <3>2 DEF Observation
  <2>3. mine \in [1..Len(trades) -> Observation]
    BY <2>1, <2>2
  <2> HIDE DEF mine
  <2>. QED BY <2>1, <2>3, SeqDef
<1>3. IsFiniteSet(P)
  <2>1. P \subseteq Tokens /\ IsFiniteSet(Tokens)
    BY ProfileAssumption
  <2> HIDE DEF P
  <2>. QED BY <2>1, FS_Subset
<1>4. \A t \in P : t \in Tokens /\ market[t].px \in Nat
  <2>1. SUFFICES ASSUME NEW t \in P PROVE t \in Tokens /\ market[t].px \in Nat
    OBVIOUS
  <2>2. t \in Tokens /\ market[t] # Unmeasured
    OBVIOUS
  <2>3. market[t] \in [px : Nat, liq : Nat]
    BY <2>2 DEF MarketOK
  <2>. QED BY <2>2, <2>3
<1> HIDE DEF P
<1>5. known \in Seq(P)
  BY <1>3, SetListed
<1> HIDE DEF known
<1>6. today \in Seq(Observation)
  <2>1. Len(known) \in Nat /\ DOMAIN known = 1..Len(known) /\ \A i \in 1..Len(known) : known[i] \in P
    BY <1>5
  <2>2. \A t \in P : [token |-> t, ts |-> now, px |-> market[t].px] \in Observation
    BY <1>4 DEF Observation
  <2>3. today \in [1..Len(known) -> Observation]
    BY <2>1, <2>2
  <2> HIDE DEF today
  <2>. QED BY <2>1, <2>3, SeqDef
<1> HIDE DEF mine, today
<1>. QED
  BY <1>1, <1>2, <1>6, ConcatProperties

-----------------------------------------------------------------------------
(* The metrics.                                                                *)

LEMMA EpisodeNumbers ==
    ASSUME NEW e \in Episode
    PROVE  /\ Net(e) \in Int
           /\ episodeRoi(e) \in Measure
           /\ entryPrice(e) \in Amount
           /\ exitPrice(e) \in Amount
<1>1. /\ e.cost \in Nat /\ e.bought \in Nat /\ e.sold \in Nat /\ e.proceeds \in Nat
      /\ e.token \in Tokens /\ e.opened \in Nat
  BY DEF Episode
<1>2. Net(e) \in Int
  BY NetInt
<1>3. episodeRoi(e) \in Measure
  <2>1. CASE e.cost > 0
    <3>1. 100 * Net(e) \in Int /\ e.cost \in Int /\ e.cost # 0
      BY <1>1, <1>2, <2>1
    <3>2. Ratio(100 * Net(e), e.cost) \in Int
      BY <3>1, RatioInt
    <3>. QED BY <2>1, <3>2 DEF episodeRoi, Measure
  <2>2. CASE ~ (e.cost > 0)
    BY <2>2 DEF episodeRoi, Measure
  <2>. QED BY <2>1, <2>2
<1>4. entryPrice(e) \in Amount
  <2>1. CASE e.bought = 0
    BY <2>1 DEF entryPrice, Amount
  <2>2. CASE e.bought # 0
    <3>1. e.bought \in Nat \ {0}
      BY <1>1, <2>2
    <3>. QED BY <1>1, <2>2, <3>1, QuotientInt DEF entryPrice, Amount
  <2>. QED BY <2>1, <2>2
<1>5. exitPrice(e) \in Amount
  <2>1. CASE e.sold = 0
    BY <2>1 DEF exitPrice, Amount
  <2>2. CASE e.sold # 0
    <3>1. e.sold \in Nat \ {0}
      BY <1>1, <2>2
    <3>. QED BY <1>1, <2>2, <3>1, QuotientInt DEF exitPrice, Amount
  <2>. QED BY <2>1, <2>2
<1>. QED
  BY <1>2, <1>3, <1>4, <1>5

LEMMA RoisOK ==
    ASSUME NEW closed, IsList(closed, Episode)
    PROVE  IsList(rois(closed), Int)
<1> DEFINE all == [i \in DOMAIN closed |-> episodeRoi(closed[i])]
           S == {i \in DOMAIN all : all[i] # Unmeasured}
           known == Restrict(all, S)
<1>1. rois(closed) = known
  BY DEF rois, Measured, RestrictValues, Each
<1>2. IsList(all, Measure)
  BY EpisodeNumbers DEF IsList
<1> HIDE DEF all
<1>3. \A i \in S : known[i] = all[i] /\ all[i] # Unmeasured
  BY DEF Restrict
<1>4. S \subseteq DOMAIN all
  OBVIOUS
<1> HIDE DEF S
<1>5. IsList(known, Measure) /\ DOMAIN known = S
  BY <1>2, <1>4, RestrictList
<1> HIDE DEF known
<1>6. IsList(known, Int)
  BY <1>3, <1>5 DEF IsList, Measure
<1>. QED
  BY <1>1, <1>6

LEMMA StabilityMeasure ==
    ASSUME NEW xs, IsList(xs, Int)
    PROVE  roiStability(xs) \in Measure
<1>1. stdev(xs) \in Measure
  BY StdevBetween
<1>2. CASE stdev(xs) = Unmeasured
  BY <1>2 DEF roiStability, Measure
<1>3. CASE stdev(xs) # Unmeasured
  <2>1. Count(xs) # 0
    <3>1. Count(xs) \in Nat /\ ~ (Count(xs) < 2)
      BY <1>3, CountNat DEF IsList, stdev
    <3>. QED BY <3>1
  <2>2. mean(xs) \in Int /\ stdev(xs) \in Int
    BY <1>1, <1>3, <2>1, MeanMeasure DEF Measure
  <2>3. \A x \in Int : Clamp(x, -1000, 1000) \in Int
    BY DEF Clamp
  <2>4. CASE stdev(xs) = 0
    BY <1>3, <2>2, <2>3, <2>4 DEF roiStability, Measure
  <2>5. CASE stdev(xs) # 0
    <3>1. 100 * mean(xs) \in Int
      BY <2>2
    <3>2. Ratio(100 * mean(xs), stdev(xs)) \in Int
      BY <2>2, <2>5, <3>1, RatioInt
    <3>. QED BY <1>3, <2>3, <2>5, <3>2 DEF roiStability, Measure
  <2>. QED BY <2>4, <2>5
<1>. QED
  BY <1>2, <1>3

LEMMA DrawdownMeasure ==
    ASSUME NEW closed, IsList(closed, Episode)
    PROVE  drawdown(closed) \in Measure
<1> DEFINE D == DOMAIN closed
           eq == [i \in D |-> equityAt(closed, i)]
           above == {i \in D : peakAt(closed, i) > 0}
           fall == [i \in above |->
                       (100 * (peakAt(closed, i) - equityAt(closed, i))) \div peakAt(closed, i)]
           T == {fall[i] : i \in above}
<1>1. drawdown(closed) = IF above = {} THEN Unmeasured ELSE Max(T)
  <2>1. {(100 * (peakAt(closed, i) - equityAt(closed, i))) \div peakAt(closed, i) : i \in above} = T
    OBVIOUS
  <2>. QED BY <2>1 DEF drawdown
<1>2. IsFiniteSet(D)
  BY DEF IsList
<1>3. \A i \in D : equityAt(closed, i) \in Int
  <2>1. SUFFICES ASSUME NEW i \in D PROVE equityAt(closed, i) \in Int
    OBVIOUS
  <2> DEFINE K == {j \in DOMAIN closed : j <= i}
  <2>2. K \subseteq DOMAIN closed
    OBVIOUS
  <2>3. equityAt(closed, i) = NetOf(Restrict(closed, K))
    BY DEF equityAt
  <2> HIDE DEF K
  <2>4. IsList(Restrict(closed, K), Episode)
    BY <2>2, RestrictList
  <2>. QED BY <2>3, <2>4, NetIsSum
<1>4. \A i \in D : peakAt(closed, i) \in Int
  <2>1. SUFFICES ASSUME NEW i \in D PROVE peakAt(closed, i) \in Int
    OBVIOUS
  <2> DEFINE K == {k \in D : k <= i}
             E == {eq[j] : j \in K}
  <2>2. K \subseteq D
    OBVIOUS
  <2>3. {equityAt(closed, j) : j \in K} = E
    BY <2>2
  <2>4. peakAt(closed, i) = Max({0} \cup E)
    BY <2>3 DEF peakAt
  <2> HIDE DEF K
  <2>5. IsFiniteSet(K)
    BY <1>2, <2>2, FS_Subset
  <2>6. E \subseteq Int
    BY <1>3, <2>2
  <2> HIDE DEF eq
  <2>7. IsFiniteSet(E)
    BY <2>5, ImageFinite
  <2> HIDE DEF E
  <2> DEFINE F == {0} \cup E
  <2>8. IsFiniteSet(F)
    BY <2>7, FS_Singleton, FS_Union
  <2>9. F \subseteq Int /\ F # {}
    BY <2>6
  <2>10. peakAt(closed, i) = Max(F)
    BY <2>4
  <2> HIDE DEF F
  <2>11. Max(F) \in F
    BY <2>8, <2>9, Extremes
  <2>. QED BY <2>9, <2>10, <2>11
<1>5. above \subseteq D /\ \A i \in above : peakAt(closed, i) > 0
  OBVIOUS
<1> HIDE DEF above
<1>6. \A i \in above : fall[i] \in Int
  <2>1. SUFFICES ASSUME NEW i \in above PROVE fall[i] \in Int
    OBVIOUS
  <2> DEFINE p == peakAt(closed, i)
             q == equityAt(closed, i)
  <2>2. p \in Int /\ p > 0 /\ q \in Int
    BY <1>3, <1>4, <1>5
  <2>3. fall[i] = (100 * (p - q)) \div p
    OBVIOUS
  <2> HIDE DEF p, q, fall
  <2>4. 100 * (p - q) \in Int /\ p \in Nat \ {0}
    BY <2>2
  <2>. QED BY <2>3, <2>4, QuotientInt
<1> HIDE DEF fall
<1>7. IsFiniteSet(T)
  <2>1. IsFiniteSet(above)
    BY <1>2, <1>5, FS_Subset
  <2>. QED BY <2>1, ImageFinite
<1>8. above # {} => Max(T) \in Int
  <2>1. SUFFICES ASSUME above # {} PROVE Max(T) \in Int
    OBVIOUS
  <2>2. T \subseteq Int /\ T # {}
    BY <1>6, <2>1
  <2> HIDE DEF T
  <2>. QED BY <1>7, <2>2, Extremes
<1> HIDE DEF T
<1>. QED
  BY <1>1, <1>8 DEF Measure

LEMMA WeightMeasure ==
    ASSUME NEW eps, Every(eps) \in Seq(Episode), NEW equity, BookValueOK(equity)
    PROVE  avgPeakWeight(eps, equity) \in Measure
<1> DEFINE all == Every(eps)
           weights == [i \in DOMAIN all |-> all[i].peak \div equity]
           S == {i \in DOMAIN weights : weights[i] > 0}
           held0 == Restrict(weights, S)
<1>1. CASE equity = Unmeasured
  BY <1>1 DEF avgPeakWeight, RestrictValues, Each, Measure
<1>2. CASE equity # Unmeasured
  <2>1. avgPeakWeight(eps, equity) = mean(held0)
    BY <1>2 DEF avgPeakWeight, RestrictValues, Each
  <2>2. equity \in Nat \ {0}
    BY <1>2 DEF BookValueOK
  <2>3. IsList(all, Episode)
    BY SeqIsList
  <2>4. \A e \in Episode : e.peak \div equity \in Int
    <3>1. \A e \in Episode : e.peak \in Int
      BY DEF Episode
    <3>. QED BY <2>2, <3>1, QuotientInt
  <2> HIDE DEF all
  <2>5. IsList(weights, Int)
    BY <2>3, <2>4 DEF IsList
  <2>6. S \subseteq DOMAIN weights
    OBVIOUS
  <2> HIDE DEF S, weights
  <2>7. IsList(held0, Int)
    BY <2>5, <2>6, RestrictList
  <2> HIDE DEF held0
  <2>. QED BY <2>1, <2>7, MeanMeasure
<1>. QED
  BY <1>1, <1>2

\* Net results under a key are a list of numbers.
LEMMA GroupsOK ==
    ASSUME NEW closed, IsList(closed, Episode), NEW key
    PROVE  IsList(GroupedNet(closed, key), Int)
<1> DEFINE K == {key[i] : i \in DOMAIN closed}
           g == GroupedNet(closed, key)
<1>1. IsFiniteSet(K)
  BY ImageFinite DEF IsList
<1>2. DOMAIN g = K /\ \A k \in K : g[k] = NetOf(Restrict(closed, {i \in DOMAIN closed : key[i] = k}))
  BY DEF GroupedNet
<1>3. \A k \in K : NetOf(Restrict(closed, {i \in DOMAIN closed : key[i] = k})) \in Int
  <2>1. SUFFICES ASSUME NEW k \in K
        PROVE  NetOf(Restrict(closed, {i \in DOMAIN closed : key[i] = k})) \in Int
    OBVIOUS
  <2> DEFINE S == {i \in DOMAIN closed : key[i] = k}
  <2>2. S \subseteq DOMAIN closed
    OBVIOUS
  <2> HIDE DEF S
  <2>3. IsList(Restrict(closed, S), Episode)
    BY <2>2, RestrictList
  <2>4. NetOf(Restrict(closed, S)) \in Int
    BY <2>3, NetIsSum
  <2>. QED BY <2>4 DEF S
<1> HIDE DEF g, K
<1>4. IsList(g, Int)
  BY <1>1, <1>2, <1>3 DEF IsList
<1>. QED
  BY <1>4 DEF g

LEMMA BucketsOK ==
    ASSUME NEW closed, IsList(closed, Episode)
    PROVE  /\ IsList(Buckets(closed), Int)
           /\ IsList(GroupedNet(closed, Each(LAMBDA e : e.token, closed)), Int)
<1>1. IsList(Buckets(closed), Int)
  <2> DEFINE start == Min({closed[i].closedAt : i \in DOMAIN closed})
             key == [i \in DOMAIN closed |-> (closed[i].closedAt - start) \div consistencyBucketSec]
  <2>1. Buckets(closed) = GroupedNet(closed, key)
    BY DEF Buckets, Each
  <2> HIDE DEF key
  <2>. QED BY <2>1, GroupsOK
<1>2. IsList(GroupedNet(closed, Each(LAMBDA e : e.token, closed)), Int)
  <2> DEFINE key == [i \in DOMAIN closed |-> closed[i].token]
  <2>1. GroupedNet(closed, Each(LAMBDA e : e.token, closed)) = GroupedNet(closed, key)
    BY DEF Each
  <2> HIDE DEF key
  <2>. QED BY <2>1, GroupsOK
<1>. QED
  BY <1>1, <1>2

LEMMA RatesOK ==
    ASSUME NEW nets, IsList(nets, Int)
    PROVE  ProfitableRate(nets) \in Measure /\ bucketVariation(nets) \in Measure
<1>1. ProfitableRate(nets) \in Measure
  <2> DEFINE S == {i \in DOMAIN nets : nets[i] > 0}
             up == Restrict(nets, S)
  <2>1. ProfitableRate(nets) = Share(Count(up), Count(nets))
    BY DEF ProfitableRate, RestrictValues
  <2>2. S \subseteq DOMAIN nets
    OBVIOUS
  <2> HIDE DEF S
  <2>3. IsFiniteSet(DOMAIN up) /\ IsFiniteSet(DOMAIN nets)
    BY <2>2, RestrictList DEF IsList
  <2> HIDE DEF up
  <2>. QED BY <2>1, <2>3, ShareMeasure
<1>2. bucketVariation(nets) \in Measure
  <2> DEFINE dollars == [k \in DOMAIN nets |-> Ratio(nets[k], 100)]
  <2>1. bucketVariation(nets) =
            IF Count(nets) < minConsistencyBuckets \/ mean(dollars) = 0 \/ stdev(dollars) = Unmeasured
            THEN Unmeasured ELSE (100 * stdev(dollars)) \div Gap(mean(dollars), 0)
    BY DEF bucketVariation, Each
  <2>2. \A n \in Int : Ratio(n, 100) \in Int
    BY RatioInt
  <2>3. IsList(dollars, Int)
    BY <2>2 DEF IsList
  <2> HIDE DEF dollars
  <2>4. SUFFICES ASSUME mean(dollars) # 0, stdev(dollars) # Unmeasured
        PROVE  (100 * stdev(dollars)) \div Gap(mean(dollars), 0) \in Int
    BY <2>1 DEF Measure
  <2>5. Count(dollars) # 0
    <3>1. Count(dollars) \in Nat /\ ~ (Count(dollars) < 2)
      BY <2>3, <2>4, CountNat DEF IsList, stdev
    <3>. QED BY <3>1
  <2>6. mean(dollars) \in Int /\ stdev(dollars) \in Int
    BY <2>3, <2>4, <2>5, MeanMeasure, StdevBetween DEF Measure
  <2>7. Gap(mean(dollars), 0) \in Nat \ {0} /\ 100 * stdev(dollars) \in Int
    BY <2>4, <2>6 DEF Gap
  <2>. QED BY <2>7, QuotientInt
<1>. QED
  BY <1>1, <1>2

LEMMA GainInt ==
    ASSUME NEW px \in Nat, NEW over \in Nat, over # 0
    PROVE  Gain(px, over) \in Int
<1>1. 100 * px \in Int /\ over \in Int
  OBVIOUS
<1>2. Ratio(100 * px, over) \in Int
  BY <1>1, RatioInt
<1>. QED
  BY <1>2 DEF Gain

LEMMA EntriesOK ==
    ASSUME NEW eps, Every(eps) \in Seq(Episode)
    PROVE  /\ IsList(EntriesJudged(eps), Episode)
           /\ \A i \in DOMAIN EntriesJudged(eps) :
                 entryPrice(EntriesJudged(eps)[i]) \notin {Unmeasured, 0}
<1> DEFINE all == Every(eps)
           fit(e) == /\ e.closedAt = Unmeasured \/ isSelfContained(e)
                     /\ entryPrice(e) \notin {Unmeasured, 0}
           S == {i \in DOMAIN all : fit(all[i])}
           kept == Restrict(all, S)
<1>1. EntriesJudged(eps) = kept
  BY DEF EntriesJudged, RestrictValues
<1>2. IsList(all, Episode)
  BY SeqIsList
<1>3. \A i \in S : kept[i] = all[i] /\ entryPrice(all[i]) \notin {Unmeasured, 0}
  BY DEF Restrict
<1>4. S \subseteq DOMAIN all
  OBVIOUS
<1> HIDE DEF S, all
<1>5. IsList(kept, Episode) /\ DOMAIN kept = S
  BY <1>2, <1>4, RestrictList
<1> HIDE DEF kept
<1>6. \A i \in DOMAIN kept : entryPrice(kept[i]) \notin {Unmeasured, 0}
  BY <1>3, <1>5
<1>. QED
  BY <1>1, <1>5, <1>6

LEMMA HorizonMeasure ==
    ASSUME NEW eps, Every(eps) \in Seq(Episode), NEW path, PathOK(path)
    PROVE  roiByHorizon(eps, path) \in Measure /\ hitRateByMultiple(eps, path) \in Measure
<1> DEFINE judged == EntriesJudged(eps)
<1>1. /\ IsList(judged, Episode)
      /\ \A i \in DOMAIN judged : entryPrice(judged[i]) \notin {Unmeasured, 0}
  BY EntriesOK
<1>2. roiByHorizon(eps, path) \in Measure
  <2> DEFINE at(e) == layeredAt(path, e.token, e.opened + horizonSec)
             S == {i \in DOMAIN judged : at(judged[i]) # Unmeasured}
             later == Restrict(judged, S)
             gains == [i \in DOMAIN later |-> Gain(at(later[i]), entryPrice(later[i]))]
  <2>1. roiByHorizon(eps, path) = mean(gains)
    BY DEF roiByHorizon, RestrictValues, Each
  <2>2. \A i \in S : later[i] = judged[i] /\ at(judged[i]) # Unmeasured
    BY DEF Restrict
  <2>3. S \subseteq DOMAIN judged
    OBVIOUS
  <2>4. \A e \in Episode : at(e) # Unmeasured /\ entryPrice(e) \notin {Unmeasured, 0} =>
                               Gain(at(e), entryPrice(e)) \in Int
    <3>1. SUFFICES ASSUME NEW e \in Episode, at(e) # Unmeasured, entryPrice(e) \notin {Unmeasured, 0}
          PROVE  Gain(at(e), entryPrice(e)) \in Int
      OBVIOUS
    <3>2. e.opened + horizonSec \in Nat
      <4>1. e.opened \in Nat
        BY DEF Episode
      <4>2. horizonSec \in Nat
        BY ProfileAssumption
      <4>. QED BY <4>1, <4>2
    <3>3. at(e) \in Amount
      BY <3>2, LayersAmount
    <3>4. entryPrice(e) \in Amount
      BY EpisodeNumbers
    <3> HIDE DEF at
    <3>5. at(e) \in Nat /\ entryPrice(e) \in Nat /\ entryPrice(e) # 0
      BY <3>1, <3>3, <3>4 DEF Amount
    <3>. QED BY <3>5, GainInt
  <2> HIDE DEF S, judged, at
  <2>5. IsList(later, Episode) /\ DOMAIN later = S
    BY <1>1, <2>3, RestrictList
  <2> HIDE DEF later
  <2>6. \A i \in S : judged[i] \in Episode /\ entryPrice(judged[i]) \notin {Unmeasured, 0}
    BY <1>1, <2>3 DEF IsList
  <2>7. \A i \in S : Gain(at(later[i]), entryPrice(later[i])) \in Int
    BY <2>2, <2>4, <2>6
  <2>8. IsList(gains, Int)
    BY <2>5, <2>7 DEF IsList
  <2> HIDE DEF gains
  <2>. QED BY <2>1, <2>8, MeanMeasure
<1>3. hitRateByMultiple(eps, path) \in Measure
  <2> DEFINE peak(e) == layeredMax(path, e.token, e.opened, e.opened + horizonSec)
             S == {i \in DOMAIN judged : peak(judged[i]) # Unmeasured}
             seen == Restrict(judged, S)
             H == {i \in DOMAIN seen : Gain(peak(seen[i]), entryPrice(seen[i])) >= 50}
             hits == Restrict(seen, H)
  <2>1. hitRateByMultiple(eps, path) = Share(Count(hits), Count(seen))
    BY DEF hitRateByMultiple, RestrictValues
  <2>2. S \subseteq DOMAIN judged /\ H \subseteq DOMAIN seen
    OBVIOUS
  <2> HIDE DEF S, H, judged
  <2>3. IsList(seen, Episode)
    BY <1>1, <2>2, RestrictList
  <2> HIDE DEF seen
  <2>4. IsList(hits, Episode)
    BY <2>2, <2>3, RestrictList
  <2> HIDE DEF hits
  <2>. QED BY <2>1, <2>3, <2>4, ShareMeasure DEF IsList
<1>. QED
  BY <1>2, <1>3

LEMMA ExitsOK ==
    ASSUME NEW closed, IsList(closed, Episode)
    PROVE  /\ IsList(ExitsJudged(closed), Episode)
           /\ DOMAIN ExitsJudged(closed) \subseteq DOMAIN closed
           /\ \A i \in DOMAIN ExitsJudged(closed) :
                 /\ ExitsJudged(closed)[i] = closed[i]
                 /\ entryPrice(closed[i]) \notin {Unmeasured, 0} /\ exitPrice(closed[i]) # Unmeasured
<1> DEFINE S == {i \in DOMAIN closed : /\ entryPrice(closed[i]) \notin {Unmeasured, 0}
                                       /\ exitPrice(closed[i]) # Unmeasured}
           kept == Restrict(closed, S)
<1>1. ExitsJudged(closed) = kept
  BY DEF ExitsJudged, RestrictValues
<1>2. \A i \in S : /\ kept[i] = closed[i]
                   /\ entryPrice(closed[i]) \notin {Unmeasured, 0} /\ exitPrice(closed[i]) # Unmeasured
  BY DEF Restrict
<1>3. S \subseteq DOMAIN closed
  OBVIOUS
<1> HIDE DEF S
<1>4. IsList(kept, Episode) /\ DOMAIN kept = S
  BY <1>3, RestrictList
<1> HIDE DEF kept
<1>. QED
  BY <1>1, <1>2, <1>3, <1>4

\* One exit: how much was taken of the way from the entry to the peak.
LEMMA TakenPercent ==
    ASSUME NEW bought \in Nat, NEW sold \in Nat, NEW peak \in Nat, peak > bought
    PROVE  Clamp(Ratio(100 * (sold - bought), peak - bought), -100, 200) \in Int
<1>1. 100 * (sold - bought) \in Int /\ peak - bought \in Int /\ peak - bought # 0
  OBVIOUS
<1>2. Ratio(100 * (sold - bought), peak - bought) \in Int
  BY <1>1, RatioInt
<1>3. \A x \in Int : Clamp(x, -100, 200) \in Int
  BY DEF Clamp
<1>. QED
  BY <1>2, <1>3

LEMMA ExitMeasures ==
    ASSUME NEW closed, IsList(closed, Episode),
           \A i \in DOMAIN closed : closed[i].closedAt \in Nat, NEW path, PathOK(path)
    PROVE  captureRatio(closed, path) \in Measure /\ prematureExitRate(closed, path) \in Measure
<1> DEFINE judged == ExitsJudged(closed)
<1>1. /\ IsList(judged, Episode)
      /\ \A i \in DOMAIN judged :
            entryPrice(judged[i]) \notin {Unmeasured, 0} /\ exitPrice(judged[i]) # Unmeasured
  BY ExitsOK
<1>2. captureRatio(closed, path) \in Measure
  <2> DEFINE peak(e) == layeredMax(path, e.token, e.opened, e.closedAt + horizonSec)
             taken(e) == Clamp(Ratio(100 * (exitPrice(e) - entryPrice(e)), peak(e) - entryPrice(e)), -100, 200)
             up(e) == peak(e) # Unmeasured /\ peak(e) > entryPrice(e)
             S == {i \in DOMAIN judged : up(judged[i])}
             moved == Restrict(judged, S)
             shares == [i \in DOMAIN moved |-> taken(moved[i])]
  <2>1. captureRatio(closed, path) = median(shares)
    BY DEF captureRatio, RestrictValues, Each
  <2>2. \A i \in S : moved[i] = judged[i] /\ up(judged[i])
    BY DEF Restrict
  <2>3. S \subseteq DOMAIN judged
    OBVIOUS
  <2>4. \A e \in Episode : up(e) /\ entryPrice(e) \notin {Unmeasured, 0} /\ exitPrice(e) # Unmeasured =>
                               taken(e) \in Int
    <3>1. SUFFICES ASSUME NEW e \in Episode, up(e), entryPrice(e) \notin {Unmeasured, 0},
                          exitPrice(e) # Unmeasured
          PROVE  taken(e) \in Int
      OBVIOUS
    <3>2. e.opened \in Nat
      BY DEF Episode
    <3>3. peak(e) \in Amount
      BY <3>2, LayersAmount
    <3>4. entryPrice(e) \in Amount /\ exitPrice(e) \in Amount
      BY EpisodeNumbers
    <3>5. peak(e) # Unmeasured /\ peak(e) > entryPrice(e)
      BY <3>1
    <3> HIDE DEF peak
    <3>6. peak(e) \in Nat /\ entryPrice(e) \in Nat /\ exitPrice(e) \in Nat /\ peak(e) > entryPrice(e)
      BY <3>1, <3>3, <3>4, <3>5 DEF Amount
    <3>. QED BY <3>6, TakenPercent
  <2> HIDE DEF S, judged, up, taken
  <2>5. IsList(moved, Episode) /\ DOMAIN moved = S
    BY <1>1, <2>3, RestrictList
  <2> HIDE DEF moved
  <2>6. \A i \in S : /\ judged[i] \in Episode
                     /\ entryPrice(judged[i]) \notin {Unmeasured, 0} /\ exitPrice(judged[i]) # Unmeasured
    BY <1>1, <2>3 DEF IsList
  <2>7. \A i \in S : taken(moved[i]) \in Int
    BY <2>2, <2>4, <2>6
  <2>8. IsList(shares, Int)
    BY <2>5, <2>7 DEF IsList
  <2> HIDE DEF shares
  <2>9. 50 \in Nat
    OBVIOUS
  <2>. QED BY <2>1, <2>8, <2>9, PercentileRank DEF median
<1>3. prematureExitRate(closed, path) \in Measure
  <2> DEFINE after(e) == layeredMax(path, e.token, e.closedAt, e.closedAt + horizonSec)
             S == {i \in DOMAIN judged : after(judged[i]) # Unmeasured /\ exitPrice(judged[i]) > 0}
             left == Restrict(judged, S)
             E == {i \in DOMAIN left : after(left[i]) > exitPrice(left[i])}
             early == Restrict(left, E)
  <2>1. prematureExitRate(closed, path) = Share(Count(early), Count(left))
    BY DEF prematureExitRate, RestrictValues
  <2>2. S \subseteq DOMAIN judged /\ E \subseteq DOMAIN left
    OBVIOUS
  <2> HIDE DEF S, E, judged
  <2>3. IsList(left, Episode)
    BY <1>1, <2>2, RestrictList
  <2> HIDE DEF left
  <2>4. IsList(early, Episode)
    BY <2>2, <2>3, RestrictList
  <2> HIDE DEF early
  <2>. QED BY <2>1, <2>3, <2>4, ShareMeasure DEF IsList
<1>. QED
  BY <1>2, <1>3

-----------------------------------------------------------------------------
(* The five dimensions.                                                        *)

LEMMA RiskPercent ==
    ASSUME NEW closed, IsList(closed, Episode), NEW weight \in Measure
    PROVE  risk(closed, weight) \in Percent
<1> DEFINE p1 == <<<<0, 100>>, <<10, 88>>, <<20, 72>>, <<35, 50>>, <<60, 20>>, <<100, 0>>>>
           p2 == <<<<50, 15>>, <<100, 45>>, <<150, 68>>, <<250, 88>>, <<400, 100>>>>
           p3 == <<<<0, 100>>, <<5, 90>>, <<10, 75>>, <<25, 45>>, <<50, 10>>>>
           p4 == <<<<-100, 0>>, <<0, 25>>, <<30, 50>>, <<75, 75>>, <<150, 92>>, <<300, 100>>>>
<1>1. Table(p1, 0, 100)
  BY DEF Table
<1>2. Table(p2, 0, 100)
  BY DEF Table
<1>3. Table(p3, 0, 100)
  BY DEF Table
<1>4. Table(p4, 0, 100)
  BY DEF Table
<1>5. /\ drawdown(closed) \in Measure /\ rewardToRisk(closed) \in Measure
      /\ roiStability(rois(closed)) \in Measure
  BY DrawdownMeasure, RecordNumbers, RoisOK, StabilityMeasure
<1>6. risk(closed, weight) = Parts(<<On(drawdown(closed), p1), On(rewardToRisk(closed), p2),
                                     On(weight, p3), On(roiStability(rois(closed)), p4)>>)
  BY DEF risk
<1> HIDE DEF p1, p2, p3, p4
<1> DEFINE a == On(drawdown(closed), p1)
           b == On(rewardToRisk(closed), p2)
           c == On(weight, p3)
           d == On(roiStability(rois(closed)), p4)
<1>7. a \in Percent /\ b \in Percent /\ c \in Percent /\ d \in Percent
  BY <1>1, <1>2, <1>3, <1>4, <1>5, OnPercent
<1>8. risk(closed, weight) = Parts(<<a, b, c, d>>)
  BY <1>6
<1> HIDE DEF a, b, c, d
<1>. QED
  BY <1>7, <1>8, PartsOfFour

LEMMA EntryTables ==
    /\ Table(<<<<-50, 0>>, <<0, 40>>, <<25, 65>>, <<50, 82>>, <<150, 100>>>>, 0, 100)
    /\ Table(<<<<0, 20>>, <<20, 50>>, <<40, 75>>, <<70, 100>>>>, 0, 100)
<1>1. Table(<<<<-50, 0>>, <<0, 40>>, <<25, 65>>, <<50, 82>>, <<150, 100>>>>, 0, 100)
  BY DEF Table
<1>2. Table(<<<<0, 20>>, <<20, 50>>, <<40, 75>>, <<70, 100>>>>, 0, 100)
  BY DEF Table
<1>. QED
  BY <1>1, <1>2

LEMMA EntryPercent ==
    ASSUME NEW eps, Every(eps) \in Seq(Episode), NEW path, PathOK(path)
    PROVE  entrySkill(eps, path) \in Percent
<1> DEFINE p1 == <<<<-50, 0>>, <<0, 40>>, <<25, 65>>, <<50, 82>>, <<150, 100>>>>
           p2 == <<<<0, 20>>, <<20, 50>>, <<40, 75>>, <<70, 100>>>>
<1>1. Table(p1, 0, 100)
  BY EntryTables
<1>2. Table(p2, 0, 100)
  BY EntryTables
<1>3. roiByHorizon(eps, path) \in Measure /\ hitRateByMultiple(eps, path) \in Measure
  BY HorizonMeasure
<1>4. entrySkill(eps, path)
          = Parts(<<On(roiByHorizon(eps, path), p1), On(hitRateByMultiple(eps, path), p2)>>)
  BY DEF entrySkill
<1> HIDE DEF p1, p2
<1>5. On(roiByHorizon(eps, path), p1) \in Percent /\ On(hitRateByMultiple(eps, path), p2) \in Percent
  BY <1>1, <1>2, <1>3, OnPercent
<1>. QED
  BY <1>4, <1>5, PartsOfFew

LEMMA ExitPercent ==
    ASSUME NEW closed, IsList(closed, Episode),
           \A i \in DOMAIN closed : closed[i].closedAt \in Nat, NEW path, PathOK(path)
    PROVE  exitSkill(closed, path) \in Percent
<1> DEFINE p1 == <<<<0, 10>>, <<30, 40>>, <<50, 62>>, <<75, 85>>, <<100, 100>>>>
           p2 == <<<<0, 100>>, <<30, 78>>, <<50, 58>>, <<80, 25>>, <<100, 5>>>>
<1>1. Table(p1, 0, 100)
  BY DEF Table
<1>2. Table(p2, 0, 100)
  BY DEF Table
<1>3. captureRatio(closed, path) \in Measure /\ prematureExitRate(closed, path) \in Measure
  BY ExitMeasures
<1>4. exitSkill(closed, path)
          = Parts(<<On(captureRatio(closed, path), p1), On(prematureExitRate(closed, path), p2)>>)
  BY DEF exitSkill
<1> HIDE DEF p1, p2
<1>5. On(captureRatio(closed, path), p1) \in Percent /\ On(prematureExitRate(closed, path), p2) \in Percent
  BY <1>1, <1>2, <1>3, OnPercent
<1>. QED
  BY <1>4, <1>5, PartsOfFew

LEMMA ConsistencyPercent ==
    ASSUME NEW closed, IsList(closed, Episode)
    PROVE  consistency(closed) \in Percent
<1> DEFINE p1 == <<<<0, 0>>, <<40, 40>>, <<60, 65>>, <<80, 88>>, <<100, 100>>>>
           p2 == <<<<0, 100>>, <<50, 85>>, <<100, 65>>, <<200, 38>>, <<400, 10>>>>
           p3 == <<<<0, 0>>, <<30, 35>>, <<50, 60>>, <<70, 85>>, <<90, 100>>>>
           nets == Buckets(closed)
           tokens == GroupedNet(closed, Each(LAMBDA e : e.token, closed))
<1>1. Table(p1, 0, 100)
  BY DEF Table
<1>2. Table(p2, 0, 100)
  BY DEF Table
<1>3. Table(p3, 0, 100)
  BY DEF Table
<1>4. IsList(nets, Int) /\ IsList(tokens, Int)
  BY BucketsOK
<1>5. consistency(closed) =
          IF Count(nets) < minConsistencyBuckets THEN Unmeasured
          ELSE Parts(<<On(ProfitableRate(nets), p1), On(bucketVariation(nets), p2),
                       On(ProfitableRate(tokens), p3)>>)
  BY DEF consistency
<1> HIDE DEF p1, p2, p3, nets, tokens
<1>6. /\ ProfitableRate(nets) \in Measure /\ bucketVariation(nets) \in Measure
      /\ ProfitableRate(tokens) \in Measure
  BY <1>4, RatesOK
<1>7. /\ On(ProfitableRate(nets), p1) \in Percent /\ On(bucketVariation(nets), p2) \in Percent
      /\ On(ProfitableRate(tokens), p3) \in Percent
  BY <1>1, <1>2, <1>3, <1>6, OnPercent
<1>8. Parts(<<On(ProfitableRate(nets), p1), On(bucketVariation(nets), p2),
              On(ProfitableRate(tokens), p3)>>) \in Percent
  BY <1>7, PartsOfFew
<1>. QED
  BY <1>5, <1>8 DEF Percent

-----------------------------------------------------------------------------
(* A trader who lost money is kept out of the top grades: a quarter of the      *)
(* scale at most for profitability, and full marks in everything else, average  *)
(* to less than 80 whatever could not be measured.                              *)

LEMMA LoserProfitability ==
    ASSUME NEW closed, IsList(closed, Episode), NetOf(closed) <= 0
    PROVE  profitability(closed) \in 0..25
<1> DEFINE points == <<<<0, 0>>, <<50, 12>>, <<100, 25>>>>
<1>1. profitability(closed) = curve(WinRate(closed), points)
  BY DEF profitability
<1>2. Table(points, 0, 25)
  BY LosingTables
<1> HIDE DEF points
<1>3. WinRate(closed) \in Int /\ 0 \in Int /\ 25 \in Int
  BY RecordNumbers
<1>4. curve(WinRate(closed), points) \in 0..25
  BY <1>2, <1>3, CurveBetween
<1>. QED
  BY <1>1, <1>4

LEMMA PercentPoints ==
    ASSUME NEW s \in Percent, NEW w \in Nat
    PROVE  /\ Points(s, w) \in Nat /\ Weight(s, w) \in Nat
           /\ Weight(s, w) <= w /\ Points(s, w) <= 100 * Weight(s, w)
<1>1. CASE s = Unmeasured
  BY <1>1 DEF Points, Weight
<1>2. CASE s # Unmeasured
  <2>1. s \in 0..100
    BY <1>2 DEF Percent
  <2>2. s * w \in Nat /\ s * w <= 100 * w
    <3>1. \A a \in 0..100 : a * w \in Nat /\ a * w <= 100 * w
      OBVIOUS
    <3>. QED BY <2>1, <3>1
  <2>3. Points(s, w) = s * w /\ Weight(s, w) = w
    BY <1>2 DEF Points, Weight
  <2>. QED BY <2>2, <2>3
<1>. QED
  BY <1>1, <1>2

LEMMA LoserAverage ==
    ASSUME NEW p \in 0..25, NEW s2 \in Percent, NEW s3 \in Percent, NEW s4 \in Percent,
           NEW s5 \in Percent
    PROVE  Renormalised(<< <<p, 30>>, <<s2, 25>>, <<s3, 15>>, <<s4, 15>>, <<s5, 15>> >>) \in 0..79
<1> DEFINE w1 == 30
           w2 == 25
           w3 == 15
           x == p * w1 + Points(s2, w2) + Points(s3, w3) + Points(s4, w3) + Points(s5, w3)
           y == w1 + Weight(s2, w2) + Weight(s3, w3) + Weight(s4, w3) + Weight(s5, w3)
<1>1. w1 \in Nat \ {0} /\ w2 \in Nat /\ w3 \in Nat
  OBVIOUS
<1>2. /\ p \in Int /\ s2 \in Measure /\ s3 \in Measure /\ s4 \in Measure /\ s5 \in Measure
  BY DEF Percent, Measure
<1> HIDE DEF w1, w2, w3
<1>3. Averaged(p, s2, s3, s4, s5, w1, w2, w3, w3, w3)
  BY <1>1, <1>2, WeightedAverage
<1>4. Renormalised(<< <<p, w1>>, <<s2, w2>>, <<s3, w3>>, <<s4, w3>>, <<s5, w3>> >>) = x \div y
  BY <1>3 DEF Averaged
<1>5. /\ Points(s2, w2) \in Nat /\ Weight(s2, w2) \in Nat /\ Weight(s2, w2) <= w2
      /\ Points(s2, w2) <= 100 * Weight(s2, w2)
      /\ Points(s3, w3) \in Nat /\ Weight(s3, w3) \in Nat /\ Weight(s3, w3) <= w3
      /\ Points(s3, w3) <= 100 * Weight(s3, w3)
      /\ Points(s4, w3) \in Nat /\ Weight(s4, w3) \in Nat /\ Weight(s4, w3) <= w3
      /\ Points(s4, w3) <= 100 * Weight(s4, w3)
      /\ Points(s5, w3) \in Nat /\ Weight(s5, w3) \in Nat /\ Weight(s5, w3) <= w3
      /\ Points(s5, w3) <= 100 * Weight(s5, w3)
  BY <1>1, PercentPoints
<1>6. p * w1 \in Nat /\ p * w1 <= 750
  BY DEF w1
<1>7. w1 = 30 /\ w2 = 25 /\ w3 = 15
  BY DEF w1, w2, w3
<1>8. x \in Int /\ y \in Nat \ {0} /\ 0 <= x /\ x <= 79 * y
  <2>1. \A a, b, c, d, e, f, g, h, i \in Nat :
            a <= 750 /\ b <= 100 * f /\ f <= 25 /\ c <= 100 * g /\ g <= 15
            /\ d <= 100 * h /\ h <= 15 /\ e <= 100 * i /\ i <= 15 =>
               /\ a + b + c + d + e \in Nat
               /\ 30 + f + g + h + i \in Nat \ {0}
               /\ a + b + c + d + e <= 79 * (30 + f + g + h + i)
    OBVIOUS
  <2>. QED BY <1>5, <1>6, <1>7, <2>1
<1> HIDE DEF x, y
<1>9. x \div y \in 0..79
  <2>1. 0 \in Int /\ 79 \in Int /\ 0 * y <= x
    BY <1>8
  <2>. QED BY <1>8, <2>1, DivBetween
<1>. QED
  BY <1>4, <1>7, <1>9

LEMMA GradeOfFew ==
    ASSUME NEW points \in (0..79) \cup {Unmeasured}
    PROVE  gradeOf(points) \notin {"S", "A"}
<1>1. CASE points = Unmeasured
  BY <1>1 DEF gradeOf
<1>2. CASE points # Unmeasured
  BY <1>2 DEF gradeOf
<1>. QED
  BY <1>1, <1>2

LEMMA PathOfPage ==
    ASSUME TapeOK, NEW from \in 1..Len(tape), NEW view \in Markets
    PROVE  LET trades == Window(from)
               observed == ObservedFrom(trades, view.prices, trades[Len(trades)].ts + NowLag)
           IN  PathOK([candles |-> view.candles, observed |-> observed])
<1> DEFINE trades == Window(from)
           now == trades[Len(trades)].ts + NowLag
           observed == ObservedFrom(trades, view.prices, now)
<1>1. trades \in Seq(Fill)
  BY WindowOK DEF Distinct
<1>2. Len(trades) \in 1..Len(trades)
  <2>1. Len(trades) = Len(tape) - from + 1 /\ Len(tape) \in Nat
    BY WindowOK, TapeTypes
  <2>. QED BY <2>1
<1> HIDE DEF trades
<1>3. trades[Len(trades)] \in Fill
  BY <1>1, <1>2
<1>4. now \in Nat
  <2>1. trades[Len(trades)].ts \in Nat
    BY <1>3, FillTypes
  <2>2. NowLag \in Nat
    BY ProfileAssumption
  <2>. QED BY <2>1, <2>2
<1> HIDE DEF now
<1>5. observed \in Seq(Observation)
  <2>1. MarketOK(view.prices)
    BY ViewOK
  <2>. QED BY <1>1, <1>4, <2>1, ObservedOK
<1> HIDE DEF observed
<1>6. CandlesOK(view.candles)
  BY ViewOK DEF CandlesOK, Candle
<1>7. PathOK([candles |-> view.candles, observed |-> observed])
  BY <1>5, <1>6 DEF PathOK
<1>. QED
  BY <1>7 DEF observed, now, trades

LEMMA AbilityOfLoser ==
    ASSUME TapeOK, NEW from \in 1..Len(tape), Readable(from), Realised(from) <= 0,
           NEW equity, BookValueOK(equity), NEW path, PathOK(path)
    PROVE  buildProfile(buildEpisodes(Window(from)), path, equity).grade \notin {"S", "A"}
<1> DEFINE eps == buildEpisodes(Window(from))
           closed == Judged(eps.closed)
           p == profitability(closed)
           s2 == risk(closed, avgPeakWeight(eps, equity))
           s3 == entrySkill(eps, path)
           s4 == exitSkill(closed, path)
           s5 == consistency(closed)
           edge == Renormalised(<< <<p, 30>>, <<s2, 25>>, <<s3, 15>>, <<s4, 15>>, <<s5, 15>> >>)
           points == IF Count(closed) < minClosedEpisodes THEN Unmeasured ELSE edge
<1>1. /\ eps.closed \in Seq(Episode) /\ Every(eps) \in Seq(Episode)
      /\ \A i \in 1..Len(eps.closed) : ClosedOK(eps.closed[i])
  BY EveryOK
<1>2. /\ NetOf(eps.closed) <= 0
      /\ \A i \in 1..Len(eps.closed) : eps.closed[i].sold = eps.closed[i].bought
  BY RealisedByClosed
<1>3. buildProfile(eps, path, equity).grade = gradeOf(points)
  BY DEF buildProfile
<1> HIDE DEF eps
<1>4. /\ IsList(closed, Episode)
      /\ \A i \in DOMAIN closed : ClosedOK(closed[i])
      /\ NetOf(closed) <= 0
  BY <1>1, <1>2, JudgedOK
<1>5. \A i \in DOMAIN closed : closed[i].closedAt \in Nat
  BY <1>4 DEF ClosedOK
<1> HIDE DEF closed
<1>6. p \in 0..25
  BY <1>4, LoserProfitability
<1>7. s2 \in Percent
  <2>1. avgPeakWeight(eps, equity) \in Measure
    BY <1>1, WeightMeasure
  <2>. QED BY <1>4, <2>1, RiskPercent
<1>8. s3 \in Percent
  BY <1>1, EntryPercent
<1>9. s4 \in Percent
  BY <1>4, <1>5, ExitPercent
<1>10. s5 \in Percent
  BY <1>4, ConsistencyPercent
<1> HIDE DEF p, s2, s3, s4, s5
<1>11. edge \in 0..79
  BY <1>6, <1>7, <1>8, <1>9, <1>10, LoserAverage
<1> HIDE DEF edge
<1>12. points \in (0..79) \cup {Unmeasured}
  BY <1>11
<1> HIDE DEF points
<1>13. gradeOf(points) \notin {"S", "A"}
  BY <1>12, GradeOfFew
<1>. QED
  BY <1>3, <1>13 DEF eps

-----------------------------------------------------------------------------
(* Both pages.                                                                 *)

LEMMA PageFailsLoser ==
    ASSUME TapeOK, NEW from \in 1..Len(tape), NEW view \in Markets, Readable(from),
           Realised(from) <= 0
    PROVE  LET s == scoreCandidate(from, view)
           IN  /\ s.copy.grade \in {"F", "insufficient-data"}
               /\ s.ability.grade \notin {"S", "A"}
<1> DEFINE eps == buildEpisodes(Window(from))
           trades == Window(from)
           observed == ObservedFrom(trades, view.prices, trades[Len(trades)].ts + NowLag)
           path == [candles |-> view.candles, observed |-> observed]
           s == scoreCandidate(from, view)
<1>1. /\ s.copy = scoreEpisodes(eps, view.prices, view.book, judgeLatencySec)
      /\ s.ability = buildProfile(eps, path, view.book)
  BY DEF scoreCandidate, Window
<1>2. NetOf(eps.closed) <= 0
  BY RealisedByClosed
<1>3. scoreEpisodes(eps, view.prices, view.book, judgeLatencySec).grade \in {"F", "insufficient-data"}
  BY <1>2, CopyPage
<1>4. PathOK(path)
  BY PathOfPage
<1>5. BookValueOK(view.book)
  BY ViewOK
<1> HIDE DEF path
<1>6. buildProfile(eps, path, view.book).grade \notin {"S", "A"}
  BY <1>4, <1>5, AbilityOfLoser
<1> HIDE DEF s, eps
<1>7. s.copy.grade \in {"F", "insufficient-data"} /\ s.ability.grade \notin {"S", "A"}
  BY <1>1, <1>3, <1>6
<1>. QED
  BY <1>7 DEF s

LEMMA PageIsEarned == ProfileInv => SeatsAreEarned
<1>1. SUFFICES ASSUME ProfileInv, score # NoScore
      PROVE  /\ SeatEarned(score)
             /\ Readable(score.from) /\ Realised(score.from) <= 0 =>
                   /\ score.copy.grade \in {"F", "insufficient-data"}
                   /\ score.ability.grade \notin {"S", "A"}
  BY DEF SeatsAreEarned, SeatEarned
<1>2. TapeOK /\ Page(score)
  BY <1>1 DEF ProfileInv
<1>3. PICK from \in 1..Len(tape), view \in Markets : score = scoreCandidate(from, view)
  BY <1>2 DEF Page
<1>4. score.from = from
  BY <1>3 DEF scoreCandidate
<1>5. SeatEarned(score)
  BY <1>2, <1>3, PageEarnsSeat
<1>6. ASSUME Readable(from), Realised(from) <= 0
      PROVE  score.copy.grade \in {"F", "insufficient-data"} /\ score.ability.grade \notin {"S", "A"}
  BY <1>2, <1>3, <1>6, PageFailsLoser
<1>. QED
  BY <1>4, <1>5, <1>6

\* A seat is offered only to someone who made money, fewer than a quarter of
\* whose positions would not fit the smallest vault worth opening, whose result
\* survives a delay that could be measured, and whom no rival left waiting
\* outscores; a trader who lost money is failed by one scorer and kept out of
\* the top grades by the other (score.ts, ability.ts, shortlist.ts).
THEOREM SeatsAreAlwaysEarned == ProfileSpec => []SeatsAreEarned
  BY PagesShowTheTape, PageIsEarned, PTL

=============================================================================
