---------------------------- MODULE LedgerProofs ----------------------------
(***************************************************************************)
(* Proofs about the two ledgers the server keeps.  ShareLedger, for any    *)
(* members, policy and prices: every share is in one lot whatever the fees *)
(* round to, no moment is charged twice, exits and deposits leave the      *)
(* others what is theirs, and a locked lot stays whole.  FeeLedger, for    *)
(* any subscribers, payees and fee terms: its type (no balance is ever     *)
(* negative, whatever the halves round to) and that its two views of the   *)
(* money agree.                                                            *)
(***************************************************************************)
EXTENDS ShareLedger, FeeLedger, LedgerMath, SequenceTheorems

-----------------------------------------------------------------------------
(* Sums over lots: all their shares, and those deposited by a given time. *)

Holding == Seq(Lot)

Counted(ls, t) ==
    [i \in DOMAIN ls |-> IF ls[i].depositedAtMs <= t THEN ls[i].shares ELSE 0]
SharesBy(ls, t) == SumFunction(Counted(ls, t))

LEMMA LotTypes ==
    ASSUME NEW ls \in Holding
    PROVE  /\ Len(ls) \in Nat
           /\ DOMAIN ls = 1..Len(ls)
           /\ IsFiniteSet(1..Len(ls))
           /\ \A i \in 1..Len(ls) :
                 /\ ls[i] \in Lot
                 /\ ls[i].shares \in Nat \ {0}
                 /\ ls[i].hwmNav \in Nat
                 /\ ls[i].depositedAtMs \in 0..MaxMs
<1>1. Len(ls) \in Nat /\ DOMAIN ls = 1..Len(ls) /\ \A i \in 1..Len(ls) : ls[i] \in Lot
  BY LenProperties DEF Holding
<1>2. IsFiniteSet(1..Len(ls))
  BY <1>1, FS_Interval
<1>. QED
  BY <1>1, <1>2 DEF Lot

LEMMA CountedTypes ==
    ASSUME NEW ls \in Holding, NEW t \in Int
    PROVE  /\ SharesBy(ls, t) = SumFunctionOnSet(Counted(ls, t), 1..Len(ls))
           /\ \A i \in 1..Len(ls) :
                 /\ Counted(ls, t)[i] = IF ls[i].depositedAtMs <= t THEN ls[i].shares ELSE 0
                 /\ Counted(ls, t)[i] \in Nat
<1>1. DOMAIN Counted(ls, t) = 1..Len(ls)
  BY LotTypes DEF Counted
<1>2. ASSUME NEW i \in 1..Len(ls)
      PROVE  /\ Counted(ls, t)[i] = IF ls[i].depositedAtMs <= t THEN ls[i].shares ELSE 0
             /\ Counted(ls, t)[i] \in Nat
  BY LotTypes DEF Counted
<1>. QED
  BY <1>1, <1>2 DEF SharesBy, SumFunction

\* Every lot was deposited by the last moment of the clock.
LEMMA AllIsByTheEnd ==
    ASSUME NEW ls \in Holding
    PROVE  SharesIn(ls) = SharesBy(ls, MaxMs)
<1> DEFINE f == [i \in DOMAIN ls |-> ls[i].shares]
           g == Counted(ls, MaxMs)
<1>1. MaxMs \in Nat
  BY LedgerAssumption
<1>2. /\ DOMAIN f = 1..Len(ls)
      /\ \A i \in 1..Len(ls) : f[i] = g[i]
  BY <1>1, LotTypes, CountedTypes
<1>3. SharesIn(ls) = SumFunctionOnSet(f, 1..Len(ls))
  BY <1>2 DEF SharesIn, SumFunction
<1>4. SharesBy(ls, MaxMs) = SumFunctionOnSet(g, 1..Len(ls))
  BY <1>1, CountedTypes
<1>5. IsFiniteSet(1..Len(ls))
  BY LotTypes
<1>. HIDE DEF f, g
<1>. QED
  BY <1>2, <1>3, <1>4, <1>5, SumSame

LEMMA SharesByNat ==
    ASSUME NEW ls \in Holding, NEW t \in Int
    PROVE  /\ SharesBy(ls, t) \in Nat
           /\ \A i \in 1..Len(ls) :
                 ls[i].depositedAtMs <= t => ls[i].shares <= SharesBy(ls, t)
<1>1. IsFiniteSet(1..Len(ls))
  BY LotTypes
<1>2. \A i \in 1..Len(ls) : Counted(ls, t)[i] \in Nat
  BY CountedTypes
<1>3. /\ SumFunctionOnSet(Counted(ls, t), 1..Len(ls)) \in Nat
      /\ \A i \in 1..Len(ls) :
            Counted(ls, t)[i] <= SumFunctionOnSet(Counted(ls, t), 1..Len(ls))
  BY <1>1, <1>2, SumNat
<1>. QED
  BY <1>3, CountedTypes

LEMMA SharesNat ==
    ASSUME NEW ls \in Holding
    PROVE  /\ SharesIn(ls) \in Nat
           /\ \A i \in 1..Len(ls) : ls[i].shares <= SharesIn(ls)
<1>1. MaxMs \in Nat
  BY LedgerAssumption
<1>2. \A i \in 1..Len(ls) : ls[i].depositedAtMs <= MaxMs
  BY <1>1, LotTypes
<1>3. MaxMs \in Int /\ SharesIn(ls) = SharesBy(ls, MaxMs)
  BY <1>1, AllIsByTheEnd
<1>4. /\ SharesBy(ls, MaxMs) \in Nat
      /\ \A i \in 1..Len(ls) :
            ls[i].depositedAtMs <= MaxMs => ls[i].shares <= SharesBy(ls, MaxMs)
  BY <1>3, SharesByNat
<1>. QED
  BY <1>2, <1>3, <1>4

LEMMA ByBelowAll ==
    ASSUME NEW ls \in Holding, NEW t \in Int
    PROVE  SharesBy(ls, t) <= SharesIn(ls)
<1>1. MaxMs \in Int
  BY LedgerAssumption
<1>2. \A i \in 1..Len(ls) : /\ Counted(ls, t)[i] \in Int
                            /\ Counted(ls, MaxMs)[i] \in Int
                            /\ Counted(ls, t)[i] <= Counted(ls, MaxMs)[i]
  <2> SUFFICES ASSUME NEW i \in 1..Len(ls)
               PROVE  /\ Counted(ls, t)[i] \in Int
                      /\ Counted(ls, MaxMs)[i] \in Int
                      /\ Counted(ls, t)[i] <= Counted(ls, MaxMs)[i]
    OBVIOUS
  <2>1. /\ Counted(ls, t)[i] = IF ls[i].depositedAtMs <= t THEN ls[i].shares ELSE 0
        /\ Counted(ls, t)[i] \in Nat
    BY CountedTypes
  <2>2. /\ Counted(ls, MaxMs)[i]
               = IF ls[i].depositedAtMs <= MaxMs THEN ls[i].shares ELSE 0
        /\ Counted(ls, MaxMs)[i] \in Nat
    BY <1>1, CountedTypes
  <2>3. ls[i].depositedAtMs <= MaxMs /\ ls[i].shares \in Nat
    BY LotTypes, LedgerAssumption
  <2>. QED BY <2>1, <2>2, <2>3
<1>3. IsFiniteSet(1..Len(ls))
  BY LotTypes
<1>4. SumFunctionOnSet(Counted(ls, t), 1..Len(ls))
          <= SumFunctionOnSet(Counted(ls, MaxMs), 1..Len(ls))
  BY <1>2, <1>3, SumBelow
<1>. QED
  BY <1>1, <1>4, CountedTypes, AllIsByTheEnd

LEMMA ByOfNone ==
    ASSUME NEW t
    PROVE  SharesBy(<<>>, t) = 0
<1>1. DOMAIN Counted(<<>>, t) = {}
  BY DEF Counted
<1>. QED
  BY <1>1, SumEmpty DEF SharesBy, SumFunction

LEMMA ByConcat ==
    ASSUME NEW a \in Holding, NEW b \in Holding, NEW t \in Int
    PROVE  /\ a \o b \in Holding
           /\ SharesBy(a \o b, t) = SharesBy(a, t) + SharesBy(b, t)
<1> DEFINE m == Len(a)
           n == Len(b)
           f == Counted(a, t)
           g == Counted(b, t)
           h == Counted(a \o b, t)
<1>1. /\ a \o b \in Holding
      /\ Len(a \o b) = m + n
      /\ \A i \in 1..(m + n) : (a \o b)[i] = IF i <= m THEN a[i] ELSE b[i - m]
  BY ConcatProperties DEF Holding
<1>2. m \in Nat /\ n \in Nat
  BY LotTypes
<1>3. /\ SharesBy(a, t) = SumFunctionOnSet(f, 1..m)
      /\ SharesBy(b, t) = SumFunctionOnSet(g, 1..n)
      /\ SharesBy(a \o b, t) = SumFunctionOnSet(h, 1..(m + n))
  BY <1>1, CountedTypes
<1>4. \A i \in 1..m : f[i] \in Int /\ h[i] = f[i]
  <2> SUFFICES ASSUME NEW i \in 1..m PROVE f[i] \in Int /\ h[i] = f[i]
    OBVIOUS
  <2>1. i \in 1..(m + n) /\ i <= m
    BY <1>2
  <2>2. (a \o b)[i] = a[i]
    BY <1>1, <2>1
  <2>3. f[i] = (IF a[i].depositedAtMs <= t THEN a[i].shares ELSE 0) /\ f[i] \in Nat
    BY CountedTypes
  <2>4. h[i] = IF (a \o b)[i].depositedAtMs <= t THEN (a \o b)[i].shares ELSE 0
    BY <1>1, <2>1, CountedTypes
  <2>. QED BY <2>2, <2>3, <2>4
<1>5. \A i \in 1..n : g[i] \in Int /\ h[m + i] = g[i]
  <2> SUFFICES ASSUME NEW i \in 1..n PROVE g[i] \in Int /\ h[m + i] = g[i]
    OBVIOUS
  <2>1. m + i \in 1..(m + n) /\ ~(m + i <= m) /\ (m + i) - m = i
    BY <1>2
  <2>2. (a \o b)[m + i] = b[i]
    BY <1>1, <2>1
  <2>3. g[i] = (IF b[i].depositedAtMs <= t THEN b[i].shares ELSE 0) /\ g[i] \in Nat
    BY CountedTypes
  <2>4. h[m + i] = IF (a \o b)[m + i].depositedAtMs <= t
                   THEN (a \o b)[m + i].shares ELSE 0
    BY <1>1, <2>1, CountedTypes
  <2>. QED BY <2>2, <2>3, <2>4
<1>6. SumFunctionOnSet(h, 1..(m + n))
          = SumFunctionOnSet(f, 1..m) + SumFunctionOnSet(g, 1..n)
  <2> HIDE DEF f, g, h, m, n
  <2>1. IsConcat(h, f, m, g, n)
    BY <1>2, <1>4, <1>5 DEF IsConcat
  <2>. QED BY <2>1, SumConcat
<1>. QED
  BY <1>1, <1>3, <1>6

LEMMA ByOne ==
    ASSUME NEW lot \in Lot, NEW t \in Int
    PROVE  /\ <<lot>> \in Holding
           /\ SharesBy(<<lot>>, t) = IF lot.depositedAtMs <= t THEN lot.shares ELSE 0
<1> DEFINE f == Counted(<<lot>>, t)
<1>1. <<lot>> \in Holding /\ Len(<<lot>>) = 1 /\ <<lot>>[1] = lot /\ 1..1 = {1}
  BY DEF Holding
<1>2. /\ SharesBy(<<lot>>, t) = SumFunctionOnSet(f, {1})
      /\ f[1] = IF lot.depositedAtMs <= t THEN lot.shares ELSE 0
      /\ f[1] \in Nat
  BY <1>1, CountedTypes
<1>. HIDE DEF f
<1>3. IsFiniteSet({1}) /\ {1} \ {1} = {}
  BY FS_Singleton
<1>4. SumFunctionOnSet(f, {1}) = f[1] + SumFunctionOnSet(f, {})
  BY <1>2, <1>3, SumRemove
<1>. QED
  BY <1>1, <1>2, <1>4, SumEmpty

LEMMA SharesOfNone == SharesIn(<<>>) = 0
<1>1. <<>> \in Holding
  BY DEF Holding
<1>. QED
  BY <1>1, ByOfNone, AllIsByTheEnd

LEMMA SharesConcat ==
    ASSUME NEW a \in Holding, NEW b \in Holding
    PROVE  a \o b \in Holding /\ SharesIn(a \o b) = SharesIn(a) + SharesIn(b)
<1>1. MaxMs \in Int
  BY LedgerAssumption
<1>. QED
  BY <1>1, ByConcat, AllIsByTheEnd

LEMMA SharesOfOne ==
    ASSUME NEW lot \in Lot
    PROVE  <<lot>> \in Holding /\ SharesIn(<<lot>>) = lot.shares
<1>1. MaxMs \in Int /\ lot.depositedAtMs <= MaxMs
  BY LedgerAssumption DEF Lot
<1>. QED
  BY <1>1, ByOne, AllIsByTheEnd

-----------------------------------------------------------------------------
(* What an exit leaves of a member's lots. *)

Before(ls, k) == SubSeq(ls, 1, k)
After(ls, k) == SubSeq(ls, k + 1, Len(ls))

LEMMA Split ==
    ASSUME NEW ls \in Holding, NEW k \in 0..Len(ls)
    PROVE  /\ Before(ls, k) \in Holding /\ After(ls, k) \in Holding
           /\ Len(Before(ls, k)) = k /\ Len(After(ls, k)) = Len(ls) - k
           /\ \A i \in 1..k : Before(ls, k)[i] = ls[i]
           /\ \A i \in 1..(Len(ls) - k) : After(ls, k)[i] = ls[k + i]
           /\ ls = Before(ls, k) \o After(ls, k)
<1>1. Len(ls) \in Nat /\ \A i \in 1..Len(ls) : ls[i] \in Lot
  BY LotTypes
<1>2. /\ Before(ls, k) \in Holding
      /\ Len(Before(ls, k)) = k
      /\ \A i \in 1..k : Before(ls, k)[i] = ls[i]
  <2>1. 1 \in Int /\ k \in Int /\ \A i \in 1..k : ls[i] \in Lot
    BY <1>1
  <2>2. /\ SubSeq(ls, 1, k) \in Seq(Lot)
        /\ Len(SubSeq(ls, 1, k)) = IF 1 <= k THEN k - 1 + 1 ELSE 0
        /\ \A i \in 1..(k - 1 + 1) : SubSeq(ls, 1, k)[i] = ls[1 + i - 1]
    BY <2>1, SubSeqProperties
  <2>3. k - 1 + 1 = k /\ \A i \in 1..k : 1 + i - 1 = i
    OBVIOUS
  <2>. QED BY <2>2, <2>3 DEF Before, Holding
<1>3. /\ After(ls, k) \in Holding
      /\ Len(After(ls, k)) = Len(ls) - k
      /\ \A i \in 1..(Len(ls) - k) : After(ls, k)[i] = ls[k + i]
  <2> DEFINE n == Len(ls)
  <2>1. k + 1 \in Int /\ n \in Int /\ \A i \in (k + 1)..n : ls[i] \in Lot
    BY <1>1
  <2>2. /\ SubSeq(ls, k + 1, n) \in Seq(Lot)
        /\ Len(SubSeq(ls, k + 1, n)) = IF k + 1 <= n THEN n - (k + 1) + 1 ELSE 0
        /\ \A i \in 1..(n - (k + 1) + 1) :
              SubSeq(ls, k + 1, n)[i] = ls[(k + 1) + i - 1]
    BY <2>1, SubSeqProperties
  <2>3. /\ n - (k + 1) + 1 = n - k
        /\ (IF k + 1 <= n THEN n - (k + 1) + 1 ELSE 0) = n - k
        /\ \A i \in 1..(n - k) : (k + 1) + i - 1 = k + i
    BY <1>1
  <2>. QED BY <2>2, <2>3 DEF After, Holding
<1>4. ls = Before(ls, k) \o After(ls, k)
  <2>1. /\ ls \in Seq(Lot)
        /\ 1 \in 1..(Len(ls) + 1) /\ k \in (1 - 1)..Len(ls) /\ Len(ls) \in k..Len(ls)
    BY <1>1 DEF Holding
  <2>2. SubSeq(ls, 1, k) \o SubSeq(ls, k + 1, Len(ls)) = SubSeq(ls, 1, Len(ls))
    BY <2>1, ConcatAdjacentSubSeq
  <2>3. SubSeq(ls, 1, Len(ls)) = ls
    BY <2>1, SubSeqFull
  <2>. QED BY <2>2, <2>3 DEF Before, After
<1>. QED
  BY <1>2, <1>3, <1>4

LEMMA SplitShares ==
    ASSUME NEW ls \in Holding, NEW k \in 0..Len(ls), NEW t \in Int
    PROVE  /\ SharesIn(ls) = SharesIn(Before(ls, k)) + SharesIn(After(ls, k))
           /\ SharesBy(ls, t) = SharesBy(Before(ls, k), t) + SharesBy(After(ls, k), t)
<1>1. /\ Before(ls, k) \in Holding /\ After(ls, k) \in Holding
      /\ ls = Before(ls, k) \o After(ls, k)
  BY Split
<1>2. SharesIn(Before(ls, k) \o After(ls, k))
          = SharesIn(Before(ls, k)) + SharesIn(After(ls, k))
  BY <1>1, SharesConcat
<1>3. SharesBy(Before(ls, k) \o After(ls, k), t)
          = SharesBy(Before(ls, k), t) + SharesBy(After(ls, k), t)
  BY <1>1, ByConcat
<1>. QED
  BY <1>1, <1>2, <1>3

\* Of the first k lots, the last one and those before it.
LEMMA PrefixGrows ==
    ASSUME NEW ls \in Holding, NEW k \in 1..Len(ls), NEW t \in Int
    PROVE  /\ SharesIn(Before(ls, k)) = SharesIn(Before(ls, k - 1)) + ls[k].shares
           /\ SharesBy(Before(ls, k), t) = SharesBy(Before(ls, k - 1), t)
                  + (IF ls[k].depositedAtMs <= t THEN ls[k].shares ELSE 0)
<1>1. /\ k - 1 \in 0..Len(ls) /\ ls[k] \in Lot
      /\ ls \in Seq(Lot) /\ 1 \in 1..Len(ls) /\ k \in 1..Len(ls)
  BY LotTypes DEF Holding
<1>2. Before(ls, k) = Before(ls, k - 1) \o <<ls[k]>>
  BY <1>1, SubSeqRecursiveSecond DEF Before
<1>3. Before(ls, k - 1) \in Holding /\ <<ls[k]>> \in Holding
  BY <1>1, Split, SharesOfOne
<1>4. /\ SharesIn(<<ls[k]>>) = ls[k].shares
      /\ SharesBy(<<ls[k]>>, t) = IF ls[k].depositedAtMs <= t THEN ls[k].shares ELSE 0
  BY <1>1, SharesOfOne, ByOne
<1>. QED
  BY <1>2, <1>3, <1>4, SharesConcat, ByConcat

\* An exit empties the lots before some k and leaves a part of lot k.
Leaves(ls, shares, k) ==
    /\ k \in 1..Len(ls)
    /\ SharesIn(Before(ls, k - 1)) <= shares
    /\ shares < SharesIn(Before(ls, k))
    /\ Kept(ls, shares)
           = <<[ls[k] EXCEPT !.shares = SharesIn(Before(ls, k)) - shares]>> \o After(ls, k)

LEMMA KeptIs ==
    ASSUME NEW ls \in Holding, NEW shares \in Nat, shares <= SharesIn(ls)
    PROVE  \/ shares = SharesIn(ls) /\ Kept(ls, shares) = <<>>
           \/ \E k \in 1..Len(ls) : Leaves(ls, shares, k)
<1> DEFINE left == {i \in DOMAIN ls : SharesIn(SubSeq(ls, 1, i)) > shares}
<1>1. /\ Len(ls) \in Nat /\ DOMAIN ls = 1..Len(ls)
      /\ ls = SubSeq(ls, 1, Len(ls))
  BY LotTypes, SubSeqFull DEF Holding
<1>2. CASE left = {}
  <2>1. Kept(ls, shares) = <<>>
    BY <1>2 DEF Kept
  <2>2. CASE Len(ls) = 0
    <3>1. ls = <<>>
      BY <2>2, EmptySeq DEF Holding
    <3>. QED BY <2>1, <3>1, SharesOfNone
  <2>3. CASE Len(ls) # 0
    <3>1. Len(ls) \in DOMAIN ls
      BY <1>1, <2>3
    <3>2. ~(SharesIn(ls) > shares)
      BY <1>1, <1>2, <3>1
    <3>3. SharesIn(ls) \in Nat
      BY SharesNat
    <3>. QED BY <2>1, <3>2, <3>3
  <2>. QED BY <2>2, <2>3
<1>3. CASE left # {}
  <2>1. left \subseteq Nat
    BY <1>1
  <2>2. \E x \in left : \A y \in left : x <= y
    <3> HIDE DEF left
    <3>. QED BY <1>3, <2>1, LeastExists
  <2>3. Min(left) \in left /\ \A y \in left : Min(left) <= y
    <3> HIDE DEF left
    <3>. QED BY <2>2 DEF Min
  <2>4. PICK k \in left : k = Min(left) /\ \A y \in left : k <= y
    BY <2>3
  <2>5. k \in 1..Len(ls) /\ SharesIn(Before(ls, k)) > shares
    BY <1>1, <2>4 DEF Before
  <2>6. SharesIn(Before(ls, k - 1)) <= shares
    <3>1. CASE k = 1
      <4>1. Before(ls, k - 1) = <<>>
        <5>1. k - 1 \in Int /\ k - 1 < 1
          BY <3>1
        <5>. QED BY <5>1, SubSeqEmpty DEF Before
      <4>. QED BY <4>1, SharesOfNone
    <3>2. CASE k # 1
      <4>1. k - 1 \in DOMAIN ls /\ ~(k <= k - 1)
        BY <1>1, <2>5, <3>2
      <4>2. ~(SharesIn(SubSeq(ls, 1, k - 1)) > shares)
        BY <2>4, <4>1
      <4>3. SharesIn(Before(ls, k - 1)) \in Nat
        BY <1>1, <4>1, Split, SharesNat
      <4>. QED BY <4>2, <4>3 DEF Before
    <3>. QED BY <3>1, <3>2
  <2>7. Kept(ls, shares)
            = <<[ls[k] EXCEPT !.shares = SharesIn(Before(ls, k)) - shares]>> \o After(ls, k)
    BY <1>3, <2>4 DEF Kept, Before, After
  <2>8. shares < SharesIn(Before(ls, k))
    BY <2>5
  <2>. QED BY <2>5, <2>6, <2>7, <2>8 DEF Leaves
<1>. QED
  BY <1>2, <1>3

\* The part of lot k that is left, and what is left altogether.
LEMMA PartLeft ==
    ASSUME NEW ls \in Holding, NEW shares \in Nat, NEW k, Leaves(ls, shares, k)
    PROVE  LET part == [ls[k] EXCEPT !.shares = SharesIn(Before(ls, k)) - shares]
           IN  /\ part \in Lot
               /\ part.shares = SharesIn(Before(ls, k)) - shares
               /\ part.depositedAtMs = ls[k].depositedAtMs
               /\ part.hwmNav = ls[k].hwmNav
               /\ <<part>> \in Holding /\ After(ls, k) \in Holding
               /\ Kept(ls, shares) = <<part>> \o After(ls, k)
<1> DEFINE n == SharesIn(Before(ls, k)) - shares
           part == [ls[k] EXCEPT !.shares = n]
<1>1. /\ k \in 1..Len(ls) /\ k \in 0..Len(ls)
      /\ shares < SharesIn(Before(ls, k))
      /\ Kept(ls, shares) = <<part>> \o After(ls, k)
  BY DEF Leaves
<1>2. Before(ls, k) \in Holding /\ After(ls, k) \in Holding
  BY <1>1, Split
<1>3. SharesIn(Before(ls, k)) \in Nat
  BY <1>2, SharesNat
<1>4. n \in Nat \ {0}
  BY <1>1, <1>3
<1>5. ls[k] \in Lot
  BY <1>1, LotTypes
<1>6. /\ part \in Lot
      /\ part.shares = n
      /\ part.depositedAtMs = ls[k].depositedAtMs
      /\ part.hwmNav = ls[k].hwmNav
  <2> HIDE DEF n
  <2>. QED BY <1>4, <1>5 DEF Lot
<1>. QED
  BY <1>1, <1>2, <1>6, SharesOfOne

LEMMA KeptShares ==
    ASSUME NEW ls \in Holding, NEW shares \in Nat, shares <= SharesIn(ls)
    PROVE  /\ Kept(ls, shares) \in Holding
           /\ SharesIn(Kept(ls, shares)) = SharesIn(ls) - shares
<1>1. CASE shares = SharesIn(ls) /\ Kept(ls, shares) = <<>>
  <2>1. SharesIn(ls) \in Nat /\ <<>> \in Holding
    BY SharesNat DEF Holding
  <2>. QED BY <1>1, <2>1, SharesOfNone
<1>2. ASSUME NEW k \in 1..Len(ls), Leaves(ls, shares, k)
      PROVE  /\ Kept(ls, shares) \in Holding
             /\ SharesIn(Kept(ls, shares)) = SharesIn(ls) - shares
  <2>1. PICK part \in Lot :
           /\ part.shares = SharesIn(Before(ls, k)) - shares
           /\ <<part>> \in Holding /\ After(ls, k) \in Holding
           /\ Kept(ls, shares) = <<part>> \o After(ls, k)
    BY <1>2, PartLeft
  <2>2. /\ Kept(ls, shares) \in Holding
        /\ SharesIn(Kept(ls, shares)) = SharesIn(<<part>>) + SharesIn(After(ls, k))
    BY <2>1, SharesConcat
  <2>3. SharesIn(<<part>>) = part.shares
    BY SharesOfOne
  <2>4. k \in 0..Len(ls) /\ 0 \in Int
    OBVIOUS
  <2>5. SharesIn(ls) = SharesIn(Before(ls, k)) + SharesIn(After(ls, k))
    BY <2>4, SplitShares
  <2>6. SharesIn(Before(ls, k)) \in Nat /\ SharesIn(After(ls, k)) \in Nat
    BY <2>1, <2>4, Split, SharesNat
  <2>. QED BY <2>1, <2>2, <2>3, <2>5, <2>6
<1>. QED
  BY <1>1, <1>2, KeptIs

-----------------------------------------------------------------------------
(* Fixed point: what the divisions keep. *)

LEMMA Floor ==
    ASSUME NEW a \in Nat, NEW b \in Nat, NEW c \in Nat \ {0}
    PROVE  /\ mulDivFloor(a, b, c) \in Nat
           /\ mulDivFloor(a, b, c) * c <= a * b
           /\ a * b < mulDivFloor(a, b, c) * c + c
           /\ b <= c => mulDivFloor(a, b, c) <= a
<1>1. a * b \in Nat
  BY ProductMono
<1> DEFINE n == a * b
<1>2. n \div c \in Nat /\ (n \div c) * c <= n /\ n < (n \div c) * c + c
  <2>1. n \in Nat
    BY <1>1
  <2> HIDE DEF n
  <2>. QED BY <2>1, DivNat
<1>3. ASSUME b <= c PROVE n \div c <= a
  <2>1. n <= a * c /\ n \in Nat /\ a * c \in Nat
    BY <1>1, <1>3, ProductMono
  <2>2. n \div c <= (a * c) \div c
    <3> HIDE DEF n
    <3> DEFINE p == a * c
    <3>1. n <= p /\ n \in Nat /\ p \in Nat /\ c \in Nat /\ c > 0
      BY <2>1
    <3> HIDE DEF p
    <3>2. n \div c <= p \div c
      BY <3>1, DivMono
    <3>. QED BY <3>2 DEF p
  <2>3. (a * c) \div c = a
    OBVIOUS
  <2>. QED BY <2>2, <2>3
<1>. QED
  BY <1>2, <1>3 DEF mulDivFloor

LEMMA Ceiling ==
    ASSUME NEW a \in Nat, NEW b \in Nat, NEW c \in Nat \ {0}
    PROVE  /\ mulDivCeil(a, b, c) \in Nat
           /\ b <= c => mulDivCeil(a, b, c) <= a
<1> DEFINE n == a * b
<1>1. n \in Nat
  BY ProductMono
<1>2. CASE n = 0
  BY <1>2 DEF mulDivCeil
<1>3. CASE n # 0
  <2>1. n - 1 \in Nat /\ c \in Nat /\ c > 0
    BY <1>1, <1>3
  <2>2. (n - 1) \div c \in Nat /\ ((n - 1) \div c) * c <= n - 1
    <3> DEFINE x == n - 1
    <3>1. x \in Nat
      BY <2>1
    <3> HIDE DEF x
    <3>2. x \div c \in Nat /\ (x \div c) * c <= x
      BY <2>1, <3>1, DivNat
    <3>. QED BY <3>2 DEF x
  <2>3. ASSUME b <= c PROVE (n - 1) \div c + 1 <= a
    <3> DEFINE q == (n - 1) \div c
    <3>1. q \in Nat /\ q * c <= n - 1
      BY <2>2
    <3>2. n <= a * c /\ a * c \in Nat
      BY <2>3, ProductMono
    <3>3. ASSUME q >= a PROVE FALSE
      <4>1. c * a <= c * q /\ c * a \in Nat
        <5> HIDE DEF q
        <5>. QED BY <3>1, <3>3, ProductMono
      <4>2. q * c = c * q /\ a * c = c * a /\ q * c \in Nat
        <5> HIDE DEF q
        <5>. QED BY <3>1
      <4>. QED BY <1>1, <3>1, <3>2, <4>1, <4>2
    <3>4. q < a
      <4> HIDE DEF q
      <4>. QED BY <3>1, <3>3
    <3>. QED BY <3>1, <3>4
  <2>. QED BY <1>3, <2>2, <2>3 DEF mulDivCeil
<1>. QED
  BY <1>2, <1>3

-----------------------------------------------------------------------------
(* What the operations compute from a well-typed ledger. *)

LEMMA ConstantTypes ==
    /\ ONE \in Nat \ {0} /\ MsPerSec \in Nat \ {0} /\ SECONDS_PER_YEAR \in Nat \ {0}
    /\ Amounts \subseteq Nat /\ Exposures \subseteq Nat /\ MaxMs \in Nat
    /\ MaxOps \in Nat /\ MaxEquity \in Nat
    /\ leaderId \in Members /\ treasuryId \in Members /\ Depositors \subseteq Members
    /\ IsFiniteSet(Members)
BY LedgerAssumption

LEMMA PolicyTypes ==
    ASSUME NEW e \in Economics
    PROVE  /\ e.performanceFeeBps \in Nat /\ e.managementFeeBpsAnnual \in Nat
           /\ e.halfSpreadBps \in Nat /\ e.maxLevyBps \in Nat /\ e.lockupSec \in Nat
           /\ e.withdrawFeeBps \in Nat /\ e.withdrawFeeBps <= BPS
           /\ BPS \in Nat \ {0}
<1>1. BPS \in Nat \ {0}
  BY DEF BPS
<1>2. e.withdrawFeeBps \in Nat /\ e.withdrawFeeBps <= BPS
  BY <1>1 DEF Economics
<1>3. /\ e.performanceFeeBps \in Nat /\ e.managementFeeBpsAnnual \in Nat
      /\ e.halfSpreadBps \in Nat /\ e.maxLevyBps \in Nat /\ e.lockupSec \in Nat
  BY DEF Economics
<1>. QED
  BY <1>1, <1>2, <1>3

LEMMA Typed ==
    ASSUME LedgerTypeOK
    PROVE  /\ policy \in Economics
           /\ lots \in [Members -> Holding]
           /\ \A m \in Members : lots[m] \in Holding
           /\ totalShares \in Nat /\ equityUsd \in Nat /\ chargedMs \in Nat
           /\ nowMs \in 0..MaxMs /\ lastAccrualMs \in 0..MaxMs
BY DEF LedgerTypeOK, Holding

LEMMA UnlockTime ==
    ASSUME LedgerTypeOK
    PROVE  nowMs - policy.lockupSec * MsPerSec \in Int
<1>1. PICK d \in Nat : d = policy.lockupSec * MsPerSec
  <2>1. policy.lockupSec \in Nat
    BY Typed, PolicyTypes
  <2>2. policy.lockupSec * MsPerSec \in Nat
    BY <2>1, ConstantTypes, ProductMono
  <2>. QED BY <2>2
<1>2. nowMs \in Int
  BY Typed, ConstantTypes
<1>. QED
  BY <1>1, <1>2

LEMMA Price ==
    ASSUME LedgerTypeOK
    PROVE  /\ navPerShare \in Nat
           /\ totalShares # 0 =>
                 /\ navPerShare * totalShares <= equityUsd * ONE
                 /\ equityUsd * ONE < navPerShare * totalShares + totalShares
<1>1. CASE totalShares = 0
  BY <1>1, ConstantTypes DEF navPerShare
<1>2. CASE totalShares # 0
  <2>1. totalShares \in Nat \ {0} /\ equityUsd \in Nat /\ ONE \in Nat
    BY <1>2, Typed, ConstantTypes
  <2>2. navPerShare = mulDivFloor(equityUsd, ONE, totalShares)
    BY <1>2 DEF navPerShare, div
  <2>3. /\ mulDivFloor(equityUsd, ONE, totalShares) \in Nat
        /\ mulDivFloor(equityUsd, ONE, totalShares) * totalShares <= equityUsd * ONE
        /\ equityUsd * ONE
               < mulDivFloor(equityUsd, ONE, totalShares) * totalShares + totalShares
    BY <2>1, Floor
  <2>. QED BY <2>2, <2>3
<1>. QED
  BY <1>1, <1>2

LEMMA Levy ==
    ASSUME LedgerTypeOK, NEW exposure \in Nat, NEW amount \in Nat
    PROVE  bps(amount, levyBps(exposure)) \in Nat
<1>1. PICK most \in Nat : most = policy.maxLevyBps
  BY Typed, PolicyTypes
<1>2. PICK h \in Nat : h = policy.halfSpreadBps * exposure
  <2>1. policy.halfSpreadBps \in Nat
    BY Typed, PolicyTypes
  <2>2. policy.halfSpreadBps * exposure \in Nat
    BY <2>1, ProductMono
  <2>. QED BY <2>2
<1>3. PICK b \in Nat : b = levyBps(exposure)
  <2>1. levyBps(exposure) = IF equityUsd <= 0 THEN 0 ELSE Lesser(most, h)
    BY <1>1, <1>2 DEF levyBps
  <2>. QED BY <1>1, <2>1 DEF Lesser
<1>4. mulDivCeil(amount, b, BPS) \in Nat
  BY Ceiling, PolicyTypes, Typed
<1>. QED
  BY <1>3, <1>4 DEF bps

LEMMA PlatformPart ==
    ASSUME LedgerTypeOK, NEW m, NEW shares \in Nat
    PROVE  platformFeeShares(m, shares) \in 0..shares
<1>1. PICK b \in Nat : b = policy.withdrawFeeBps /\ b <= BPS
  BY Typed, PolicyTypes
<1>2. BPS \in Nat \ {0}
  BY Typed, PolicyTypes
<1>3. mulDivFloor(shares, b, BPS) \in Nat /\ mulDivFloor(shares, b, BPS) <= shares
  BY <1>1, <1>2, Floor
<1>. QED
  BY <1>1, <1>3 DEF platformFeeShares

LEMMA TakenNat ==
    ASSUME NEW ls \in Holding, NEW shares \in Nat
    PROVE  \A i \in 1..Len(ls) : Taken(ls, shares)[i] \in Nat
<1> SUFFICES ASSUME NEW i \in 1..Len(ls) PROVE Taken(ls, shares)[i] \in Nat
  OBVIOUS
<1>1. i - 1 \in 0..Len(ls) /\ i \in DOMAIN ls /\ ls[i].shares \in Nat
  BY LotTypes
<1>2. SharesIn(Before(ls, i - 1)) \in Nat
  BY <1>1, Split, SharesNat
<1>3. Taken(ls, shares)[i]
          = Lesser(ls[i].shares, Greater(0, shares - SharesIn(Before(ls, i - 1))))
  BY <1>1 DEF Taken, Before
<1>. QED
  BY <1>1, <1>2, <1>3 DEF Lesser, Greater

\* What one lot pays in performance fee.
LotFee(lot, take) == bps(mul(take, Greater(0, navPerShare - lot.hwmNav)), policy.performanceFeeBps)

LEMMA LotFeeNat ==
    ASSUME LedgerTypeOK, NEW lot \in Lot, NEW take \in Nat
    PROVE  /\ LotFee(lot, take) \in Nat
           /\ take = 0 \/ lot.hwmNav >= navPerShare => LotFee(lot, take) = 0
<1>1. PICK gain \in Nat : /\ gain = Greater(0, navPerShare - lot.hwmNav)
                          /\ lot.hwmNav >= navPerShare => gain = 0
  <2>1. navPerShare \in Nat /\ lot.hwmNav \in Nat
    BY Price DEF Lot
  <2>. QED BY <2>1 DEF Greater
<1>2. PICK p \in Nat : p = policy.performanceFeeBps
  BY Typed, PolicyTypes
<1>3. mul(take, gain) \in Nat
  BY Floor, ConstantTypes DEF mul
<1>4. PICK usd \in Nat : usd = mul(take, gain)
  BY <1>3
<1>5. mulDivCeil(usd, p, BPS) \in Nat
  BY Ceiling, PolicyTypes, Typed
<1>6. LotFee(lot, take) = mulDivCeil(usd, p, BPS)
  BY <1>1, <1>2, <1>4 DEF LotFee, bps
<1>7. ASSUME take = 0 \/ gain = 0 PROVE LotFee(lot, take) = 0
  <2>1. take * gain = 0
    BY <1>7
  <2>2. usd = 0
    <3>1. usd = 0 \div ONE
      BY <1>4, <2>1 DEF mul, mulDivFloor
    <3>. QED BY <3>1, ConstantTypes
  <2>3. usd * p = 0
    BY <2>2
  <2>. QED BY <1>6, <2>3 DEF mulDivCeil
<1>. QED
  BY <1>1, <1>5, <1>6, <1>7

\* The leader's part is a part of what is redeemed, and nothing on lots that
\* cost today's price or more.
LEMMA LeaderPart ==
    ASSUME LedgerTypeOK, NEW ls \in Holding, NEW shares \in Nat, NEW redeemable \in Nat
    PROVE  /\ FeeShares(ls, Taken(ls, shares), redeemable) \in 0..redeemable
           /\ (\A i \in 1..Len(ls) :
                   Taken(ls, shares)[i] = 0 \/ ls[i].hwmNav >= navPerShare)
                  => FeeShares(ls, Taken(ls, shares), redeemable) = 0
<1> DEFINE taken == Taken(ls, shares)
           f == [i \in DOMAIN ls |-> LotFee(ls[i], taken[i])]
           fee == performanceFeeUsd(ls, taken)
<1>1. /\ DOMAIN ls = 1..Len(ls) /\ IsFiniteSet(1..Len(ls))
      /\ \A i \in 1..Len(ls) : ls[i] \in Lot /\ ls[i].hwmNav \in Nat
  BY LotTypes
<1>2. fee = SumFunctionOnSet(f, 1..Len(ls))
  <2>1. fee = SumFunction(f)
    BY DEF performanceFeeUsd, LotFee
  <2>2. DOMAIN f = 1..Len(ls)
    BY <1>1
  <2> HIDE DEF f, fee
  <2>. QED BY <2>1, <2>2 DEF SumFunction
<1>3. \A i \in 1..Len(ls) : taken[i] \in Nat
  BY TakenNat
<1>4. \A i \in 1..Len(ls) :
          /\ f[i] \in Nat
          /\ taken[i] = 0 \/ ls[i].hwmNav >= navPerShare => f[i] = 0
  <2> SUFFICES ASSUME NEW i \in 1..Len(ls)
               PROVE  /\ f[i] \in Nat
                      /\ taken[i] = 0 \/ ls[i].hwmNav >= navPerShare => f[i] = 0
    OBVIOUS
  <2>1. f[i] = LotFee(ls[i], taken[i])
    BY <1>1
  <2>2. ls[i] \in Lot /\ taken[i] \in Nat
    BY <1>1, <1>3
  <2> HIDE DEF f, taken
  <2>. QED BY <2>1, <2>2, LotFeeNat
<1>5. fee \in Nat
  <2> HIDE DEF f, fee
  <2>. QED BY <1>1, <1>2, <1>4, SumNat
<1>6. ASSUME \A i \in 1..Len(ls) : taken[i] = 0 \/ ls[i].hwmNav >= navPerShare
      PROVE  fee = 0
  <2> HIDE DEF f, fee
  <2>1. \A i \in 1..Len(ls) : f[i] = 0
    BY <1>4, <1>6
  <2>. QED BY <1>1, <1>2, <2>1, SumZero
<1>7. navPerShare \in Nat
  BY Price
<1>8. ASSUME fee > 0 PROVE navPerShare \in Nat \ {0}
  <2>1. ASSUME navPerShare = 0 PROVE FALSE
    <3>1. \A i \in 1..Len(ls) : ls[i].hwmNav >= navPerShare
      BY <1>1, <2>1
    <3> HIDE DEF fee
    <3>. QED BY <1>6, <1>8, <3>1
  <2>. QED BY <1>7, <2>1
<1>9. /\ FeeShares(ls, taken, redeemable)
             = IF fee > 0
               THEN Lesser(mulDivCeil(fee, ONE, navPerShare), redeemable)
               ELSE 0
  BY DEF FeeShares, Capped
<1>10. ASSUME fee > 0 PROVE mulDivCeil(fee, ONE, navPerShare) \in Nat
  <2>1. navPerShare \in Nat \ {0} /\ ONE \in Nat
    BY <1>8, <1>10, ConstantTypes
  <2> HIDE DEF fee
  <2>. QED BY <1>5, <2>1, Ceiling
<1>. HIDE DEF fee, taken
<1>11. FeeShares(ls, taken, redeemable) \in 0..redeemable
  BY <1>9, <1>10 DEF Lesser
<1>12. fee = 0 => FeeShares(ls, taken, redeemable) = 0
  BY <1>9
<1>13. (\A i \in 1..Len(ls) : taken[i] = 0 \/ ls[i].hwmNav >= navPerShare)
          => FeeShares(ls, taken, redeemable) = 0
  BY <1>6, <1>12
<1>. QED
  BY <1>11, <1>13 DEF taken

LEMMA NewLotTypes ==
    ASSUME LedgerTypeOK, NEW shares \in Nat \ {0}, NEW nav \in Nat
    PROVE  /\ NewLot(shares, nav) \in Holding
           /\ SharesIn(NewLot(shares, nav)) = shares
           /\ Len(NewLot(shares, nav)) = 1
           /\ NewLot(shares, nav)[1].depositedAtMs = nowMs
           /\ NewLot(shares, nav)[1].shares = shares
<1>1. PICK lot \in Lot : /\ NewLot(shares, nav) = <<lot>>
                         /\ lot.shares = shares /\ lot.depositedAtMs = nowMs
  <2> DEFINE lot == [shares |-> shares, hwmNav |-> nav, depositedAtMs |-> nowMs]
  <2>1. nowMs \in 0..MaxMs
    BY Typed
  <2>2. lot \in Lot
    BY <2>1 DEF Lot
  <2>3. NewLot(shares, nav) = <<lot>>
    BY DEF NewLot
  <2>4. lot.shares = shares /\ lot.depositedAtMs = nowMs
    OBVIOUS
  <2>. HIDE DEF lot
  <2>. QED BY <2>2, <2>3, <2>4
<1>2. Len(<<lot>>) = 1 /\ <<lot>>[1] = lot
  OBVIOUS
<1>. QED
  BY <1>1, <1>2, SharesOfOne

\* A lot for a fee, or none for no fee.
FeeLot(fee) == IF fee > 0 THEN NewLot(fee, navPerShare) ELSE <<>>

LEMMA FeeLotTypes ==
    ASSUME LedgerTypeOK, NEW fee \in Nat
    PROVE  /\ FeeLot(fee) \in Holding
           /\ SharesIn(FeeLot(fee)) = fee
<1>1. navPerShare \in Nat /\ <<>> \in Holding
  BY Price DEF Holding
<1>2. CASE fee > 0
  BY <1>1, <1>2, NewLotTypes DEF FeeLot
<1>3. CASE fee = 0
  BY <1>1, <1>3, SharesOfNone DEF FeeLot
<1>. QED
  BY <1>2, <1>3

-----------------------------------------------------------------------------
(* All the shares there are. *)

Total(held) == SumFunction([m \in Members |-> SharesIn(held[m])])

LEMMA TotalBounds ==
    ASSUME NEW held \in [Members -> Holding]
    PROVE  Total(held) \in Nat /\ \A m \in Members : SharesIn(held[m]) <= Total(held)
<1> DEFINE f == [m \in Members |-> SharesIn(held[m])]
<1>1. \A m \in Members : f[m] = SharesIn(held[m]) /\ f[m] \in Nat
  BY SharesNat
<1>2. Total(held) = SumFunctionOnSet(f, Members)
  BY DEF Total, SumFunction
<1>. HIDE DEF f
<1>. QED
  BY <1>1, <1>2, ConstantTypes, SumNat

LEMMA TotalUpdate ==
    ASSUME NEW held \in [Members -> Holding], NEW later \in [Members -> Holding],
           NEW y \in Members, \A m \in Members : m # y => SharesIn(later[m]) = SharesIn(held[m])
    PROVE  Total(later) = Total(held) + (SharesIn(later[y]) - SharesIn(held[y]))
<1> DEFINE f == [m \in Members |-> SharesIn(held[m])]
           g == [m \in Members |-> SharesIn(later[m])]
<1>1. \A m \in Members : /\ f[m] = SharesIn(held[m]) /\ f[m] \in Int
                         /\ g[m] = SharesIn(later[m]) /\ g[m] \in Int
  BY SharesNat
<1>2. \A m \in Members : m # y => g[m] = f[m]
  BY <1>1
<1>3. Total(held) = SumFunctionOnSet(f, Members) /\ Total(later) = SumFunctionOnSet(g, Members)
  BY DEF Total, SumFunction
<1>. HIDE DEF f, g
<1>4. SumFunctionOnSet(g, Members) = SumFunctionOnSet(f, Members) + (g[y] - f[y])
  <2>1. IsFiniteSet(Members) /\ \A m \in Members : f[m] \in Int /\ g[m] \in Int
    BY <1>1, ConstantTypes
  <2>. QED BY <1>2, <2>1, SumUpdate
<1>. QED
  BY <1>1, <1>3, <1>4

LEMMA Conserved == SharesConserved <=> totalShares = Total(lots)
BY DEF SharesConserved, Total, sharesOf

\* One member's lots are replaced by others.
LEMMA TotalExcept ==
    ASSUME NEW held \in [Members -> Holding], NEW y \in Members, NEW ls \in Holding
    PROVE  /\ [held EXCEPT ![y] = ls] \in [Members -> Holding]
           /\ Total([held EXCEPT ![y] = ls]) = Total(held) + (SharesIn(ls) - SharesIn(held[y]))
<1> DEFINE later == [held EXCEPT ![y] = ls]
<1>1. /\ later \in [Members -> Holding] /\ later[y] = ls
      /\ \A m \in Members : m # y => later[m] = held[m]
  OBVIOUS
<1>. HIDE DEF later
<1>2. \A m \in Members : m # y => SharesIn(later[m]) = SharesIn(held[m])
  BY <1>1
<1>3. Total(later) = Total(held) + (SharesIn(later[y]) - SharesIn(held[y]))
  BY <1>1, <1>2, TotalUpdate
<1>. QED
  BY <1>1, <1>3 DEF later

LEMMA WithFeesTotal ==
    ASSUME LedgerTypeOK, NEW held \in [Members -> Holding], NEW a \in Nat, NEW b \in Nat
    PROVE  /\ WithFees(held, a, b) \in [Members -> Holding]
           /\ Total(WithFees(held, a, b)) = Total(held) + a + b
<1> DEFINE one == [held EXCEPT ![leaderId] = @ \o FeeLot(a)]
           two == [one EXCEPT ![treasuryId] = @ \o FeeLot(b)]
<1>1. /\ leaderId \in Members /\ treasuryId \in Members
      /\ FeeLot(a) \in Holding /\ FeeLot(b) \in Holding
      /\ SharesIn(FeeLot(a)) = a /\ SharesIn(FeeLot(b)) = b
  BY ConstantTypes, FeeLotTypes
<1>2. /\ one \in [Members -> Holding]
      /\ Total(one) = Total(held) + a
  <2>1. held[leaderId] \in Holding
    BY <1>1
  <2>2. /\ held[leaderId] \o FeeLot(a) \in Holding
        /\ SharesIn(held[leaderId] \o FeeLot(a)) = SharesIn(held[leaderId]) + a
    BY <1>1, <2>1, SharesConcat
  <2>3. SharesIn(held[leaderId]) \in Nat /\ Total(held) \in Nat
    BY <2>1, SharesNat, TotalBounds
  <2>4. /\ one \in [Members -> Holding]
        /\ Total(one) = Total(held) + (SharesIn(held[leaderId] \o FeeLot(a)) - SharesIn(held[leaderId]))
    BY <1>1, <2>2, TotalExcept
  <2>. HIDE DEF one
  <2>. QED BY <2>2, <2>3, <2>4
<1>3. /\ two \in [Members -> Holding]
      /\ Total(two) = Total(one) + b
  <2>. HIDE DEF one
  <2>1. one[treasuryId] \in Holding
    BY <1>1, <1>2
  <2>2. /\ one[treasuryId] \o FeeLot(b) \in Holding
        /\ SharesIn(one[treasuryId] \o FeeLot(b)) = SharesIn(one[treasuryId]) + b
    BY <1>1, <2>1, SharesConcat
  <2>3. SharesIn(one[treasuryId]) \in Nat /\ Total(one) \in Nat
    BY <1>2, <2>1, SharesNat, TotalBounds
  <2>4. /\ two \in [Members -> Holding]
        /\ Total(two) = Total(one) + (SharesIn(one[treasuryId] \o FeeLot(b)) - SharesIn(one[treasuryId]))
    BY <1>1, <1>2, <2>2, TotalExcept
  <2>. HIDE DEF two
  <2>. QED BY <2>2, <2>3, <2>4
<1>4. WithFees(held, a, b) = two
  <2> SUFFICES ASSUME NEW m \in Members PROVE WithFees(held, a, b)[m] = two[m]
    BY <1>3 DEF WithFees
  <2>1. WithFees(held, a, b)[m]
            = held[m] \o (IF m = leaderId THEN FeeLot(a) ELSE <<>>)
                      \o (IF m = treasuryId THEN FeeLot(b) ELSE <<>>)
    BY DEF WithFees, FeeLot
  <2>2. \A ls \in Holding : ls \o <<>> = ls
    BY ConcatEmptySeq DEF Holding
  <2>3. /\ one[m] = held[m] \o (IF m = leaderId THEN FeeLot(a) ELSE <<>>)
    BY <2>2
  <2>4. one[m] \in Holding
    BY <1>2
  <2>5. two[m] = one[m] \o (IF m = treasuryId THEN FeeLot(b) ELSE <<>>)
    <3> HIDE DEF one
    <3>. QED BY <1>2, <2>2, <2>4
  <2>. QED BY <2>1, <2>3, <2>5
<1>5. Total(held) \in Nat
  BY TotalBounds
<1>. HIDE DEF one, two
<1>. QED
  BY <1>2, <1>3, <1>4, <1>5

-----------------------------------------------------------------------------
(* The operations. *)

Ledger == LedgerTypeOK /\ SharesConserved

LEMMA Unlocks ==
    ASSUME Ledger, NEW m \in Members
    PROVE  /\ unlockedShares(m) \in Nat
           /\ unlockedShares(m) <= sharesOf(m)
           /\ sharesOf(m) \in Nat
           /\ sharesOf(m) <= totalShares
           /\ unlockedShares(m) = SharesBy(lots[m], nowMs - policy.lockupSec * MsPerSec)
<1>1. LedgerTypeOK /\ totalShares = Total(lots)
  BY Conserved DEF Ledger
<1>2. PICK t \in Int : t = nowMs - policy.lockupSec * MsPerSec
  BY <1>1, UnlockTime
<1>3. unlockedShares(m) = SharesBy(lots[m], t)
  BY <1>2 DEF unlockedShares, UnlockedIn, Unlocked, SharesBy, Counted
<1>4. lots[m] \in Holding /\ lots \in [Members -> Holding]
  BY <1>1, Typed
<1>5. /\ SharesBy(lots[m], t) \in Nat
      /\ SharesBy(lots[m], t) <= SharesIn(lots[m])
      /\ SharesIn(lots[m]) \in Nat
      /\ SharesIn(lots[m]) <= Total(lots)
  BY <1>4, SharesByNat, ByBelowAll, SharesNat, TotalBounds
<1>. QED
  BY <1>1, <1>2, <1>3, <1>5 DEF sharesOf

\* What a deposit issues, and the price it pays for it.
LEMMA DepositStep ==
    ASSUME Ledger, NEW m \in Members, NEW amount \in Nat, NEW exposure \in Nat,
           deposit(m, amount, exposure)
    PROVE  \E issued \in Nat \ {0} :
              /\ totalShares' = totalShares + issued
              /\ equityUsd' = equityUsd + amount
              /\ lots' = [lots EXCEPT ![m] = @ \o NewLot(issued, navPerShare)]
              /\ issued * navPerShare <= amount * ONE
<1> DEFINE credited == Credited(amount, exposure)
           issued == Issued(credited)
<1>1. /\ amount > 0 /\ navPerShare > 0 /\ issued > 0
      /\ lots' = [lots EXCEPT ![m] = @ \o NewLot(issued, navPerShare)]
      /\ totalShares' = totalShares + issued
      /\ equityUsd' = equityUsd + amount
  BY DEF deposit
<1>2. LedgerTypeOK /\ navPerShare \in Nat \ {0} /\ ONE \in Nat \ {0}
  BY <1>1, Price, ConstantTypes DEF Ledger
<1>3. PICK levy \in Nat : levy = bps(amount, levyBps(exposure))
  BY <1>2, Levy
<1>4. credited = amount - levy
  BY <1>3 DEF Credited
<1>5. issued = (credited * ONE) \div navPerShare
  BY DEF Issued, mulDivFloor
<1>. HIDE DEF credited, issued
<1>6. credited \in Int /\ credited <= amount
  BY <1>4
<1>7. credited > 0
  <2>1. SUFFICES ASSUME credited <= 0 PROVE FALSE
    BY <1>6
  <2>2. PICK c \in Nat : credited = -c
    <3>1. -credited \in Nat /\ credited = -(-credited)
      BY <1>6, <2>1
    <3>. QED BY <3>1
  <2>3. credited * ONE \in Int /\ credited * ONE <= 0
    <3>1. c * ONE \in Nat
      BY <1>2, ProductMono
    <3>2. credited * ONE = -(c * ONE)
      BY <1>2, <2>2
    <3>. QED BY <3>1, <3>2
  <2>4. PICK x \in Int : x = credited * ONE /\ x <= 0
    BY <2>3
  <2>5. x \div navPerShare <= 0
    BY <1>2, <2>4
  <2>. QED BY <1>1, <1>5, <2>4, <2>5
<1>8. credited \in Nat
  BY <1>6, <1>7
<1>9. issued \in Nat /\ issued * navPerShare <= credited * ONE
  BY <1>2, <1>5, <1>8, Floor DEF mulDivFloor
<1>10. credited * ONE <= amount * ONE /\ credited * ONE \in Nat /\ amount * ONE \in Nat
  <2>1. ONE * credited \in Nat /\ ONE * credited <= ONE * amount /\ ONE * amount \in Nat
    BY <1>2, <1>6, <1>8, ProductMono
  <2>2. ONE * credited = credited * ONE /\ ONE * amount = amount * ONE
    BY <1>2, <1>8
  <2>. QED BY <2>1, <2>2
<1>11. issued \in Nat \ {0}
  BY <1>1, <1>9
<1>12. issued * navPerShare \in Nat
  BY <1>2, <1>9, ProductMono
<1>13. issued * navPerShare <= amount * ONE
  BY <1>9, <1>10, <1>12
<1>. QED
  BY <1>1, <1>11, <1>13

\* What an exit moves: the platform's and the leader's parts of the shares
\* change hands, the rest is burned, for at most its price.
Exits(m, shares, part, fee, levy) ==
    LET redeemed == shares - part - fee
    IN  /\ shares \in Nat \ {0} /\ shares <= unlockedShares(m)
        /\ part \in Nat /\ fee \in Nat /\ levy \in Nat /\ redeemed \in Nat
        /\ fee = FeeShares(lots[m], Taken(lots[m], shares), shares - part)
        /\ m = treasuryId => part = 0
        /\ lots' = WithFees([lots EXCEPT ![m] = Kept(@, shares)], fee, part)
        /\ totalShares' = totalShares - redeemed
        /\ equityUsd' = equityUsd - (Gross(redeemed) - levy)

LEMMA WithdrawStep ==
    ASSUME Ledger, NEW m \in Members, NEW shares \in Nat, NEW exposure \in Nat,
           withdraw(m, shares, exposure)
    PROVE  \E part, fee, levy \in Nat : Exits(m, shares, part, fee, levy)
<1> DEFINE part == platformFeeShares(m, shares)
           redeemable == shares - part
           fee == FeeShares(lots[m], Taken(lots[m], shares), redeemable)
           redeemed == redeemable - fee
           levy == bps(Gross(redeemed), levyBps(exposure))
<1>1. /\ shares \in 1..unlockedShares(m)
      /\ redeemable > 0
      /\ lots' = WithFees([lots EXCEPT ![m] = Kept(@, shares)], fee, part)
      /\ totalShares' = totalShares - redeemed
      /\ equityUsd' = equityUsd - (Gross(redeemed) - levy)
  BY DEF withdraw, Burned
<1>2. LedgerTypeOK /\ unlockedShares(m) \in Nat
  BY Unlocks DEF Ledger
<1>3. part \in 0..shares
  BY <1>2, PlatformPart
<1>4. redeemable \in Nat /\ part \in Nat
  <2> HIDE DEF part
  <2>. QED BY <1>3
<1>5. fee \in 0..redeemable
  <2>1. lots[m] \in Holding
    BY <1>2, Typed
  <2> HIDE DEF redeemable
  <2>. QED BY <1>2, <1>4, <2>1, LeaderPart
<1>6. redeemed \in Nat /\ fee \in Nat /\ redeemed = shares - part - fee
  <2> HIDE DEF part, fee
  <2>. QED BY <1>4, <1>5
<1>7. Gross(redeemed) \in Nat
  <2> HIDE DEF redeemed
  <2>1. redeemed \in Nat /\ navPerShare \in Nat /\ ONE \in Nat \ {0}
    BY <1>2, <1>6, Price, ConstantTypes
  <2>2. Gross(redeemed) = mulDivFloor(redeemed, navPerShare, ONE)
    BY DEF Gross, mul
  <2>. QED BY <2>1, <2>2, Floor
<1>8. levy \in Nat
  <2>1. PICK g \in Nat : g = Gross(redeemed)
    BY <1>7
  <2>. QED BY <1>2, <2>1, Levy
<1>9. m = treasuryId => part = 0
  BY DEF platformFeeShares
<1>10. shares \in Nat \ {0} /\ shares <= unlockedShares(m)
  BY <1>1, <1>2
<1>11. Exits(m, shares, part, fee, levy)
  <2>1. redeemable = shares - part
    OBVIOUS
  <2>. HIDE DEF part, levy, redeemed
  <2>. QED BY <1>1, <1>4, <1>6, <1>8, <1>9, <1>10 DEF Exits
<1>. HIDE DEF part, fee, levy
<1>. QED
  BY <1>4, <1>6, <1>8, <1>11

-----------------------------------------------------------------------------
(* What the roundings leave to the members who stay. *)

LEMMA CancelPositive ==
    ASSUME NEW a \in Nat, NEW b \in Nat, NEW c \in Nat \ {0}, a * c <= b * c
    PROVE  a <= b
<1>1. SUFFICES ASSUME b + 1 <= a PROVE FALSE
  OBVIOUS
<1>2. c * (b + 1) <= c * a /\ c * (b + 1) \in Nat
  BY <1>1, ProductMono
<1>3. c * (b + 1) = b * c + c /\ c * a = a * c
  OBVIOUS
<1>4. b * c \in Nat /\ a * c \in Nat
  BY ProductMono
<1>. QED
  BY <1>2, <1>3, <1>4

\* Redeeming r of t shares at a price n that values them at no more than the
\* book pays no more than their part of it.
LEMMA PaidFromTheirPart ==
    ASSUME NEW g \in Nat, NEW r \in Nat, NEW n \in Nat, NEW t \in Nat, NEW e \in Nat,
           NEW o \in Nat \ {0}, g * o <= r * n, n * t <= e * o, r <= t
    PROVE  g <= e /\ g * t <= r * e
<1>1. /\ g * o \in Nat /\ r * n \in Nat /\ n * t \in Nat /\ e * o \in Nat
      /\ g * t \in Nat /\ r * e \in Nat
  BY ProductMono
<1>2. g <= e
  <2>1. n * r <= n * t /\ n * r = r * n
    BY ProductMono
  <2>2. g * o <= e * o
    BY <1>1, <2>1
  <2>. QED BY <2>2, CancelPositive
<1>3. (g * t) * o <= (r * e) * o
  <2>1. t * (g * o) <= t * (r * n)
    BY <1>1, ProductMono
  <2>2. r * (n * t) <= r * (e * o)
    BY <1>1, ProductMono
  <2>3. t * (g * o) = (g * t) * o /\ t * (r * n) = r * (n * t) /\ r * (e * o) = (r * e) * o
    OBVIOUS
  <2>4. (g * t) * o \in Nat /\ r * (n * t) \in Nat /\ (r * e) * o \in Nat
    BY <1>1, ProductMono
  <2>. QED BY <2>1, <2>2, <2>3, <2>4
<1>4. g * t <= r * e
  BY <1>1, <1>3, CancelPositive
<1>. QED
  BY <1>2, <1>4

\* Buying i shares at the truncated price n costs the others at most i units.
LEMMA DustOfADeposit ==
    ASSUME NEW i \in Nat, NEW n \in Nat, NEW t \in Nat, NEW e \in Nat, NEW a \in Nat,
           NEW o \in Nat, i * n <= a * o, e * o < n * t + t
    PROVE  i * e * o <= t * (a * o + i)
<1>1. /\ i * n \in Nat /\ a * o \in Nat /\ e * o \in Nat /\ n * t \in Nat
      /\ i * t \in Nat
  BY ProductMono
<1>2. i * (e * o) <= i * (n * t + t) /\ i * (e * o) \in Nat
  <2>1. n * t + t \in Nat /\ e * o <= n * t + t
    BY <1>1
  <2>. QED BY <1>1, <2>1, ProductMono
<1>3. t * (i * n) <= t * (a * o) /\ t * (i * n) \in Nat /\ t * (a * o) \in Nat
  BY <1>1, ProductMono
<1>4. i * (n * t + t) = t * (i * n) + i * t
  OBVIOUS
<1>5. t * (a * o + i) = t * (a * o) + i * t
  BY <1>1
<1>6. i * e * o = i * (e * o)
  OBVIOUS
<1>. QED
  BY <1>1, <1>2, <1>3, <1>4, <1>5, <1>6

\* What an exit does to the lots, the shares and the book.
LEMMA ExitKeeps ==
    ASSUME Ledger, NEW m \in Members, NEW shares, NEW part, NEW fee, NEW levy,
           Exits(m, shares, part, fee, levy)
    PROVE  /\ lots' \in [Members -> Holding]
           /\ totalShares' \in Nat /\ totalShares' = Total(lots')
           /\ equityUsd' \in Nat
           /\ totalShares' <= totalShares
           /\ (equityUsd - equityUsd') * totalShares <= (totalShares - totalShares') * equityUsd
<1>1. LedgerTypeOK /\ totalShares = Total(lots)
  BY Conserved DEF Ledger
<1>2. PICK redeemed \in Nat :
        /\ redeemed = shares - part - fee
        /\ shares \in Nat \ {0} /\ shares <= unlockedShares(m)
        /\ part \in Nat /\ fee \in Nat /\ levy \in Nat
        /\ lots' = WithFees([lots EXCEPT ![m] = Kept(@, shares)], fee, part)
        /\ totalShares' = totalShares - redeemed
        /\ equityUsd' = equityUsd - (Gross(redeemed) - levy)
  BY DEF Exits
<1>3. /\ lots \in [Members -> Holding] /\ lots[m] \in Holding
      /\ totalShares \in Nat /\ equityUsd \in Nat
  BY <1>1, Typed
<1>4. /\ unlockedShares(m) \in Nat /\ SharesIn(lots[m]) \in Nat
      /\ unlockedShares(m) <= SharesIn(lots[m])
      /\ SharesIn(lots[m]) <= totalShares
  BY Unlocks DEF sharesOf
<1>5. shares <= SharesIn(lots[m]) /\ shares <= totalShares
  BY <1>2, <1>3, <1>4
<1>6. redeemed <= totalShares /\ totalShares # 0
  BY <1>2, <1>3, <1>5
<1>7. PICK left \in Holding : /\ left = Kept(lots[m], shares)
                              /\ SharesIn(left) = SharesIn(lots[m]) - shares
  BY <1>2, <1>3, <1>5, KeptShares
<1>8. PICK held \in [Members -> Holding] :
        /\ held = [lots EXCEPT ![m] = left]
        /\ Total(held) = Total(lots) + (SharesIn(left) - SharesIn(lots[m]))
  BY <1>3, TotalExcept
<1>9. lots' = WithFees(held, fee, part)
  BY <1>2, <1>7, <1>8
<1>10. /\ WithFees(held, fee, part) \in [Members -> Holding]
       /\ Total(WithFees(held, fee, part)) = Total(held) + fee + part
  BY <1>1, <1>2, WithFeesTotal
<1>11. totalShares' \in Nat /\ totalShares' = Total(lots') /\ totalShares' <= totalShares
  BY <1>1, <1>2, <1>3, <1>4, <1>6, <1>7, <1>8, <1>9, <1>10
<1>12. PICK n \in Nat : n = navPerShare /\ n * totalShares <= equityUsd * ONE
  BY <1>1, <1>6, Price
<1>13. ONE \in Nat \ {0}
  BY ConstantTypes
<1>14. PICK g \in Nat : g = Gross(redeemed) /\ g * ONE <= redeemed * n
  BY <1>2, <1>12, <1>13, Floor DEF Gross, mul
<1>15. g <= equityUsd /\ g * totalShares <= redeemed * equityUsd
  BY <1>3, <1>6, <1>12, <1>13, <1>14, PaidFromTheirPart
<1>16. equityUsd' \in Nat
  BY <1>2, <1>3, <1>14, <1>15
<1>17. (equityUsd - equityUsd') * totalShares <= (totalShares - totalShares') * equityUsd
  <2>1. equityUsd - equityUsd' = g - levy /\ totalShares - totalShares' = redeemed
    BY <1>2, <1>3, <1>14
  <2>2. (g - levy) * totalShares = g * totalShares - levy * totalShares
    BY <1>2, <1>3, <1>14
  <2>3. /\ levy * totalShares \in Nat /\ g * totalShares \in Nat
        /\ redeemed * equityUsd \in Nat
    BY <1>2, <1>3, <1>14, ProductMono
  <2>. QED BY <1>15, <2>1, <2>2, <2>3
<1>. QED
  BY <1>9, <1>10, <1>11, <1>16, <1>17

\* The fee a management accrual mints and the time it is charged for.
LEMMA AccrueStep ==
    ASSUME Ledger, lastAccrualMs <= nowMs, accrueManagementFee
    PROVE  \E issued, spent \in Nat :
              /\ lots' = [lots EXCEPT ![leaderId] = @ \o FeeLot(issued)]
              /\ totalShares' = totalShares + issued
              /\ lastAccrualMs' = nowMs
              /\ chargedMs' = chargedMs + spent
              /\ spent <= nowMs - lastAccrualMs
              /\ UNCHANGED <<policy, equityUsd, nowMs>>
<1> DEFINE issued == IF AccrualDue
                     THEN mulDivFloor(totalShares, ManagementFeeUsd, equityUsd - ManagementFeeUsd)
                     ELSE 0
           spent == IF AccrualDue THEN ElapsedSec * MsPerSec ELSE 0
<1>1. /\ lots' = [lots EXCEPT ![leaderId] = IF issued > 0 THEN @ \o NewLot(issued, navPerShare) ELSE @]
      /\ totalShares' = totalShares + issued
      /\ lastAccrualMs' = nowMs
      /\ chargedMs' = chargedMs + spent
      /\ UNCHANGED <<policy, equityUsd, nowMs>>
  BY DEF accrueManagementFee, AccruedUntil
<1>2. /\ LedgerTypeOK /\ totalShares \in Nat /\ equityUsd \in Nat
      /\ nowMs \in Nat /\ lastAccrualMs \in Nat
      /\ lots[leaderId] \in Holding
  BY Typed, ConstantTypes DEF Ledger
<1>3. /\ ElapsedSec \in Nat
      /\ ElapsedSec * MsPerSec \in Nat
      /\ ElapsedSec * MsPerSec <= nowMs - lastAccrualMs
  <2>1. nowMs - lastAccrualMs \in Nat
    BY <1>2
  <2>2. PICK d \in Nat : d = nowMs - lastAccrualMs
    BY <2>1
  <2>3. d \div MsPerSec \in Nat /\ (d \div MsPerSec) * MsPerSec <= d
    BY ConstantTypes, DivNat
  <2>4. (d \div MsPerSec) * MsPerSec \in Nat
    BY <2>3, ConstantTypes, ProductMono
  <2>. QED BY <2>2, <2>3, <2>4 DEF ElapsedSec
<1>4. ManagementFeeUsd \in Nat
  <2>1. policy.managementFeeBpsAnnual \in Nat /\ BPS \in Nat \ {0}
    BY <1>2, Typed, PolicyTypes
  <2>2. PICK rate \in Nat : rate = policy.managementFeeBpsAnnual
    BY <2>1
  <2>3. mulDivCeil(equityUsd, rate, BPS) \in Nat
    BY <1>2, <2>1, Ceiling
  <2>4. PICK annual \in Nat : annual = bps(equityUsd, policy.managementFeeBpsAnnual)
    BY <2>2, <2>3 DEF bps
  <2>5. PICK elapsed \in Nat : elapsed = ElapsedSec
    BY <1>3
  <2>6. mulDivFloor(annual, elapsed, SECONDS_PER_YEAR) \in Nat
    BY Floor, ConstantTypes
  <2>. QED BY <2>4, <2>5, <2>6 DEF ManagementFeeUsd
<1>5. issued \in Nat
  <2>1. CASE AccrualDue
    <3>1. PICK fee \in Nat : fee = ManagementFeeUsd
      BY <1>4
    <3>2. equityUsd - fee \in Nat \ {0}
      BY <1>2, <2>1, <3>1 DEF AccrualDue
    <3>3. mulDivFloor(totalShares, fee, equityUsd - fee) \in Nat
      BY <1>2, <3>2, Floor
    <3>. QED BY <2>1, <3>1, <3>3
  <2>. QED BY <2>1
<1>6. spent \in Nat /\ spent <= nowMs - lastAccrualMs
  BY <1>2, <1>3
<1>7. lots' = [lots EXCEPT ![leaderId] = @ \o FeeLot(issued)]
  <2>1. lots[leaderId] \o <<>> = lots[leaderId]
    BY <1>2, ConcatEmptySeq DEF Holding
  <2>. HIDE DEF issued
  <2>2. CASE issued > 0
    BY <1>1, <2>2 DEF FeeLot
  <2>3. CASE ~(issued > 0)
    <3>1. FeeLot(issued) = <<>>
      BY <2>3 DEF FeeLot
    <3>2. lots' = [lots EXCEPT ![leaderId] = lots[leaderId]]
      BY <1>1, <2>3
    <3>. QED BY <2>1, <3>1, <3>2
  <2>. QED BY <2>2, <2>3
<1>. HIDE DEF issued, spent
<1>. QED
  BY <1>1, <1>5, <1>6, <1>7

-----------------------------------------------------------------------------
(* The inductive invariant: the ledger is typed and its shares add up, and  *)
(* no accrual is ahead of the clock.                                        *)

Clocks == NoMomentChargedTwice /\ lastAccrualMs <= nowMs

LedgerInv == Ledger /\ Clocks

LEMMA InitLedger == LedgerInit => LedgerInv
<1> SUFFICES ASSUME LedgerInit PROVE LedgerInv
  OBVIOUS
<1>1. <<>> \in Holding /\ lots = [m \in Members |-> <<>>]
  BY DEF LedgerInit, Holding
<1>2. LedgerTypeOK
  BY <1>1, ConstantTypes, LedgerAssumption DEF LedgerInit, LedgerTypeOK, Holding
<1>3. SharesConserved
  <2> DEFINE f == [m \in Members |-> SharesIn(lots[m])]
  <2>1. \A m \in Members : f[m] = 0
    BY <1>1, SharesOfNone
  <2>2. Total(lots) = SumFunctionOnSet(f, Members)
    BY DEF Total, SumFunction
  <2>. HIDE DEF f
  <2>3. Total(lots) = 0
    BY <2>1, <2>2, ConstantTypes, SumZero
  <2>. QED BY <2>3, Conserved DEF LedgerInit
<1>4. Clocks
  BY DEF LedgerInit, Clocks, NoMomentChargedTwice
<1>. QED
  BY <1>2, <1>3, <1>4 DEF LedgerInv, Ledger

\* The parts of a step that operations share.
LEMMA Assemble ==
    ASSUME policy' \in Economics, lots' \in [Members -> Holding],
           totalShares' \in Nat, totalShares' = Total(lots'), equityUsd' \in Nat,
           chargedMs' \in Nat, nowMs' \in 0..MaxMs, lastAccrualMs' \in 0..MaxMs,
           ops' \in 0..MaxOps
    PROVE  Ledger'
<1>1. LedgerTypeOK'
  BY DEF LedgerTypeOK, Holding
<1>2. SharesConserved'
  BY DEF SharesConserved, Total, sharesOf
<1>. QED
  BY <1>1, <1>2 DEF Ledger

LEMMA DepositKeeps ==
    ASSUME LedgerInv, ops' \in 0..MaxOps, NEW m \in Members, NEW amount \in Nat,
           NEW exposure \in Nat, deposit(m, amount, exposure)
    PROVE  Ledger'
<1>1. Ledger /\ LedgerTypeOK /\ totalShares = Total(lots)
  BY Conserved DEF LedgerInv, Ledger
<1>2. PICK issued \in Nat \ {0} :
        /\ totalShares' = totalShares + issued
        /\ equityUsd' = equityUsd + amount
        /\ lots' = [lots EXCEPT ![m] = @ \o NewLot(issued, navPerShare)]
  BY <1>1, DepositStep
<1>3. PICK lot \in Holding : lot = NewLot(issued, navPerShare) /\ SharesIn(lot) = issued
  BY <1>1, Price, NewLotTypes
<1>4. lots \in [Members -> Holding] /\ lots[m] \in Holding
  BY <1>1, Typed
<1>5. /\ lots[m] \o lot \in Holding
      /\ SharesIn(lots[m] \o lot) = SharesIn(lots[m]) + issued
  BY <1>3, <1>4, SharesConcat
<1>6. /\ [lots EXCEPT ![m] = lots[m] \o lot] \in [Members -> Holding]
      /\ Total([lots EXCEPT ![m] = lots[m] \o lot])
             = Total(lots) + (SharesIn(lots[m] \o lot) - SharesIn(lots[m]))
  BY <1>4, <1>5, TotalExcept
<1>7. SharesIn(lots[m]) \in Nat /\ totalShares \in Nat /\ equityUsd \in Nat
  BY <1>1, <1>4, SharesNat, Typed
<1>8. lots' = [lots EXCEPT ![m] = lots[m] \o lot]
  BY <1>2, <1>3
<1>9. totalShares' = Total(lots') /\ totalShares' \in Nat /\ equityUsd' \in Nat
  <2>1. Total(lots') = Total(lots) + (SharesIn(lots[m] \o lot) - SharesIn(lots[m]))
    BY <1>6, <1>8
  <2>2. totalShares' = totalShares + issued /\ equityUsd' = equityUsd + amount
    BY <1>2
  <2>. QED BY <1>1, <1>5, <1>7, <2>1, <2>2
<1>10. UNCHANGED <<policy, lastAccrualMs, nowMs, chargedMs>>
  BY DEF deposit
<1>. QED
  BY <1>1, <1>6, <1>8, <1>9, <1>10, Typed, Assemble

LEMMA WithdrawKeeps ==
    ASSUME LedgerInv, ops' \in 0..MaxOps, NEW m \in Members, NEW shares \in Nat,
           NEW exposure \in Nat, withdraw(m, shares, exposure)
    PROVE  Ledger'
<1>1. Ledger /\ LedgerTypeOK
  BY DEF LedgerInv, Ledger
<1>2. PICK part, fee, levy \in Nat : Exits(m, shares, part, fee, levy)
  BY <1>1, WithdrawStep
<1>3. /\ lots' \in [Members -> Holding]
      /\ totalShares' \in Nat /\ totalShares' = Total(lots')
      /\ equityUsd' \in Nat
  BY <1>1, <1>2, ExitKeeps
<1>4. UNCHANGED <<policy, lastAccrualMs, nowMs, chargedMs>>
  BY DEF withdraw
<1>. QED
  BY <1>1, <1>3, <1>4, Typed, Assemble

LEMMA AccrueKeeps ==
    ASSUME LedgerInv, ops' \in 0..MaxOps, accrueManagementFee
    PROVE  LedgerInv'
<1>1. /\ Ledger /\ LedgerTypeOK /\ totalShares = Total(lots)
      /\ chargedMs <= lastAccrualMs /\ lastAccrualMs <= nowMs
  BY Conserved DEF LedgerInv, Ledger, Clocks, NoMomentChargedTwice
<1>2. PICK issued, spent \in Nat :
        /\ lots' = [lots EXCEPT ![leaderId] = @ \o FeeLot(issued)]
        /\ totalShares' = totalShares + issued
        /\ lastAccrualMs' = nowMs
        /\ chargedMs' = chargedMs + spent
        /\ spent <= nowMs - lastAccrualMs
        /\ UNCHANGED <<policy, equityUsd, nowMs>>
  BY <1>1, AccrueStep
<1>3. PICK lot \in Holding : lot = FeeLot(issued) /\ SharesIn(lot) = issued
  BY <1>1, FeeLotTypes
<1>4. lots \in [Members -> Holding] /\ leaderId \in Members /\ lots[leaderId] \in Holding
  BY <1>1, Typed, ConstantTypes
<1>5. /\ lots[leaderId] \o lot \in Holding
      /\ SharesIn(lots[leaderId] \o lot) = SharesIn(lots[leaderId]) + issued
  BY <1>3, <1>4, SharesConcat
<1>6. /\ [lots EXCEPT ![leaderId] = lots[leaderId] \o lot] \in [Members -> Holding]
      /\ Total([lots EXCEPT ![leaderId] = lots[leaderId] \o lot])
             = Total(lots) + (SharesIn(lots[leaderId] \o lot) - SharesIn(lots[leaderId]))
  BY <1>4, <1>5, TotalExcept
<1>7. /\ SharesIn(lots[leaderId]) \in Nat /\ totalShares \in Nat /\ equityUsd \in Nat
      /\ nowMs \in 0..MaxMs /\ lastAccrualMs \in 0..MaxMs /\ chargedMs \in Nat
      /\ policy \in Economics /\ MaxMs \in Nat
  BY <1>1, <1>4, SharesNat, Typed, ConstantTypes
<1>8. lots' = [lots EXCEPT ![leaderId] = lots[leaderId] \o lot]
  BY <1>2, <1>3
<1>9. totalShares' = Total(lots') /\ totalShares' \in Nat
  <2>1. Total(lots') = Total(lots)
                           + (SharesIn(lots[leaderId] \o lot) - SharesIn(lots[leaderId]))
    BY <1>6, <1>8
  <2>2. totalShares' = totalShares + issued
    BY <1>2
  <2>. QED BY <1>1, <1>5, <1>7, <2>1, <2>2
<1>10. chargedMs' \in Nat /\ chargedMs' <= lastAccrualMs' /\ lastAccrualMs' <= nowMs'
  BY <1>1, <1>2, <1>7
<1>11. lots' \in [Members -> Holding] /\ lastAccrualMs' \in 0..MaxMs /\ nowMs' \in 0..MaxMs
  BY <1>2, <1>6, <1>7, <1>8
<1>12. Ledger'
  BY <1>2, <1>7, <1>9, <1>10, <1>11, Assemble
<1>. QED
  BY <1>10, <1>12 DEF LedgerInv, Clocks, NoMomentChargedTwice

LEMMA LedgerKept == LedgerInv /\ [LedgerNext]_ledgerVars => LedgerInv'
<1> SUFFICES ASSUME LedgerInv, [LedgerNext]_ledgerVars PROVE LedgerInv'
  OBVIOUS
<1>1. /\ LedgerTypeOK /\ Ledger /\ Clocks /\ totalShares = Total(lots)
      /\ lots \in [Members -> Holding] /\ policy \in Economics
      /\ totalShares \in Nat /\ equityUsd \in Nat /\ chargedMs \in Nat
      /\ nowMs \in 0..MaxMs /\ lastAccrualMs \in 0..MaxMs /\ ops \in 0..MaxOps
  BY Typed, Conserved DEF LedgerInv, Ledger, LedgerTypeOK
<1>2. CASE UNCHANGED ledgerVars
  <2>1. Ledger'
    BY <1>1, <1>2, Assemble DEF ledgerVars
  <2>. QED BY <1>1, <1>2, <2>1 DEF LedgerInv, Clocks, NoMomentChargedTwice, ledgerVars
<1>3. CASE LedgerTick
  <2>1. nowMs' \in 0..MaxMs /\ nowMs' = nowMs + 1
    BY <1>1, <1>3, ConstantTypes DEF LedgerTick
  <2>2. UNCHANGED <<policy, lots, totalShares, lastAccrualMs, equityUsd, chargedMs, ops>>
    BY <1>3 DEF LedgerTick
  <2>3. Ledger'
    BY <1>1, <2>1, <2>2, Assemble
  <2>. QED BY <1>1, <2>1, <2>2, <2>3, ConstantTypes DEF LedgerInv, Clocks, NoMomentChargedTwice
<1>4. CASE ops < MaxOps /\ ops' = ops + 1 /\ LedgerOp
  <2>1. ops' \in 0..MaxOps
    BY <1>1, <1>4, ConstantTypes
  <2>2. ASSUME NEW exposure \in Exposures, NEW m \in Depositors, NEW amount \in Amounts,
               deposit(m, amount, exposure)
        PROVE  LedgerInv'
    <3>1. m \in Members /\ amount \in Nat /\ exposure \in Nat
      BY ConstantTypes
    <3>2. Ledger'
      BY <2>1, <2>2, <3>1, DepositKeeps
    <3>3. Clocks'
      BY <1>1, <2>2 DEF deposit, Clocks, NoMomentChargedTwice
    <3>. QED BY <3>2, <3>3 DEF LedgerInv
  <2>3. ASSUME NEW exposure \in Exposures, NEW m \in Members,
               NEW shares \in Amounts \cup {unlockedShares(m)},
               withdraw(m, shares, exposure)
        PROVE  LedgerInv'
    <3>1. shares \in Nat /\ exposure \in Nat
      BY <1>1, Unlocks, ConstantTypes
    <3>2. Ledger'
      BY <2>1, <2>3, <3>1, WithdrawKeeps
    <3>3. Clocks'
      BY <1>1, <2>3 DEF withdraw, Clocks, NoMomentChargedTwice
    <3>. QED BY <3>2, <3>3 DEF LedgerInv
  <2>4. CASE accrueManagementFee
    BY <2>1, <2>4, AccrueKeeps
  <2>5. ASSUME NEW fee \in {0, policy.withdrawFeeBps \div 2}, lowerPlatformFee(fee)
        PROVE  LedgerInv'
    <3>1. /\ policy' = [policy EXCEPT !.withdrawFeeBps = fee]
          /\ UNCHANGED <<lots, totalShares, lastAccrualMs, equityUsd, nowMs, chargedMs>>
          /\ fee <= policy.withdrawFeeBps
      BY <2>5 DEF lowerPlatformFee
    <3>2. policy' \in Economics
      <4>1. PICK w \in Nat : w = policy.withdrawFeeBps /\ w <= BPS /\ BPS \in Nat \ {0}
        BY <1>1, PolicyTypes
      <4>2. fee \in 0..BPS
        <5>1. w \div 2 \in Nat
          BY <4>1
        <5>. QED BY <3>1, <4>1, <5>1
      <4>. QED BY <1>1, <3>1, <4>2 DEF Economics
    <3>3. Ledger'
      BY <1>1, <2>1, <3>1, <3>2, Assemble
    <3>. QED BY <1>1, <3>1, <3>3 DEF LedgerInv, Clocks, NoMomentChargedTwice
  <2>6. CASE Reprice
    <3>1. UNCHANGED <<policy, lots, totalShares, lastAccrualMs, nowMs, chargedMs>>
      BY <2>6 DEF Reprice
    <3>2. equityUsd' \in Nat
      BY <1>1, <2>6 DEF Reprice
    <3>3. Ledger'
      BY <1>1, <2>1, <3>1, <3>2, Assemble
    <3>. QED BY <1>1, <3>1, <3>3 DEF LedgerInv, Clocks, NoMomentChargedTwice
  <2>. QED BY <1>4, <2>2, <2>3, <2>4, <2>5, <2>6 DEF LedgerOp
<1>. QED
  BY <1>2, <1>3, <1>4 DEF LedgerNext

\* The share ledger is typed in every state: no count of shares and no book
\* ever goes negative, whatever fees, levies and roundings take
\* (ledger.ts:138-361).
THEOREM LedgerTypeCorrect == LedgerSpec => []LedgerTypeOK
<1>1. LedgerInv => LedgerTypeOK
  BY DEF LedgerInv, Ledger
<1>. QED
  BY <1>1, InitLedger, LedgerKept, PTL DEF LedgerSpec

\* Every share outstanding is in exactly one member's lots (ledger.ts:285-305).
THEOREM SharesAreConserved == LedgerSpec => []SharesConserved
<1>1. LedgerInv => SharesConserved
  BY DEF LedgerInv, Ledger
<1>. QED
  BY <1>1, InitLedger, LedgerKept, PTL DEF LedgerSpec

\* The management fee is charged for no moment twice (ledger.ts:332-361).
THEOREM NoDoubleCharge == LedgerSpec => []NoMomentChargedTwice
<1>1. LedgerInv => NoMomentChargedTwice
  BY DEF LedgerInv, Clocks
<1>. QED
  BY <1>1, InitLedger, LedgerKept, PTL DEF LedgerSpec

-----------------------------------------------------------------------------
(* What a step may never do. *)

\* The steps, by what they do to the lots.
LEMMA LedgerCases ==
    ASSUME LedgerInv, [LedgerNext]_ledgerVars
    PROVE  /\ policy'.lockupSec = policy.lockupSec
           /\ \/ \E m \in Members, amount \in Nat, exposure \in Nat :
                    deposit(m, amount, exposure)
              \/ \E m \in Members, shares \in Nat, exposure \in Nat :
                    withdraw(m, shares, exposure)
              \/ accrueManagementFee
              \/ UNCHANGED <<lots, totalShares>>
<1>1. Ledger /\ policy \in Economics
  BY Typed DEF LedgerInv, Ledger
<1>2. CASE UNCHANGED ledgerVars
  BY <1>2 DEF ledgerVars
<1>3. CASE LedgerTick
  BY <1>3 DEF LedgerTick
<1>4. CASE LedgerOp
  <2>1. ASSUME NEW exposure \in Exposures, NEW m \in Depositors, NEW amount \in Amounts,
               deposit(m, amount, exposure)
        PROVE  /\ policy'.lockupSec = policy.lockupSec
               /\ \E x \in Members, a \in Nat, e \in Nat : deposit(x, a, e)
    <3>1. m \in Members /\ amount \in Nat /\ exposure \in Nat
      BY ConstantTypes
    <3>2. policy' = policy
      BY <2>1 DEF deposit
    <3>. QED BY <2>1, <3>1, <3>2
  <2>2. ASSUME NEW exposure \in Exposures, NEW m \in Members,
               NEW shares \in Amounts \cup {unlockedShares(m)},
               withdraw(m, shares, exposure)
        PROVE  /\ policy'.lockupSec = policy.lockupSec
               /\ \E x \in Members, s \in Nat, e \in Nat : withdraw(x, s, e)
    <3>1. shares \in Nat /\ exposure \in Nat
      BY <1>1, Unlocks, ConstantTypes
    <3>2. policy' = policy
      BY <2>2 DEF withdraw
    <3>. QED BY <2>2, <3>1, <3>2
  <2>3. CASE accrueManagementFee
    BY <2>3 DEF accrueManagementFee
  <2>4. ASSUME NEW fee, lowerPlatformFee(fee)
        PROVE  policy'.lockupSec = policy.lockupSec /\ UNCHANGED <<lots, totalShares>>
    <3>1. policy' = [policy EXCEPT !.withdrawFeeBps = fee] /\ UNCHANGED <<lots, totalShares>>
      BY <2>4 DEF lowerPlatformFee
    <3>. QED BY <1>1, <3>1 DEF Economics
  <2>5. CASE Reprice
    BY <2>5 DEF Reprice
  <2>. QED BY <1>4, <2>1, <2>2, <2>3, <2>4, <2>5 DEF LedgerOp
<1>. QED
  BY <1>2, <1>3, <1>4 DEF LedgerNext

\* An exit takes out at most the burned shares' part of the book, whatever
\* fees and levies round to (ledger.ts:282-305, num.ts:66-82).
THEOREM ExitsAreFair == LedgerSpec => ExitsDiluteNobody
<1> DEFINE A == lots' # lots /\ totalShares' <= totalShares =>
        (equityUsd - equityUsd') * totalShares <= (totalShares - totalShares') * equityUsd
<1>1. ASSUME LedgerInv, [LedgerNext]_ledgerVars PROVE A
  <2>1. Ledger /\ LedgerTypeOK /\ lastAccrualMs <= nowMs
        /\ totalShares \in Nat /\ equityUsd \in Nat
    BY <1>1, Typed DEF LedgerInv, Ledger, Clocks
  <2>2. ASSUME NEW m \in Members, NEW amount \in Nat, NEW exposure \in Nat,
               deposit(m, amount, exposure)
        PROVE  A
    <3>1. PICK issued \in Nat \ {0} : totalShares' = totalShares + issued
      BY <2>1, <2>2, DepositStep
    <3>. QED BY <2>1, <3>1
  <2>3. ASSUME NEW m \in Members, NEW shares \in Nat, NEW exposure \in Nat,
               withdraw(m, shares, exposure)
        PROVE  A
    <3>1. PICK part, fee, levy \in Nat : Exits(m, shares, part, fee, levy)
      BY <2>1, <2>3, WithdrawStep
    <3>. QED BY <2>1, <3>1, ExitKeeps
  <2>4. CASE accrueManagementFee
    <3>1. PICK issued \in Nat :
            /\ lots' = [lots EXCEPT ![leaderId] = @ \o FeeLot(issued)]
            /\ totalShares' = totalShares + issued
            /\ UNCHANGED equityUsd
      BY <2>1, <2>4, AccrueStep
    <3>2. CASE issued = 0
      <4>1. (equityUsd - equityUsd') * totalShares = 0 * totalShares
            /\ (totalShares - totalShares') * equityUsd = 0 * equityUsd
        BY <2>1, <3>1, <3>2
      <4>. QED BY <2>1, <4>1
    <3>3. CASE issued # 0
      BY <2>1, <3>1, <3>3
    <3>. QED BY <3>2, <3>3
  <2>5. CASE UNCHANGED <<lots, totalShares>>
    BY <2>5
  <2>. QED BY <1>1, <2>2, <2>3, <2>4, <2>5, LedgerCases
<1>2. LedgerInv /\ [LedgerNext]_ledgerVars => [A]_ledgerVars
  BY <1>1
<1>. QED
  BY <1>2, InitLedger, LedgerKept, PTL DEF LedgerSpec, ExitsDiluteNobody

\* The shares a deposit buys are worth at most the money put in plus one unit
\* per share bought (ledger.ts:159-171).
THEOREM DepositsAreFair == LedgerSpec => DepositsDiluteByDust
<1> DEFINE A == totalShares > 0 /\ totalShares' > totalShares /\ equityUsd' # equityUsd =>
        LET issued == totalShares' - totalShares IN
        issued * equityUsd * ONE <= totalShares * ((equityUsd' - equityUsd) * ONE + issued)
<1>1. ASSUME LedgerInv, [LedgerNext]_ledgerVars PROVE A
  <2>1. Ledger /\ LedgerTypeOK /\ lastAccrualMs <= nowMs
        /\ totalShares \in Nat /\ equityUsd \in Nat /\ ONE \in Nat
    BY <1>1, Typed, ConstantTypes DEF LedgerInv, Ledger, Clocks
  <2>2. ASSUME NEW m \in Members, NEW amount \in Nat, NEW exposure \in Nat,
               deposit(m, amount, exposure), totalShares > 0
        PROVE  A
    <3>1. PICK issued \in Nat \ {0} :
            /\ totalShares' = totalShares + issued
            /\ equityUsd' = equityUsd + amount
            /\ issued * navPerShare <= amount * ONE
      BY <2>1, <2>2, DepositStep
    <3>2. PICK n \in Nat : /\ n = navPerShare
                           /\ equityUsd * ONE < n * totalShares + totalShares
      BY <2>1, <2>2, Price
    <3>3. issued * equityUsd * ONE <= totalShares * (amount * ONE + issued)
      BY <2>1, <3>1, <3>2, DustOfADeposit
    <3>4. totalShares' - totalShares = issued /\ equityUsd' - equityUsd = amount
      BY <2>1, <3>1
    <3>. QED BY <3>3, <3>4
  <2>3. ASSUME NEW m \in Members, NEW shares \in Nat, NEW exposure \in Nat,
               withdraw(m, shares, exposure)
        PROVE  A
    <3>1. PICK part, fee, levy \in Nat : Exits(m, shares, part, fee, levy)
      BY <2>1, <2>3, WithdrawStep
    <3>2. totalShares' <= totalShares /\ totalShares' \in Nat
      BY <2>1, <3>1, ExitKeeps
    <3>. QED BY <2>1, <3>2
  <2>4. CASE accrueManagementFee
    BY <2>4 DEF accrueManagementFee
  <2>5. CASE UNCHANGED <<lots, totalShares>>
    BY <2>1, <2>5
  <2>6. CASE ~(totalShares > 0)
    BY <2>6
  <2>. QED BY <1>1, <2>2, <2>3, <2>4, <2>5, <2>6, LedgerCases
<1>2. LedgerInv /\ [LedgerNext]_ledgerVars => [A]_ledgerVars
  BY <1>1
<1>. QED
  BY <1>2, InitLedger, LedgerKept, PTL DEF LedgerSpec, DepositsDiluteByDust

-----------------------------------------------------------------------------
(* The order of the lots, and the lockup that relies on it. *)

Ordered(ls, t) ==
    \A i, j \in 1..Len(ls) :
        i <= j => ls[i].depositedAtMs <= ls[j].depositedAtMs /\ ls[j].depositedAtMs <= t

LEMMA OrderedConcat ==
    ASSUME NEW a \in Holding, NEW b \in Holding, NEW t \in Nat, Ordered(a, t),
           \A i \in 1..Len(b) : b[i].depositedAtMs = t
    PROVE  Ordered(a \o b, t)
<1>1. /\ a \o b \in Holding
      /\ Len(a \o b) = Len(a) + Len(b)
      /\ \A i \in 1..(Len(a) + Len(b)) :
            (a \o b)[i] = IF i <= Len(a) THEN a[i] ELSE b[i - Len(a)]
  BY ConcatProperties DEF Holding
<1>2. Len(a) \in Nat /\ Len(b) \in Nat
  BY LotTypes
<1>3. ASSUME NEW i \in 1..Len(a \o b)
      PROVE  \/ i \in 1..Len(a) /\ (a \o b)[i] = a[i] /\ a[i].depositedAtMs <= t
             \/ ~(i <= Len(a)) /\ (a \o b)[i].depositedAtMs = t
  <2>1. CASE i <= Len(a)
    <3>1. i \in 1..Len(a)
      BY <1>1, <1>2, <2>1
    <3>. QED BY <1>1, <2>1, <3>1 DEF Ordered
  <2>2. CASE ~(i <= Len(a))
    <3>1. i - Len(a) \in 1..Len(b) /\ (a \o b)[i] = b[i - Len(a)]
      BY <1>1, <1>2, <2>2
    <3>. QED BY <2>2, <3>1
  <2>. QED BY <2>1, <2>2
<1>4. ASSUME NEW i \in 1..Len(a \o b), NEW j \in 1..Len(a \o b), i <= j
      PROVE  /\ (a \o b)[i].depositedAtMs <= (a \o b)[j].depositedAtMs
             /\ (a \o b)[j].depositedAtMs <= t
  <2>1. CASE j \in 1..Len(a) /\ (a \o b)[j] = a[j] /\ a[j].depositedAtMs <= t
    <3>1. i \in 1..Len(a)
      BY <1>2, <1>4, <2>1
    <3>2. (a \o b)[i] = a[i]
      BY <1>2, <1>3, <3>1
    <3>3. a[i].depositedAtMs <= a[j].depositedAtMs
      BY <1>4, <2>1, <3>1 DEF Ordered
    <3>. QED BY <2>1, <3>2, <3>3
  <2>2. CASE (a \o b)[j].depositedAtMs = t
    <3>1. (a \o b)[i].depositedAtMs <= t
      BY <1>3
    <3>. QED BY <2>2, <3>1
  <2>. QED BY <1>3, <2>1, <2>2
<1>. QED
  BY <1>4 DEF Ordered

LEMMA OrderedKept ==
    ASSUME NEW ls \in Holding, NEW shares \in Nat, shares <= SharesIn(ls),
           NEW t \in Nat, Ordered(ls, t)
    PROVE  Ordered(Kept(ls, shares), t)
<1>1. CASE Kept(ls, shares) = <<>>
  BY <1>1 DEF Ordered
<1>2. ASSUME NEW k \in 1..Len(ls), Leaves(ls, shares, k)
      PROVE  Ordered(Kept(ls, shares), t)
  <2>1. PICK part \in Lot :
           /\ part.depositedAtMs = ls[k].depositedAtMs
           /\ <<part>> \in Holding /\ After(ls, k) \in Holding
           /\ Kept(ls, shares) = <<part>> \o After(ls, k)
    BY <1>2, PartLeft
  <2> DEFINE kept == Kept(ls, shares)
  <2>2. k \in 0..Len(ls) /\ Len(ls) \in Nat
    BY LotTypes
  <2>3. /\ Len(After(ls, k)) = Len(ls) - k
        /\ \A i \in 1..(Len(ls) - k) : After(ls, k)[i] = ls[k + i]
    BY <2>2, Split
  <2>4. /\ Len(<<part>>) = 1 /\ <<part>>[1] = part
        /\ Len(kept) = 1 + (Len(ls) - k)
        /\ \A i \in 1..(1 + (Len(ls) - k)) :
              kept[i] = IF i <= 1 THEN <<part>>[i] ELSE After(ls, k)[i - 1]
    <3>1. Len(<<part>>) = 1 /\ <<part>>[1] = part
      OBVIOUS
    <3>2. /\ Len(<<part>> \o After(ls, k)) = Len(<<part>>) + Len(After(ls, k))
          /\ \A i \in 1..(Len(<<part>>) + Len(After(ls, k))) :
                (<<part>> \o After(ls, k))[i]
                    = IF i <= Len(<<part>>) THEN <<part>>[i] ELSE After(ls, k)[i - Len(<<part>>)]
      BY <2>1, ConcatProperties DEF Holding
    <3>. QED BY <2>1, <2>3, <3>1, <3>2
  <2>5. ASSUME NEW i \in 1..Len(kept)
        PROVE  /\ k - 1 + i \in 1..Len(ls)
               /\ kept[i].depositedAtMs = ls[k - 1 + i].depositedAtMs
    <3> HIDE DEF kept
    <3>1. CASE i = 1
      <4>1. 1 \in 1..(1 + (Len(ls) - k)) /\ k - 1 + 1 = k
        BY <2>2
      <4>2. kept[1] = part
        BY <2>4, <4>1
      <4>. QED BY <2>1, <3>1, <4>1, <4>2
    <3>2. CASE i # 1
      <4>1. i - 1 \in 1..(Len(ls) - k) /\ k + (i - 1) = k - 1 + i
        BY <2>2, <2>4, <3>2
      <4>2. kept[i] = After(ls, k)[i - 1]
        BY <2>2, <2>4, <3>2
      <4>3. After(ls, k)[i - 1] = ls[k + (i - 1)]
        BY <2>3, <4>1
      <4>4. k - 1 + i \in 1..Len(ls)
        BY <2>2, <4>1
      <4>. QED BY <4>1, <4>2, <4>3, <4>4
    <3>. QED BY <3>1, <3>2
  <2>6. ASSUME NEW i \in 1..Len(kept), NEW j \in 1..Len(kept), i <= j
        PROVE  /\ kept[i].depositedAtMs <= kept[j].depositedAtMs
               /\ kept[j].depositedAtMs <= t
    <3> HIDE DEF kept
    <3>1. k - 1 + i \in 1..Len(ls) /\ k - 1 + j \in 1..Len(ls) /\ k - 1 + i <= k - 1 + j
      BY <2>4, <2>5, <2>6
    <3>2. /\ ls[k - 1 + i].depositedAtMs <= ls[k - 1 + j].depositedAtMs
          /\ ls[k - 1 + j].depositedAtMs <= t
      BY <3>1 DEF Ordered
    <3>. QED BY <2>5, <3>2
  <2>. QED BY <2>6 DEF Ordered
<1>. QED
  BY <1>1, <1>2, KeptIs

LEMMA ByEvery ==
    ASSUME NEW ls \in Holding, NEW t \in Int, \A i \in 1..Len(ls) : ls[i].depositedAtMs <= t
    PROVE  SharesBy(ls, t) = SharesIn(ls)
<1>1. MaxMs \in Int /\ IsFiniteSet(1..Len(ls))
  BY ConstantTypes, LotTypes
<1>2. \A i \in 1..Len(ls) : Counted(ls, t)[i] = Counted(ls, MaxMs)[i]
  <2> SUFFICES ASSUME NEW i \in 1..Len(ls)
               PROVE  Counted(ls, t)[i] = Counted(ls, MaxMs)[i]
    OBVIOUS
  <2>1. Counted(ls, t)[i] = ls[i].shares
    BY CountedTypes
  <2>2. ls[i].depositedAtMs <= MaxMs
    BY LotTypes, ConstantTypes
  <2>3. Counted(ls, MaxMs)[i] = ls[i].shares
    BY <1>1, <2>2, CountedTypes
  <2>. QED BY <2>1, <2>3
<1>3. SumFunctionOnSet(Counted(ls, t), 1..Len(ls))
          = SumFunctionOnSet(Counted(ls, MaxMs), 1..Len(ls))
  BY <1>1, <1>2, SumSame
<1>. QED
  BY <1>1, <1>3, CountedTypes, AllIsByTheEnd

LEMMA ByNone ==
    ASSUME NEW ls \in Holding, NEW t \in Int, \A i \in 1..Len(ls) : ~(ls[i].depositedAtMs <= t)
    PROVE  SharesBy(ls, t) = 0
<1>1. IsFiniteSet(1..Len(ls)) /\ \A i \in 1..Len(ls) : Counted(ls, t)[i] = 0
  BY LotTypes, CountedTypes
<1>2. SumFunctionOnSet(Counted(ls, t), 1..Len(ls)) = 0
  BY <1>1, SumZero
<1>. QED
  BY <1>2, CountedTypes

LockedBy(ls, t) == SharesIn(ls) - SharesBy(ls, t)

LEMMA LockedNat ==
    ASSUME NEW ls \in Holding, NEW t \in Int
    PROVE  LockedBy(ls, t) \in Nat
<1>1. SharesIn(ls) \in Nat /\ SharesBy(ls, t) \in Nat /\ SharesBy(ls, t) <= SharesIn(ls)
  BY SharesNat, SharesByNat, ByBelowAll
<1>. QED
  BY <1>1 DEF LockedBy

LEMMA LockedConcat ==
    ASSUME NEW a \in Holding, NEW b \in Holding, NEW t \in Int
    PROVE  a \o b \in Holding /\ LockedBy(a \o b, t) >= LockedBy(a, t)
<1>1. /\ SharesIn(a \o b) = SharesIn(a) + SharesIn(b)
      /\ SharesBy(a \o b, t) = SharesBy(a, t) + SharesBy(b, t)
      /\ a \o b \in Holding
  BY SharesConcat, ByConcat
<1>2. /\ SharesIn(a) \in Nat /\ SharesIn(b) \in Nat
      /\ SharesBy(a, t) \in Nat /\ SharesBy(b, t) \in Nat
      /\ SharesBy(b, t) <= SharesIn(b)
  BY SharesNat, SharesByNat, ByBelowAll
<1>. QED
  BY <1>1, <1>2 DEF LockedBy

\* An exit of no more than is unlocked leaves every locked share.
LEMMA LockedKept ==
    ASSUME NEW ls \in Holding, NEW now \in Nat, Ordered(ls, now), NEW t \in Int,
           NEW shares \in Nat, shares <= SharesBy(ls, t)
    PROVE  LockedBy(Kept(ls, shares), t) >= LockedBy(ls, t)
<1>1. /\ SharesIn(ls) \in Nat /\ SharesBy(ls, t) \in Nat
      /\ SharesBy(ls, t) <= SharesIn(ls) /\ shares <= SharesIn(ls)
  <2>1. /\ SharesIn(ls) \in Nat /\ SharesBy(ls, t) \in Nat
        /\ SharesBy(ls, t) <= SharesIn(ls)
    BY SharesNat, SharesByNat, ByBelowAll
  <2>. QED BY <2>1
<1>2. CASE shares = SharesIn(ls) /\ Kept(ls, shares) = <<>>
  BY <1>1, <1>2, SharesOfNone, ByOfNone DEF LockedBy
<1>3. ASSUME NEW k \in 1..Len(ls), Leaves(ls, shares, k)
      PROVE  LockedBy(Kept(ls, shares), t) >= LockedBy(ls, t)
  <2> DEFINE A == After(ls, k)
             B == Before(ls, k)
             C == Before(ls, k - 1)
  <2>1. PICK part \in Lot :
           /\ part.shares = SharesIn(B) - shares
           /\ part.depositedAtMs = ls[k].depositedAtMs
           /\ <<part>> \in Holding /\ A \in Holding
           /\ Kept(ls, shares) = <<part>> \o A
    BY <1>3, PartLeft
  <2>2. k \in 0..Len(ls) /\ k - 1 \in 0..Len(ls) /\ Len(ls) \in Nat
    BY LotTypes
  <2>3. /\ B \in Holding /\ C \in Holding
        /\ Len(B) = k /\ Len(A) = Len(ls) - k
        /\ \A i \in 1..k : B[i] = ls[i]
        /\ \A i \in 1..(Len(ls) - k) : A[i] = ls[k + i]
    BY <2>2, Split
  <2>4. /\ SharesIn(ls) = SharesIn(B) + SharesIn(A)
        /\ SharesBy(ls, t) = SharesBy(B, t) + SharesBy(A, t)
    BY <2>2, SplitShares
  <2>5. /\ SharesIn(B) = SharesIn(C) + ls[k].shares
        /\ SharesBy(B, t) = SharesBy(C, t)
               + (IF ls[k].depositedAtMs <= t THEN ls[k].shares ELSE 0)
    BY PrefixGrows
  <2>6. /\ SharesIn(Kept(ls, shares)) = part.shares + SharesIn(A)
        /\ SharesBy(Kept(ls, shares), t)
               = (IF part.depositedAtMs <= t THEN part.shares ELSE 0) + SharesBy(A, t)
    <3>1. /\ SharesIn(<<part>>) = part.shares
          /\ SharesBy(<<part>>, t) = IF part.depositedAtMs <= t THEN part.shares ELSE 0
      BY SharesOfOne, ByOne
    <3>2. /\ SharesIn(<<part>> \o A) = SharesIn(<<part>>) + SharesIn(A)
          /\ SharesBy(<<part>> \o A, t) = SharesBy(<<part>>, t) + SharesBy(A, t)
      <4> HIDE DEF A
      <4>. QED BY <2>1, SharesConcat, ByConcat
    <3>. QED BY <2>1, <3>1, <3>2
  <2>7. /\ SharesIn(A) \in Nat /\ SharesBy(A, t) \in Nat
        /\ SharesIn(B) \in Nat /\ SharesBy(B, t) \in Nat
        /\ SharesIn(C) \in Nat /\ SharesBy(C, t) \in Nat
    <3> HIDE DEF A, B, C
    <3>. QED BY <2>1, <2>3, SharesNat, SharesByNat
  <2>8. ls[k].shares \in Nat /\ \A i \in 1..Len(ls) : ls[i].depositedAtMs \in Nat
    BY LotTypes
  <2>9. CASE ls[k].depositedAtMs <= t
    <3>1. \A i \in 1..Len(B) : B[i].depositedAtMs <= t
      <4> SUFFICES ASSUME NEW i \in 1..Len(B) PROVE B[i].depositedAtMs <= t
        OBVIOUS
      <4>1. i \in 1..Len(ls) /\ i <= k /\ B[i] = ls[i]
        BY <2>2, <2>3
      <4>2. ls[i].depositedAtMs <= ls[k].depositedAtMs
        BY <4>1 DEF Ordered
      <4>. QED BY <2>8, <2>9, <4>1, <4>2
    <3>2. SharesBy(B, t) = SharesIn(B)
      <4> HIDE DEF B
      <4>. QED BY <2>3, <3>1, ByEvery
    <3> HIDE DEF A, B, C
    <3>3. part.shares \in Int
      BY <2>1, <2>7
    <3>4. LockedBy(ls, t) = SharesIn(A) - SharesBy(A, t)
      BY <2>4, <2>7, <3>2 DEF LockedBy
    <3>5. LockedBy(Kept(ls, shares), t) = SharesIn(A) - SharesBy(A, t)
      BY <2>1, <2>6, <2>7, <2>9, <3>3 DEF LockedBy
    <3>. QED BY <2>7, <3>4, <3>5
  <2>10. CASE ~(ls[k].depositedAtMs <= t)
    <3>1. \A i \in 1..Len(A) : ~(A[i].depositedAtMs <= t)
      <4> SUFFICES ASSUME NEW i \in 1..Len(A) PROVE ~(A[i].depositedAtMs <= t)
        OBVIOUS
      <4>1. k + i \in 1..Len(ls) /\ k <= k + i /\ A[i] = ls[k + i]
        BY <2>2, <2>3
      <4>2. ls[k].depositedAtMs <= ls[k + i].depositedAtMs
        BY <4>1 DEF Ordered
      <4>. QED BY <2>8, <2>10, <4>1, <4>2
    <3>2. SharesBy(A, t) = 0
      <4> HIDE DEF A
      <4>. QED BY <2>1, <3>1, ByNone
    <3> HIDE DEF A, B, C
    <3>3. SharesBy(B, t) = SharesBy(C, t)
      BY <2>5, <2>7, <2>10
    <3>4. part.shares \in Int
      BY <2>1, <2>7
    <3>5. LockedBy(Kept(ls, shares), t) = SharesIn(B) - shares + SharesIn(A)
      BY <2>1, <2>6, <2>7, <2>10, <3>2, <3>4 DEF LockedBy
    <3>6. LockedBy(ls, t) = SharesIn(B) + SharesIn(A) - SharesBy(ls, t)
      BY <2>4, <2>7 DEF LockedBy
    <3>. QED BY <1>1, <2>7, <3>5, <3>6
  <2>. QED BY <2>9, <2>10
<1>. QED
  BY <1>1, <1>2, <1>3, KeptIs

\* What fees add to the lots of a member.
LEMMA WithFeesAdds ==
    ASSUME LedgerTypeOK, NEW held \in [Members -> Holding], NEW a \in Nat, NEW b \in Nat,
           NEW m \in Members
    PROVE  \E x, y \in Holding :
              /\ WithFees(held, a, b)[m] = held[m] \o x \o y
              /\ \A i \in 1..Len(x) : x[i].depositedAtMs = nowMs
              /\ \A i \in 1..Len(y) : y[i].depositedAtMs = nowMs
              /\ m # leaderId \/ a = 0 => x = <<>>
              /\ m # treasuryId \/ b = 0 => y = <<>>
<1> DEFINE x == IF m = leaderId THEN FeeLot(a) ELSE <<>>
           y == IF m = treasuryId THEN FeeLot(b) ELSE <<>>
<1>1. WithFees(held, a, b)[m] = held[m] \o x \o y
  BY DEF WithFees, FeeLot
<1>2. <<>> \in Holding /\ Len(<<>>) = 0 /\ navPerShare \in Nat
  BY Price DEF Holding
<1>3. ASSUME NEW fee \in Nat
      PROVE  /\ FeeLot(fee) \in Holding
             /\ \A i \in 1..Len(FeeLot(fee)) : FeeLot(fee)[i].depositedAtMs = nowMs
             /\ fee = 0 => FeeLot(fee) = <<>>
  <2>1. FeeLot(fee) \in Holding
    BY FeeLotTypes
  <2>2. CASE fee = 0
    BY <1>2, <2>1, <2>2 DEF FeeLot
  <2>3. CASE fee # 0
    <3>1. fee \in Nat \ {0} /\ FeeLot(fee) = NewLot(fee, navPerShare)
      BY <2>3 DEF FeeLot
    <3>2. /\ Len(FeeLot(fee)) = 1 /\ FeeLot(fee)[1].depositedAtMs = nowMs
      BY <1>2, <3>1, NewLotTypes
    <3>3. \A i \in 1..1 : i = 1
      OBVIOUS
    <3>. QED BY <2>1, <2>3, <3>2, <3>3
  <2>. QED BY <2>2, <2>3
<1>4. x \in Holding /\ (\A i \in 1..Len(x) : x[i].depositedAtMs = nowMs)
      /\ (m # leaderId \/ a = 0 => x = <<>>)
  BY <1>2, <1>3
<1>5. y \in Holding /\ (\A i \in 1..Len(y) : y[i].depositedAtMs = nowMs)
      /\ (m # treasuryId \/ b = 0 => y = <<>>)
  BY <1>2, <1>3
<1>. HIDE DEF x, y
<1>. QED
  BY <1>1, <1>4, <1>5

\* Every step but an exit adds lots of the present moment to what members hold.
Adds(m) ==
    \E x \in Holding : /\ lots'[m] = lots[m] \o x
                       /\ \A i \in 1..Len(x) : x[i].depositedAtMs = nowMs

LEMMA OthersAdd ==
    ASSUME LedgerInv, [LedgerNext]_ledgerVars, NEW m \in Members,
           ~ \E x \in Members, shares \in Nat, exposure \in Nat : withdraw(x, shares, exposure)
    PROVE  Adds(m)
<1>1. /\ Ledger /\ LedgerTypeOK /\ lastAccrualMs <= nowMs
      /\ lots \in [Members -> Holding] /\ lots[m] \in Holding
  BY Typed DEF LedgerInv, Ledger, Clocks
<1>2. <<>> \in Holding /\ Len(<<>>) = 0 /\ lots[m] \o <<>> = lots[m]
  BY <1>1, ConcatEmptySeq DEF Holding
<1>3. ASSUME lots'[m] = lots[m] PROVE Adds(m)
  <2> DEFINE x == <<>>
  <2>1. x \in Holding /\ lots'[m] = lots[m] \o x
    BY <1>2, <1>3
  <2>2. \A i \in 1..Len(x) : x[i].depositedAtMs = nowMs
    BY <1>2
  <2>. HIDE DEF x
  <2>. QED BY <2>1, <2>2 DEF Adds
<1>4. ASSUME NEW y \in Members, NEW amount \in Nat, NEW exposure \in Nat,
             deposit(y, amount, exposure)
      PROVE  Adds(m)
  <2>1. PICK issued \in Nat \ {0} : lots' = [lots EXCEPT ![y] = @ \o NewLot(issued, navPerShare)]
    BY <1>1, <1>4, DepositStep
  <2>2. PICK x \in Holding : /\ x = NewLot(issued, navPerShare)
                             /\ Len(x) = 1 /\ x[1].depositedAtMs = nowMs
    BY <1>1, Price, NewLotTypes
  <2>3. CASE m = y
    <3>1. lots'[m] = lots[m] \o x
      BY <1>1, <2>1, <2>2, <2>3
    <3>2. \A i \in 1..Len(x) : x[i].depositedAtMs = nowMs
      BY <2>2
    <3>. QED BY <3>1, <3>2 DEF Adds
  <2>4. CASE m # y
    BY <1>1, <1>3, <2>1, <2>4
  <2>. QED BY <2>3, <2>4
<1>5. CASE accrueManagementFee
  <2>1. PICK issued \in Nat : lots' = [lots EXCEPT ![leaderId] = @ \o FeeLot(issued)]
    BY <1>1, <1>5, AccrueStep
  <2>2. CASE m # leaderId \/ issued = 0
    <3>1. CASE m # leaderId
      BY <1>1, <1>3, <2>1, <3>1
    <3>2. CASE m = leaderId /\ issued = 0
      <4>1. FeeLot(issued) = <<>>
        BY <3>2 DEF FeeLot
      <4>2. lots'[m] = lots[m] \o <<>>
        BY <1>1, <2>1, <3>2, <4>1
      <4>. QED BY <1>2, <1>3, <4>2
    <3>. QED BY <2>2, <3>1, <3>2
  <2>3. CASE m = leaderId /\ issued # 0
    <3>1. PICK x \in Holding : /\ x = NewLot(issued, navPerShare)
                               /\ Len(x) = 1 /\ x[1].depositedAtMs = nowMs
      BY <1>1, <2>3, Price, NewLotTypes
    <3>2. lots'[m] = lots[m] \o x
      BY <1>1, <2>1, <2>3, <3>1 DEF FeeLot
    <3>3. \A i \in 1..Len(x) : x[i].depositedAtMs = nowMs
      BY <3>1
    <3>. QED BY <3>2, <3>3 DEF Adds
  <2>. QED BY <2>2, <2>3
<1>6. CASE UNCHANGED <<lots, totalShares>>
  BY <1>3, <1>6
<1>. QED
  BY <1>4, <1>5, <1>6, LedgerCases

\* An exit keeps, of the lots of the member who leaves, what Kept says, and
\* of every other all, and adds lots of the present moment to some.
ExitKeeping(x, shares, part, fee, m, a, b) ==
    /\ lots'[m] = (IF m = x THEN Kept(lots[m], shares) ELSE lots[m]) \o a \o b
    /\ \A i \in 1..Len(a) : a[i].depositedAtMs = nowMs
    /\ \A i \in 1..Len(b) : b[i].depositedAtMs = nowMs
    /\ m # leaderId \/ fee = 0 => a = <<>>
    /\ m # treasuryId \/ part = 0 => b = <<>>

LEMMA ExitsKeep ==
    ASSUME Ledger, NEW x \in Members, NEW shares, NEW part, NEW fee, NEW levy,
           Exits(x, shares, part, fee, levy), NEW m \in Members
    PROVE  /\ shares \in Nat /\ shares <= unlockedShares(x) /\ shares <= SharesIn(lots[x])
           /\ \E a, b \in Holding : ExitKeeping(x, shares, part, fee, m, a, b)
<1>1. /\ LedgerTypeOK /\ lots \in [Members -> Holding] /\ lots[x] \in Holding
  BY Typed DEF Ledger
<1>2. /\ shares \in Nat /\ shares <= unlockedShares(x)
      /\ part \in Nat /\ fee \in Nat
      /\ lots' = WithFees([lots EXCEPT ![x] = Kept(@, shares)], fee, part)
  BY DEF Exits
<1>3. /\ unlockedShares(x) \in Nat /\ SharesIn(lots[x]) \in Nat
      /\ unlockedShares(x) <= SharesIn(lots[x])
  BY Unlocks DEF sharesOf
<1>4. shares <= SharesIn(lots[x])
  BY <1>2, <1>3
<1>5. PICK left \in Holding : left = Kept(lots[x], shares)
  BY <1>1, <1>2, <1>4, KeptShares
<1>6. PICK held \in [Members -> Holding] :
        /\ held = [lots EXCEPT ![x] = left]
        /\ held[m] = IF m = x THEN Kept(lots[m], shares) ELSE lots[m]
  <2> DEFINE h == [lots EXCEPT ![x] = left]
  <2>1. h \in [Members -> Holding] /\ h[m] = IF m = x THEN Kept(lots[m], shares) ELSE lots[m]
    BY <1>1, <1>5
  <2>. HIDE DEF h
  <2>2. h = [lots EXCEPT ![x] = left]
    BY DEF h
  <2>. QED BY <2>1, <2>2
<1>7. lots' = WithFees(held, fee, part)
  BY <1>2, <1>5, <1>6
<1>8. \E a, b \in Holding :
         /\ WithFees(held, fee, part)[m] = held[m] \o a \o b
         /\ \A i \in 1..Len(a) : a[i].depositedAtMs = nowMs
         /\ \A i \in 1..Len(b) : b[i].depositedAtMs = nowMs
         /\ m # leaderId \/ fee = 0 => a = <<>>
         /\ m # treasuryId \/ part = 0 => b = <<>>
  BY <1>1, <1>2, WithFeesAdds
<1>. QED
  BY <1>2, <1>4, <1>6, <1>7, <1>8 DEF ExitKeeping

LEMMA ClockCases ==
    ASSUME [LedgerNext]_ledgerVars
    PROVE  nowMs' = nowMs \/ (nowMs' = nowMs + 1 /\ lots' = lots)
BY DEF LedgerNext, LedgerTick, LedgerOp, deposit, withdraw, accrueManagementFee,
       lowerPlatformFee, Reprice, ledgerVars

InOrder == \A m \in Members : Ordered(lots[m], nowMs)

LEMMA OrderKept ==
    ASSUME LedgerInv, InOrder, [LedgerNext]_ledgerVars
    PROVE  InOrder'
<1>1. /\ Ledger /\ LedgerTypeOK /\ nowMs \in Nat /\ lots \in [Members -> Holding]
  BY Typed, ConstantTypes DEF LedgerInv, Ledger
<1>2. SUFFICES ASSUME NEW m \in Members PROVE Ordered(lots'[m], nowMs')
  BY DEF InOrder
<1>3. Ordered(lots[m], nowMs) /\ lots[m] \in Holding
  BY <1>1 DEF InOrder
<1>4. CASE nowMs' = nowMs + 1 /\ lots' = lots
  <2>1. \A i \in 1..Len(lots[m]) : lots[m][i].depositedAtMs \in Nat
    BY <1>3, LotTypes
  <2>. QED BY <1>1, <1>3, <1>4, <2>1 DEF Ordered
<1>5. ASSUME nowMs' = nowMs,
             NEW x \in Members, NEW shares \in Nat, NEW exposure \in Nat,
             withdraw(x, shares, exposure)
      PROVE  Ordered(lots'[m], nowMs')
  <2>1. PICK part, fee, levy \in Nat : Exits(x, shares, part, fee, levy)
    BY <1>1, <1>5, WithdrawStep
  <2>2. PICK a, b \in Holding :
           /\ lots'[m] = (IF m = x THEN Kept(lots[m], shares) ELSE lots[m]) \o a \o b
           /\ \A i \in 1..Len(a) : a[i].depositedAtMs = nowMs
           /\ \A i \in 1..Len(b) : b[i].depositedAtMs = nowMs
    <3>1. \E a, b \in Holding : ExitKeeping(x, shares, part, fee, m, a, b)
      BY <1>1, <2>1, ExitsKeep
    <3>. QED BY <3>1 DEF ExitKeeping
  <2>3. shares <= SharesIn(lots[x])
    BY <1>1, <2>1, ExitsKeep
  <2>4. PICK left \in Holding : /\ left = IF m = x THEN Kept(lots[m], shares) ELSE lots[m]
                                /\ Ordered(left, nowMs)
    <3>1. CASE m = x
      BY <1>1, <1>3, <2>3, <3>1, KeptShares, OrderedKept
    <3>2. CASE m # x
      BY <1>3, <3>2
    <3>. QED BY <3>1, <3>2
  <2>5. left \o a \in Holding /\ Ordered(left \o a, nowMs)
    BY <1>1, <2>2, <2>4, OrderedConcat, SharesConcat
  <2>6. Ordered((left \o a) \o b, nowMs)
    BY <1>1, <2>2, <2>5, OrderedConcat
  <2>. QED BY <1>5, <2>2, <2>4, <2>6
<1>6. CASE /\ nowMs' = nowMs
           /\ ~ \E x \in Members, shares \in Nat, exposure \in Nat : withdraw(x, shares, exposure)
  <2>1. Adds(m)
    BY <1>6, OthersAdd
  <2>2. PICK x \in Holding : /\ lots'[m] = lots[m] \o x
                             /\ \A i \in 1..Len(x) : x[i].depositedAtMs = nowMs
    BY <2>1 DEF Adds
  <2>. QED BY <1>1, <1>3, <1>6, <2>2, OrderedConcat
<1>. QED
  BY <1>4, <1>5, <1>6, ClockCases

LEMMA InitOrder == LedgerInit => InOrder
BY DEF LedgerInit, InOrder, Ordered

\* Lots stay in the order of their deposits, so the code's sorts of them, and
\* this model's not sorting them, change nothing (ledger.ts:258, 274).
THEOREM SortsMoveNothing == LedgerSpec => []LotsInOrder
<1>1. LedgerInv /\ InOrder => LotsInOrder
  <2> SUFFICES ASSUME LedgerInv, InOrder, NEW m \in Members,
                      NEW i \in DOMAIN lots[m], NEW j \in DOMAIN lots[m], i <= j
               PROVE  /\ lots[m][i].depositedAtMs <= lots[m][j].depositedAtMs
                      /\ lots[m][j].depositedAtMs <= nowMs
    BY DEF LotsInOrder
  <2>1. lots[m] \in Holding
    BY Typed DEF LedgerInv, Ledger
  <2>2. i \in 1..Len(lots[m]) /\ j \in 1..Len(lots[m])
    BY <2>1, LotTypes
  <2>. QED BY <2>2 DEF InOrder, Ordered
<1>2. LedgerInv /\ InOrder /\ [LedgerNext]_ledgerVars => InOrder'
  BY OrderKept
<1>. QED
  BY <1>1, <1>2, InitLedger, LedgerKept, InitOrder, PTL DEF LedgerSpec

LEMMA LockedIs ==
    ASSUME NEW m
    PROVE  /\ Locked(m) = LockedBy(lots[m], nowMs - policy.lockupSec * MsPerSec)
           /\ Locked(m)' = LockedBy(lots'[m], nowMs' - policy'.lockupSec * MsPerSec)
BY DEF Locked, LockedBy, sharesOf, unlockedShares, UnlockedIn, Unlocked, SharesBy, Counted

\* No operation takes shares out of a lot that is still locked
\* (ledger.ts:190-196, 251-274).
THEOREM LockedSharesStay == LedgerSpec => LockupHolds
<1> DEFINE A == nowMs' = nowMs => \A m \in Members : Locked(m)' >= Locked(m)
<1>1. ASSUME LedgerInv, InOrder, [LedgerNext]_ledgerVars PROVE A
  <2>1. SUFFICES ASSUME nowMs' = nowMs, NEW m \in Members PROVE Locked(m)' >= Locked(m)
    OBVIOUS
  <2>2. /\ Ledger /\ LedgerTypeOK /\ nowMs \in Nat /\ lots \in [Members -> Holding]
        /\ lots[m] \in Holding
    BY <1>1, Typed, ConstantTypes DEF LedgerInv, Ledger
  <2>3. PICK t \in Int : t = nowMs - policy.lockupSec * MsPerSec
    BY <2>2, UnlockTime
  <2>4. /\ Locked(m) = LockedBy(lots[m], t)
        /\ Locked(m)' = LockedBy(lots'[m], t)
    <3>1. policy'.lockupSec = policy.lockupSec
      BY <1>1, LedgerCases
    <3>. QED BY <2>1, <2>3, <3>1, LockedIs
  <2>5. LockedBy(lots[m], t) \in Nat
    BY <2>2, LockedNat
  <2>6. ASSUME NEW x \in Members, NEW shares \in Nat, NEW exposure \in Nat,
               withdraw(x, shares, exposure)
        PROVE  LockedBy(lots'[m], t) >= LockedBy(lots[m], t)
    <3>1. PICK part, fee, levy \in Nat : Exits(x, shares, part, fee, levy)
      BY <2>2, <2>6, WithdrawStep
    <3>2. PICK a, b \in Holding :
             lots'[m] = (IF m = x THEN Kept(lots[m], shares) ELSE lots[m]) \o a \o b
      <4>1. \E a, b \in Holding : ExitKeeping(x, shares, part, fee, m, a, b)
        BY <2>2, <3>1, ExitsKeep
      <4>. QED BY <4>1 DEF ExitKeeping
    <3>3. shares <= unlockedShares(x) /\ shares <= SharesIn(lots[x])
      BY <2>2, <3>1, ExitsKeep
    <3>4. PICK left \in Holding : /\ left = IF m = x THEN Kept(lots[m], shares) ELSE lots[m]
                                  /\ LockedBy(left, t) >= LockedBy(lots[m], t)
      <4>1. CASE m = x
        <5>1. shares <= SharesBy(lots[m], t)
          BY <2>2, <2>3, <3>3, <4>1, Unlocks
        <5>2. Ordered(lots[m], nowMs)
          BY <1>1 DEF InOrder
        <5>3. LockedBy(Kept(lots[m], shares), t) >= LockedBy(lots[m], t)
          BY <2>2, <5>1, <5>2, LockedKept
        <5>4. Kept(lots[m], shares) \in Holding
          BY <2>2, <3>3, <4>1, KeptShares
        <5>. QED BY <4>1, <5>3, <5>4
      <4>2. CASE m # x
        BY <2>2, <2>5, <4>2
      <4>. QED BY <4>1, <4>2
    <3>5. left \o a \in Holding /\ LockedBy(left \o a, t) >= LockedBy(left, t)
      BY LockedConcat
    <3>6. LockedBy((left \o a) \o b, t) >= LockedBy(left \o a, t)
      BY <3>5, LockedConcat
    <3>7. /\ (left \o a) \o b \in Holding
          /\ LockedBy(left, t) \in Nat /\ LockedBy(left \o a, t) \in Nat
          /\ LockedBy((left \o a) \o b, t) \in Nat
      BY <3>5, LockedConcat, LockedNat
    <3>8. lots'[m] = (left \o a) \o b
      BY <3>2, <3>4
    <3>. QED BY <2>5, <3>4, <3>5, <3>6, <3>7, <3>8
  <2>7. CASE ~ \E x \in Members, shares \in Nat, exposure \in Nat :
                    withdraw(x, shares, exposure)
    <3>1. PICK x \in Holding : lots'[m] = lots[m] \o x
      BY <1>1, <2>7, OthersAdd DEF Adds
    <3>. QED BY <2>2, <2>4, <3>1, LockedConcat
  <2>. QED BY <2>4, <2>6, <2>7
<1>2. LedgerInv /\ InOrder /\ [LedgerNext]_ledgerVars => [A]_ledgerVars
  BY <1>1
<1>3. LedgerInv /\ InOrder /\ [LedgerNext]_ledgerVars => InOrder'
  BY OrderKept
<1>. QED
  BY <1>2, <1>3, InitLedger, LedgerKept, InitOrder, PTL DEF LedgerSpec, LockupHolds

-----------------------------------------------------------------------------
(* The leader's fee. *)

\* An exit that stops at lot k takes nothing from the lots after it.
LEMMA NothingTakenAfter ==
    ASSUME NEW ls \in Holding, NEW shares \in Nat, NEW k, Leaves(ls, shares, k),
           NEW i \in 1..Len(ls), k < i
    PROVE  Taken(ls, shares)[i] = 0
<1>1. /\ k \in 1..Len(ls) /\ shares < SharesIn(Before(ls, k)) /\ Len(ls) \in Nat
  BY LotTypes DEF Leaves
<1>2. /\ i - 1 \in 1..Len(ls) /\ i - 1 \in 0..Len(ls)
      /\ k \in 1..(i - 1) /\ k \in 0..(i - 1)
  BY <1>1
<1>3. PICK p \in Holding : p = Before(ls, i - 1) /\ Len(p) = i - 1
  BY <1>2, Split
<1>4. Before(p, k) = Before(ls, k)
  <2>1. /\ ls \in Seq(Lot) /\ 1 \in 1..Len(ls)
        /\ 1 \in 1..((i - 1) - 1 + 1) /\ k \in 1..((i - 1) - 1 + 1)
    BY <1>1, <1>2 DEF Holding
  <2>2. SubSeq(SubSeq(ls, 1, i - 1), 1, k) = SubSeq(ls, 1 + 1 - 1, 1 + k - 1)
    BY <1>2, <2>1, SubSeqOfSubSeq
  <2>3. 1 + 1 - 1 = 1 /\ 1 + k - 1 = k
    BY <1>1
  <2>. QED BY <1>3, <2>2, <2>3 DEF Before
<1>5. SharesIn(p) >= SharesIn(Before(ls, k))
  <2>1. k \in 0..Len(p) /\ 0 \in Int
    BY <1>2, <1>3
  <2>2. SharesIn(p) = SharesIn(Before(p, k)) + SharesIn(After(p, k))
    BY <2>1, SplitShares
  <2>3. Before(p, k) \in Holding /\ After(p, k) \in Holding
    BY <2>1, Split
  <2>4. SharesIn(Before(p, k)) \in Nat /\ SharesIn(After(p, k)) \in Nat
    BY <2>3, SharesNat
  <2>. QED BY <1>4, <2>2, <2>4
<1>6. SharesIn(p) \in Nat /\ SharesIn(Before(ls, k)) \in Nat
  <2>1. Before(ls, k) \in Holding
    BY <1>1, Split
  <2>. QED BY <1>3, <2>1, SharesNat
<1>7. i \in DOMAIN ls /\ ls[i].shares \in Nat \ {0}
  BY LotTypes
<1>8. Taken(ls, shares)[i] = Lesser(ls[i].shares, Greater(0, shares - SharesIn(p)))
  BY <1>3, <1>7 DEF Taken, Before
<1>9. shares - SharesIn(p) <= 0 /\ shares - SharesIn(p) \in Int
  BY <1>1, <1>5, <1>6
<1>. QED
  BY <1>7, <1>8, <1>9 DEF Lesser, Greater

\* What an exit takes shares from is gone or smaller afterwards.
LEMMA TakenIsShrunk ==
    ASSUME NEW m, NEW ls \in Holding, lots[m] = ls,
           NEW shares \in Nat, shares <= SharesIn(ls), lots'[m] = Kept(ls, shares),
           NEW i \in 1..Len(ls), Taken(ls, shares)[i] # 0
    PROVE  i \in Shrunk(m)
<1>1. Len(ls) \in Nat /\ DOMAIN ls = 1..Len(ls)
  BY LotTypes
<1>2. CASE Kept(ls, shares) = <<>>
  <2>1. Len(lots'[m]) = 0 /\ i <= Len(ls) - 0
    BY <1>1, <1>2
  <2>. QED BY <1>1, <2>1 DEF Shrunk
<1>3. ASSUME NEW k \in 1..Len(ls), Leaves(ls, shares, k)
      PROVE  i \in Shrunk(m)
  <2>1. PICK part \in Lot :
           /\ part.shares = SharesIn(Before(ls, k)) - shares
           /\ <<part>> \in Holding /\ After(ls, k) \in Holding
           /\ Kept(ls, shares) = <<part>> \o After(ls, k)
    <3> DEFINE w == [ls[k] EXCEPT !.shares = SharesIn(Before(ls, k)) - shares]
    <3>1. /\ w \in Lot
          /\ w.shares = SharesIn(Before(ls, k)) - shares
          /\ <<w>> \in Holding /\ After(ls, k) \in Holding
          /\ Kept(ls, shares) = <<w>> \o After(ls, k)
      BY <1>3, PartLeft
    <3>. HIDE DEF w
    <3>. QED BY <3>1
  <2>2. Len(After(ls, k)) = Len(ls) - k
    BY Split
  <2>3. /\ Len(lots'[m]) = 1 + (Len(ls) - k)
        /\ lots'[m][1] = part
    <3>1. Len(<<part>>) = 1 /\ <<part>>[1] = part
      OBVIOUS
    <3>2. /\ Len(<<part>> \o After(ls, k)) = Len(<<part>>) + Len(After(ls, k))
          /\ \A j \in 1..(Len(<<part>>) + Len(After(ls, k))) :
                (<<part>> \o After(ls, k))[j]
                    = IF j <= Len(<<part>>) THEN <<part>>[j] ELSE After(ls, k)[j - Len(<<part>>)]
      BY <2>1, ConcatProperties DEF Holding
    <3>3. 1 \in 1..(Len(<<part>>) + Len(After(ls, k))) /\ 1 <= Len(<<part>>)
      BY <1>1, <2>2, <3>1
    <3>4. (<<part>> \o After(ls, k))[1] = part
      BY <3>1, <3>2, <3>3
    <3>. QED BY <2>1, <2>2, <3>1, <3>2, <3>4
  <2>4. Len(ls) - Len(lots'[m]) = k - 1
    BY <1>1, <2>3
  <2>5. i <= k
    BY <1>1, <1>3, NothingTakenAfter
  <2>6. CASE i < k
    <3>1. i <= k - 1
      BY <2>6
    <3>. QED BY <1>1, <2>4, <3>1 DEF Shrunk
  <2>7. CASE i = k
    <3>1. /\ SharesIn(Before(ls, k - 1)) <= shares
          /\ SharesIn(Before(ls, k)) = SharesIn(Before(ls, k - 1)) + ls[k].shares
      <4>1. 0 \in Int
        OBVIOUS
      <4>. QED BY <1>3, <4>1, PrefixGrows DEF Leaves
    <3>2. SharesIn(Before(ls, k - 1)) \in Nat /\ ls[k].shares \in Nat
      <4>1. k - 1 \in 0..Len(ls)
        BY <1>1
      <4>2. Before(ls, k - 1) \in Holding
        BY <4>1, Split
      <4>. QED BY <4>2, SharesNat, LotTypes
    <3>3. ASSUME SharesIn(Before(ls, k - 1)) = shares PROVE FALSE
      <4>1. Taken(ls, shares)[k] = Lesser(ls[k].shares, Greater(0, shares - SharesIn(Before(ls, k - 1))))
        BY <1>1 DEF Taken, Before
      <4>2. shares - SharesIn(Before(ls, k - 1)) = 0
        BY <3>3
      <4>3. Taken(ls, shares)[k] = 0
        BY <3>2, <4>1, <4>2 DEF Lesser, Greater
      <4>. QED BY <2>7, <4>3
    <3>4. part.shares # ls[k].shares
      BY <2>1, <3>1, <3>2, <3>3
    <3>5. lots'[m][i - (k - 1)] # ls[i]
      <4>1. i - (k - 1) = 1
        BY <2>7
      <4>2. part # ls[i]
        BY <2>7, <3>4
      <4>. QED BY <2>3, <4>1, <4>2
    <3>. QED BY <1>1, <2>4, <3>5 DEF Shrunk
  <2>. QED BY <2>5, <2>6, <2>7
<1>. QED
  BY <1>2, <1>3, KeptIs

\* The leader earns nothing on an exit from lots bought at or above today's
\* price, unless the leader is the treasury too (ledger.ts:7-15, 258-271).
THEOREM RecoveryIsFree ==
    ASSUME leaderId # treasuryId PROVE LedgerSpec => NoFeeOnRecovery
<1> DEFINE A == \A m \in Members \ {leaderId} :
          sharesOf(m)' < sharesOf(m) /\ (\A i \in Shrunk(m) : lots[m][i].hwmNav >= navPerShare)
              => sharesOf(leaderId)' = sharesOf(leaderId)
<1>1. ASSUME LedgerInv, [LedgerNext]_ledgerVars PROVE A
  <2>1. SUFFICES ASSUME NEW m \in Members \ {leaderId}, sharesOf(m)' < sharesOf(m),
                        \A i \in Shrunk(m) : lots[m][i].hwmNav >= navPerShare
                 PROVE  sharesOf(leaderId)' = sharesOf(leaderId)
    OBVIOUS
  <2>2. /\ Ledger /\ LedgerTypeOK /\ lots \in [Members -> Holding]
        /\ lots[m] \in Holding /\ m \in Members
        /\ leaderId \in Members /\ lots[leaderId] \in Holding
    BY <1>1, <2>1, Typed, ConstantTypes DEF LedgerInv, Ledger
  <2>3. SharesIn(lots'[m]) < SharesIn(lots[m])
    BY <2>1 DEF sharesOf
  <2>4. ASSUME NEW a \in Holding, lots'[m] = lots[m] \o a PROVE FALSE
    <3>1. SharesIn(lots[m] \o a) = SharesIn(lots[m]) + SharesIn(a)
      BY <2>2, SharesConcat
    <3>2. SharesIn(lots[m]) \in Nat /\ SharesIn(a) \in Nat
      BY <2>2, SharesNat
    <3>. QED BY <2>3, <2>4, <3>1, <3>2
  <2>5. CASE ~ \E x \in Members, shares \in Nat, exposure \in Nat :
                    withdraw(x, shares, exposure)
    BY <1>1, <2>2, <2>4, <2>5, OthersAdd DEF Adds
  <2>6. ASSUME NEW x \in Members, NEW shares \in Nat, NEW exposure \in Nat,
               withdraw(x, shares, exposure)
        PROVE  sharesOf(leaderId)' = sharesOf(leaderId)
    <3>1. PICK part, fee, levy \in Nat : Exits(x, shares, part, fee, levy)
      BY <2>2, <2>6, WithdrawStep
    <3>2. PICK a, b \in Holding : ExitKeeping(x, shares, part, fee, m, a, b)
      BY <2>2, <3>1, ExitsKeep
    <3>3. shares <= SharesIn(lots[x])
      BY <2>2, <3>1, ExitsKeep
    <3>4. x = m
      <4>1. SUFFICES ASSUME x # m PROVE FALSE
        OBVIOUS
      <4>2. lots'[m] = lots[m] \o a \o b
        BY <3>2, <4>1 DEF ExitKeeping
      <4>3. a \o b \in Holding
        BY SharesConcat
      <4>4. lots[m] \o a \o b = lots[m] \o (a \o b)
        BY <2>2, ConcatAssociative DEF Holding
      <4>. QED BY <2>4, <4>2, <4>3, <4>4
    <3>5. lots'[m] = Kept(lots[m], shares)
      <4>1. a = <<>> /\ b = <<>>
        <5>1. m = treasuryId => part = 0
          BY <3>1, <3>4 DEF Exits
        <5>. QED BY <2>1, <3>2, <5>1 DEF ExitKeeping
      <4>2. Kept(lots[m], shares) \in Holding
        BY <2>2, <3>3, <3>4, KeptShares
      <4>3. /\ Kept(lots[m], shares) \o <<>> = Kept(lots[m], shares)
        BY <4>2, ConcatEmptySeq DEF Holding
      <4>. QED BY <3>2, <3>4, <4>1, <4>3 DEF ExitKeeping
    <3>6. ASSUME NEW i \in 1..Len(lots[m])
          PROVE  Taken(lots[m], shares)[i] = 0 \/ lots[m][i].hwmNav >= navPerShare
      BY <2>1, <2>2, <3>3, <3>4, <3>5, TakenIsShrunk
    <3>7. fee = 0
      <4>1. /\ fee = FeeShares(lots[m], Taken(lots[m], shares), shares - part)
            /\ shares - part \in Nat
        <5>1. /\ fee = FeeShares(lots[m], Taken(lots[m], shares), shares - part)
              /\ part \in Nat /\ fee \in Nat /\ shares - part - fee \in Nat
          BY <3>1, <3>4 DEF Exits
        <5>. QED BY <5>1
      <4>. QED BY <2>2, <3>6, <4>1, LeaderPart
    <3>8. PICK c, d \in Holding : ExitKeeping(x, shares, part, fee, leaderId, c, d)
      BY <2>2, <3>1, ExitsKeep
    <3>9. c = <<>> /\ d = <<>> /\ lots'[leaderId] = lots[leaderId] \o c \o d
      <4>1. leaderId # treasuryId /\ leaderId # x
        BY <2>1, <3>4
      <4>. QED BY <3>7, <3>8, <4>1 DEF ExitKeeping
    <3>10. lots'[leaderId] = lots[leaderId]
      <4>1. lots[leaderId] \o <<>> = lots[leaderId]
        BY <2>2, ConcatEmptySeq DEF Holding
      <4>. QED BY <3>9, <4>1
    <3>. QED BY <3>10 DEF sharesOf
  <2>. QED BY <2>5, <2>6
<1>2. LedgerInv /\ [LedgerNext]_ledgerVars => [A]_ledgerVars
  BY <1>1
<1>. QED
  BY <1>2, InitLedger, LedgerKept, PTL DEF LedgerSpec, NoFeeOnRecovery

-----------------------------------------------------------------------------
(* Fees and tables. *)

LEMMA FeeNat ==
    ASSUME NEW usd \in Nat
    PROVE  feeUsd(usd) \in Nat
<1>1. tradeFeeBps \in Nat
  BY FeeAssumption DEF validateFeeTerms, MAX_TRADE_FEE_BPS
<1>2. usd * tradeFeeBps \in Nat
  BY <1>1, ProductMono
<1>. QED
  BY <1>2 DEF feeUsd

\* The leader's half and the platform's make up the fee, to the cent, and
\* neither is negative.
LEMMA HalvesMakeTheFee ==
    ASSUME NEW fee \in Nat
    PROVE  /\ leaderUsd(fee) \in Nat /\ platformUsd(fee) \in Nat
           /\ leaderUsd(fee) + platformUsd(fee) = fee
<1>1. leaderShareBps \in 0..10000
  BY FeeAssumption DEF validateFeeTerms
<1>2. fee * leaderShareBps \in Nat /\ fee * leaderShareBps <= fee * 10000
  BY <1>1, ProductMono
<1>. DEFINE half == fee * leaderShareBps
<1>3. half \div 10000 \in Nat /\ half \div 10000 <= fee
  <2>1. half \in Nat /\ half <= fee * 10000
    BY <1>2
  <2>. HIDE DEF half
  <2>. QED BY <2>1
<1>. QED
  BY <1>3 DEF leaderUsd, platformUsd

\* A table with one more amount under one of its keys.
LEMMA BumpTotal ==
    ASSUME NEW K, IsFiniteSet(K), NEW table \in [K -> Nat], NEW k \in K,
           NEW amount \in Int, table[k] + amount \in Nat
    PROVE  /\ bump(table, k, amount) \in [K -> Nat]
           /\ Across(bump(table, k, amount)) = Across(table) + amount
           /\ Across(table) \in Nat
<1> DEFINE t == bump(table, k, amount)
<1>1. /\ t \in [K -> Nat]
      /\ t[k] = table[k] + amount
      /\ \A x \in K : x # k => t[x] = table[x]
  BY DEF bump
<1>. HIDE DEF t
<1>2. \A x \in K : table[x] \in Int /\ t[x] \in Int
  BY <1>1
<1>3. SumFunctionOnSet(t, K) = SumFunctionOnSet(table, K) + (t[k] - table[k])
  BY <1>1, <1>2, SumUpdate
<1>4. SumFunctionOnSet(table, K) \in Nat
  BY SumNat
<1>5. t[k] - table[k] = amount
  BY <1>1, <1>2
<1>6. Across(t) = SumFunctionOnSet(t, K) /\ Across(table) = SumFunctionOnSet(table, K)
  BY <1>1 DEF Across, SumFunction
<1>. QED
  BY <1>1, <1>3, <1>4, <1>5, <1>6 DEF t

LEMMA AcrossNat ==
    ASSUME NEW K, IsFiniteSet(K), NEW table \in [K -> Nat]
    PROVE  Across(table) \in Nat
<1>1. SumFunctionOnSet(table, K) \in Nat
  BY SumNat
<1>. QED
  BY <1>1 DEF Across, SumFunction

-----------------------------------------------------------------------------
(* The invariant. *)

Agree(ledger) ==
    Across(ledger.owed) + Across(ledger.collected)
        = Across(ledger.payableTo) + Across(ledger.paidTo)

IInv == FeeTypeOK /\ Agree(accounts) /\ Agree(saved)

LEMMA InitAgrees == FeeInit => IInv
<1> SUFFICES ASSUME FeeInit PROVE IInv
  OBVIOUS
<1>1. createFeeLedger \in Ledgers
  BY DEF createFeeLedger, Ledgers
<1>2. ASSUME NEW K, IsFiniteSet(K)
      PROVE  Across([x \in K |-> 0]) = 0
  <2> DEFINE zero == [x \in K |-> 0]
  <2>1. SumFunctionOnSet(zero, K) = 0
    BY <1>2, SumZero
  <2>2. Across(zero) = SumFunctionOnSet(zero, K)
    BY DEF Across, SumFunction
  <2>. QED BY <2>1, <2>2
<1>3. Agree(createFeeLedger)
  <2>1. /\ Across(createFeeLedger.owed) = 0
        /\ Across(createFeeLedger.collected) = 0
        /\ Across(createFeeLedger.payableTo) = 0
        /\ Across(createFeeLedger.paidTo) = 0
    BY <1>2, FeeAssumption DEF createFeeLedger
  <2>. QED BY <2>1 DEF Agree
<1>. QED
  BY <1>1, <1>3, FeeAssumption DEF FeeInit, IInv, FeeTypeOK

LEMMA NextAgrees == IInv /\ [FeeNext]_feeVars => IInv'
<1> SUFFICES ASSUME IInv, [FeeNext]_feeVars PROVE IInv'
  OBVIOUS
<1> USE FeeAssumption DEF IInv, FeeTypeOK
<1>0. /\ accounts \in Ledgers
      /\ accounts.owed \in [Followers -> Nat]
      /\ accounts.collected \in [Followers -> Nat]
      /\ accounts.payableTo \in [Payees -> Nat]
      /\ accounts.paidTo \in [Payees -> Nat]
  BY DEF Ledgers
<1>1. ASSUME NEW f \in Followers, NEW leader \in DOMAIN payoutAddressOf,
             NEW usd \in Fillings, Mirrored(f, leader, usd)
      PROVE  IInv'
  <2> DEFINE fee == feeUsd(usd)
             payee == payoutAddressOf[leader]
             owed == bump(accounts.owed, f, fee)
             half == bump(accounts.payableTo, treasury, platformUsd(fee))
             whole == bump(half, payee, leaderUsd(fee))
  <2>1. fee \in Nat /\ payee \in Payees /\ treasury \in Payees
    BY FeeNat DEF validateFeeTerms
  <2>2. /\ leaderUsd(fee) \in Nat /\ platformUsd(fee) \in Nat
        /\ leaderUsd(fee) + platformUsd(fee) = fee
    BY <2>1, HalvesMakeTheFee
  <2>3. /\ owed \in [Followers -> Nat]
        /\ Across(owed) = Across(accounts.owed) + fee
        /\ Across(accounts.owed) \in Nat
    BY <1>0, <2>1, BumpTotal
  <2>4. /\ half \in [Payees -> Nat]
        /\ Across(half) = Across(accounts.payableTo) + platformUsd(fee)
        /\ Across(accounts.payableTo) \in Nat
    <3>1. /\ platformUsd(fee) \in Int
          /\ accounts.payableTo[treasury] + platformUsd(fee) \in Nat
      BY <1>0, <2>1, <2>2
    <3>. HIDE DEF fee
    <3>. QED BY <1>0, <2>1, <3>1, BumpTotal
  <2>5. /\ whole \in [Payees -> Nat]
        /\ Across(whole) = Across(half) + leaderUsd(fee)
    <3> HIDE DEF half
    <3>. QED BY <2>1, <2>2, <2>4, BumpTotal
  <2>6. /\ accounts' = [accounts EXCEPT !.owed = owed, !.payableTo = whole]
        /\ saved' = saved /\ moved' = moved
        /\ mirrored < MaxMirrored /\ mirrored' = mirrored + 1
    BY <1>1 DEF Mirrored, accrue
  <2> HIDE DEF fee, payee, owed, half, whole
  <2>7. /\ accounts' \in Ledgers
        /\ accounts'.owed = owed /\ accounts'.payableTo = whole
        /\ accounts'.collected = accounts.collected
        /\ accounts'.paidTo = accounts.paidTo
    BY <2>3, <2>5, <2>6 DEF Ledgers
  <2>8. Across(accounts.collected) \in Nat /\ Across(accounts.paidTo) \in Nat
    BY <1>0, AcrossNat
  <2>9. Agree(accounts')
    BY <2>2, <2>3, <2>4, <2>5, <2>7, <2>8 DEF Agree
  <2>. QED BY <2>6, <2>7, <2>9 DEF Agree
<1>2. ASSUME NEW f \in Followers, NEW amount \in Sums, settle(f, amount)
      PROVE  IInv'
  <2> DEFINE paid == AtMost(accounts.owed[f], amount)
             owed == bump(accounts.owed, f, -paid)
             collected == bump(accounts.collected, f, paid)
  <2>0. accounts.owed[f] \in Nat /\ accounts.collected[f] \in Nat
    BY <1>0
  <2>1. /\ paid \in Nat /\ -paid \in Int
        /\ accounts.owed[f] + (-paid) \in Nat
        /\ accounts.collected[f] + paid \in Nat
    BY <2>0 DEF AtMost
  <2>2. /\ accounts' = [accounts EXCEPT !.owed = owed, !.collected = collected]
        /\ saved' = saved /\ mirrored' = mirrored
        /\ moved < MaxMoved /\ moved' = moved + 1
    BY <1>0, <1>2, <2>1 DEF settle, bump, Ledgers
  <2> HIDE DEF paid
  <2>3. /\ owed \in [Followers -> Nat]
        /\ Across(owed) = Across(accounts.owed) + (-paid)
        /\ Across(accounts.owed) \in Nat
    BY <1>0, <2>1, BumpTotal
  <2>4. /\ collected \in [Followers -> Nat]
        /\ Across(collected) = Across(accounts.collected) + paid
        /\ Across(accounts.collected) \in Nat
    BY <1>0, <2>1, BumpTotal
  <2> HIDE DEF owed, collected
  <2>5. /\ accounts' \in Ledgers
        /\ accounts'.owed = owed /\ accounts'.collected = collected
        /\ accounts'.payableTo = accounts.payableTo
        /\ accounts'.paidTo = accounts.paidTo
    BY <2>2, <2>3, <2>4 DEF Ledgers
  <2>6. Agree(accounts')
    BY <2>1, <2>3, <2>4, <2>5 DEF Agree
  <2>. QED BY <2>2, <2>5, <2>6 DEF Agree
<1>3. ASSUME NEW p \in Payees, NEW amount \in Sums, payout(p, amount)
      PROVE  IInv'
  <2> DEFINE sent == AtMost(accounts.payableTo[p], amount)
             payable == bump(accounts.payableTo, p, -sent)
             paid == bump(accounts.paidTo, p, sent)
  <2>0. accounts.payableTo[p] \in Nat /\ accounts.paidTo[p] \in Nat
    BY <1>0
  <2>1. /\ sent \in Nat /\ -sent \in Int
        /\ accounts.payableTo[p] + (-sent) \in Nat
        /\ accounts.paidTo[p] + sent \in Nat
    BY <2>0 DEF AtMost
  <2>2. /\ accounts' = [accounts EXCEPT !.payableTo = payable, !.paidTo = paid]
        /\ saved' = saved /\ mirrored' = mirrored
        /\ moved < MaxMoved /\ moved' = moved + 1
    BY <1>0, <1>3, <2>1 DEF payout, bump, Ledgers
  <2> HIDE DEF sent
  <2>3. /\ payable \in [Payees -> Nat]
        /\ Across(payable) = Across(accounts.payableTo) + (-sent)
        /\ Across(accounts.payableTo) \in Nat
    BY <1>0, <2>1, BumpTotal
  <2>4. /\ paid \in [Payees -> Nat]
        /\ Across(paid) = Across(accounts.paidTo) + sent
        /\ Across(accounts.paidTo) \in Nat
    BY <1>0, <2>1, BumpTotal
  <2> HIDE DEF payable, paid
  <2>5. /\ accounts' \in Ledgers
        /\ accounts'.payableTo = payable /\ accounts'.paidTo = paid
        /\ accounts'.owed = accounts.owed
        /\ accounts'.collected = accounts.collected
    BY <2>2, <2>3, <2>4 DEF Ledgers
  <2>6. Agree(accounts')
    BY <2>1, <2>3, <2>4, <2>5 DEF Agree
  <2>. QED BY <2>2, <2>5, <2>6 DEF Agree
<1>4. CASE saveFeeLedger \/ loadFeeLedger \/ UNCHANGED feeVars
  BY <1>4 DEF saveFeeLedger, loadFeeLedger, feeVars, Agree
<1>. QED
  BY <1>1, <1>2, <1>3, <1>4 DEF FeeNext

\* No balance of the ledger, in memory or on disk, is ever negative.
THEOREM FeeTypeCorrect == FeeSpec => []FeeTypeOK
<1>1. IInv => FeeTypeOK
  BY DEF IInv
<1>. QED
  BY <1>1, InitAgrees, NextAgrees, PTL DEF FeeSpec

\* What subscribers owe or paid is what payees are owed or were paid, to the cent
\* and however a fee is split, in memory and on disk, whatever is collected and
\* paid out and wherever the process dies.
THEOREM TheTwoViewsAgree == FeeSpec => []TwoViewsAgree
<1>1. IInv => TwoViewsAgree
  BY DEF IInv, Agree, TwoViewsAgree
<1>. QED
  BY <1>1, InitAgrees, NextAgrees, PTL DEF FeeSpec

=============================================================================
