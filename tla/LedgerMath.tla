----------------------------- MODULE LedgerMath -----------------------------
(***************************************************************************)
(* The arithmetic that the proofs about the ledgers of this project share, *)
(* for all numbers, functions and sets: products and floors of naturals,   *)
(* and what SumFunctionOnSet of the community modules computes on a finite *)
(* set.  A ledger is a function from accounts to amounts, and its totals   *)
(* are such sums.  Induction is over the finite subsets of a set, with the *)
(* property as a set of subsets, so that the theorems on well-founded      *)
(* orders apply.                                                           *)
(***************************************************************************)
EXTENDS Integers, FiniteSets, Functions, FiniteSetTheorems, TLAPS

-----------------------------------------------------------------------------
(* Two forms of induction. *)

\* What holds of the empty set, and of a subset of S once it holds of that
\* subset without any one element, holds of S.
LEMMA SubsetInduction ==
    ASSUME NEW S, IsFiniteSet(S), NEW Good, {} \in Good,
           \A T \in SUBSET S :
               T # {} /\ (\A x \in T : T \ {x} \in Good) => T \in Good
    PROVE  S \in Good
<1> DEFINE Bad == {T \in SUBSET S : T \notin Good}
<1>1. SUFFICES ASSUME S \notin Good PROVE FALSE
  OBVIOUS
<1>2. Bad \subseteq FiniteSubsetsOf(S) /\ Bad # {}
  BY <1>1, FS_FiniteSubsetsOfFinite
<1>3. PICK T \in Bad : \A U \in Bad : <<U, T>> \notin StrictSubsetOrdering(S)
  <2> HIDE DEF Bad
  <2>. QED BY <1>2, FS_StrictSubsetOrderingWellFounded, WFMin
<1>4. \A U \in SUBSET T : U # T => U \in Good
  BY <1>3 DEF StrictSubsetOrdering
<1>5. T \in SUBSET S /\ T \notin Good
  OBVIOUS
<1>6. T # {} /\ \A x \in T : T \ {x} \in Good
  <2> HIDE DEF Bad
  <2>. QED BY <1>4, <1>5
<1>. QED
  BY <1>5, <1>6

\* A set of numbers with zero and every successor holds all the naturals.
LEMMA SuccessorInduction ==
    ASSUME NEW Good, 0 \in Good, \A n \in Nat : n \in Good => n + 1 \in Good
    PROVE  Nat \subseteq Good
<1> DEFINE Bad == Nat \ Good
<1>1. SUFFICES ASSUME Bad # {} PROVE FALSE
  OBVIOUS
<1>2. PICK m \in Bad : \A n \in Bad : <<n, m>> \notin OpToRel(<, Nat)
  <2> HIDE DEF Bad
  <2>1. Bad \subseteq Nat
    BY DEF Bad
  <2>. QED BY <1>1, <2>1, NatLessThanWellFounded, WFMin
<1>3. \A n \in Bad : ~(n < m)
  BY <1>2 DEF OpToRel
<1>4. m # 0 /\ m - 1 \in Nat /\ m - 1 \notin Bad
  BY <1>3
<1>. QED
  BY <1>4

\* A set of naturals has a least element.
LEMMA LeastExists ==
    ASSUME NEW S, S \subseteq Nat, S # {}
    PROVE  \E x \in S : \A y \in S : x <= y
<1>1. PICK x \in S : \A y \in S : <<y, x>> \notin OpToRel(<, Nat)
  BY NatLessThanWellFounded, WFMin
<1>2. \A y \in S : ~(y < x)
  BY <1>1 DEF OpToRel
<1>3. \A y \in S : x <= y
  BY <1>2
<1>. QED
  BY <1>3

-----------------------------------------------------------------------------
(* Products and floors. *)

\* The product of naturals grows with each factor.
LEMMA ProductMono ==
    ASSUME NEW a \in Nat, NEW b \in Nat, NEW c \in Nat, b <= c
    PROVE  a * b \in Nat /\ a * b <= a * c
  OBVIOUS

\* Division by a positive c of a natural is a natural n with n*c <= x < (n+1)*c.
LEMMA DivNat ==
    ASSUME NEW x \in Nat, NEW c \in Nat, c > 0
    PROVE  /\ x \div c \in Nat
           /\ (x \div c) * c <= x
           /\ x < (x \div c) * c + c
  OBVIOUS

\* Dividing is monotone.
LEMMA DivMono ==
    ASSUME NEW x \in Nat, NEW y \in Nat, NEW c \in Nat, c > 0, x <= y
    PROVE  x \div c <= y \div c
<1> DEFINE p == x \div c
           q == y \div c
<1>1. /\ p \in Nat /\ q \in Nat
      /\ p * c <= x
      /\ y < q * c + c
  BY DivNat
<1>2. SUFFICES ASSUME q + 1 <= p PROVE FALSE
  BY <1>1
<1>3. (q + 1) * c <= p * c
  <2> HIDE DEF p, q
  <2>. QED BY <1>1, <1>2
<1>4. (q + 1) * c = q * c + c
  <2> HIDE DEF p, q
  <2>. QED BY <1>1
<1>. QED
  <2> HIDE DEF p, q
  <2>. QED BY <1>1, <1>3, <1>4

-----------------------------------------------------------------------------
(* The function that the fold recurses through exists. *)

\* One step of the fold, g standing for its recursive calls.
Step(w, g, T) ==
    IF T = {} THEN 0
    ELSE LET x == CHOOSE x \in T : TRUE IN w[x] + g[T \ {x}]

IsFold(w, S, g) == g = [T \in SUBSET S |-> Step(w, g, T)]

Fold(w, S) == CHOOSE g : IsFold(w, S, g)

Small(S, n) == {T \in SUBSET S : Cardinality(T) <= n}

IsSmallFold(w, S, n, g) == g = [T \in Small(S, n) |-> Step(w, g, T)]

\* The library's operator is that fold, applied to the whole set.
LEMMA SumIsFold ==
    ASSUME NEW w, NEW S
    PROVE  SumFunctionOnSet(w, S) = Fold(w, S)[S]
  BY Zenon DEF Fold, IsFold, Step, SumFunctionOnSet, FoldFunctionOnSet,
               MapThenFoldSet

\* It exists on the subsets of at most n elements, for every n.
LEMMA SmallFoldExists ==
    ASSUME NEW w, NEW S, IsFiniteSet(S)
    PROVE  \A n \in Nat : \E g : IsSmallFold(w, S, n, g)
<1> DEFINE Good == {n \in Nat : \E g : IsSmallFold(w, S, n, g)}
<1>1. \A T \in SUBSET S : IsFiniteSet(T) /\ Cardinality(T) \in Nat
  BY FS_Subset, FS_CardinalityType
<1>2. 0 \in Good
  <2> DEFINE g == [T \in Small(S, 0) |-> 0]
  <2>1. \A T \in Small(S, 0) : T = {}
    BY <1>1, FS_EmptySet DEF Small
  <2>2. IsSmallFold(w, S, 0, g)
    BY <2>1 DEF IsSmallFold, Step
  <2>. QED
    BY <2>2
<1>3. ASSUME NEW n \in Nat, n \in Good
      PROVE  n + 1 \in Good
  <2>1. PICK g : IsSmallFold(w, S, n, g)
    BY <1>3
  <2> DEFINE h == [T \in Small(S, n + 1) |-> Step(w, g, T)]
  <2>2. ASSUME NEW T \in Small(S, n)
        PROVE  T \in Small(S, n + 1) /\ h[T] = g[T]
    <3>1. T \in Small(S, n + 1)
      BY <1>1 DEF Small
    <3>2. g[T] = Step(w, g, T)
      BY <2>1 DEF IsSmallFold
    <3>. QED BY <3>1, <3>2
  <2>3. ASSUME NEW T \in Small(S, n + 1)
        PROVE  Step(w, g, T) = Step(w, h, T)
    <3>1. CASE T = {}
      BY <3>1 DEF Step
    <3>2. CASE T # {}
      <4> DEFINE x == CHOOSE x \in T : TRUE
      <4>1. x \in T
        BY <3>2
      <4>2. T \ {x} \in Small(S, n)
        <5>1. /\ IsFiniteSet(T)
              /\ T \in SUBSET S
              /\ Cardinality(T) \in Nat
              /\ Cardinality(T) <= n + 1
          BY <1>1 DEF Small
        <5> HIDE DEF x
        <5>2. Cardinality(T \ {x}) = Cardinality(T) - 1
          BY <4>1, <5>1, FS_RemoveElement
        <5>. QED BY <5>1, <5>2 DEF Small
      <4>. QED BY <3>2, <4>2, <2>2 DEF Step
    <3>. QED BY <3>1, <3>2
  <2>4. h = [T \in Small(S, n + 1) |-> Step(w, h, T)]
    <3> DEFINE k == [T \in Small(S, n + 1) |-> Step(w, h, T)]
    <3>1. \A T \in Small(S, n + 1) : h[T] = k[T]
      BY <2>3
    <3>. QED BY <3>1
  <2>5. IsSmallFold(w, S, n + 1, h)
    BY <2>4 DEF IsSmallFold
  <2>. QED
    BY <2>5
<1>4. Nat \subseteq Good
  <2> HIDE DEF Good
  <2>. QED BY <1>2, <1>3, SuccessorInduction
<1>. QED
  BY <1>4

\* Hence the fold over all the subsets of a finite set satisfies its equation.
LEMMA FoldExists ==
    ASSUME NEW w, NEW S, IsFiniteSet(S)
    PROVE  IsFold(w, S, Fold(w, S))
<1>1. PICK g : IsSmallFold(w, S, Cardinality(S), g)
  BY SmallFoldExists, FS_CardinalityType
<1>2. Small(S, Cardinality(S)) = SUBSET S
  BY FS_Subset DEF Small
<1>3. IsFold(w, S, g)
  BY <1>1, <1>2 DEF IsSmallFold, IsFold
<1>. QED
  BY <1>3 DEF Fold

\* The fold of a set gives the sum of each of its subsets.
LEMMA FoldOfSubset ==
    ASSUME NEW w, NEW S, IsFiniteSet(S), NEW T \in SUBSET S
    PROVE  Fold(w, S)[T] = SumFunctionOnSet(w, T)
<1> DEFINE g == Fold(w, S)
           h == Fold(w, T)
           Good == {U \in SUBSET T : g[U] = h[U]}
<1>1. IsFiniteSet(T)
  BY FS_Subset
<1>2. \A U \in SUBSET T : g[U] = Step(w, g, U) /\ h[U] = Step(w, h, U)
  <2>1. IsFold(w, S, g) /\ IsFold(w, T, h)
    BY <1>1, FoldExists
  <2> HIDE DEF g, h
  <2>. QED BY <2>1 DEF IsFold
<1> HIDE DEF g, h
<1>3. {} \in Good
  BY <1>2 DEF Step
<1>4. ASSUME NEW U \in SUBSET T, U # {}, \A x \in U : U \ {x} \in Good
      PROVE  U \in Good
  <2> DEFINE x == CHOOSE x \in U : TRUE
  <2>1. x \in U
    BY <1>4
  <2>2. g[U \ {x}] = h[U \ {x}]
    BY <1>4, <2>1
  <2>3. Step(w, g, U) = Step(w, h, U)
    BY <1>4, <2>2 DEF Step
  <2>. QED BY <1>2, <2>3
<1>5. T \in Good
  <2> HIDE DEF Good
  <2>. QED BY <1>1, <1>3, <1>4, SubsetInduction
<1>. QED
  BY <1>5, SumIsFold DEF g, h

-----------------------------------------------------------------------------
(* The facts the other proofs cite. *)

\* The sum over no element is zero.
LEMMA SumEmpty ==
    ASSUME NEW w
    PROVE  SumFunctionOnSet(w, {}) = 0
<1>1. IsFold(w, {}, Fold(w, {}))
  BY FoldExists, FS_EmptySet
<1>. QED
  BY <1>1, SumIsFold DEF IsFold, Step

\* The fold takes the element that CHOOSE picks first.
LEMMA SumStep ==
    ASSUME NEW w, NEW S, IsFiniteSet(S), S # {}
    PROVE  LET x == CHOOSE x \in S : TRUE
           IN  SumFunctionOnSet(w, S) = w[x] + SumFunctionOnSet(w, S \ {x})
<1> DEFINE x == CHOOSE x \in S : TRUE
<1>1. Fold(w, S)[S] = Step(w, Fold(w, S), S)
  <2> DEFINE g == Fold(w, S)
  <2>1. IsFold(w, S, g)
    BY FoldExists
  <2> HIDE DEF g
  <2>2. g[S] = Step(w, g, S)
    BY <2>1 DEF IsFold
  <2>. QED BY <2>2 DEF g
<1>2. Fold(w, S)[S \ {x}] = SumFunctionOnSet(w, S \ {x})
  BY FoldOfSubset
<1>. QED
  BY <1>1, <1>2, SumIsFold DEF Step

\* A sum of integers is an integer.
LEMMA SumInt ==
    ASSUME NEW S, IsFiniteSet(S), NEW w, \A x \in S : w[x] \in Int
    PROVE  SumFunctionOnSet(w, S) \in Int
<1> DEFINE Good == {T \in SUBSET S : SumFunctionOnSet(w, T) \in Int}
<1>1. {} \in Good
  BY SumEmpty
<1>2. ASSUME NEW T \in SUBSET S, T # {}, \A x \in T : T \ {x} \in Good
      PROVE  T \in Good
  <2> DEFINE x == CHOOSE x \in T : TRUE
  <2>1. x \in T
    BY <1>2
  <2>2. SumFunctionOnSet(w, T) = w[x] + SumFunctionOnSet(w, T \ {x})
    BY <1>2, SumStep, FS_Subset
  <2> HIDE DEF x
  <2>. QED BY <1>2, <2>1, <2>2
<1>. QED
  <2> HIDE DEF Good
  <2>1. S \in Good
    BY <1>1, <1>2, SubsetInduction
  <2>. QED BY <2>1 DEF Good

\* The order does not matter: any element can be taken out first.
LEMMA SumRemove ==
    ASSUME NEW S, IsFiniteSet(S), NEW w, \A x \in S : w[x] \in Int, NEW y \in S
    PROVE  SumFunctionOnSet(w, S) = w[y] + SumFunctionOnSet(w, S \ {y})
<1> DEFINE Out(T, z) ==
               SumFunctionOnSet(w, T) = w[z] + SumFunctionOnSet(w, T \ {z})
           Good == {T \in SUBSET S : \A z \in T : Out(T, z)}
<1>1. {} \in Good
  OBVIOUS
<1>2. ASSUME NEW T \in SUBSET S, T # {}, \A x \in T : T \ {x} \in Good
      PROVE  T \in Good
  <2>1. SUFFICES ASSUME NEW z \in T PROVE Out(T, z)
    OBVIOUS
  <2> DEFINE x == CHOOSE x \in T : TRUE
  <2>2. /\ x \in T
        /\ Out(T, x)
    BY <1>2, SumStep, FS_Subset
  <2>3. CASE z = x
    BY <2>2, <2>3
  <2>4. CASE z # x
    <3> HIDE DEF x
    <3>1. Out(T \ {x}, z) /\ Out(T \ {z}, x)
      BY <1>2, <2>1, <2>2, <2>4
    <3>2. (T \ {x}) \ {z} = (T \ {z}) \ {x}
      OBVIOUS
    <3> DEFINE rest == SumFunctionOnSet(w, (T \ {z}) \ {x})
    <3>3. rest \in Int
      BY SumInt, FS_Subset
    <3>4. /\ SumFunctionOnSet(w, T) = w[x] + (w[z] + rest)
          /\ SumFunctionOnSet(w, T \ {z}) = w[x] + rest
      BY <2>2, <3>1, <3>2
    <3> HIDE DEF rest
    <3>. QED BY <2>1, <2>2, <3>3, <3>4
  <2>. QED BY <2>3, <2>4
<1>. QED
  <2> HIDE DEF Good
  <2>1. S \in Good
    BY <1>1, <1>2, SubsetInduction
  <2>. QED BY <2>1 DEF Good

\* Functions that agree on a set have the same sum over it.
LEMMA SumSame ==
    ASSUME NEW S, IsFiniteSet(S), NEW v, NEW w, \A x \in S : v[x] = w[x]
    PROVE  SumFunctionOnSet(v, S) = SumFunctionOnSet(w, S)
<1> DEFINE Good == {T \in SUBSET S :
                        SumFunctionOnSet(v, T) = SumFunctionOnSet(w, T)}
<1>1. {} \in Good
  BY SumEmpty
<1>2. ASSUME NEW T \in SUBSET S, T # {}, \A x \in T : T \ {x} \in Good
      PROVE  T \in Good
  <2> DEFINE x == CHOOSE x \in T : TRUE
  <2>1. x \in T
    BY <1>2
  <2>2. /\ SumFunctionOnSet(v, T) = v[x] + SumFunctionOnSet(v, T \ {x})
        /\ SumFunctionOnSet(w, T) = w[x] + SumFunctionOnSet(w, T \ {x})
    BY <1>2, SumStep, FS_Subset
  <2> HIDE DEF x
  <2>. QED BY <1>2, <2>1, <2>2
<1>. QED
  <2> HIDE DEF Good
  <2>1. S \in Good
    BY <1>1, <1>2, SubsetInduction
  <2>. QED BY <2>1 DEF Good

\* A sum of naturals is a natural, and no term exceeds it.
LEMMA SumNat ==
    ASSUME NEW S, IsFiniteSet(S), NEW w, \A x \in S : w[x] \in Nat
    PROVE  /\ SumFunctionOnSet(w, S) \in Nat
           /\ \A y \in S : w[y] <= SumFunctionOnSet(w, S)
<1> DEFINE Good == {T \in SUBSET S : SumFunctionOnSet(w, T) \in Nat}
<1>1. {} \in Good
  BY SumEmpty
<1>2. ASSUME NEW T \in SUBSET S, T # {}, \A x \in T : T \ {x} \in Good
      PROVE  T \in Good
  <2> DEFINE x == CHOOSE x \in T : TRUE
  <2>1. x \in T
    BY <1>2
  <2>2. SumFunctionOnSet(w, T) = w[x] + SumFunctionOnSet(w, T \ {x})
    BY <1>2, SumStep, FS_Subset
  <2> HIDE DEF x
  <2>. QED BY <1>2, <2>1, <2>2
<1>3. \A T \in SUBSET S : T \in Good
  <2>1. SUFFICES ASSUME NEW T \in SUBSET S PROVE T \in Good
    OBVIOUS
  <2>2. IsFiniteSet(T)
    BY FS_Subset
  <2> HIDE DEF Good
  <2>. QED BY <1>1, <1>2, <2>2, SubsetInduction
<1>4. ASSUME NEW y \in S PROVE w[y] <= SumFunctionOnSet(w, S)
  <2>1. SumFunctionOnSet(w, S) = w[y] + SumFunctionOnSet(w, S \ {y})
    BY SumRemove
  <2>2. SumFunctionOnSet(w, S \ {y}) \in Nat
    BY <1>3
  <2>. QED BY <2>1, <2>2
<1>. QED
  BY <1>3, <1>4

\* A change at one point changes the sum by as much.
LEMMA SumUpdate ==
    ASSUME NEW S, IsFiniteSet(S), NEW w, NEW v, NEW y \in S,
           \A x \in S : w[x] \in Int /\ v[x] \in Int,
           \A x \in S : x # y => v[x] = w[x]
    PROVE  SumFunctionOnSet(v, S) = SumFunctionOnSet(w, S) + (v[y] - w[y])
<1>1. /\ SumFunctionOnSet(w, S) = w[y] + SumFunctionOnSet(w, S \ {y})
      /\ SumFunctionOnSet(v, S) = v[y] + SumFunctionOnSet(v, S \ {y})
  BY SumRemove
<1>2. IsFiniteSet(S \ {y})
  BY FS_Subset
<1>3. SumFunctionOnSet(w, S \ {y}) = SumFunctionOnSet(v, S \ {y})
  BY <1>2, SumSame
<1>4. SumFunctionOnSet(w, S \ {y}) \in Int
  BY <1>2, SumInt
<1>. QED
  BY <1>1, <1>3, <1>4

\* The sum of zeros is zero.
LEMMA SumZero ==
    ASSUME NEW S, IsFiniteSet(S), NEW w, \A x \in S : w[x] = 0
    PROVE  SumFunctionOnSet(w, S) = 0
<1> DEFINE Good == {T \in SUBSET S : SumFunctionOnSet(w, T) = 0}
<1>1. {} \in Good
  BY SumEmpty
<1>2. ASSUME NEW T \in SUBSET S, T # {}, \A x \in T : T \ {x} \in Good
      PROVE  T \in Good
  <2> DEFINE x == CHOOSE x \in T : TRUE
  <2>1. x \in T
    BY <1>2
  <2>2. SumFunctionOnSet(w, T) = w[x] + SumFunctionOnSet(w, T \ {x})
    BY <1>2, SumStep, FS_Subset
  <2> HIDE DEF x
  <2>. QED BY <1>2, <2>1, <2>2
<1>. QED
  <2> HIDE DEF Good
  <2>1. S \in Good
    BY <1>1, <1>2, SubsetInduction
  <2>. QED BY <2>1 DEF Good

\* A sum is at least as large as another that is so element by element.
LEMMA SumBelow ==
    ASSUME NEW S, IsFiniteSet(S), NEW v, NEW w,
           \A x \in S : v[x] \in Int /\ w[x] \in Int /\ v[x] <= w[x]
    PROVE  SumFunctionOnSet(v, S) <= SumFunctionOnSet(w, S)
<1> DEFINE Good == {T \in SUBSET S :
                        SumFunctionOnSet(v, T) <= SumFunctionOnSet(w, T)}
<1>1. {} \in Good
  BY SumEmpty
<1>2. ASSUME NEW T \in SUBSET S, T # {}, \A x \in T : T \ {x} \in Good
      PROVE  T \in Good
  <2>1. PICK x \in T : TRUE
    BY <1>2
  <2>2. IsFiniteSet(T) /\ IsFiniteSet(T \ {x})
    BY FS_Subset
  <2>3. /\ SumFunctionOnSet(v, T) = v[x] + SumFunctionOnSet(v, T \ {x})
        /\ SumFunctionOnSet(w, T) = w[x] + SumFunctionOnSet(w, T \ {x})
    BY <2>1, <2>2, SumRemove
  <2>4. /\ SumFunctionOnSet(v, T \ {x}) \in Int
        /\ SumFunctionOnSet(w, T \ {x}) \in Int
    BY <2>2, SumInt
  <2>5. SumFunctionOnSet(v, T \ {x}) <= SumFunctionOnSet(w, T \ {x})
    BY <1>2, <2>1
  <2>. QED BY <2>1, <2>3, <2>4, <2>5
<1>. QED
  <2> HIDE DEF Good
  <2>1. S \in Good
    BY <1>1, <1>2, SubsetInduction
  <2>. QED BY <2>1 DEF Good

\* The sum over two disjoint sets is the sum of the sums.
LEMMA SumDisjoint ==
    ASSUME NEW S, IsFiniteSet(S), NEW T, IsFiniteSet(T), S \cap T = {},
           NEW w, \A x \in S \cup T : w[x] \in Int
    PROVE  SumFunctionOnSet(w, S \cup T)
               = SumFunctionOnSet(w, S) + SumFunctionOnSet(w, T)
<1> DEFINE Good == {U \in SUBSET T :
               SumFunctionOnSet(w, S \cup U)
                   = SumFunctionOnSet(w, S) + SumFunctionOnSet(w, U)}
<1>1. {} \in Good
  <2>1. S \cup {} = S /\ SumFunctionOnSet(w, S) \in Int
    BY SumInt
  <2>. QED BY <2>1, SumEmpty
<1>2. ASSUME NEW U \in SUBSET T, U # {}, \A x \in U : U \ {x} \in Good
      PROVE  U \in Good
  <2>1. PICK x \in U : TRUE
    BY <1>2
  <2>2. /\ IsFiniteSet(U) /\ IsFiniteSet(U \ {x})
        /\ IsFiniteSet(S \cup U) /\ x \in S \cup U
        /\ (S \cup U) \ {x} = S \cup (U \ {x})
    BY <2>1, FS_Subset, FS_Union
  <2>3. /\ SumFunctionOnSet(w, U) = w[x] + SumFunctionOnSet(w, U \ {x})
        /\ SumFunctionOnSet(w, S \cup U)
               = w[x] + SumFunctionOnSet(w, S \cup (U \ {x}))
    BY <2>1, <2>2, SumRemove
  <2>4. /\ SumFunctionOnSet(w, S) \in Int
        /\ SumFunctionOnSet(w, U \ {x}) \in Int
        /\ w[x] \in Int
    BY <2>2, SumInt
  <2>5. SumFunctionOnSet(w, S \cup (U \ {x}))
            = SumFunctionOnSet(w, S) + SumFunctionOnSet(w, U \ {x})
    BY <1>2, <2>1
  <2>. QED BY <2>3, <2>4, <2>5
<1>. QED
  <2> HIDE DEF Good
  <2>1. T \in Good
    BY <1>1, <1>2, SubsetInduction
  <2>. QED BY <2>1 DEF Good

\* Moving the indices does not change a sum.
IsShift(v, k, w, N) ==
    k \in Nat /\ N \in Nat /\ \A i \in 1..N : w[i] \in Int /\ v[k + i] = w[i]

LEMMA SumShift ==
    ASSUME NEW k, NEW N, NEW v, NEW w, IsShift(v, k, w, N)
    PROVE  SumFunctionOnSet(v, (k + 1)..(k + N)) = SumFunctionOnSet(w, 1..N)
<1>0. k \in Nat /\ N \in Nat /\ \A i \in 1..N : w[i] \in Int /\ v[k + i] = w[i]
  BY DEF IsShift
<1> DEFINE Good == {n \in Nat : n <= N =>
               SumFunctionOnSet(v, (k + 1)..(k + n)) = SumFunctionOnSet(w, 1..n)}
<1>1. 0 \in Good
  <2>1. (k + 1)..(k + 0) = {} /\ 1..0 = {}
    BY <1>0
  <2>. QED BY <2>1, SumEmpty
<1>2. ASSUME NEW n \in Nat, n \in Good PROVE n + 1 \in Good
  <2>1. SUFFICES ASSUME n + 1 <= N
                 PROVE  SumFunctionOnSet(v, (k + 1)..(k + (n + 1)))
                            = SumFunctionOnSet(w, 1..(n + 1))
    OBVIOUS
  <2> DEFINE S == 1..(n + 1)
             T == (k + 1)..(k + (n + 1))
  <2>2. /\ IsFiniteSet(S) /\ n + 1 \in S /\ S \ {n + 1} = 1..n
        /\ \A i \in S : w[i] \in Int
    <3>1. IsFiniteSet(S)
      BY FS_Interval
    <3>2. n + 1 \in S /\ S \ {n + 1} = 1..n
      OBVIOUS
    <3>3. \A i \in S : w[i] \in Int
      BY <1>0, <2>1
    <3>. QED BY <3>1, <3>2, <3>3
  <2>3. /\ IsFiniteSet(T) /\ k + (n + 1) \in T
        /\ T \ {k + (n + 1)} = (k + 1)..(k + n)
    <3>1. k + 1 \in Int /\ k + (n + 1) \in Int
      BY <1>0
    <3>2. IsFiniteSet(T)
      BY <3>1, FS_Interval
    <3>3. k + (n + 1) \in T
      BY <1>0
    <3>4. T \ {k + (n + 1)} = (k + 1)..(k + n)
      BY <1>0
    <3>. QED BY <3>2, <3>3, <3>4
  <2>4. \A j \in T : v[j] \in Int
    <3> SUFFICES ASSUME NEW j \in T PROVE v[j] \in Int
      OBVIOUS
    <3>1. j - k \in 1..N /\ k + (j - k) = j
      BY <1>0, <2>1
    <3>. QED BY <1>0, <3>1
  <2>5. SumFunctionOnSet(w, S) = w[n + 1] + SumFunctionOnSet(w, 1..n)
    <3> HIDE DEF S
    <3>. QED BY <2>2, SumRemove
  <2>6. SumFunctionOnSet(v, T)
            = v[k + (n + 1)] + SumFunctionOnSet(v, (k + 1)..(k + n))
    <3> HIDE DEF T
    <3>1. SumFunctionOnSet(v, T)
              = v[k + (n + 1)] + SumFunctionOnSet(v, T \ {k + (n + 1)})
      BY <2>3, <2>4, SumRemove
    <3>. QED BY <2>3, <3>1
  <2>7. v[k + (n + 1)] = w[n + 1]
    BY <1>0, <2>1
  <2>8. SumFunctionOnSet(v, (k + 1)..(k + n)) = SumFunctionOnSet(w, 1..n)
    BY <1>0, <1>2, <2>1
  <2>. QED BY <2>5, <2>6, <2>7, <2>8
<1>. QED
  <2> HIDE DEF Good
  <2>1. N \in Good
    BY <1>0, <1>1, <1>2, SuccessorInduction
  <2>. QED BY <1>0, <2>1 DEF Good

\* The sum of one sequence after another is the sum of the sums.
IsConcat(w, a, m, b, n) ==
    /\ m \in Nat /\ n \in Nat
    /\ \A i \in 1..m : a[i] \in Int /\ w[i] = a[i]
    /\ \A i \in 1..n : b[i] \in Int /\ w[m + i] = b[i]

LEMMA SumConcat ==
    ASSUME NEW m, NEW n, NEW w, NEW a, NEW b, IsConcat(w, a, m, b, n)
    PROVE  SumFunctionOnSet(w, 1..(m + n))
               = SumFunctionOnSet(a, 1..m) + SumFunctionOnSet(b, 1..n)
<1>0. /\ m \in Nat /\ n \in Nat
      /\ \A i \in 1..m : a[i] \in Int /\ w[i] = a[i]
      /\ \A i \in 1..n : b[i] \in Int /\ w[m + i] = b[i]
  BY DEF IsConcat
<1> DEFINE S == 1..m
           T == (m + 1)..(m + n)
<1>1. /\ IsFiniteSet(S) /\ IsFiniteSet(T) /\ S \cap T = {}
      /\ S \cup T = 1..(m + n)
  BY <1>0, FS_Interval
<1>2. \A x \in S \cup T : w[x] \in Int
  <2>1. ASSUME NEW x \in T PROVE w[x] \in Int
    <3>1. x - m \in 1..n /\ m + (x - m) = x
      BY <1>0
    <3>. QED BY <1>0, <3>1
  <2>. QED BY <1>0, <2>1
<1>3. SumFunctionOnSet(w, 1..(m + n))
          = SumFunctionOnSet(w, S) + SumFunctionOnSet(w, T)
  <2>1. SumFunctionOnSet(w, S \cup T)
            = SumFunctionOnSet(w, S) + SumFunctionOnSet(w, T)
    <3> HIDE DEF S, T
    <3>. QED BY <1>1, <1>2, SumDisjoint
  <2>. QED BY <1>1, <2>1
<1>4. SumFunctionOnSet(w, S) = SumFunctionOnSet(a, 1..m)
  BY <1>0, <1>1, SumSame
<1>5. SumFunctionOnSet(w, T) = SumFunctionOnSet(b, 1..n)
  <2>1. IsShift(w, m, b, n)
    BY <1>0 DEF IsShift
  <2>. QED BY <2>1, SumShift
<1>. QED
  BY <1>3, <1>4, <1>5
=============================================================================
