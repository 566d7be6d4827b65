--------------------------- MODULE UtxoPickerProofs ---------------------------
(***************************************************************************)
(* Proofs about the coin selection, for any coins, fees, sizes and dust:   *)
(* the sums it keeps are those of its coins, nobody with enough is         *)
(* refused, the fee of a transaction is fair, and a search that came to    *)
(* its end missed no coins that need no change and are better.             *)
(*                                                                         *)
(* They rest on what the folds of the model compute: the totals are sums   *)
(* that do not depend on the order (IsSum), and a repetition of the        *)
(* knapsack solver is a recursion over the places of its coins.            *)
(***************************************************************************)
EXTENDS UtxoPicker, FiniteSetTheorems, SequenceTheorems,
        WellFoundedInduction, TLAPS

-----------------------------------------------------------------------------
(* Numbers and finite sets.                                                *)

\* A set of numbers that is not empty has a least one, and so a set with 0 that
\* is closed under successors has all numbers.
LEMMA LeastNumber ==
    ASSUME NEW T, T \subseteq Nat, T # {}
    PROVE  \E x \in T : \A y \in T : x <= y
<1> DEFINE R == OpToRel(<, Nat)
<1>1. IsWellFoundedOn(R, Nat)
  BY NatLessThanWellFounded
<1>2. \A x, y \in Nat : x < y => <<x, y>> \in R
  BY DEF OpToRel
<1> HIDE DEF R
<1>3. PICK x \in T : \A y \in T : <<y, x>> \notin R
  BY <1>1, WFMin
<1>4. \A y \in T : y \in Nat /\ x \in Nat /\ ~ (y < x)
  BY <1>2, <1>3
<1> QED  BY <1>4

\* A set of numbers with 0, and with each the next, has all of them.
LEMMA Induction ==
    ASSUME NEW S, 0 \in S, \A n \in Nat : n \in S => n + 1 \in S
    PROVE  Nat \subseteq S
<1> SUFFICES ASSUME Nat \ S # {} PROVE FALSE
  OBVIOUS
<1>1. PICK x \in Nat \ S : \A y \in Nat \ S : x <= y
  BY LeastNumber
<1> QED  BY <1>1

\* Sets of subsets of a finite set that have the empty one, and with any the ones
\* that have one element more, have all.
LEMMA SetInduction ==
    ASSUME NEW D, IsFiniteSet(D), NEW P, {} \in P,
           \A S \in SUBSET D : \A c \in D \ S : S \in P => S \cup {c} \in P
    PROVE  SUBSET D \subseteq P
<1> DEFINE sizes == {n \in Nat : \A S \in SUBSET D : Cardinality(S) = n => S \in P}
<1>1. \A S \in SUBSET D : IsFiniteSet(S) /\ Cardinality(S) \in Nat
  <2> SUFFICES ASSUME NEW S \in SUBSET D PROVE IsFiniteSet(S) /\ Cardinality(S) \in Nat
    OBVIOUS
  <2> QED  BY FS_Subset, FS_CardinalityType
<1>2. 0 \in sizes
  <2> SUFFICES ASSUME NEW S \in SUBSET D, Cardinality(S) = 0 PROVE S \in P
    OBVIOUS
  <2> QED  BY <1>1, FS_EmptySet
<1>3. ASSUME NEW n \in Nat, n \in sizes PROVE n + 1 \in sizes
  <2> SUFFICES ASSUME NEW S \in SUBSET D, Cardinality(S) = n + 1 PROVE S \in P
    OBVIOUS
  <2>1. PICK c : c \in S
    <3>1. Cardinality(S) # 0
      OBVIOUS
    <3>2. S # {}
      BY <3>1, FS_EmptySet
    <3> QED  BY <3>2
  <2>2. Cardinality(S \ {c}) = n
    <3>1. Cardinality(S \ {c}) = Cardinality(S) - 1
      BY <1>1, <2>1, FS_RemoveElement
    <3> QED  BY <3>1
  <2>3. S \ {c} \in P /\ S \ {c} \in SUBSET D /\ c \in D \ (S \ {c})
    BY <1>3, <2>1, <2>2
  <2>4. (S \ {c}) \cup {c} = S
    BY <2>1
  <2>5. (S \ {c}) \cup {c} \in P
    BY <2>3
  <2> QED  BY <2>4, <2>5
<1> HIDE DEF sizes
<1>4. Nat \subseteq sizes
  BY <1>2, <1>3, Induction
<1> SUFFICES ASSUME NEW S \in SUBSET D PROVE S \in P
  OBVIOUS
<1> QED  BY <1>1, <1>4 DEF sizes

-----------------------------------------------------------------------------
(* Sums.                                                                   *)

\* The sum of what f has for the elements of a subset of D.
IsSum(sum, f, D) ==
    /\ sum \in [SUBSET D -> Int]
    /\ sum[{}] = 0
    /\ \A S \in SUBSET D : \A c \in D \ S : sum[S \cup {c}] = sum[S] + f[c]

\* Every function to the integers has a sum over the subsets of its finite domain.
LEMMA SumExists ==
    ASSUME NEW D, IsFiniteSet(D), NEW f \in [D -> Int]
    PROVE  \E sum : IsSum(sum, f, D)
<1> DEFINE part(E) == [c \in D |-> IF c \in E THEN f[c] ELSE 0]
           P == {E \in SUBSET D : \E sum : IsSum(sum, part(E), D)}
<1>1. {} \in P
  <2>1. IsSum([S \in SUBSET D |-> 0], part({}), D)
    BY DEF IsSum
  <2> QED  BY <2>1
<1>2. ASSUME NEW E \in SUBSET D, NEW e \in D \ E, E \in P
      PROVE  E \cup {e} \in P
  <2>1. PICK sum : IsSum(sum, part(E), D)
    BY <1>2
  <2> DEFINE more == [S \in SUBSET D |-> sum[S] + (IF e \in S THEN f[e] ELSE 0)]
  <2>2. more \in [SUBSET D -> Int] /\ more[{}] = 0
    BY <2>1 DEF IsSum
  <2>3. ASSUME NEW S \in SUBSET D, NEW c \in D \ S
        PROVE  more[S \cup {c}] = more[S] + part(E \cup {e})[c]
    <3>1. sum[S \cup {c}] = sum[S] + part(E)[c] /\ sum[S] \in Int
      BY <2>1 DEF IsSum
    <3>2. S \cup {c} \in SUBSET D
      OBVIOUS
    <3>3. CASE c = e
      BY <3>1, <3>2, <3>3
    <3>4. CASE c # e
      BY <3>1, <3>2, <3>4
    <3> QED  BY <3>3, <3>4
  <2> HIDE DEF part, more
  <2>4. IsSum(more, part(E \cup {e}), D)
    BY <2>2, <2>3 DEF IsSum
  <2> QED  BY <2>4
<1> HIDE DEF P
<1>3. SUBSET D \subseteq P
  BY <1>1, <1>2, SetInduction
<1>4. D \in P
  BY <1>3
<1>5. part(D) = f
  OBVIOUS
<1> QED  BY <1>4, <1>5 DEF P

\* A function that adds what f has for elements of a set in any order has the sum.
Picks(one, S) == \A s \in SUBSET S : s # {} => one[s] \in s
AddsUp(iter, f, one, S) ==
    \A s \in SUBSET S : iter[s] = IF s = {} THEN 0 ELSE f[one[s]] + iter[s \ {one[s]}]
LEMMA SumIsUnique ==
    ASSUME NEW D, IsFiniteSet(D), NEW f \in [D -> Int], NEW sum,
           IsSum(sum, f, D), NEW S \in SUBSET D,
           NEW one, Picks(one, S), NEW iter, AddsUp(iter, f, one, S)
    PROVE  iter[S] = sum[S]
<1> DEFINE good == {n \in Nat : \A s \in SUBSET S : Cardinality(s) = n => iter[s] = sum[s]}
<1>1. \A s \in SUBSET S : IsFiniteSet(s) /\ Cardinality(s) \in Nat
  <2> SUFFICES ASSUME NEW s \in SUBSET S PROVE IsFiniteSet(s) /\ Cardinality(s) \in Nat
    OBVIOUS
  <2>1. s \in SUBSET D
    OBVIOUS
  <2> QED  BY <2>1, FS_Subset, FS_CardinalityType
<1>2. 0 \in good
  <2> SUFFICES ASSUME NEW s \in SUBSET S, Cardinality(s) = 0 PROVE iter[s] = sum[s]
    OBVIOUS
  <2>1. s = {}
    BY <1>1, FS_EmptySet
  <2> QED  BY <2>1 DEF IsSum, AddsUp
<1>3. ASSUME NEW n \in Nat, n \in good PROVE n + 1 \in good
  <2> SUFFICES ASSUME NEW s \in SUBSET S, Cardinality(s) = n + 1 PROVE iter[s] = sum[s]
    OBVIOUS
  <2>1. s # {} /\ one[s] \in s
    <3>1. Cardinality(s) # 0
      OBVIOUS
    <3>2. s # {}
      BY <3>1, FS_EmptySet
    <3> QED  BY <3>2 DEF Picks
  <2>2. PICK c \in s : c = one[s]
    BY <2>1
  <2>3. iter[s] = f[c] + iter[s \ {c}]
    BY <2>1, <2>2 DEF AddsUp
  <2>4. Cardinality(s \ {c}) = n
    <3>1. Cardinality(s \ {c}) = Cardinality(s) - 1
      BY <1>1, FS_RemoveElement
    <3> QED  BY <3>1
  <2>5. iter[s \ {c}] = sum[s \ {c}]
    BY <1>3, <2>4
  <2>6. /\ sum[(s \ {c}) \cup {c}] = sum[s \ {c}] + f[c]
        /\ sum[s \ {c}] \in Int /\ sum[s] \in Int
    BY DEF IsSum
  <2>7. (s \ {c}) \cup {c} = s
    OBVIOUS
  <2>8. sum[s] = sum[s \ {c}] + f[c] /\ f[c] \in Int
    BY <2>6, <2>7
  <2> QED  BY <2>3, <2>5, <2>6, <2>8
<1> HIDE DEF good
<1>4. Nat \subseteq good
  BY <1>2, <1>3, Induction
<1> QED  BY <1>1, <1>4 DEF good
-----------------------------------------------------------------------------
(* Sizes and requests.                                                      *)

\* A larger transaction has no smaller dust.
LEMMA DustIsMonotone ==
    ASSUME NEW a \in Nat, NEW b \in Nat, a <= b
    PROVE  /\ DustAmount(a) \in Nat
           /\ DustAmount(a) <= DustAmount(b)
<1>1. Dust \in Nat /\ DustPolicy \in {"FIXED", "PER_BYTE", "PER_KBYTE"}
  BY DustAssumption
<1>2. /\ Dust * a \in Nat /\ Dust * b \in Nat
      /\ Dust * a <= Dust * b
  <2>1. PICK d \in Nat : b = a + d
    <3>1. b - a \in Nat /\ b = a + (b - a)
      OBVIOUS
    <3> QED  BY <3>1
  <2>2. Dust * b = Dust * a + Dust * d
    BY <1>1, <2>1
  <2>3. Dust * a \in Nat /\ Dust * d \in Nat
    BY <1>1
  <2> QED  BY <2>2, <2>3
<1>3. CASE DustPolicy = "FIXED"
  BY <1>1, <1>3 DEF DustAmount
<1>4. CASE DustPolicy = "PER_BYTE"
  BY <1>1, <1>2, <1>4 DEF DustAmount
<1>5. CASE DustPolicy = "PER_KBYTE"
  <2> DEFINE x == Dust * a
             y == Dust * b
  <2>1. x \in Nat /\ y \in Nat /\ x <= y
    BY <1>2
  <2>2. DustAmount(a) = x \div 1000 /\ DustAmount(b) = y \div 1000
    BY <1>5 DEF DustAmount
  <2> HIDE DEF x, y
  <2>3. x \div 1000 \in Nat /\ x \div 1000 <= y \div 1000
    BY <2>1
  <2> QED  BY <2>2, <2>3
<1> QED  BY <1>1, <1>3, <1>4, <1>5

\* The size of a transaction is a number.
LEMMA SizeIsNat ==
    ASSUME NEW n \in Nat, NEW out \in Nat
    PROVE  Size(n, out) \in Nat
<1>1. InputSize * n \in Nat
  BY SizesAssumption
<1> QED  BY <1>1 DEF Size, FixedSize

\* A transaction of no fewer inputs and no shorter outputs is no smaller.
LEMMA SizeGrows ==
    ASSUME NEW n \in Nat, NEW m \in Nat, n <= m,
           NEW out \in Nat, NEW more \in Nat, out <= more
    PROVE  Size(n, out) <= Size(m, more)
<1>1. PICK k \in Nat : m = n + k
  <2>1. m - n \in Nat /\ m = n + (m - n)
    OBVIOUS
  <2> QED  BY <2>1
<1>2. InputSize * m = InputSize * n + InputSize * k
  BY <1>1, SizesAssumption
<1>3. InputSize * n \in Nat /\ InputSize * k \in Nat
  BY SizesAssumption
<1> QED  BY <1>2, <1>3 DEF Size, FixedSize

\* What the numbers and coins of a request are.
RequestOK ==
    /\ request.fee \in Nat \ {0} /\ request.output \in Nat \ {0}
    /\ request.amount \in Nat
    /\ MyCoins \subseteq Coins /\ request.value \in [MyCoins -> Nat]
    /\ request.wipe \in BOOLEAN /\ (request.wipe => request.amount = 0)

\* Every request of the model is one.
LEMMA RequestsAreOK == request \in Requests => RequestOK
<1> SUFFICES ASSUME request \in Requests PROVE RequestOK
  OBVIOUS
<1> DEFINE Sorted(S) ==
        [value : [S -> Values], height : [S -> Heights], output : OutputSizes,
         fee : Fees, strategy : {"DEEP_OUTPUTS_FIRST", "OPTIMIZE_SIZE", "MERGE_OUTPUTS"},
         confirmedFirst : BOOLEAN, amount : Amounts, wipe : {FALSE}]
           Wiped(S) ==
        [value : [S -> Values], height : [S -> Heights], output : OutputSizes,
         fee : Fees, strategy : {"DEEP_OUTPUTS_FIRST"}, confirmedFirst : {FALSE},
         amount : {0}, wipe : {TRUE}]
<1>1. PICK S \in SUBSET Coins : request \in Sorted(S) \/ request \in Wiped(S)
  BY Zenon DEF Requests
<1>2. /\ request.fee \in Fees /\ request.output \in OutputSizes
      /\ request.value \in [S -> Values]
  BY <1>1
<1>3. request.value \in [S -> Nat] /\ MyCoins = S
  BY <1>2, RequestsAssumption DEF MyCoins
<1>4. request.fee \in Nat \ {0} /\ request.output \in Nat \ {0}
  BY <1>2, RequestsAssumption, SizesAssumption
<1>5. /\ request.amount \in Nat /\ request.wipe \in BOOLEAN
      /\ request.wipe => request.amount = 0
  <2>1. CASE request \in Sorted(S)
    BY <2>1, RequestsAssumption
  <2>2. CASE request \in Wiped(S)
    <3>1. request.amount \in {0} /\ request.wipe \in {TRUE}
      BY <2>2
    <3>2. request.amount = 0 /\ request.amount \in Nat
      BY <3>1
    <3>3. request.wipe \in BOOLEAN
      BY <3>1, Zenon
    <3> QED  BY <3>2, <3>3, Zenon
  <2> QED  BY <1>1, <2>1, <2>2
<1> QED  BY <1>3, <1>4, <1>5 DEF RequestOK

\* The coins of a request are finite, and so are any of them.
LEMMA MyCoinsAreFinite ==
    ASSUME RequestOK
    PROVE  /\ IsFiniteSet(MyCoins)
           /\ \A S \in SUBSET MyCoins :
                /\ IsFiniteSet(S) /\ Cardinality(S) \in Nat
                /\ Cardinality(S) <= Cardinality(MyCoins)
<1>1. MyCoins \in SUBSET Coins
  BY DEF RequestOK
<1>2. IsFiniteSet(MyCoins)
  BY <1>1, CoinsAssumption, FS_Subset
<1> SUFFICES ASSUME NEW S \in SUBSET MyCoins PROVE
        /\ IsFiniteSet(S) /\ Cardinality(S) \in Nat
        /\ Cardinality(S) <= Cardinality(MyCoins)
  BY <1>2
<1> QED  BY <1>2, FS_Subset, FS_CardinalityType
-----------------------------------------------------------------------------
(* The totals of the coins.                                                *)

\* What the definitions of the totals unfold to, for a record of values, and for
\* these less the same number each.
SumOf(v, S) ==
    LET g == CHOOSE g : g = [s \in SUBSET S |->
                IF s = {} THEN 0
                ELSE v[CHOOSE x \in s : TRUE] + g[s \ {CHOOSE x \in s : TRUE}]]
    IN g[S]
SumLess(v, less, S) ==
    LET g == CHOOSE g : g = [s \in SUBSET S |->
                IF s = {} THEN 0
                ELSE (v[CHOOSE x \in s : TRUE] - less) + g[s \ {CHOOSE x \in s : TRUE}]]
    IN g[S]

\* The total of coins unfolds to the sum of their values, in either state of a step.
LEMMA TotalUnfolds ==
    ASSUME NEW S
    PROVE  /\ Total(S) = SumOf(request.value, S)
           /\ Total(S)' = SumOf(request'.value, S)
<1>1. Total(S) = SumOf(request.value, S)
  BY DEF Total, MapThenSumSet, MapThenFoldSet, SumOf
<1>2. Total(S)' = SumOf(request'.value, S)
  BY DEF Total, MapThenSumSet, MapThenFoldSet, SumOf
<1> QED  BY <1>1, <1>2

\* So does the effective total, less the cost of an input each.
LEMMA EffectiveTotalUnfolds ==
    ASSUME NEW S
    PROVE  /\ EffectiveTotal(S) = SumLess(request.value, request.fee * InputSize, S)
           /\ EffectiveTotal(S)' = SumLess(request'.value, request'.fee * InputSize, S)
<1>1. EffectiveTotal(S) = SumLess(request.value, request.fee * InputSize, S)
  BY DEF EffectiveTotal, Effective, InputCost, MapThenSumSet, MapThenFoldSet, SumLess
<1>2. EffectiveTotal(S)' = SumLess(request'.value, request'.fee * InputSize, S)
  BY DEF EffectiveTotal, Effective, InputCost, MapThenSumSet, MapThenFoldSet, SumLess
<1> QED  BY <1>1, <1>2

\* A sum may be taken apart at any element.
LEMMA SumFollows ==
    ASSUME NEW D, NEW f \in [D -> Int], NEW sum, IsSum(sum, f, D),
           NEW s \in SUBSET D, NEW c \in s
    PROVE  sum[s] = f[c] + sum[s \ {c}]
<1>1. sum[(s \ {c}) \cup {c}] = sum[s \ {c}] + f[c]
  BY DEF IsSum
<1>2. (s \ {c}) \cup {c} = s
  OBVIOUS
<1>3. sum[s \ {c}] \in Int /\ f[c] \in Int
  BY DEF IsSum
<1>4. sum[s] = sum[s \ {c}] + f[c]
  BY <1>1, <1>2, Zenon
<1> QED  BY <1>3, <1>4

\* The recursion that MapThenSumSet stands for computes the sum.
LEMMA SumOfIs ==
    ASSUME NEW D, IsFiniteSet(D), NEW v \in [D -> Int], NEW sum, IsSum(sum, v, D),
           NEW S \in SUBSET D
    PROVE  SumOf(v, S) = sum[S]
<1> DEFINE one == [s \in SUBSET S |-> CHOOSE x \in s : TRUE]
           g == CHOOSE g : g = [s \in SUBSET S |->
                IF s = {} THEN 0
                ELSE v[CHOOSE x \in s : TRUE] + g[s \ {CHOOSE x \in s : TRUE}]]
           h == [s \in SUBSET S |-> sum[s]]
<1>1. \A s \in SUBSET S : s # {} => one[s] \in s
  OBVIOUS
<1>2. \A s \in SUBSET S : one[s] = CHOOSE x \in s : TRUE
  OBVIOUS
<1>3. h = [s \in SUBSET S |->
                IF s = {} THEN 0
                ELSE v[CHOOSE x \in s : TRUE] + h[s \ {CHOOSE x \in s : TRUE}]]
  <2> HIDE DEF one
  <2>1. ASSUME NEW s \in SUBSET S
        PROVE  h[s] = IF s = {} THEN 0 ELSE v[one[s]] + h[s \ {one[s]}]
    <3>1. CASE s = {}
      BY <3>1 DEF IsSum
    <3>2. CASE s # {}
      <4>1. PICK c \in s : c = one[s]
        BY <1>1, <3>2
      <4>2. sum[s] = v[c] + sum[s \ {c}]
        BY SumFollows
      <4> QED  BY <3>2, <4>1, <4>2
    <3> QED  BY <3>1, <3>2
  <2> HIDE DEF h
  <2>2. h = [s \in SUBSET S |-> h[s]]
    BY DEF h
  <2> QED  BY <1>2, <2>1, <2>2
<1> HIDE DEF h
<1>4. g = [s \in SUBSET S |->
                IF s = {} THEN 0
                ELSE v[CHOOSE x \in s : TRUE] + g[s \ {CHOOSE x \in s : TRUE}]]
  BY <1>3
<1> HIDE DEF g, one
<1>5. \A s \in SUBSET S : g[s] = IF s = {} THEN 0 ELSE v[one[s]] + g[s \ {one[s]}]
  BY <1>2, <1>4
<1>6. g[S] = sum[S]
  <2>1. Picks(one, S) /\ AddsUp(g, v, one, S)
    BY <1>1, <1>5 DEF Picks, AddsUp
  <2> QED  BY <2>1, SumIsUnique
<1> QED  BY <1>6 DEF SumOf, g

\* So does the one that takes the same number off each value.
LEMMA SumLessIs ==
    ASSUME NEW D, IsFiniteSet(D), NEW v \in [D -> Int], NEW less \in Int, NEW sum,
           IsSum(sum, [c \in D |-> v[c] - less], D),
           NEW S \in SUBSET D
    PROVE  SumLess(v, less, S) = sum[S]
<1> DEFINE w == [c \in D |-> v[c] - less]
           one == [s \in SUBSET S |-> CHOOSE x \in s : TRUE]
           g == CHOOSE g : g = [s \in SUBSET S |->
                IF s = {} THEN 0
                ELSE (v[CHOOSE x \in s : TRUE] - less) + g[s \ {CHOOSE x \in s : TRUE}]]
           h == [s \in SUBSET S |-> sum[s]]
<1>1. \A s \in SUBSET S : s # {} => one[s] \in s
  OBVIOUS
<1>2. \A s \in SUBSET S : one[s] = CHOOSE x \in s : TRUE
  OBVIOUS
<1>3. w \in [D -> Int] /\ IsSum(sum, w, D) /\ \A c \in D : w[c] = v[c] - less
  OBVIOUS
<1> HIDE DEF w
<1>4. \A s \in SUBSET S : s # {} => w[one[s]] = v[CHOOSE x \in s : TRUE] - less
  <2> SUFFICES ASSUME NEW s \in SUBSET S, s # {}
               PROVE  w[one[s]] = v[CHOOSE x \in s : TRUE] - less
    OBVIOUS
  <2>1. one[s] \in D
    BY <1>1
  <2> HIDE DEF one
  <2> QED  BY <1>2, <1>3, <2>1
<1>5. h = [s \in SUBSET S |->
                IF s = {} THEN 0
                ELSE (v[CHOOSE x \in s : TRUE] - less) + h[s \ {CHOOSE x \in s : TRUE}]]
  <2> HIDE DEF one
  <2>1. ASSUME NEW s \in SUBSET S
        PROVE  h[s] = IF s = {} THEN 0 ELSE w[one[s]] + h[s \ {one[s]}]
    <3>1. CASE s = {}
      BY <3>1 DEF IsSum
    <3>2. CASE s # {}
      <4>1. PICK c \in s : c = one[s]
        BY <1>1, <3>2
      <4>2. sum[s] = w[c] + sum[s \ {c}]
        <5>1. s \in SUBSET D
          OBVIOUS
        <5> HIDE DEF IsSum
        <5> QED  BY <1>3, <5>1, SumFollows
      <4> QED  BY <3>2, <4>1, <4>2
    <3> QED  BY <3>1, <3>2
  <2> HIDE DEF h
  <2>2. h = [s \in SUBSET S |-> h[s]]
    BY DEF h
  <2>3. ASSUME NEW s \in SUBSET S
        PROVE  h[s] = IF s = {} THEN 0
                      ELSE (v[CHOOSE x \in s : TRUE] - less) + h[s \ {CHOOSE x \in s : TRUE}]
    BY <1>2, <1>4, <2>1
  <2> QED  BY <2>2, <2>3
<1> HIDE DEF h
<1>6. g = [s \in SUBSET S |->
                IF s = {} THEN 0
                ELSE (v[CHOOSE x \in s : TRUE] - less) + g[s \ {CHOOSE x \in s : TRUE}]]
  BY <1>5
<1> HIDE DEF g, one
<1>7. \A s \in SUBSET S : g[s] = IF s = {} THEN 0 ELSE w[one[s]] + g[s \ {one[s]}]
  <2> SUFFICES ASSUME NEW s \in SUBSET S
               PROVE  g[s] = IF s = {} THEN 0 ELSE w[one[s]] + g[s \ {one[s]}]
    OBVIOUS
  <2>1. g[s] = IF s = {} THEN 0
               ELSE (v[CHOOSE x \in s : TRUE] - less) + g[s \ {CHOOSE x \in s : TRUE}]
    BY <1>6
  <2> QED  BY <1>2, <1>4, <2>1
<1>8. g[S] = sum[S]
  <2>1. Picks(one, S) /\ AddsUp(g, w, one, S)
    BY <1>1, <1>7 DEF Picks, AddsUp
  <2> QED  BY <1>3, <2>1, SumIsUnique
<1> QED  BY <1>8 DEF SumLess, g

\* Costs and effective values are numbers, the former are not negative.
LEMMA CostsAreNumbers ==
    ASSUME RequestOK
    PROVE  /\ InputCost \in Nat /\ CostOfChange \in Nat /\ WasteOfInput \in Int
           /\ \A c \in MyCoins : Effective(c) \in Int
           /\ EffectiveCoins \subseteq MyCoins
<1>1. InputSize \in Nat /\ request.fee \in Nat
  BY SizesAssumption DEF RequestOK
<1>2. \A n \in Nat : request.fee * n \in Nat
  BY <1>1
<1>3. InputCost \in Nat /\ CostOfChange \in Nat
  BY <1>1, <1>2 DEF InputCost, CostOfChange, EstimatedOutput
<1>4. DefaultFallbackFee * InputSize \in Nat
  BY <1>1 DEF DefaultFallbackFee
<1>5. WasteOfInput \in Int
  BY <1>3, <1>4 DEF WasteOfInput
<1>6. \A c \in MyCoins : Effective(c) \in Int
  BY <1>3 DEF Effective, RequestOK
<1> QED  BY <1>3, <1>5, <1>6 DEF EffectiveCoins

\* There is a sum of the values, and one of the effective values, and it stays
\* the same while the request does.
LEMMA TotalIs ==
    ASSUME RequestOK
    PROVE  \E sum : /\ IsSum(sum, request.value, MyCoins)
                    /\ \A S \in SUBSET MyCoins :
                        /\ Total(S) = sum[S]
                        /\ request' = request => Total(S)' = sum[S]
<1>1. IsFiniteSet(MyCoins) /\ request.value \in [MyCoins -> Int]
  BY MyCoinsAreFinite DEF RequestOK
<1>2. PICK sum : IsSum(sum, request.value, MyCoins)
  BY <1>1, SumExists
<1>3. ASSUME NEW S \in SUBSET MyCoins
      PROVE  Total(S) = sum[S] /\ (request' = request => Total(S)' = sum[S])
  <2>1. SumOf(request.value, S) = sum[S]
    BY <1>1, <1>2, SumOfIs
  <2> QED  BY <2>1, TotalUnfolds
<1> QED  BY <1>2, <1>3

\* The effective totals are a sum, which stays the same while the request does.
LEMMA EffectiveTotalIs ==
    ASSUME RequestOK
    PROVE  \E sum : /\ IsSum(sum, [c \in MyCoins |-> Effective(c)], MyCoins)
                    /\ \A S \in SUBSET MyCoins :
                        /\ EffectiveTotal(S) = sum[S]
                        /\ request' = request => EffectiveTotal(S)' = sum[S]
<1> DEFINE cost == request.fee * InputSize
           w == [c \in MyCoins |-> request.value[c] - cost]
<1>1. IsFiniteSet(MyCoins) /\ request.value \in [MyCoins -> Int] /\ cost \in Int
  <2>1. cost \in Int
    BY SizesAssumption DEF RequestOK
  <2> QED  BY <2>1, MyCoinsAreFinite DEF RequestOK
<1>2. w \in [MyCoins -> Int]
  BY <1>1
<1>3. PICK sum : IsSum(sum, w, MyCoins)
  BY <1>1, <1>2, SumExists
<1>4. ASSUME NEW S \in SUBSET MyCoins
      PROVE  /\ EffectiveTotal(S) = sum[S]
             /\ request' = request => EffectiveTotal(S)' = sum[S]
  <2>1. SumLess(request.value, cost, S) = sum[S]
    <3> HIDE DEF cost
    <3> QED  BY <1>1, <1>3, SumLessIs
  <2> QED  BY <2>1, EffectiveTotalUnfolds
<1>5. w = [c \in MyCoins |-> Effective(c)]
  BY DEF Effective, InputCost
<1> QED  BY <1>3, <1>4, <1>5

\* A step that keeps the request keeps the totals of any coins.
LEMMA EffectiveTotalStays ==
    ASSUME RequestOK, request' = request, NEW S \in SUBSET MyCoins
    PROVE  EffectiveTotal(S)' = EffectiveTotal(S) /\ Total(S)' = Total(S)
BY TotalIs, EffectiveTotalIs

\* Totals start with 0, and one coin more adds its value.
LEMMA EffectiveTotalAdds ==
    ASSUME RequestOK
    PROVE  /\ EffectiveTotal({}) = 0 /\ Total({}) = 0
           /\ \A S \in SUBSET MyCoins : EffectiveTotal(S) \in Int /\ Total(S) \in Int
           /\ \A S \in SUBSET MyCoins : \A c \in MyCoins \ S :
                /\ EffectiveTotal(S \cup {c}) = EffectiveTotal(S) + Effective(c)
                /\ Total(S \cup {c}) = Total(S) + request.value[c]
<1>1. PICK sum : /\ IsSum(sum, [c \in MyCoins |-> Effective(c)], MyCoins)
                 /\ \A S \in SUBSET MyCoins : EffectiveTotal(S) = sum[S]
  BY EffectiveTotalIs
<1>2. PICK total : /\ IsSum(total, request.value, MyCoins)
                   /\ \A S \in SUBSET MyCoins : Total(S) = total[S]
  BY TotalIs
<1>3. EffectiveTotal({}) = 0 /\ Total({}) = 0
  BY <1>1, <1>2 DEF IsSum
<1>4. ASSUME NEW S \in SUBSET MyCoins PROVE EffectiveTotal(S) \in Int /\ Total(S) \in Int
  BY <1>1, <1>2 DEF IsSum
<1>5. ASSUME NEW S \in SUBSET MyCoins, NEW c \in MyCoins \ S
      PROVE  /\ EffectiveTotal(S \cup {c}) = EffectiveTotal(S) + Effective(c)
             /\ Total(S \cup {c}) = Total(S) + request.value[c]
  <2>1. S \cup {c} \in SUBSET MyCoins
    OBVIOUS
  <2>2. sum[S \cup {c}] = sum[S] + [d \in MyCoins |-> Effective(d)][c]
    BY <1>1 DEF IsSum
  <2>3. total[S \cup {c}] = total[S] + request.value[c]
    BY <1>2 DEF IsSum
  <2> QED  BY <1>1, <1>2, <2>1, <2>2, <2>3
<1> QED  BY <1>3, <1>4, <1>5

\* Of coins that are apart the totals add.
LEMMA EffectiveTotalOfUnion ==
    ASSUME RequestOK, NEW S \in SUBSET MyCoins, NEW T \in SUBSET MyCoins, S \cap T = {}
    PROVE  EffectiveTotal(S \cup T) = EffectiveTotal(S) + EffectiveTotal(T)
<1> DEFINE P == {U \in SUBSET MyCoins : S \cap U = {} =>
                    EffectiveTotal(S \cup U) = EffectiveTotal(S) + EffectiveTotal(U)}
<1>1. {} \in P
  <2>1. S \cup {} = S
    OBVIOUS
  <2> QED  BY <2>1, EffectiveTotalAdds
<1>2. ASSUME NEW U \in SUBSET MyCoins, NEW c \in MyCoins \ U, U \in P
      PROVE  U \cup {c} \in P
  <2> SUFFICES ASSUME S \cap (U \cup {c}) = {}
      PROVE  EffectiveTotal(S \cup (U \cup {c})) = EffectiveTotal(S) + EffectiveTotal(U \cup {c})
    OBVIOUS
  <2>1. S \cap U = {} /\ c \notin S \cup U /\ S \cup U \in SUBSET MyCoins
    OBVIOUS
  <2>2. EffectiveTotal(S \cup U) = EffectiveTotal(S) + EffectiveTotal(U)
    BY <1>2, <2>1
  <2>3. EffectiveTotal((S \cup U) \cup {c}) = EffectiveTotal(S \cup U) + Effective(c)
    BY <2>1, EffectiveTotalAdds
  <2>4. EffectiveTotal(U \cup {c}) = EffectiveTotal(U) + Effective(c)
    BY EffectiveTotalAdds
  <2>5. (S \cup U) \cup {c} = S \cup (U \cup {c})
    OBVIOUS
  <2>6. EffectiveTotal(S \cup (U \cup {c})) = EffectiveTotal(S \cup U) + Effective(c)
    BY <2>3, <2>5, Zenon
  <2>7. /\ EffectiveTotal(S) \in Int /\ EffectiveTotal(U) \in Int
        /\ Effective(c) \in Int
    BY EffectiveTotalAdds, CostsAreNumbers
  <2> QED  BY <2>2, <2>4, <2>6, <2>7
<1> HIDE DEF P
<1>3. SUBSET MyCoins \subseteq P
  BY <1>1, <1>2, MyCoinsAreFinite, SetInduction
<1> QED  BY <1>3 DEF P

\* What the coins are worth is what is left of them and the fees of their inputs.
LEMMA TotalAndFees ==
    ASSUME RequestOK, NEW S \in SUBSET MyCoins
    PROVE  Total(S) = EffectiveTotal(S) + Cardinality(S) * InputCost
<1> DEFINE P == {U \in SUBSET MyCoins :
                    Total(U) = EffectiveTotal(U) + Cardinality(U) * InputCost}
<1>0. InputCost \in Nat
  BY CostsAreNumbers
<1>1. {} \in P
  BY <1>0, EffectiveTotalAdds, FS_EmptySet
<1>2. ASSUME NEW U \in SUBSET MyCoins, NEW c \in MyCoins \ U, U \in P
      PROVE  U \cup {c} \in P
  <2>1. Cardinality(U \cup {c}) = Cardinality(U) + 1 /\ Cardinality(U) \in Nat
    BY MyCoinsAreFinite, FS_AddElement
  <2>2. (Cardinality(U) + 1) * InputCost = Cardinality(U) * InputCost + InputCost
        /\ Cardinality(U) * InputCost \in Nat
    BY <1>0, <2>1
  <2>3. /\ EffectiveTotal(U \cup {c}) = EffectiveTotal(U) + Effective(c)
        /\ Total(U \cup {c}) = Total(U) + request.value[c]
        /\ EffectiveTotal(U) \in Int /\ Total(U) \in Int
        /\ Total(U) = EffectiveTotal(U) + Cardinality(U) * InputCost
    BY <1>2, EffectiveTotalAdds
  <2>4. Effective(c) = request.value[c] - InputCost /\ request.value[c] \in Nat
    BY DEF Effective, RequestOK
  <2>5. Total(U \cup {c}) = EffectiveTotal(U \cup {c}) + Cardinality(U \cup {c}) * InputCost
    BY <1>0, <2>1, <2>2, <2>3, <2>4
  <2> QED  BY <2>5
<1> HIDE DEF P
<1>3. SUBSET MyCoins \subseteq P
  BY <1>1, <1>2, MyCoinsAreFinite, SetInduction
<1> QED  BY <1>3 DEF P

\* No coins are worth more than the ones worth their fees.
LEMMA EffectiveCoinsAreWorthMost ==
    ASSUME RequestOK, NEW S \in SUBSET MyCoins
    PROVE  EffectiveTotal(S) <= EffectiveTotal(EffectiveCoins)
<1> DEFINE E == EffectiveCoins
           P == {U \in SUBSET MyCoins : /\ U \subseteq E => EffectiveTotal(U) >= 0
                                        /\ U \cap E = {} => EffectiveTotal(U) <= 0}
<1>1. {} \in P
  BY EffectiveTotalAdds
<1>2. ASSUME NEW U \in SUBSET MyCoins, NEW c \in MyCoins \ U, U \in P
      PROVE  U \cup {c} \in P
  <2>1. /\ EffectiveTotal(U \cup {c}) = EffectiveTotal(U) + Effective(c)
        /\ EffectiveTotal(U) \in Int /\ Effective(c) \in Int
    BY EffectiveTotalAdds, CostsAreNumbers
  <2>2. IF c \in E THEN Effective(c) > 0 ELSE Effective(c) <= 0
    BY <2>1 DEF EffectiveCoins
  <2> QED  BY <1>2, <2>1, <2>2
<1> HIDE DEF P
<1>3. SUBSET MyCoins \subseteq P
  BY <1>1, <1>2, MyCoinsAreFinite, SetInduction
<1>4. EffectiveTotal(E \ S) >= 0 /\ EffectiveTotal(S \ E) <= 0
  BY <1>3, CostsAreNumbers DEF P
<1>5. /\ EffectiveTotal((S \cap E) \cup (S \ E)) = EffectiveTotal(S \cap E) + EffectiveTotal(S \ E)
      /\ EffectiveTotal((S \cap E) \cup (E \ S)) = EffectiveTotal(S \cap E) + EffectiveTotal(E \ S)
  <2>1. E \in SUBSET MyCoins /\ S \cap E \in SUBSET MyCoins
        /\ S \ E \in SUBSET MyCoins /\ E \ S \in SUBSET MyCoins
    BY CostsAreNumbers
  <2> QED  BY <2>1, EffectiveTotalOfUnion
<1>6. (S \cap E) \cup (S \ E) = S /\ (S \cap E) \cup (E \ S) = E
  OBVIOUS
<1>7. EffectiveTotal(S) = EffectiveTotal(S \cap E) + EffectiveTotal(S \ E)
      /\ EffectiveTotal(E) = EffectiveTotal(S \cap E) + EffectiveTotal(E \ S)
  BY <1>5, <1>6, Zenon
<1>8. EffectiveTotal(S \cap E) \in Int /\ EffectiveTotal(S \ E) \in Int /\ EffectiveTotal(E \ S) \in Int
  BY EffectiveTotalAdds, CostsAreNumbers
<1> QED  BY <1>4, <1>7, <1>8

-----------------------------------------------------------------------------
(* The search.                                                             *)

\* A set of numbers up to a bound has a greatest one.
LEMMA GreatestNumber ==
    ASSUME NEW n \in Nat, NEW T, T \subseteq 0..n, T # {}
    PROVE  \E x \in T : \A y \in T : x >= y
<1> DEFINE U == {m \in Nat : n - m \in T}
<1>1. U \subseteq Nat /\ U # {}
  <2>1. PICK x \in T : TRUE
    OBVIOUS
  <2>2. n - x \in Nat /\ n - (n - x) = x
    OBVIOUS
  <2>3. n - x \in U
    BY <2>1, <2>2
  <2> QED  BY <2>3
<1>2. PICK m \in U : \A k \in U : m <= k
  BY <1>1, LeastNumber
<1>3. ASSUME NEW y \in T PROVE n - m >= y
  <2>1. n - y \in Nat /\ n - (n - y) = y
    OBVIOUS
  <2>2. n - y \in U
    BY <2>1
  <2> QED  BY <1>2, <2>1, <2>2
<1>4. n - m \in T
  OBVIOUS
<1> QED  BY <1>3, <1>4

\* The deepest coin of a selection is in it, and no later one is.
LEMMA DeepestIs ==
    ASSUME NEW selection \in Seq(BOOLEAN)
    PROVE  /\ Deepest(selection) \in 0..Len(selection)
           /\ Deepest(selection) # 0 => selection[Deepest(selection)]
           /\ \A i \in 1..Len(selection) : selection[i] => i <= Deepest(selection)
<1> DEFINE T == {0} \cup {i \in DOMAIN selection : selection[i]}
<1>1. Len(selection) \in Nat /\ DOMAIN selection = 1..Len(selection)
  OBVIOUS
<1>2. T \subseteq 0..Len(selection) /\ T # {}
  BY <1>1
<1>3. \E x \in T : \A y \in T : x >= y
  <2> HIDE DEF T
  <2> QED  BY <1>1, <1>2, GreatestNumber
<1>4. Deepest(selection) = CHOOSE x \in T : \A y \in T : x >= y
  BY DEF Deepest, Max
<1>5. Deepest(selection) \in T /\ \A y \in T : Deepest(selection) >= y
  <2> HIDE DEF T
  <2> QED  BY <1>3, <1>4
<1>6. \A i \in 1..Len(selection) : selection[i] => i \in T
  BY <1>1
<1>7. Deepest(selection) # 0 => selection[Deepest(selection)]
  BY <1>5
<1> QED  BY <1>1, <1>2, <1>5, <1>6, <1>7

\* A selection that is cut before a place, where a coin is left out.
LEMMA CutIs ==
    ASSUME NEW T, NEW q \in Seq(T), NEW k \in 1..Len(q), NEW e \in T, ~e,
           NEW r, r = Append(SubSeq(q, 1, k - 1), e)
    PROVE  /\ r \in Seq(T) /\ Len(r) = k
           /\ \A i \in 1..k : r[i] <=> i < k /\ q[i]
<1> DEFINE p == SubSeq(q, 1, k - 1)
<1>1. p \in Seq(T) /\ Len(p) = k - 1 /\ \A i \in 1..(k - 1) : p[i] = q[i]
  BY SubSeqProperties
<1>2. r = Append(p, e)
  OBVIOUS
<1> HIDE DEF p
<1>3. r \in Seq(T) /\ Len(r) = k
  BY <1>1, <1>2, AppendProperties
<1>4. \A i \in 1..(k - 1) : r[i] = p[i]
  BY <1>1, <1>2, AppendProperties
<1>5. r[k] = e
  BY <1>1, <1>2, AppendProperties
<1>6. ~r[k]
  BY <1>5, Zenon
<1>7. \A i \in 1..(k - 1) : r[i] <=> q[i]
  BY <1>1, <1>4, Zenon
<1>8. \A i \in 1..k : r[i] <=> i < k /\ q[i]
  BY <1>6, <1>7
<1> QED  BY <1>3, <1>8

\* The same for a selection, whose last place is left out.
LEMMA CutSelection ==
    ASSUME NEW q, NEW k, NEW r, q \in Seq(BOOLEAN), k \in 1..Len(q),
           r = Append(SubSeq(q, 1, k - 1), FALSE)
    PROVE  /\ r \in Seq(BOOLEAN) /\ Len(r) = k
           /\ \A i \in 1..k : r[i] <=> i < k /\ q[i]
BY CutIs

\* Coins of the order of a search, from one place to another.
Between(s, a, b) == {s.order[i] : i \in a..b}

SearchIs(s) ==
    /\ s \in [order : Seq(EffectiveCoins), selection : Seq(BOOLEAN),
              value : Int, available : Int, waste : Int,
              best : SUBSET EffectiveCoins, bestWaste : Int, tries : 0..TotalTries]
    /\ Len(s.selection) <= Len(s.order)
    /\ \A i, j \in 1..Len(s.order) : s.order[i] = s.order[j] => i = j
    /\ s.value = EffectiveTotal(Selected(s))
    /\ s.waste = Cardinality(Selected(s)) * WasteOfInput
    /\ s.available = EffectiveTotal(Between(s, Len(s.selection) + 1, Len(s.order)))

\* The selected coins are some of the order.
LEMMA SelectedIs ==
    ASSUME NEW s, SearchIs(s)
    PROVE  /\ Selected(s) = {s.order[i] : i \in {j \in 1..Len(s.selection) : s.selection[j]}}
           /\ Selected(s) \subseteq EffectiveCoins
           /\ \A i \in 1..Len(s.order) : s.order[i] \in EffectiveCoins
<1>1. /\ s.selection \in Seq(BOOLEAN) /\ s.order \in Seq(EffectiveCoins)
      /\ Len(s.selection) <= Len(s.order)
  BY DEF SearchIs
<1>2. DOMAIN s.selection = 1..Len(s.selection) /\ Len(s.selection) \in Nat /\ Len(s.order) \in Nat
      /\ \A i \in 1..Len(s.order) : s.order[i] \in EffectiveCoins
  BY <1>1
<1> QED  BY <1>1, <1>2 DEF Selected

\* Parts of the order are of effective coins, are apart, and join.
LEMMA BetweenIs ==
    ASSUME NEW s, SearchIs(s), NEW a \in Nat \ {0}, NEW b \in Nat, b <= Len(s.order)
    PROVE  /\ Between(s, a, b) \subseteq EffectiveCoins
           /\ \A c \in Nat : b < c =>
                Between(s, a, b) \cap Between(s, c, Len(s.order)) = {}
           /\ a <= b + 1 =>
                Between(s, a, b) \cup Between(s, b + 1, Len(s.order))
                    = Between(s, a, Len(s.order))
<1>1. Len(s.order) \in Nat
  BY DEF SearchIs
<1>2. Between(s, a, b) \subseteq EffectiveCoins
  BY <1>1, SelectedIs DEF Between
<1>3. ASSUME NEW c \in Nat, b < c
      PROVE  Between(s, a, b) \cap Between(s, c, Len(s.order)) = {}
  <2> SUFFICES ASSUME NEW i \in a..b, NEW j \in c..Len(s.order), s.order[i] = s.order[j]
               PROVE  FALSE
    BY DEF Between
  <2>1. i \in 1..Len(s.order) /\ j \in 1..Len(s.order)
    BY <1>1, <1>3
  <2>2. i = j
    BY <2>1 DEF SearchIs
  <2> QED  BY <1>3, <2>2
<1>4. ASSUME a <= b + 1
      PROVE  Between(s, a, b) \cup Between(s, b + 1, Len(s.order))
                    = Between(s, a, Len(s.order))
  <2>1. (a..b) \cup ((b + 1)..Len(s.order)) = a..Len(s.order)
    BY <1>1, <1>4
  <2> QED  BY <2>1 DEF Between
<1> QED  BY <1>2, <1>3, <1>4

\* Back to the deepest coin that is selected.
LEMMA OmitDeepestKeeps ==
    ASSUME RequestOK, NEW s, SearchIs(s), Deepest(s.selection) # 0
    PROVE  SearchIs(OmitDeepest(s)) /\ OmitDeepest(s).best = s.best
<1> DEFINE k == Deepest(s.selection)
           n == Len(s.selection)
           c == s.order[k]
           selection == Append(SubSeq(s.selection, 1, k - 1), FALSE)
           t == OmitDeepest(s)
<1>1. /\ s.selection \in Seq(BOOLEAN) /\ s.order \in Seq(EffectiveCoins)
      /\ n \in Nat /\ Len(s.order) \in Nat /\ n <= Len(s.order)
      /\ s.value \in Int /\ s.available \in Int /\ s.waste \in Int
  BY DEF SearchIs
<1>2. /\ k \in 1..n /\ k \in 1..Len(s.order)
      /\ s.selection[k]
      /\ \A i \in 1..n : s.selection[i] => i <= k
  <2> HIDE DEF n
  <2>1. Deepest(s.selection) \in 0..Len(s.selection)
    BY <1>1, DeepestIs
  <2> QED  BY <1>1, <2>1, DeepestIs DEF n
<1>3. c \in EffectiveCoins /\ c \in MyCoins /\ Effective(c) \in Int
  BY <1>2, SelectedIs, CostsAreNumbers
<1>4. /\ selection \in Seq(BOOLEAN) /\ Len(selection) = k
      /\ \A i \in 1..k : selection[i] <=> i < k /\ s.selection[i]
  <2> HIDE DEF k
  <2> QED  BY <1>1, <1>2, CutSelection
<1>5. /\ t \in [order : Seq(EffectiveCoins), selection : Seq(BOOLEAN),
                value : Int, available : Int, waste : Int,
                best : SUBSET EffectiveCoins, bestWaste : Int, tries : 0..TotalTries]
      /\ t.order = s.order /\ t.selection = selection /\ t.best = s.best
      /\ t.available = s.available + EffectiveTotal(Between(s, k + 1, n))
      /\ t.value = s.value - Effective(c)
      /\ t.waste = s.waste - WasteOfInput
  <2>1. EffectiveTotal(Between(s, k + 1, n)) \in Int
    BY <1>1, <1>2, BetweenIs, EffectiveTotalAdds, CostsAreNumbers, SMTT(30)
  <2>2. t = [s EXCEPT !.selection = selection,
              !.available = s.available + EffectiveTotal(Between(s, k + 1, n)),
              !.value = s.value - Effective(c),
              !.waste = s.waste - WasteOfInput]
    BY DEF OmitDeepest, Between
  <2>3. s \in [order : Seq(EffectiveCoins), selection : Seq(BOOLEAN),
               value : Int, available : Int, waste : Int,
               best : SUBSET EffectiveCoins, bestWaste : Int, tries : 0..TotalTries]
    BY DEF SearchIs
  <2>4. /\ s.available + EffectiveTotal(Between(s, k + 1, n)) \in Int
        /\ s.value - Effective(c) \in Int /\ s.waste - WasteOfInput \in Int
    <3> HIDE DEF k, n, c, t, selection
    <3>1. WasteOfInput \in Int
      BY CostsAreNumbers
    <3> QED  BY <1>1, <1>3, <2>1, <3>1, SMTT(30)
  <2>5. selection \in Seq(BOOLEAN)
    BY <1>4
  <2> HIDE DEF k, n, c, t, selection
  <2> QED  BY <2>2, <2>3, <2>4, <2>5
<1> HIDE DEF t, selection
<1>6. Selected(t) = Selected(s) \ {c} /\ c \in Selected(s)
  <2>1. Selected(t) = {s.order[i] : i \in {j \in 1..k : selection[j]}}
    <3>1. DOMAIN selection = 1..k
      BY <1>4
    <3> HIDE DEF k
    <3> QED  BY <1>5, <3>1 DEF Selected
  <2>2. Selected(s) = {s.order[i] : i \in {j \in 1..n : s.selection[j]}}
    BY SelectedIs
  <2>3. {j \in 1..k : selection[j]} = {j \in 1..n : s.selection[j]} \ {k}
    <3> HIDE DEF k, n
    <3> QED  BY <1>1, <1>2, <1>4
  <2>4. \A i \in 1..n : s.order[i] = c => i = k
    <3>1. \A i, j \in 1..Len(s.order) : s.order[i] = s.order[j] => i = j
      BY DEF SearchIs
    <3>2. \A i \in 1..n : i \in 1..Len(s.order)
      BY <1>1
    <3> QED  BY <1>2, <3>1, <3>2
  <2>5. k \in {j \in 1..n : s.selection[j]}
    BY <1>2
  <2> HIDE DEF k, n
  <2> QED  BY <2>1, <2>2, <2>3, <2>4, <2>5
<1>7. t.value = EffectiveTotal(Selected(t)) /\ t.waste = Cardinality(Selected(t)) * WasteOfInput
  <2>1. /\ Selected(s) \in SUBSET MyCoins /\ Selected(t) \in SUBSET MyCoins
        /\ c \in MyCoins \ Selected(t) /\ Selected(t) \cup {c} = Selected(s)
    BY <1>3, <1>6, SelectedIs, CostsAreNumbers
  <2>2. EffectiveTotal(Selected(s)) = EffectiveTotal(Selected(t)) + Effective(c)
        /\ EffectiveTotal(Selected(t)) \in Int
    <3>1. EffectiveTotal(Selected(t) \cup {c}) = EffectiveTotal(Selected(t)) + Effective(c)
      BY <2>1, EffectiveTotalAdds
    <3> QED  BY <2>1, <3>1, EffectiveTotalAdds
  <2>3. Cardinality(Selected(s)) = Cardinality(Selected(t)) + 1 /\ Cardinality(Selected(t)) \in Nat
    <3>1. IsFiniteSet(Selected(t)) /\ Cardinality(Selected(t)) \in Nat
      BY <2>1, MyCoinsAreFinite
    <3>2. Cardinality(Selected(t) \cup {c}) = Cardinality(Selected(t)) + 1
      BY <2>1, <3>1, FS_AddElement
    <3> QED  BY <2>1, <3>1, <3>2
  <2>4. (Cardinality(Selected(t)) + 1) * WasteOfInput
            = Cardinality(Selected(t)) * WasteOfInput + WasteOfInput
        /\ Cardinality(Selected(t)) * WasteOfInput \in Int
    <3>1. \A m \in Nat, w \in Int : (m + 1) * w = m * w + w /\ m * w \in Int
      OBVIOUS
    <3> QED  BY <2>3, <3>1, CostsAreNumbers
  <2>5. s.value = EffectiveTotal(Selected(s)) /\ s.waste = Cardinality(Selected(s)) * WasteOfInput
    BY DEF SearchIs
  <2> HIDE DEF c
  <2> QED  BY <1>3, <1>5, <2>2, <2>3, <2>4, <2>5, CostsAreNumbers, SMTT(30)
<1>8. t.available = EffectiveTotal(Between(t, k + 1, Len(t.order)))
  <2>1. Between(s, k + 1, n) \cup Between(s, n + 1, Len(s.order)) = Between(s, k + 1, Len(s.order))
        /\ Between(s, k + 1, n) \cap Between(s, n + 1, Len(s.order)) = {}
        /\ Between(s, k + 1, n) \subseteq EffectiveCoins
        /\ Between(s, n + 1, Len(s.order)) \subseteq EffectiveCoins
    <3> HIDE DEF k, n
    <3>1. k + 1 \in Nat \ {0} /\ n + 1 \in Nat \ {0} /\ k + 1 <= n + 1 /\ n < n + 1
      BY <1>1, <1>2
    <3> QED  BY <1>1, <3>1, BetweenIs, SMTT(30)
  <2>2. EffectiveTotal(Between(s, k + 1, n) \cup Between(s, n + 1, Len(s.order)))
            = EffectiveTotal(Between(s, k + 1, n)) + EffectiveTotal(Between(s, n + 1, Len(s.order)))
    BY <2>1, EffectiveTotalOfUnion, CostsAreNumbers
  <2>3. EffectiveTotal(Between(s, k + 1, n)) \in Int
        /\ EffectiveTotal(Between(s, n + 1, Len(s.order))) \in Int
    BY <2>1, EffectiveTotalAdds, CostsAreNumbers
  <2>4. s.available = EffectiveTotal(Between(s, n + 1, Len(s.order)))
    BY DEF SearchIs
  <2>5. Between(t, k + 1, Len(t.order)) = Between(s, k + 1, Len(s.order))
    BY <1>5 DEF Between
  <2>6. EffectiveTotal(Between(s, k + 1, n)) + EffectiveTotal(Between(s, n + 1, Len(s.order)))
            = EffectiveTotal(Between(s, k + 1, Len(s.order)))
    BY <2>1, <2>2
  <2>7. s.available + EffectiveTotal(Between(s, k + 1, n))
            = EffectiveTotal(Between(s, k + 1, Len(s.order)))
    BY <2>3, <2>4, <2>6
  <2> QED  BY <1>5, <2>5, <2>7
<1>9. Len(t.selection) = k /\ Len(t.selection) <= Len(t.order)
      /\ \A i, j \in 1..Len(t.order) : t.order[i] = t.order[j] => i = j
  <2> HIDE DEF k, n
  <2> QED  BY <1>1, <1>2, <1>4, <1>5 DEF SearchIs
<1>10. SearchIs(t)
  <2> HIDE DEF k, n
  <2> QED  BY <1>5, <1>7, <1>8, <1>9 DEF SearchIs
<1> QED  BY <1>5, <1>10 DEF t

\* A selection with one place more.
LEMMA LongerIs ==
    ASSUME NEW T, NEW q \in Seq(T), NEW e \in T, NEW r, r = Append(q, e)
    PROVE  /\ r \in Seq(T) /\ Len(r) = Len(q) + 1
           /\ \A i \in 1..Len(q) : r[i] <=> q[i]
           /\ r[Len(q) + 1] <=> e
<1>1. r \in Seq(T) /\ Len(r) = Len(q) + 1
  BY AppendProperties
<1>2. \A i \in 1..Len(q) : r[i] = q[i]
  BY AppendProperties
<1>3. r[Len(q) + 1] = e
  BY AppendProperties
<1>4. \A i \in 1..Len(q) : r[i] <=> q[i]
  BY <1>2, Zenon
<1>5. r[Len(q) + 1] <=> e
  BY <1>3, Zenon
<1> QED  BY <1>1, <1>4, <1>5

\* The same for a selection, with either answer at the new place.
LEMMA LongerSelection ==
    ASSUME NEW q, q \in Seq(BOOLEAN)
    PROVE  /\ Append(q, TRUE) \in Seq(BOOLEAN) /\ Len(Append(q, TRUE)) = Len(q) + 1
           /\ \A i \in 1..Len(q) : Append(q, TRUE)[i] <=> q[i]
           /\ Append(q, TRUE)[Len(q) + 1]
           /\ Append(q, FALSE) \in Seq(BOOLEAN) /\ Len(Append(q, FALSE)) = Len(q) + 1
           /\ \A i \in 1..Len(q) : Append(q, FALSE)[i] <=> q[i]
           /\ ~Append(q, FALSE)[Len(q) + 1]
BY LongerIs

\* Forward to the next coin.
LEMMA TakeNextKeeps ==
    ASSUME RequestOK, NEW s, SearchIs(s), Len(s.selection) < Len(s.order)
    PROVE  SearchIs(TakeNext(s)) /\ TakeNext(s).best = s.best
<1> DEFINE n == Len(s.selection)
           k == n + 1
           c == s.order[k]
           known == /\ k > 1 /\ ~s.selection[k - 1]
                    /\ Effective(s.order[k - 1]) = Effective(c)
           left == Append(s.selection, FALSE)
           taken == Append(s.selection, TRUE)
           t == TakeNext(s)
           Types == [order : Seq(EffectiveCoins), selection : Seq(BOOLEAN),
                     value : Int, available : Int, waste : Int,
                     best : SUBSET EffectiveCoins, bestWaste : Int, tries : 0..TotalTries]
<1>1. /\ s.selection \in Seq(BOOLEAN) /\ s.order \in Seq(EffectiveCoins)
      /\ n \in Nat /\ Len(s.order) \in Nat /\ n < Len(s.order)
      /\ s.value \in Int /\ s.available \in Int /\ s.waste \in Int
      /\ s \in Types
  BY DEF SearchIs
<1>2. k \in 1..Len(s.order) /\ k \in Nat \ {0}
  BY <1>1
<1>3. /\ c \in EffectiveCoins /\ c \in MyCoins /\ Effective(c) \in Int
      /\ WasteOfInput \in Int
  <2> HIDE DEF k
  <2> QED  BY <1>2, SelectedIs, CostsAreNumbers
<1>4. /\ left \in Seq(BOOLEAN) /\ Len(left) = k
      /\ \A i \in 1..n : left[i] <=> s.selection[i]
      /\ ~left[k]
      /\ taken \in Seq(BOOLEAN) /\ Len(taken) = k
      /\ \A i \in 1..n : taken[i] <=> s.selection[i]
      /\ taken[k]
  BY <1>1, LongerSelection
<1>5. /\ s.value + Effective(c) \in Int /\ s.waste + WasteOfInput \in Int
      /\ s.available - Effective(c) \in Int
  <2> HIDE DEF c
  <2> QED  BY <1>1, <1>3
<1>6. t = IF known
          THEN [s EXCEPT !.available = s.available - Effective(c), !.selection = left]
          ELSE [s EXCEPT !.available = s.available - Effective(c), !.selection = taken,
                         !.value = s.value + Effective(c), !.waste = s.waste + WasteOfInput]
  <2>1. CASE known
    BY <1>1, <2>1 DEF TakeNext
  <2>2. CASE ~known
    BY <1>1, <2>2 DEF TakeNext
  <2> QED  BY <2>1, <2>2
<1>7. /\ t \in Types /\ t.order = s.order /\ t.best = s.best
      /\ t.available = s.available - Effective(c)
      /\ IF known
         THEN t.selection = left /\ t.value = s.value /\ t.waste = s.waste
         ELSE /\ t.selection = taken /\ t.value = s.value + Effective(c)
              /\ t.waste = s.waste + WasteOfInput
  <2>1. s \in Types /\ left \in Seq(BOOLEAN) /\ taken \in Seq(BOOLEAN)
    BY <1>1, <1>4
  <2> HIDE DEF n, k, c, known, left, taken, t
  <2> QED  BY <1>5, <1>6, <2>1
<1> HIDE DEF t
<1>8. t.available = EffectiveTotal(Between(t, k + 1, Len(t.order)))
  <2>1. Between(s, k, Len(s.order)) = Between(s, k + 1, Len(s.order)) \cup {c}
    <3>1. k..Len(s.order) = ((k + 1)..Len(s.order)) \cup {k}
      <4> HIDE DEF n
      <4> QED  BY <1>1, <1>2
    <3> QED  BY <3>1 DEF Between
  <2>2. c \notin Between(s, k + 1, Len(s.order))
    <3> SUFFICES ASSUME NEW i \in (k + 1)..Len(s.order), s.order[i] = s.order[k] PROVE FALSE
      BY DEF Between
    <3>1. i \in 1..Len(s.order) /\ i # k
      <4> HIDE DEF n
      <4> QED  BY <1>1
    <3> QED  BY <1>2, <3>1 DEF SearchIs
  <2>3. Between(s, k + 1, Len(s.order)) \in SUBSET MyCoins
    <3>1. k + 1 \in Nat \ {0} /\ Len(s.order) \in Nat /\ Len(s.order) <= Len(s.order)
      BY <1>1
    <3> HIDE DEF k
    <3> QED  BY <3>1, BetweenIs, CostsAreNumbers
  <2>4. EffectiveTotal(Between(s, k + 1, Len(s.order)) \cup {c})
            = EffectiveTotal(Between(s, k + 1, Len(s.order))) + Effective(c)
        /\ EffectiveTotal(Between(s, k + 1, Len(s.order))) \in Int
    BY <1>3, <2>2, <2>3, EffectiveTotalAdds
  <2>5. s.available = EffectiveTotal(Between(s, k, Len(s.order)))
    BY DEF SearchIs
  <2>6. s.available - Effective(c) = EffectiveTotal(Between(s, k + 1, Len(s.order)))
    <3> HIDE DEF c, k
    <3>1. s.available = EffectiveTotal(Between(s, k + 1, Len(s.order))) + Effective(c)
      BY <2>1, <2>4, <2>5, Zenon
    <3> QED  BY <1>3, <2>4, <3>1
  <2>7. Between(t, k + 1, Len(t.order)) = Between(s, k + 1, Len(s.order))
    BY <1>7 DEF Between
  <2> HIDE DEF c, k, known
  <2> QED  BY <1>7, <2>6, <2>7
<1>9. /\ Len(t.selection) = k /\ Len(t.selection) <= Len(t.order)
      /\ \A i, j \in 1..Len(t.order) : t.order[i] = t.order[j] => i = j
  <2>1. t.selection = left \/ t.selection = taken
    BY <1>7
  <2> HIDE DEF k, left, taken, known
  <2> QED  BY <1>2, <1>4, <1>7, <2>1, SMTT(30) DEF SearchIs
<1>10. ASSUME known PROVE SearchIs(t)
  <2>1. t.selection = left /\ t.value = s.value /\ t.waste = s.waste /\ t.order = s.order
    BY <1>7, <1>10
  <2>2. Selected(t) = Selected(s)
    <3>1. DOMAIN t.selection = 1..k /\ DOMAIN s.selection = 1..n
      BY <1>1, <1>4, <2>1
    <3>2. {i \in DOMAIN t.selection : t.selection[i]} = {i \in DOMAIN s.selection : s.selection[i]}
      <4> HIDE DEF left
      <4> QED  BY <1>1, <1>4, <2>1, <3>1
    <3> QED  BY <2>1, <3>2 DEF Selected
  <2>3. t.value = EffectiveTotal(Selected(t)) /\ t.waste = Cardinality(Selected(t)) * WasteOfInput
    BY <2>1, <2>2 DEF SearchIs
  <2> HIDE DEF known, n, k, c, left, taken
  <2> QED  BY <1>7, <1>8, <1>9, <2>3 DEF SearchIs
<1>11. ASSUME ~known PROVE SearchIs(t)
  <2>1. /\ t.selection = taken /\ t.value = s.value + Effective(c)
        /\ t.waste = s.waste + WasteOfInput /\ t.order = s.order
    BY <1>7, <1>11
  <2>2. Selected(t) = Selected(s) \cup {c}
    <3>1. DOMAIN t.selection = 1..k /\ DOMAIN s.selection = 1..n
      BY <1>1, <1>4, <2>1
    <3>2. {i \in DOMAIN t.selection : t.selection[i]}
            = {i \in DOMAIN s.selection : s.selection[i]} \cup {k}
      <4> HIDE DEF taken
      <4> QED  BY <1>1, <1>4, <2>1, <3>1
    <3> QED  BY <2>1, <3>2 DEF Selected
  <2>3. c \notin Selected(s)
    <3> SUFFICES ASSUME NEW i \in 1..n, s.order[i] = s.order[k] PROVE FALSE
      BY SelectedIs
    <3>1. i \in 1..Len(s.order) /\ i # k
      <4> HIDE DEF n
      <4> QED  BY <1>1
    <3> QED  BY <1>2, <3>1 DEF SearchIs
  <2>4. Selected(s) \in SUBSET MyCoins
    BY SelectedIs, CostsAreNumbers
  <2>5. EffectiveTotal(Selected(t)) = EffectiveTotal(Selected(s)) + Effective(c)
    BY <1>3, <2>2, <2>3, <2>4, EffectiveTotalAdds
  <2>6. Cardinality(Selected(t)) = Cardinality(Selected(s)) + 1 /\ Cardinality(Selected(s)) \in Nat
    <3>1. IsFiniteSet(Selected(s)) /\ Cardinality(Selected(s)) \in Nat
      BY <2>4, MyCoinsAreFinite
    <3> HIDE DEF c
    <3>2. Cardinality(Selected(s) \cup {c}) = Cardinality(Selected(s)) + 1
      BY <2>3, <3>1, FS_AddElement
    <3> QED  BY <2>2, <3>1, <3>2
  <2>7. (Cardinality(Selected(s)) + 1) * WasteOfInput
            = Cardinality(Selected(s)) * WasteOfInput + WasteOfInput
    <3>1. \A m \in Nat, w \in Int : (m + 1) * w = m * w + w /\ m * w \in Int
      OBVIOUS
    <3> QED  BY <1>3, <2>6, <3>1
  <2>8. s.value = EffectiveTotal(Selected(s)) /\ s.waste = Cardinality(Selected(s)) * WasteOfInput
    BY DEF SearchIs
  <2>9. t.value = EffectiveTotal(Selected(t)) /\ t.waste = Cardinality(Selected(t)) * WasteOfInput
    <3> HIDE DEF c
    <3> QED  BY <2>1, <2>5, <2>6, <2>7, <2>8
  <2> HIDE DEF known, n, k, c, left, taken
  <2> QED  BY <1>7, <1>8, <1>9, <2>9 DEF SearchIs
<1> HIDE DEF known, left, taken, c
<1> QED  BY <1>7, <1>10, <1>11 DEF t

\* The best selection may be this one.
LEMMA BestOfKeeps ==
    ASSUME RequestOK, Target \in Int, NEW s, SearchIs(s), s.value = search.value
    PROVE  /\ SearchIs(BestOf(s))
           /\ BestOf(s).selection = s.selection /\ BestOf(s).order = s.order
           /\ (s.best # {} => InRange(s.best)) => (BestOf(s).best # {} => InRange(BestOf(s).best))
<1> DEFINE t == BestOf(s)
           Types == [order : Seq(EffectiveCoins), selection : Seq(BOOLEAN),
                     value : Int, available : Int, waste : Int,
                     best : SUBSET EffectiveCoins, bestWaste : Int, tries : 0..TotalTries]
           better == IsInRange /\ (s.best = {} \/ s.waste + s.value - Target <= s.bestWaste)
<1>1. s \in Types /\ Selected(s) \in SUBSET EffectiveCoins
      /\ s.waste + s.value - Target \in Int
  <2>1. s \in Types
    BY DEF SearchIs
  <2>2. s.waste \in Int /\ s.value \in Int
    BY <2>1
  <2> QED  BY <2>1, <2>2, SelectedIs
<1>2. t = IF better THEN [s EXCEPT !.best = Selected(s), !.bestWaste = s.waste + s.value - Target]
          ELSE s
  BY DEF BestOf
<1>3. /\ t \in Types
      /\ t.order = s.order /\ t.selection = s.selection /\ t.value = s.value
      /\ t.waste = s.waste /\ t.available = s.available
      /\ t.best = s.best \/ (better /\ t.best = Selected(s))
  <2> HIDE DEF t, better
  <2> QED  BY <1>1, <1>2
<1> HIDE DEF t
<1>4. Selected(t) = Selected(s)
      /\ Between(t, Len(t.selection) + 1, Len(t.order)) = Between(s, Len(s.selection) + 1, Len(s.order))
  BY <1>3 DEF Selected, Between
<1>5. SearchIs(t)
  BY <1>3, <1>4 DEF SearchIs
<1>6. ASSUME better PROVE InRange(Selected(s))
  <2>1. EffectiveTotal(Selected(s)) = search.value /\ search.value \in Int
    BY <1>1 DEF SearchIs
  <2>2. CostOfChange \in Nat
    BY CostsAreNumbers
  <2>3. search.value >= Target /\ ~(search.value > Target + CostOfChange)
    BY <1>6 DEF IsInRange, IsHopeless
  <2> QED  BY <2>1, <2>2, <2>3 DEF InRange
<1> HIDE DEF better
<1> QED  BY <1>3, <1>5, <1>6 DEF t

-----------------------------------------------------------------------------
(* The knapsack solver.                                                    *)

\* The sequences of all elements of a finite set, each once.
LEMMA SequencesAre ==
    ASSUME NEW S, IsFiniteSet(S), NEW s \in SetToSeqs(S)
    PROVE  /\ s \in Seq(S) /\ Len(s) = Cardinality(S)
           /\ \A i, j \in 1..Len(s) : s[i] = s[j] => i = j
           /\ {s[i] : i \in 1..Len(s)} = S
<1> DEFINE n == Cardinality(S)
<1>1. n \in Nat
  BY FS_CardinalityType
<1>2. s \in [1..n -> S] /\ \A i, j \in 1..n : i # j => s[i] # s[j]
  BY DEF SetToSeqs
<1> HIDE DEF n
<1>3. s \in Seq(S) /\ Len(s) = n
  BY <1>1, <1>2
<1>4. s \in Injection(1..n, S)
  BY <1>2 DEF Injection, IsInjective
<1>5. Cardinality(1..n) = n
  BY <1>1, FS_Interval
<1>6. s \in Surjection(1..n, S)
  BY <1>4, <1>5, FS_Injection DEF n
<1>7. {s[i] : i \in 1..n} = S
  BY <1>2, <1>6 DEF Surjection
<1> QED  BY <1>2, <1>3, <1>7 DEF n

\* A recursion over the subsets of a finite set has a solution.
Follows(h, base, F, one, S) ==
    \A s \in S : h[s] = IF s = {} THEN base ELSE F[h[s \ {one[s]}], one[s]]

\* Every recursion that takes one element out at a time, into a set of results, has one.
LEMMA RecursionHasSolution ==
    ASSUME NEW D, IsFiniteSet(D), NEW R, NEW base \in R, NEW F \in [R \X D -> R],
           NEW one, Picks(one, D)
    PROVE  \E h \in [SUBSET D -> R] : Follows(h, base, F, one, SUBSET D)
<1> DEFINE Small(n) == {s \in SUBSET D : Cardinality(s) <= n}
           step(g, s) == IF s = {} THEN base ELSE F[g[s \ {one[s]}], one[s]]
           solved == {n \in Nat : \E g \in [SUBSET D -> R] :
                                    Follows(g, base, F, one, Small(n))}
<1>1. ASSUME NEW s \in SUBSET D PROVE IsFiniteSet(s) /\ Cardinality(s) \in Nat
  BY FS_Subset, FS_CardinalityType
<1>2. ASSUME NEW s \in SUBSET D, s # {}
      PROVE  /\ one[s] \in s /\ one[s] \in D /\ s \ {one[s]} \in SUBSET D
             /\ Cardinality(s \ {one[s]}) = Cardinality(s) - 1
  <2>1. one[s] \in s
    BY <1>2 DEF Picks
  <2> QED  BY <1>1, <2>1, FS_RemoveElement
<1>3. 0 \in solved
  <2>1. Follows([s \in SUBSET D |-> base], base, F, one, Small(0))
    <3> SUFFICES ASSUME NEW s \in Small(0)
                 PROVE  [r \in SUBSET D |-> base][s] = step([r \in SUBSET D |-> base], s)
      BY DEF Follows
    <3>1. s = {}
      BY <1>1, FS_EmptySet
    <3> QED  BY <3>1
  <2>2. [s \in SUBSET D |-> base] \in [SUBSET D -> R]
    OBVIOUS
  <2> QED  BY <2>1, <2>2
<1>4. ASSUME NEW n \in Nat, n \in solved PROVE n + 1 \in solved
  <2>1. PICK g \in [SUBSET D -> R] : Follows(g, base, F, one, Small(n))
    BY <1>4
  <2> DEFINE h == [s \in SUBSET D |-> IF s \in Small(n) THEN g[s] ELSE step(g, s)]
  <2>2. ASSUME NEW s \in SUBSET D PROVE step(g, s) \in R
    <3>1. CASE s = {}
      BY <3>1
    <3>2. CASE s # {}
      <4>1. one[s] \in D /\ g[s \ {one[s]}] \in R
        BY <1>2, <3>2
      <4> QED  BY <3>2, <4>1
    <3> QED  BY <3>1, <3>2
  <2>3. h \in [SUBSET D -> R]
    <3> HIDE DEF step
    <3> QED  BY <2>2
  <2>4. \A s \in Small(n) : h[s] = g[s]
    OBVIOUS
  <2>5. \A s \in SUBSET D : s \notin Small(n) => h[s] = step(g, s)
    OBVIOUS
  <2>6. \A s \in Small(n) : h[s] = step(g, s)
    BY <2>1, <2>4 DEF Follows
  <2> HIDE DEF h
  <2>7. ASSUME NEW s \in Small(n + 1) PROVE h[s] = step(h, s)
    <3>1. CASE s = {}
      BY <2>5, <2>6, <3>1
    <3>2. CASE s # {}
      <4>1. s \ {one[s]} \in Small(n)
        BY <1>1, <1>2, <3>2
      <4>2. h[s \ {one[s]}] = g[s \ {one[s]}]
        BY <2>4, <4>1
      <4>3. h[s] = step(g, s)
        BY <2>5, <2>6
      <4> QED  BY <4>2, <4>3
    <3> QED  BY <3>1, <3>2
  <2>8. Follows(h, base, F, one, Small(n + 1))
    BY <2>7 DEF Follows
  <2> HIDE DEF Small, step
  <2> QED  BY <2>3, <2>8
<1> HIDE DEF solved
<1>5. Cardinality(D) \in solved
  BY <1>1, <1>3, <1>4, Induction
<1>6. PICK g \in [SUBSET D -> R] : Follows(g, base, F, one, Small(Cardinality(D)))
  BY <1>5 DEF solved
<1>7. ASSUME NEW s \in SUBSET D PROVE s \in Small(Cardinality(D))
  BY FS_Subset
<1> QED  BY <1>6, <1>7 DEF Follows

\* What the LET of Repetition defines.
TakeCoin(order, dust, least, s, i) ==
    LET total == s.total + Effective(order[i]) - dust
        included == s.included \cup {i}
    IN IF total < Target + least
       THEN [s EXCEPT !.total = total, !.included = included]
       ELSE [s EXCEPT !.reached = TRUE,
               !.value = IF total < @ THEN total ELSE @,
               !.best = IF total < s.value THEN included ELSE @]
PassOver(order, dust, least, s, S) ==
    FoldLeft(LAMBDA r, i : IF i \in S THEN TakeCoin(order, dust, least, r, i) ELSE r, s,
             [i \in DOMAIN order |-> i])

\* A repetition is a first pass and, if that did not reach the target, a second.
LEMMA RepetitionIs ==
    ASSUME NEW order, NEW bits, NEW all, NEW dust, NEW least
    PROVE  LET first == PassOver(order, dust, least,
                           [total |-> 0, included |-> {}, reached |-> FALSE,
                            value |-> all, best |-> DOMAIN order], bits)
           IN Repetition(order, bits, all, dust, least) =
                IF first.reached THEN first
                ELSE PassOver(order, dust, least, first, DOMAIN order \ first.included)
BY DEF Repetition, PassOver, TakeCoin

\* A pass visits the places from the first to the last.
Places(order) == [i \in DOMAIN order |-> i]

\* A pass is the fold over the places, from the greatest downwards.
LEMMA PassUnfolds ==
    ASSUME NEW order, NEW dust, NEW least, NEW s, NEW S
    PROVE  PassOver(order, dust, least, s, S) =
            (CHOOSE g : g = [D \in SUBSET DOMAIN Places(order) |->
                IF D = {} THEN s
                ELSE IF Places(order)[Max(D)] \in S
                     THEN TakeCoin(order, dust, least, g[D \ {Max(D)}], Places(order)[Max(D)])
                     ELSE g[D \ {Max(D)}]])[DOMAIN Places(order)]
BY DEF PassOver, FoldLeft, MapThenFoldSet, Places

\* What the solver keeps in its two passes, over so many places.
Kept(n) == [total : Int, included : SUBSET (1..n), reached : BOOLEAN,
            value : Int, best : SUBSET (1..n)]

\* A visit includes a coin, or counts it and leaves it out.
LEMMA TakeCoinKeeps ==
    ASSUME RequestOK, Target \in Int, NEW order \in Seq(MyCoins),
           NEW dust \in Int, NEW least \in Int,
           NEW s \in Kept(Len(order)), NEW i \in 1..Len(order)
    PROVE  LET t == TakeCoin(order, dust, least, s, i)
               total == s.total + Effective(order[i]) - dust
               included == s.included \cup {i}
           IN /\ t \in Kept(Len(order))
              /\ \/ /\ t.total = total /\ t.included = included
                    /\ t.value = s.value /\ t.best = s.best
                 \/ /\ t.total = s.total /\ t.included = s.included
                    /\ \/ t.value = s.value /\ t.best = s.best
                       \/ /\ t.value = total /\ t.best = included
                          /\ total >= Target + least
<1> DEFINE t == TakeCoin(order, dust, least, s, i)
           total == s.total + Effective(order[i]) - dust
           included == s.included \cup {i}
           more == [s EXCEPT !.total = total, !.included = included]
           better == [s EXCEPT !.reached = TRUE, !.value = total, !.best = included]
           same == [s EXCEPT !.reached = TRUE]
<1>1. /\ s.total \in Int /\ s.included \in SUBSET (1..Len(order))
      /\ s.value \in Int /\ s.best \in SUBSET (1..Len(order))
  BY DEF Kept
<1>2. Effective(order[i]) \in Int
  BY CostsAreNumbers
<1>3. total \in Int /\ included \in SUBSET (1..Len(order))
  BY <1>1, <1>2
<1>4. t = IF total < Target + least THEN more
          ELSE [s EXCEPT !.reached = TRUE,
                   !.value = IF total < s.value THEN total ELSE s.value,
                   !.best = IF total < s.value THEN included ELSE s.best]
  BY DEF TakeCoin
<1> HIDE DEF t, total, included
<1>5. /\ more \in Kept(Len(order)) /\ better \in Kept(Len(order)) /\ same \in Kept(Len(order))
      /\ more.total = total /\ more.included = included
      /\ more.value = s.value /\ more.best = s.best
      /\ better.total = s.total /\ better.included = s.included
      /\ better.value = total /\ better.best = included
      /\ same.total = s.total /\ same.included = s.included
      /\ same.value = s.value /\ same.best = s.best
  BY <1>3 DEF Kept
<1>6. CASE total < Target + least
  <2>1. t = more
    BY <1>4, <1>6
  <2> HIDE DEF more
  <2> QED  BY <1>5, <2>1 DEF t, total, included
<1>7. CASE ~(total < Target + least) /\ total < s.value
  <2>1. t = better
    BY <1>4, <1>7
  <2>2. total >= Target + least
    BY <1>3, <1>7
  <2> HIDE DEF better
  <2> QED  BY <1>5, <2>1, <2>2 DEF t, total, included
<1>8. CASE ~(total < Target + least) /\ ~(total < s.value)
  <2>1. t = [s EXCEPT !.reached = TRUE, !.value = s.value, !.best = s.best]
    BY <1>4, <1>8
  <2>2. t = same
    BY <2>1 DEF Kept
  <2> HIDE DEF same
  <2> QED  BY <1>5, <2>2 DEF t, total, included
<1> QED  BY <1>6, <1>7, <1>8

\* The states of a pass, after the places of a set.
IsPass(iter, order, dust, least, base, S) ==
    \A D \in SUBSET (1..Len(order)) :
        iter[D] = IF D = {} THEN base
                  ELSE IF Max(D) \in S
                       THEN TakeCoin(order, dust, least, iter[D \ {Max(D)}], Max(D))
                       ELSE iter[D \ {Max(D)}]

\* The greatest of some places is one of them.
LEMMA MaxIs ==
    ASSUME NEW n \in Nat, NEW D \in SUBSET (1..n), D # {}
    PROVE  Max(D) \in D
<1>1. D \subseteq 0..n
  OBVIOUS
<1>2. \E x \in D : \A y \in D : x >= y
  BY <1>1, GreatestNumber
<1> QED  BY <1>2 DEF Max

\* There is a recursion over the sets of places, and the pass is its value for all.
LEMMA PassIs ==
    ASSUME RequestOK, Target \in Int, NEW order \in Seq(MyCoins),
           NEW dust \in Int, NEW least \in Int,
           NEW base \in Kept(Len(order)), NEW S
    PROVE  \E iter : /\ IsPass(iter, order, dust, least, base, S)
                     /\ PassOver(order, dust, least, base, S) = iter[1..Len(order)]
<1> DEFINE n == Len(order)
           R == Kept(n)
           I == 1..n
           F == [p \in R \X I |-> IF p[2] \in S THEN TakeCoin(order, dust, least, p[1], p[2])
                                  ELSE p[1]]
           one == [D \in SUBSET I |-> Max(D)]
           iter == CHOOSE g : g = [D \in SUBSET DOMAIN Places(order) |->
                IF D = {} THEN base
                ELSE IF Places(order)[Max(D)] \in S
                     THEN TakeCoin(order, dust, least, g[D \ {Max(D)}], Places(order)[Max(D)])
                     ELSE g[D \ {Max(D)}]]
<1>1. n \in Nat /\ DOMAIN Places(order) = I /\ \A i \in I : Places(order)[i] = i
  BY DEF Places
<1>2. F \in [R \X I -> R]
  <2>1. ASSUME NEW r \in R, NEW i \in I
        PROVE  TakeCoin(order, dust, least, r, i) \in R
    BY TakeCoinKeeps
  <2>2. ASSUME NEW p \in R \X I
        PROVE  (IF p[2] \in S THEN TakeCoin(order, dust, least, p[1], p[2]) ELSE p[1]) \in R
    <3>1. p[1] \in R /\ p[2] \in I
      OBVIOUS
    <3> HIDE DEF R, I
    <3> QED  BY <2>1, <3>1
  <2> HIDE DEF R, I
  <2> QED  BY <2>2
<1>3. Picks(one, I) /\ \A D \in SUBSET I : one[D] = Max(D)
  BY <1>1, MaxIs DEF Picks
<1>4. IsFiniteSet(I)
  BY <1>1, FS_Interval
<1>5. \A r \in R, i \in I : F[r, i] = IF i \in S THEN TakeCoin(order, dust, least, r, i) ELSE r
  OBVIOUS
<1> HIDE DEF F, one
<1>6. PICK h \in [SUBSET I -> R] : Follows(h, base, F, one, SUBSET I)
  <2> HIDE DEF R, I
  <2>1. base \in R
    BY DEF R
  <2> QED  BY <1>2, <1>3, <1>4, <2>1, RecursionHasSolution
<1>7. ASSUME NEW D \in SUBSET I
      PROVE  h[D] = IF D = {} THEN base
                    ELSE IF Places(order)[Max(D)] \in S
                         THEN TakeCoin(order, dust, least, h[D \ {Max(D)}], Places(order)[Max(D)])
                         ELSE h[D \ {Max(D)}]
  <2>1. CASE D = {}
    BY <1>6, <2>1 DEF Follows
  <2>2. CASE D # {}
    <3>1. Max(D) \in I /\ one[D] = Max(D)
      BY <1>1, <1>3, <2>2, MaxIs
    <3>2. h[D] = F[h[D \ {Max(D)}], Max(D)]
      BY <1>6, <2>2, <3>1 DEF Follows
    <3>3. h[D \ {Max(D)}] \in R
      OBVIOUS
    <3>4. Places(order)[Max(D)] = Max(D)
      BY <1>1, <3>1
    <3> HIDE DEF R, I
    <3> QED  BY <1>5, <2>2, <3>1, <3>2, <3>3, <3>4
  <2> QED  BY <2>1, <2>2
<1>8. h = [D \in SUBSET DOMAIN Places(order) |->
                IF D = {} THEN base
                ELSE IF Places(order)[Max(D)] \in S
                     THEN TakeCoin(order, dust, least, h[D \ {Max(D)}], Places(order)[Max(D)])
                     ELSE h[D \ {Max(D)}]]
  <2> HIDE DEF R, I
  <2> QED  BY <1>1, <1>7
<1>9. iter = [D \in SUBSET DOMAIN Places(order) |->
                IF D = {} THEN base
                ELSE IF Places(order)[Max(D)] \in S
                     THEN TakeCoin(order, dust, least, iter[D \ {Max(D)}], Places(order)[Max(D)])
                     ELSE iter[D \ {Max(D)}]]
  BY <1>8
<1>10. PassOver(order, dust, least, base, S) = iter[I]
  BY <1>1, PassUnfolds
<1> HIDE DEF iter
<1>11. IsPass(iter, order, dust, least, base, S)
  <2> SUFFICES ASSUME NEW D \in SUBSET I
      PROVE  iter[D] = IF D = {} THEN base
                  ELSE IF Max(D) \in S
                       THEN TakeCoin(order, dust, least, iter[D \ {Max(D)}], Max(D))
                       ELSE iter[D \ {Max(D)}]
    BY DEF IsPass
  <2>1. iter[D] = IF D = {} THEN base
                ELSE IF Places(order)[Max(D)] \in S
                     THEN TakeCoin(order, dust, least, iter[D \ {Max(D)}], Places(order)[Max(D)])
                     ELSE iter[D \ {Max(D)}]
    BY <1>1, <1>9
  <2>2. D # {} => Places(order)[Max(D)] = Max(D)
    BY <1>1, MaxIs
  <2> QED  BY <2>1, <2>2
<1> QED  BY <1>10, <1>11

\* What the solver keeps is the sum of what is included, and its best is all of the
\* places or reaches the target.
Sound(r, n, sum, all, least) ==
    /\ r \in Kept(n)
    /\ r.total = sum[r.included]
    /\ \/ r.value = all /\ r.best = 1..n
       \/ r.value = sum[r.best] /\ r.value >= Target + least

\* A pass over places not included yet keeps what is kept sound.
LEMMA PassKeeps ==
    ASSUME RequestOK, Target \in Int, NEW order \in Seq(MyCoins),
           NEW dust \in Int, NEW least \in Int, NEW all, NEW sum,
           IsSum(sum, [i \in 1..Len(order) |-> Effective(order[i]) - dust], 1..Len(order)),
           NEW base, Sound(base, Len(order), sum, all, least),
           NEW S, S \cap base.included = {}
    PROVE  Sound(PassOver(order, dust, least, base, S), Len(order), sum, all, least)
<1> DEFINE n == Len(order)
           I == 1..n
<1>1. n \in Nat /\ IsFiniteSet(I) /\ \A D \in SUBSET I : IsFiniteSet(D) /\ Cardinality(D) \in Nat
  <2>1. n \in Nat
    OBVIOUS
  <2>2. IsFiniteSet(I)
    BY <2>1, FS_Interval
  <2>3. ASSUME NEW D \in SUBSET I PROVE IsFiniteSet(D) /\ Cardinality(D) \in Nat
    BY <2>2, FS_Subset, FS_CardinalityType
  <2> QED  BY <2>1, <2>2, <2>3
<1>2. PICK iter : /\ IsPass(iter, order, dust, least, base, S)
                  /\ PassOver(order, dust, least, base, S) = iter[I]
  <2>1. base \in Kept(n)
    BY DEF Sound
  <2> QED  BY <2>1, PassIs
<1> DEFINE Good(D) == /\ Sound(iter[D], n, sum, all, least)
                      /\ iter[D].included \subseteq base.included \cup D
           good == {m \in Nat : \A D \in SUBSET I : Cardinality(D) = m => Good(D)}
<1>3. 0 \in good
  <2> SUFFICES ASSUME NEW D \in SUBSET I, Cardinality(D) = 0 PROVE Good(D)
    OBVIOUS
  <2>1. D = {}
    BY <1>1, FS_EmptySet
  <2>2. iter[D] = base
    BY <1>2, <2>1 DEF IsPass
  <2> QED  BY <2>2
<1>4. ASSUME NEW m \in Nat, m \in good PROVE m + 1 \in good
  <2> HIDE DEF Good
  <2> SUFFICES ASSUME NEW D \in SUBSET I, Cardinality(D) = m + 1 PROVE Good(D)
    OBVIOUS
  <2> USE DEF Good
  <2>1. D # {}
    <3>1. Cardinality(D) # 0
      OBVIOUS
    <3> QED  BY <3>1, FS_EmptySet
  <2>2. PICK i \in I : i = Max(D) /\ i \in D
    BY <1>1, <2>1, MaxIs
  <2> DEFINE E == D \ {i}
             r == iter[E]
             t == TakeCoin(order, dust, least, r, i)
             total == r.total + Effective(order[i]) - dust
             included == r.included \cup {i}
  <2>3. Cardinality(E) = m /\ E \in SUBSET I
    <3>1. Cardinality(E) = Cardinality(D) - 1
      BY <1>1, <2>2, FS_RemoveElement
    <3> QED  BY <3>1
  <2>4. Sound(r, n, sum, all, least) /\ r.included \subseteq base.included \cup E
    BY <1>4, <2>3
  <2>5. iter[D] = IF i \in S THEN t ELSE r
    BY <1>2, <2>1, <2>2 DEF IsPass
  <2>6. CASE i \notin S
    BY <2>4, <2>5, <2>6
  <2>7. CASE i \in S
    <3>1. i \notin r.included
      BY <2>4, <2>7
    <3>2. /\ t \in Kept(n)
          /\ \/ /\ t.total = total /\ t.included = included
                /\ t.value = r.value /\ t.best = r.best
             \/ /\ t.total = r.total /\ t.included = r.included
                /\ \/ t.value = r.value /\ t.best = r.best
                   \/ /\ t.value = total /\ t.best = included
                      /\ total >= Target + least
      <4>1. r \in Kept(Len(order))
        BY <2>4 DEF Sound
      <4> QED  BY <4>1, TakeCoinKeeps
    <3>3. total = sum[included]
      <4>1. r.included \in SUBSET I
        BY <2>4 DEF Sound, Kept
      <4>2. sum[r.included \cup {i}] = sum[r.included] + [j \in I |-> Effective(order[j]) - dust][i]
        <5> HIDE DEF r
        <5>1. i \in I \ r.included
          BY <3>1
        <5> QED  BY <4>1, <5>1, ZenonT(30) DEF IsSum
      <4>3. sum[r.included] = r.total /\ r.total \in Int
        BY <2>4 DEF Sound, Kept
      <4>4. Effective(order[i]) \in Int
        BY CostsAreNumbers
      <4>5. sum[r.included \cup {i}] = r.total + (Effective(order[i]) - dust)
        BY <4>2, <4>3
      <4> HIDE DEF r
      <4> QED  BY <4>3, <4>4, <4>5
    <3>4. Sound(t, n, sum, all, least) /\ t.included \subseteq included \cup r.included
      <4> HIDE DEF t, total, included, r
      <4>1. included \subseteq included
        OBVIOUS
      <4> QED  BY <2>4, <3>2, <3>3 DEF Sound
    <3>5. included \cup r.included \subseteq base.included \cup D
      BY <2>2, <2>4
    <3> HIDE DEF t, included, r
    <3> QED  BY <2>5, <2>7, <3>4, <3>5
  <2> QED  BY <2>6, <2>7
<1> HIDE DEF good
<1>5. Nat \subseteq good
  BY <1>3, <1>4, Induction
<1>6. Good(I)
  BY <1>1, <1>5 DEF good
<1> QED  BY <1>2, <1>6

\* So a repetition ends with something sound.
LEMMA RepetitionKeeps ==
    ASSUME RequestOK, Target \in Int, NEW order \in Seq(MyCoins), NEW bits,
           NEW dust \in Int, NEW least \in Int, NEW all \in Int, NEW sum,
           IsSum(sum, [i \in 1..Len(order) |-> Effective(order[i]) - dust], 1..Len(order))
    PROVE  Sound(Repetition(order, bits, all, dust, least), Len(order), sum, all, least)
<1> DEFINE none == [total |-> 0, included |-> {}, reached |-> FALSE,
                    value |-> all, best |-> DOMAIN order]
           first == PassOver(order, dust, least, none, bits)
           second == PassOver(order, dust, least, first, DOMAIN order \ first.included)
<1>1. Sound(none, Len(order), sum, all, least) /\ none.included = {}
  BY DEF Sound, Kept, IsSum
<1> HIDE DEF none
<1>2. Sound(first, Len(order), sum, all, least)
  BY <1>1, PassKeeps
<1> HIDE DEF first
<1>3. Sound(second, Len(order), sum, all, least)
  <2>1. (DOMAIN order \ first.included) \cap first.included = {}
    OBVIOUS
  <2> QED  BY <1>2, <2>1, PassKeeps
<1>4. Repetition(order, bits, all, dust, least) = IF first.reached THEN first ELSE second
  BY RepetitionIs DEF first, none
<1> QED  BY <1>2, <1>3, <1>4

\* The coins of some places of an order: with the dust taken off each, they are
\* worth the sum over the places.
At(order, T) == {order[i] : i \in T}

LEMMA PlacesAre ==
    ASSUME RequestOK, NEW order \in Seq(MyCoins),
           \A i, j \in 1..Len(order) : order[i] = order[j] => i = j,
           NEW dust \in Nat, NEW sum,
           IsSum(sum, [i \in 1..Len(order) |-> Effective(order[i]) - dust], 1..Len(order)),
           NEW T \in SUBSET (1..Len(order))
    PROVE  /\ At(order, T) \in SUBSET MyCoins
           /\ sum[T] = EffectiveTotal(At(order, T)) - Cardinality(At(order, T)) * dust
<1> DEFINE I == 1..Len(order)
           f == [i \in I |-> Effective(order[i]) - dust]
           P == {U \in SUBSET I :
                    sum[U] = EffectiveTotal(At(order, U)) - Cardinality(At(order, U)) * dust}
<1>1. IsFiniteSet(I)
  BY FS_Interval
<1>2. ASSUME NEW U \in SUBSET I PROVE At(order, U) \in SUBSET MyCoins
  BY DEF At
<1>3. {} \in P
  <2>1. At(order, {}) = {} /\ sum[{}] = 0
    BY DEF At, IsSum
  <2>2. EffectiveTotal({}) = 0 /\ Cardinality({}) = 0 /\ 0 * dust = 0
    BY EffectiveTotalAdds, FS_EmptySet
  <2>3. EffectiveTotal(At(order, {})) = 0 /\ Cardinality(At(order, {})) = 0
    BY <2>1, <2>2, Zenon
  <2>4. sum[{}] = EffectiveTotal(At(order, {})) - Cardinality(At(order, {})) * dust
    BY <2>1, <2>2, <2>3
  <2> QED  BY <2>4
<1>4. ASSUME NEW U \in SUBSET I, NEW i \in I \ U, U \in P
      PROVE  U \cup {i} \in P
  <2> DEFINE C == At(order, U)
             c == order[i]
  <2>1. C \in SUBSET MyCoins /\ c \in MyCoins /\ c \notin C
    <3>1. C \in SUBSET MyCoins
      BY <1>2
    <3>2. c \in MyCoins
      OBVIOUS
    <3>3. ASSUME NEW j \in U, order[j] = order[i] PROVE FALSE
      BY <3>3
    <3> QED  BY <3>1, <3>2, <3>3 DEF At
  <2>2. At(order, U \cup {i}) = C \cup {c}
    BY DEF At
  <2>3. Cardinality(C \cup {c}) = Cardinality(C) + 1 /\ Cardinality(C) \in Nat
    BY <2>1, MyCoinsAreFinite, FS_AddElement
  <2>4. EffectiveTotal(C \cup {c}) = EffectiveTotal(C) + Effective(c)
        /\ EffectiveTotal(C) \in Int /\ Effective(c) \in Int
    BY <2>1, EffectiveTotalAdds, CostsAreNumbers
  <2>5. sum[U \cup {i}] = sum[U] + (Effective(c) - dust)
    <3> HIDE DEF I, f, c
    <3>1. sum[U \cup {i}] = sum[U] + f[i]
      BY ZenonT(30) DEF IsSum, f, I
    <3>2. f[i] = Effective(c) - dust
      BY DEF f, c
    <3> QED  BY <3>1, <3>2
  <2>6. sum[U] = EffectiveTotal(C) - Cardinality(C) * dust
    BY <1>4
  <2> HIDE DEF C, c
  <2>7. (Cardinality(C) + 1) * dust = Cardinality(C) * dust + dust
        /\ Cardinality(C) * dust \in Nat
    <3>1. \A m \in Nat : (m + 1) * dust = m * dust + dust /\ m * dust \in Nat
      OBVIOUS
    <3> QED  BY <2>3, <3>1
  <2>8. sum[U \cup {i}] = EffectiveTotal(C \cup {c}) - Cardinality(C \cup {c}) * dust
    BY <2>3, <2>4, <2>5, <2>6, <2>7
  <2> QED  BY <2>2, <2>8
<1> HIDE DEF P, I
<1>5. SUBSET I \subseteq P
  BY <1>1, <1>3, <1>4, SetInduction
<1> QED  BY <1>2, <1>5 DEF P, I

\* A set of coins, and the value it was approximated with.
IsApproximation(b, dust) ==
    /\ b.coins \in SUBSET MyCoins /\ b.value \in Int
    /\ EffectiveTotal(b.coins) - b.value \in 0..(Cardinality(b.coins) * dust)

\* What the repetitions end with is a set of the lower coins, that is worth its
\* value and at most the dust of its inputs more.  It reaches the target, unless all
\* of the lower coins do not.
LEMMA ApproximationsAre ==
    ASSUME RequestOK, Target \in Int, NEW order \in LowerOrders,
           NEW dust \in Nat, NEW least \in Nat,
           NEW b \in Approximations(order, EffectiveTotal(LowerCoins), dust, least)
    PROVE  /\ IsApproximation(b, dust)
           /\ b.value < Target => EffectiveTotal(LowerCoins) < Target
<1> DEFINE all == EffectiveTotal(LowerCoins)
           I == 1..Len(order)
           f == [i \in I |-> Effective(order[i]) - dust]
<1>1. /\ LowerCoins \in SUBSET MyCoins /\ IsFiniteSet(LowerCoins)
      /\ all \in Int
  <2>1. LowerCoins \in SUBSET MyCoins
    BY DEF LowerCoins
  <2> QED  BY <2>1, MyCoinsAreFinite, EffectiveTotalAdds
<1>2. /\ order \in Seq(MyCoins)
      /\ \A i, j \in I : order[i] = order[j] => i = j
      /\ At(order, I) = LowerCoins
  <2>1. order \in SetToSeqs(LowerCoins)
    BY DEF LowerOrders
  <2>2. /\ order \in Seq(LowerCoins)
        /\ \A i, j \in I : order[i] = order[j] => i = j
        /\ {order[i] : i \in I} = LowerCoins
    BY <1>1, <2>1, SequencesAre
  <2> QED  BY <1>1, <2>2 DEF At
<1>3. f \in [I -> Int] /\ IsFiniteSet(I)
  <2>1. ASSUME NEW i \in I PROVE Effective(order[i]) - dust \in Int
    BY <1>2, CostsAreNumbers
  <2> QED  BY <2>1, FS_Interval
<1>4. PICK sum : IsSum(sum, f, I)
  BY <1>3, SumExists
<1>5. PICK bits : LET r == Repetition(order, bits, all, dust, least) IN
                     b = [value |-> r.value, coins |-> {order[i] : i \in r.best}]
  BY Zenon DEF Approximations
<1> DEFINE r == Repetition(order, bits, all, dust, least)
<1>6. Sound(r, Len(order), sum, all, least)
  BY <1>1, <1>2, <1>4, RepetitionKeeps
<1>7. b.value = r.value /\ b.coins = At(order, r.best)
  BY <1>5 DEF At
<1> HIDE DEF r
<1> DEFINE C == At(order, r.best)
           E == EffectiveTotal(C)
           k == Cardinality(C)
<1>8. r.best \in SUBSET I /\ r.value \in Int
  BY <1>6 DEF Sound, Kept
<1>9. C \in SUBSET MyCoins /\ sum[r.best] = E - k * dust
  BY <1>2, <1>4, <1>8, PlacesAre
<1>10. E \in Int /\ k \in Nat /\ k * dust \in Nat
  <2>1. E \in Int /\ k \in Nat
    BY <1>9, EffectiveTotalAdds, MyCoinsAreFinite
  <2> HIDE DEF E, k
  <2> QED  BY <2>1
<1>11. \/ r.value = all /\ E = all
       \/ r.value = E - k * dust /\ r.value >= Target + least
  BY <1>2, <1>6, <1>9 DEF Sound
<1> HIDE DEF C, E, k, all
<1>12. E - r.value \in 0..(k * dust)
  BY <1>1, <1>8, <1>10, <1>11
<1>13. r.value < Target => all < Target
  BY <1>1, <1>8, <1>11
<1> QED  BY <1>7, <1>8, <1>9, <1>12, <1>13 DEF IsApproximation, C, E, k, all

\* So are those of both tries, with the dust of an input.
LEMMA BestSubsetsAre ==
    ASSUME RequestOK, Target \in Int, NEW order \in LowerOrders,
           NEW b \in BestSubsets(order)
    PROVE  /\ IsApproximation(b, DustAmount(InputSize))
           /\ b.value < Target => EffectiveTotal(LowerCoins) < Target
<1> DEFINE all == EffectiveTotal(LowerCoins)
           d == DustAmount(InputSize)
           least == DustAmount(FixedSize + request.output) + d
<1>1. d \in Nat /\ least \in Nat
  <2>1. InputSize \in Nat /\ FixedSize + request.output \in Nat
    BY SizesAssumption DEF RequestOK, FixedSize
  <2> QED  BY <2>1, DustIsMonotone
<1>2. b \in Approximations(order, all, 0, 0) \/ b \in Approximations(order, all, d, least)
  BY DEF BestSubsets
<1>3. CASE b \in Approximations(order, all, 0, 0)
  <2>1. IsApproximation(b, 0) /\ (b.value < Target => all < Target)
    BY <1>3, ApproximationsAre
  <2>2. Cardinality(b.coins) \in Nat
    BY <2>1, MyCoinsAreFinite DEF IsApproximation
  <2>3. \A k \in Nat : k * 0 = 0 /\ k * d \in Nat
    BY <1>1
  <2>4. 0..(Cardinality(b.coins) * 0) \subseteq 0..(Cardinality(b.coins) * d)
    <3>1. Cardinality(b.coins) * 0 = 0 /\ Cardinality(b.coins) * d \in Nat
      BY <2>2, <2>3
    <3> HIDE DEF d
    <3> QED  BY <3>1
  <2> QED  BY <2>1, <2>4 DEF IsApproximation
<1>4. CASE b \in Approximations(order, all, d, least)
  BY <1>1, <1>4, ApproximationsAre
<1> QED  BY <1>2, <1>3, <1>4

-----------------------------------------------------------------------------
(* The invariant. *)

\* What the coins are worth more than the recipient gets, with the fees for them.
Left(S) == EffectiveTotal(S) - Target

\* The dust of a transaction of all coins, and of the inputs of one of some.
Spare(S) == DustAmount(Size(Cardinality(MyCoins) + 1, request.output + ChangeSize))
            + Cardinality(S) * DustAmount(InputSize)

\* The coins pay for the recipient and the change, if that is made, and not for
\* much more than a change costs.
Fair(S, change) ==
    /\ Left(S) >= 0
    /\ IF change > DustAmount(Size(Cardinality(S), request.output + ChangeSize))
       THEN Left(S) - change - request.fee * ChangeSize \in 0..(CostOfChange + Spare(S))
       ELSE Left(S) <= CostOfChange + Spare(S)

\* The estimate of an output is not above what the outputs are.
IsEstimated == DustPolicy = "FIXED" \/ request.output + ChangeSize >= 2 * EstimatedOutput


\* The fees and the dust that the invariant compares.
LEMMA SparesAre ==
    ASSUME RequestOK, NEW S \in SUBSET MyCoins
    PROVE  LET out == request.output + ChangeSize
               all == DustAmount(Size(Cardinality(MyCoins) + 1, out))
               d == Cardinality(S) * DustAmount(InputSize)
           IN /\ all \in Nat /\ d \in Nat /\ Spare(S) = all + d
              /\ DustAmount(Size(Cardinality(S), out)) \in 0..all
              /\ request.fee * ChangeSize \in 0..(request.fee * EstimatedOutput)
              /\ CostOfChange = InputCost + request.fee * EstimatedOutput
              /\ InputCost \in Nat /\ request.fee * EstimatedOutput \in Nat
              /\ Cardinality(S) \in 0..Cardinality(MyCoins)
              /\ Cardinality(MyCoins) \in Nat
<1> DEFINE out == request.output + ChangeSize
           n == Cardinality(S)
           N == Cardinality(MyCoins)
           d == DustAmount(InputSize)
<1>1. n \in Nat /\ N \in Nat /\ n <= N
  <2>1. IsFiniteSet(MyCoins) /\ n \in Nat /\ N \in Nat
    BY MyCoinsAreFinite
  <2> QED  BY <2>1, FS_Subset
<1>2. /\ out \in Nat /\ InputSize \in Nat /\ ChangeSize \in Nat
      /\ ChangeSize <= EstimatedOutput /\ request.fee \in Nat
  BY SizesAssumption DEF RequestOK, EstimatedOutput
<1>3. /\ d \in Nat /\ DustAmount(Size(N + 1, out)) \in Nat
      /\ DustAmount(Size(n, out)) \in Nat
      /\ DustAmount(Size(n, out)) <= DustAmount(Size(N + 1, out))
  <2> HIDE DEF n, N, out
  <2>1. Size(n, out) \in Nat /\ Size(N + 1, out) \in Nat
    <3>1. N + 1 \in Nat
      BY <1>1
    <3> QED  BY <1>1, <1>2, <3>1, SizeIsNat, Zenon
  <2>2. Size(n, out) <= Size(N + 1, out)
    BY <1>1, <1>2, SizeGrows
  <2> QED  BY <1>2, <2>1, <2>2, DustIsMonotone
<1>4. n * d \in Nat
  <2> HIDE DEF n, d
  <2> QED  BY <1>1, <1>3
<1>5. /\ request.fee * ChangeSize \in Nat /\ request.fee * EstimatedOutput \in Nat
      /\ request.fee * ChangeSize <= request.fee * EstimatedOutput
      /\ request.fee * InputSize \in Nat
      /\ request.fee * (InputSize + EstimatedOutput)
            = request.fee * InputSize + request.fee * EstimatedOutput
  <2> DEFINE fee == request.fee
  <2>1. fee \in Nat
    BY <1>2
  <2> HIDE DEF fee
  <2>2. fee * ChangeSize \in Nat /\ fee * EstimatedOutput \in Nat /\ fee * InputSize \in Nat
    BY <1>2, <2>1 DEF EstimatedOutput
  <2>3. PICK m \in Nat : EstimatedOutput = ChangeSize + m
    <3>1. EstimatedOutput - ChangeSize \in Nat
          /\ EstimatedOutput = ChangeSize + (EstimatedOutput - ChangeSize)
      BY <1>2 DEF EstimatedOutput
    <3> QED  BY <3>1
  <2>4. fee * EstimatedOutput = fee * ChangeSize + fee * m /\ fee * m \in Nat
    BY <1>2, <2>1, <2>3
  <2>5. fee * (InputSize + EstimatedOutput) = fee * InputSize + fee * EstimatedOutput
    BY <1>2, <2>1 DEF EstimatedOutput
  <2>6. fee * ChangeSize <= fee * EstimatedOutput
    BY <2>2, <2>4
  <2> QED  BY <2>2, <2>5, <2>6 DEF fee
<1> QED  BY <1>1, <1>3, <1>4, <1>5 DEF Spare, CostOfChange, InputCost

\* The change that the knapsack solver leaves for coins of a value is fair.
LEMMA ChangeIs ==
    ASSUME RequestOK, Target \in Int, NEW S \in SUBSET MyCoins, NEW v \in Int, v >= Target,
           EffectiveTotal(S) - v \in 0..(Cardinality(S) * DustAmount(InputSize)),
           NEW k \in 0..Cardinality(MyCoins), NEW change,
           LET rest == v - Target - request.fee * EstimatedOutput IN
             change = IF rest < LeastChange(k + 1, EstimatedOutput) THEN 0 ELSE rest
    PROVE  change \in Nat /\ (IsEstimated => Fair(S, change))
<1> DEFINE out == request.output + ChangeSize
           all == DustAmount(Size(Cardinality(MyCoins) + 1, out))
           nd == Cardinality(S) * DustAmount(InputSize)
           dust == DustAmount(Size(Cardinality(S), out))
           least == DustAmount(Size(k + 1, EstimatedOutput))
           E == EffectiveTotal(S)
           cost == request.fee * EstimatedOutput
           less == request.fee * ChangeSize
           rest == v - Target - cost
<1>1. /\ all \in Nat /\ nd \in Nat /\ Spare(S) = all + nd
      /\ dust \in 0..all /\ less \in 0..cost
      /\ CostOfChange = InputCost + cost
      /\ InputCost \in Nat /\ cost \in Nat
      /\ Cardinality(MyCoins) \in Nat
  BY SparesAre
<1>2. k \in Nat /\ k <= Cardinality(MyCoins)
  BY <1>1
<1>3. least \in Nat /\ (IsEstimated => least <= all)
  <2>1. /\ Size(k + 1, EstimatedOutput) \in Nat
        /\ Size(Cardinality(MyCoins) + 1, out) \in Nat
        /\ out \in Nat
    <3>1. out \in Nat
      BY SizesAssumption DEF RequestOK
    <3>2. k + 1 \in Nat /\ Cardinality(MyCoins) + 1 \in Nat /\ EstimatedOutput \in Nat
      BY <1>1, <1>2 DEF EstimatedOutput
    <3> HIDE DEF out
    <3> QED  BY <3>1, <3>2, SizeIsNat, Zenon
  <2>2. least \in Nat
    BY <2>1, DustIsMonotone
  <2>3. ASSUME DustPolicy = "FIXED" PROVE least <= all
    BY <2>3, DustAssumption DEF DustAmount
  <2>4. ASSUME out >= 2 * EstimatedOutput PROVE least <= all
    <3>1. EstimatedOutput <= out
      BY <2>1, <2>4 DEF EstimatedOutput
    <3>2. Size(k + 1, EstimatedOutput) <= Size(Cardinality(MyCoins) + 1, out)
      <4> HIDE DEF out
      <4> QED  BY <1>1, <1>2, <2>1, <3>1, SizeGrows DEF EstimatedOutput
    <3> QED  BY <2>1, <3>2, DustIsMonotone
  <2> QED  BY <2>2, <2>3, <2>4 DEF IsEstimated
<1>4. E \in Int /\ E - v \in 0..nd
  BY EffectiveTotalAdds
<1>5. change = IF rest < least + InputCost THEN 0 ELSE rest
  BY DEF LeastChange
<1>6. Left(S) = E - Target
  BY DEF Left
<1> HIDE DEF out, all, nd, dust, least, E, cost, less
<1>7. change \in Nat
  BY <1>1, <1>3, <1>5
<1>8. /\ E - Target >= 0
      /\ least <= all /\ change > dust =>
            E - Target - change - less \in 0..(InputCost + cost + (all + nd))
      /\ least <= all /\ ~(change > dust) =>
            E - Target <= InputCost + cost + (all + nd)
  BY <1>1, <1>3, <1>4, <1>5
<1> QED  BY <1>1, <1>3, <1>6, <1>7, <1>8 DEF Fair, out, dust, less

\* Of some coins one is the smallest and comes first.
LEMMA SmallestExists ==
    ASSUME RequestOK, NEW S \in SUBSET MyCoins, S # {}
    PROVE  SmallestOf(S) # {}
<1> DEFINE V == {request.value[c] : c \in S}
           least == {c \in S : \A d \in S : request.value[c] <= request.value[d]}
<1>1. V \subseteq Nat /\ V # {}
  BY DEF RequestOK
<1>2. PICK v \in V : \A w \in V : v <= w
  <2> HIDE DEF V
  <2> QED  BY <1>1, LeastNumber
<1>3. PICK c \in least : TRUE
  BY <1>2
<1>4. CASE \E e \in least : Confirmed(e)
  BY <1>4 DEF SmallestOf, FirstOf, ConfirmedBefore
<1>5. CASE \A e \in least : ~Confirmed(e)
  BY <1>3, <1>5 DEF SmallestOf, FirstOf, ConfirmedBefore
<1> QED  BY <1>4, <1>5

\* The coins that the knapsack solver chooses, and its change, are fair.
LEMMA ChoiceIs ==
    ASSUME RequestOK, Target \in Int,
           EffectiveTotal(LowerCoins) >= Target \/ LargerCoins # {},
           NEW order \in LowerOrders, NEW best \in BestSubsets(order),
           NEW choice \in Choose(best, SmallestOf(LargerCoins),
                            LeastChange(Cardinality(best.coins) + 1, EstimatedOutput))
    PROVE  /\ choice.coins \in SUBSET MyCoins /\ choice.change \in Nat
           /\ IsEstimated => Fair(choice.coins, choice.change)
<1> DEFINE k == Cardinality(best.coins)
           minimum == LeastChange(k + 1, EstimatedOutput)
           S == SmallestOf(LargerCoins)
           lone == {c \in S : \/ best.value # Target /\ best.value < Target + minimum
                              \/ Effective(c) <= best.value}
           rest(v) == v - Target - request.fee * EstimatedOutput
           change(v) == IF rest(v) < minimum THEN 0 ELSE rest(v)
<1>1. /\ best.coins \in SUBSET MyCoins /\ best.value \in Int
      /\ EffectiveTotal(best.coins) - best.value \in 0..(k * DustAmount(InputSize))
      /\ best.value < Target => EffectiveTotal(LowerCoins) < Target
  BY BestSubsetsAre DEF IsApproximation
<1>2. k \in 0..Cardinality(MyCoins)
  BY <1>1, SparesAre
<1>3. S \subseteq LargerCoins /\ LargerCoins \in SUBSET MyCoins
  BY DEF SmallestOf, FirstOf, LargerCoins
<1>4. \/ /\ lone = {}
         /\ choice = [coins |-> best.coins, change |-> change(best.value)]
      \/ \E c \in lone : choice = [coins |-> {c}, change |-> change(Effective(c))]
  BY DEF Choose
<1>5. minimum \in Nat /\ (minimum > 0)
  <2>1. InputCost \in Nat
    BY CostsAreNumbers
  <2>2. DustAmount(Size(k + 1, EstimatedOutput)) \in Nat
    <3>1. k + 1 \in Nat /\ EstimatedOutput \in Nat
      BY <1>2, SparesAre DEF EstimatedOutput
    <3>2. Size(k + 1, EstimatedOutput) \in Nat
      BY <3>1, SizeIsNat, Zenon
    <3> QED  BY <3>2, DustIsMonotone
  <2>3. InputCost # 0
    <3>1. request.fee \in Nat \ {0} /\ InputSize \in Nat \ {0}
      BY SizesAssumption DEF RequestOK
    <3> QED  BY <3>1 DEF InputCost
  <2> QED  BY <2>1, <2>2, <2>3 DEF LeastChange
<1>6. ASSUME lone = {} PROVE best.value >= Target
  <2> SUFFICES ASSUME best.value < Target PROVE FALSE
    BY <1>1
  <2>1. LargerCoins # {}
    <3>1. EffectiveTotal(LowerCoins) \in Int
      BY EffectiveTotalAdds DEF LowerCoins
    <3> QED  BY <1>1, <3>1
  <2>2. S # {}
    BY <1>3, <2>1, SmallestExists
  <2>3. best.value # Target /\ best.value < Target + minimum
    BY <1>1, <1>5
  <2> QED  BY <1>6, <2>2, <2>3
<1>7. CASE /\ lone = {}
           /\ choice = [coins |-> best.coins, change |-> change(best.value)]
  <2>1. best.value >= Target
    BY <1>6, <1>7
  <2>2. choice.coins = best.coins /\ choice.change = change(best.value)
    BY <1>7
  <2> HIDE DEF lone, k
  <2> QED  BY <1>1, <1>2, <2>1, <2>2, ChangeIs DEF k
<1>8. ASSUME NEW c \in lone, choice = [coins |-> {c}, change |-> change(Effective(c))]
      PROVE  /\ choice.coins \in SUBSET MyCoins /\ choice.change \in Nat
             /\ IsEstimated => Fair(choice.coins, choice.change)
  <2> DEFINE v == Effective(c)
  <2>1. c \in LargerCoins /\ c \in MyCoins /\ v \in Int
    BY <1>3, CostsAreNumbers
  <2>2. v >= Target
    <3>1. LeastChange(2, request.output) \in Nat
      <4>1. Size(2, request.output) \in Nat
        BY SizeIsNat DEF RequestOK
      <4>2. DustAmount(Size(2, request.output)) \in Nat /\ InputCost \in Nat
        BY <4>1, DustIsMonotone, CostsAreNumbers
      <4> QED  BY <4>2 DEF LeastChange
    <3>2. v >= Target + LeastChange(2, request.output)
      BY <2>1 DEF LargerCoins
    <3> QED  BY <2>1, <3>1, <3>2
  <2>3. EffectiveTotal({c}) = v /\ Cardinality({c}) = 1
    <3>1. EffectiveTotal({} \cup {c}) = EffectiveTotal({}) + v /\ EffectiveTotal({}) = 0
      BY <2>1, EffectiveTotalAdds
    <3>2. {} \cup {c} = {c}
      OBVIOUS
    <3>3. EffectiveTotal({c}) = EffectiveTotal({}) + v
      BY <3>1, <3>2, Zenon
    <3> HIDE DEF v
    <3> QED  BY <2>1, <3>1, <3>3, FS_Singleton
  <2>4. EffectiveTotal({c}) - v \in 0..(Cardinality({c}) * DustAmount(InputSize))
    <3>1. Cardinality({c}) * DustAmount(InputSize) \in Nat
      BY <2>1, SparesAre
    <3> HIDE DEF v
    <3> QED  BY <2>1, <2>3, <3>1
  <2>5. choice.coins = {c} /\ choice.change = change(v)
    BY <1>8
  <2> HIDE DEF v, lone, k
  <2>6. {c} \in SUBSET MyCoins
    BY <2>1
  <2> QED  BY <1>2, <2>1, <2>2, <2>4, <2>5, <2>6, ChangeIs DEF k
<1> HIDE DEF lone
<1> QED  BY <1>4, <1>7, <1>8

\* What is left of the coins, with the fees of all of the transaction.
LEMMA LeftIs ==
    ASSUME RequestOK, outputAmount \in Nat, NEW S \in SUBSET MyCoins
    PROVE  LET fees == request.fee * Size(Cardinality(S), request.output) IN
             /\ Target \in Nat /\ Total(S) \in Int /\ fees \in Nat
             /\ EffectiveTotal(S) \in Int
             /\ Left(S) = Total(S) - outputAmount - fees
             /\ Cardinality(S) \in Nat
             /\ request.fee * Size(Cardinality(S), request.output + ChangeSize)
                    = fees + request.fee * ChangeSize
             /\ request.fee * ChangeSize \in Nat
<1> DEFINE fee == request.fee
           n == Cardinality(S)
           out == request.output
<1>1. /\ n \in Nat /\ fee \in Nat /\ out \in Nat /\ InputSize \in Nat /\ ChangeSize \in Nat
      /\ Total(S) \in Int /\ EffectiveTotal(S) \in Int
  BY MyCoinsAreFinite, SizesAssumption, EffectiveTotalAdds DEF RequestOK
<1>2. /\ fee * Size(0, out) \in Nat /\ fee * Size(n, out) \in Nat
      /\ fee * Size(n, out + ChangeSize) = fee * Size(n, out) + fee * ChangeSize
  <2>1. \A k \in Nat : fee * k \in Nat
    BY <1>1
  <2> HIDE DEF n, fee, out
  <2>2. Size(0, out) \in Nat /\ Size(n, out) \in Nat
    BY <1>1, SizeIsNat
  <2>3. fee * Size(n, out + ChangeSize) = fee * Size(n, out) + fee * ChangeSize
    <3>1. Size(n, out + ChangeSize) = Size(n, out) + ChangeSize
      <4>1. InputSize * n \in Nat
        BY <1>1
      <4> QED  BY <1>1, <4>1 DEF Size, FixedSize
    <3>2. \A k, m \in Nat : fee * (k + m) = fee * k + fee * m
      BY <1>1
    <3> QED  BY <1>1, <2>2, <3>1, <3>2
  <2> QED  BY <2>1, <2>2, <2>3
<1>3. fee * Size(n, out) = fee * Size(0, out) + n * (fee * InputSize)
  <2> HIDE DEF n, fee, out
  <2>1. Size(n, out) = Size(0, out) + InputSize * n /\ Size(0, out) \in Nat
    BY <1>1 DEF Size, FixedSize
  <2>2. \A a, b \in Nat : fee * (a + b) = fee * a + fee * b
    BY <1>1
  <2>3. InputSize * n \in Nat /\ fee * (InputSize * n) = n * (fee * InputSize)
    BY <1>1
  <2> QED  BY <2>1, <2>2, <2>3
<1>4. fee * ChangeSize \in Nat /\ n * (fee * InputSize) \in Nat
  <2> HIDE DEF n, fee, out
  <2>1. fee * InputSize \in Nat
    BY <1>1
  <2> QED  BY <1>1, <2>1
<1>5. Total(S) = EffectiveTotal(S) + n * (fee * InputSize)
  BY TotalAndFees DEF InputCost
<1> HIDE DEF fee, out, n
<1>6. Target = outputAmount + fee * Size(0, out) /\ Target \in Nat
  BY <1>2 DEF Target, fee, out
<1>7. Left(S) = Total(S) - outputAmount - fee * Size(n, out)
  BY <1>1, <1>2, <1>3, <1>4, <1>5, <1>6 DEF Left
<1> QED  BY <1>1, <1>2, <1>4, <1>6, <1>7 DEF fee, out, n

\* What hasEnough answers.
LEMMA HasEnoughIs ==
    ASSUME RequestOK, outputAmount \in Nat, changeAmount \in Int,
           NEW total \in Nat, NEW n \in Nat, NEW last \in BOOLEAN
    PROVE  LET found == HasEnough(total, n, last)
               base == request.fee * Size(n, request.output)
               less == request.fee * ChangeSize
               rest == total - outputAmount - base
           IN /\ found.change \in Int /\ found.output \in Nat
              /\ ~request.wipe =>
                   /\ found.output = outputAmount
                   /\ ~found.enough => total < outputAmount + (base + less)
                   /\ found.enough => rest >= 0 /\
                        \/ found.change = rest /\ rest <= DustAmount(Size(n, 2 * EstimatedOutput))
                        \/ found.change = rest - less /\ rest >= less
              /\ request.wipe =>
                   /\ ~found.enough /\ found.change = changeAmount
                   /\ \/ found.output = outputAmount
                      \/ last /\ found.output = rest
<1> DEFINE found == HasEnough(total, n, last)
           base == request.fee * Size(n, request.output)
           less == request.fee * ChangeSize
           rest == total - outputAmount - base
           dust == DustAmount(Size(n, 2 * EstimatedOutput))
           refused == [enough |-> FALSE, change |-> changeAmount, output |-> outputAmount]
<1>1. base \in Nat /\ less \in Nat
  <2>1. request.output \in Nat /\ ChangeSize \in Nat /\ request.fee \in Nat
    BY SizesAssumption DEF RequestOK
  <2>2. Size(n, request.output) \in Nat
    BY <2>1, SizeIsNat
  <2>3. \A k \in Nat : request.fee * k \in Nat
    BY <2>1
  <2> QED  BY <2>1, <2>2, <2>3
<1>2. dust \in Nat
  <2>1. 2 * EstimatedOutput \in Nat
    BY DEF EstimatedOutput
  <2>2. Size(n, 2 * EstimatedOutput) \in Nat
    BY <2>1, SizeIsNat, Zenon
  <2> QED  BY <2>2, DustIsMonotone
<1>3. found = IF outputAmount > total \/ rest < 0 THEN refused
              ELSE IF request.wipe
              THEN IF last THEN [refused EXCEPT !.output = rest] ELSE refused
              ELSE IF rest <= dust
              THEN [refused EXCEPT !.enough = TRUE, !.change = rest]
              ELSE [refused EXCEPT !.enough = rest - less >= 0, !.change = rest - less]
  BY DEF HasEnough
<1>4. /\ (refused.enough <=> FALSE) /\ refused.change = changeAmount /\ refused.output = outputAmount
      /\ LET t == [refused EXCEPT !.output = rest] IN
           (t.enough <=> FALSE) /\ t.change = changeAmount /\ t.output = rest
      /\ LET t == [refused EXCEPT !.enough = TRUE, !.change = rest] IN
           (t.enough <=> TRUE) /\ t.change = rest /\ t.output = outputAmount
      /\ LET t == [refused EXCEPT !.enough = rest - less >= 0, !.change = rest - less] IN
           (t.enough <=> rest - less >= 0) /\ t.change = rest - less /\ t.output = outputAmount
  OBVIOUS
<1> HIDE DEF found, base, less, dust, refused
<1>5. CASE outputAmount > total \/ rest < 0
  <2>1. (found.enough <=> FALSE) /\ found.change = changeAmount /\ found.output = outputAmount
    BY <1>3, <1>4, <1>5
  <2> QED  BY <1>1, <1>5, <2>1 DEF found, base, less, dust
<1>6. CASE ~(outputAmount > total \/ rest < 0) /\ request.wipe
  <2>1. (found.enough <=> FALSE) /\ found.change = changeAmount
        /\ (found.output = outputAmount \/ (last /\ found.output = rest))
    BY <1>3, <1>4, <1>6
  <2>2. rest \in Nat
    BY <1>1, <1>6
  <2> QED  BY <1>6, <2>1, <2>2 DEF found, base, less, dust
<1>7. CASE ~(outputAmount > total \/ rest < 0) /\ ~request.wipe /\ rest <= dust
  <2>1. (found.enough <=> TRUE) /\ found.change = rest /\ found.output = outputAmount
    BY <1>3, <1>4, <1>7
  <2>2. rest \in Nat
    BY <1>1, <1>7
  <2> QED  BY <1>7, <2>1, <2>2 DEF found, base, less, dust
<1>8. CASE ~(outputAmount > total \/ rest < 0) /\ ~request.wipe /\ ~(rest <= dust)
  <2>1. (found.enough <=> rest - less >= 0) /\ found.change = rest - less
        /\ found.output = outputAmount
    BY <1>3, <1>4, <1>8
  <2>2. rest \in Nat /\ rest - less \in Int
    BY <1>1, <1>8
  <2>3. /\ found.enough => rest >= less
        /\ ~found.enough => total < outputAmount + (base + less)
    BY <1>1, <2>1, <2>2
  <2> QED  BY <1>8, <2>1, <2>2, <2>3 DEF found, base, less, dust
<1> QED  BY <1>5, <1>6, <1>7, <1>8

\* Coins that hasEnough accepts are fair.
LEMMA EnoughIsFair ==
    ASSUME RequestOK, outputAmount \in Nat, changeAmount \in Int, ~request.wipe, IsEstimated,
           NEW S \in SUBSET MyCoins, NEW last \in BOOLEAN, Total(S) \in Nat,
           HasEnough(Total(S), Cardinality(S), last).enough
    PROVE  Fair(S, HasEnough(Total(S), Cardinality(S), last).change)
<1> DEFINE n == Cardinality(S)
           out == request.output + ChangeSize
           all == DustAmount(Size(Cardinality(MyCoins) + 1, out))
           nd == n * DustAmount(InputSize)
           dust == DustAmount(Size(n, out))
           small == DustAmount(Size(n, 2 * EstimatedOutput))
           less == request.fee * ChangeSize
           cost == request.fee * EstimatedOutput
           change == HasEnough(Total(S), n, last).change
           rest == Left(S)
<1>1. /\ all \in Nat /\ nd \in Nat /\ Spare(S) = all + nd
      /\ dust \in 0..all /\ less \in 0..cost
      /\ CostOfChange = InputCost + cost
      /\ InputCost \in Nat /\ cost \in Nat
  BY SparesAre
<1>2. /\ n \in Nat /\ rest = Total(S) - outputAmount - request.fee * Size(n, request.output)
      /\ rest \in Int
  BY LeftIs
<1>3. /\ rest >= 0
      /\ \/ change = rest /\ rest <= small
         \/ change = rest - less /\ rest >= less
  BY <1>2, HasEnoughIs
<1>4. small <= dust /\ small \in Nat
  <2>1. out \in Nat /\ 2 * EstimatedOutput \in Nat
    BY SizesAssumption DEF RequestOK, EstimatedOutput
  <2>2. /\ Size(n, 2 * EstimatedOutput) \in Nat /\ Size(n, out) \in Nat
        /\ out >= 2 * EstimatedOutput => Size(n, 2 * EstimatedOutput) <= Size(n, out)
    <3> HIDE DEF n, out
    <3>1. Size(n, 2 * EstimatedOutput) \in Nat /\ Size(n, out) \in Nat
      BY <1>2, <2>1, SizeIsNat, Zenon
    <3>2. ASSUME out >= 2 * EstimatedOutput
          PROVE  Size(n, 2 * EstimatedOutput) <= Size(n, out)
      <4> DEFINE two == 2 * EstimatedOutput
      <4>1. two \in Nat /\ two <= out /\ n <= n
        BY <1>2, <2>1, <3>2 DEF EstimatedOutput
      <4> HIDE DEF two
      <4>2. Size(n, two) <= Size(n, out)
        BY <1>2, <2>1, <4>1, SizeGrows
      <4> QED  BY <4>2 DEF two
    <3> QED  BY <3>1, <3>2
  <2>3. small \in Nat
    BY <2>2, DustIsMonotone
  <2>4. ASSUME DustPolicy = "FIXED" PROVE small <= dust
    BY <2>4, DustAssumption DEF DustAmount
  <2>5. ASSUME out >= 2 * EstimatedOutput PROVE small <= dust
    BY <2>2, <2>5, DustIsMonotone
  <2> QED  BY <2>3, <2>4, <2>5 DEF IsEstimated
<1> HIDE DEF n, out, all, nd, dust, small, less, cost, change, rest
<1>5. CASE change > dust
  <2>1. change = rest - less
    BY <1>1, <1>2, <1>3, <1>4, <1>5
  <2>2. rest - change - less \in 0..(InputCost + cost + (all + nd))
    BY <1>1, <1>2, <2>1
  <2> QED  BY <1>1, <1>3, <1>5, <2>2 DEF Fair, rest, change, less, n, out, dust
<1>6. CASE ~(change > dust)
  <2>1. rest <= InputCost + cost + (all + nd)
    BY <1>1, <1>2, <1>3, <1>6
  <2> QED  BY <1>1, <1>3, <1>6, <2>1 DEF Fair, rest, change, less, n, out, dust
<1> QED  BY <1>5, <1>6

-----------------------------------------------------------------------------
(* The inductive invariant.                                                *)

Types ==
    /\ pc \in Parts
    /\ picked \subseteq MyCoins /\ amount \in Nat
    /\ outputAmount \in Nat /\ changeAmount \in Int
    /\ tx \in [sent : Nat, change : Nat]
    /\ fellBack \in BOOLEAN
    /\ pc \in {"deep", "merge"} =>
        amount = Total(picked) + (IF fellBack THEN outputAmount ELSE 0)

\* A wipe sends what is left of the coins, or nothing; everyone else what was asked.
SendsWhatIsAsked ==
    /\ ~request.wipe => outputAmount = request.amount
    /\ request.wipe =>
        /\ pc \notin {"search", "knapsack"} /\ ~fellBack /\ changeAmount = 0
        /\ pc \in {"filter", "deep", "merge"} => outputAmount = 0
        /\ outputAmount > 0 =>
            Total(picked) = outputAmount
                + request.fee * Size(Cardinality(picked), request.output)

\* Before there is a selection nothing is picked, and a search that has a best one
\* needs no change for it.
NothingYet ==
    /\ pc \in {"filter", "search", "knapsack"} =>
        /\ picked = {} /\ changeAmount = 0 /\ ~fellBack
        /\ pc = "filter" => amount = 0
    /\ pc = "search" /\ search.best # {} => InRange(search.best)

\* What is picked is fair until the transaction is made, and then as well.
PickedFairly ==
    /\ pc \in {"outputs", "done"} /\ ~request.wipe /\ ~fellBack /\ IsEstimated =>
        Fair(picked, changeAmount)
    /\ pc = "done" =>
        LET dust == DustAmount(Size(Cardinality(picked), request.output + ChangeSize)) IN
        tx = [sent |-> outputAmount,
              change |-> IF changeAmount > dust THEN changeAmount ELSE 0]

Inv ==
    /\ request \in Requests
    /\ Types
    /\ SearchIs(search)
    /\ SendsWhatIsAsked
    /\ NothingYet
    /\ PickedFairly
    /\ EnoughIsAccepted

\* What the invariant says of the request and the numbers that are compared.
LEMMA InvGives ==
    ASSUME Inv
    PROVE  /\ RequestOK /\ outputAmount \in Nat /\ Target \in Nat /\ CostOfChange \in Nat
           /\ EffectiveCoins \subseteq MyCoins /\ picked \subseteq MyCoins
           /\ search.best \subseteq MyCoins
<1>1. RequestOK /\ outputAmount \in Nat /\ picked \subseteq MyCoins
  BY RequestsAreOK DEF Inv, Types
<1>2. Target \in Nat
  <2>1. {} \in SUBSET MyCoins
    OBVIOUS
  <2> QED  BY <1>1, <2>1, LeftIs
<1>3. EffectiveCoins \subseteq MyCoins /\ CostOfChange \in Nat
  BY <1>1, CostsAreNumbers
<1>4. search.best \subseteq EffectiveCoins
  BY DEF Inv, SearchIs
<1> QED  BY <1>1, <1>2, <1>3, <1>4

\* What depends on the request only stays the same.
LEMMA RequestStays ==
    ASSUME RequestOK, request' = request
    PROVE  /\ MyCoins' = MyCoins /\ EffectiveCoins' = EffectiveCoins
           /\ InputCost' = InputCost /\ CostOfChange' = CostOfChange
           /\ WasteOfInput' = WasteOfInput
           /\ IsEstimated' <=> IsEstimated
           /\ outputAmount' = outputAmount => Target' = Target
BY DEF MyCoins, EffectiveCoins, Effective, InputCost, CostOfChange, WasteOfInput,
       IsEstimated, Target

\* What is said of a search does not depend on the step.
LEMMA SearchStays ==
    ASSUME RequestOK, request' = request, NEW s, SearchIs(s)
    PROVE  SearchIs(s)'
<1>1. EffectiveCoins' = EffectiveCoins /\ WasteOfInput' = WasteOfInput
  BY RequestStays
<1>2. Selected(s) \in SUBSET MyCoins /\ EffectiveCoins \subseteq MyCoins
  BY SelectedIs, CostsAreNumbers
<1>3. Between(s, Len(s.selection) + 1, Len(s.order)) \in SUBSET MyCoins
  <2>1. /\ Len(s.selection) + 1 \in Nat \ {0} /\ Len(s.order) \in Nat
        /\ Len(s.order) <= Len(s.order)
    BY DEF SearchIs
  <2> QED  BY <1>2, <2>1, BetweenIs
<1>4. /\ EffectiveTotal(Selected(s))' = EffectiveTotal(Selected(s))
      /\ EffectiveTotal(Between(s, Len(s.selection) + 1, Len(s.order)))'
            = EffectiveTotal(Between(s, Len(s.selection) + 1, Len(s.order)))
  <2>1. PICK a, b : /\ a = Selected(s)
                    /\ b = Between(s, Len(s.selection) + 1, Len(s.order))
    OBVIOUS
  <2>2. EffectiveTotal(a)' = EffectiveTotal(a) /\ EffectiveTotal(b)' = EffectiveTotal(b)
    BY <1>2, <1>3, <2>1, EffectiveTotalStays
  <2> QED  BY <2>1, <2>2
<1> QED  BY <1>1, <1>4 DEF SearchIs

\* Neither does what is said of coins, while the recipient gets the same.
LEMMA FairStays ==
    ASSUME RequestOK, request' = request, outputAmount' = outputAmount,
           NEW S \in SUBSET MyCoins
    PROVE  /\ InRange(S)' <=> InRange(S)
           /\ \A change : Fair(S, change)' <=> Fair(S, change)
<1>1. EffectiveTotal(S)' = EffectiveTotal(S)
  BY EffectiveTotalStays
<1>2. /\ MyCoins' = MyCoins /\ CostOfChange' = CostOfChange /\ Target' = Target
  BY RequestStays
<1>3. Left(S)' = Left(S) /\ Spare(S)' = Spare(S)
  BY <1>1, <1>2 DEF Left, Spare
<1> QED  BY <1>1, <1>2, <1>3 DEF InRange, Fair

\* It holds initially.
LEMMA Initially == Init => Inv
<1> SUFFICES ASSUME Init PROVE Inv
  OBVIOUS
<1>1. RequestOK
  BY RequestsAreOK DEF Init
<1>2. EffectiveTotal({}) = 0 /\ Total({}) = 0 /\ WasteOfInput \in Int
  BY <1>1, EffectiveTotalAdds, CostsAreNumbers
<1>3. SearchIs(search)
  <2>1. /\ search.order = <<>> /\ search.selection = <<>>
        /\ search.value = 0 /\ search.available = 0 /\ search.waste = 0
        /\ search \in [order : Seq(EffectiveCoins), selection : Seq(BOOLEAN),
              value : Int, available : Int, waste : Int,
              best : SUBSET EffectiveCoins, bestWaste : Int, tries : 0..TotalTries]
    BY TotalTriesAssumption DEF Init, NoSearch
  <2>2. Selected(search) = {}
    BY <2>1 DEF Selected
  <2>3. Between(search, Len(search.selection) + 1, Len(search.order)) = {}
    BY <2>1 DEF Between
  <2>4. Cardinality({}) * WasteOfInput = 0
    BY <1>2, FS_EmptySet
  <2>5. /\ EffectiveTotal(Selected(search)) = 0
        /\ Cardinality(Selected(search)) * WasteOfInput = 0
        /\ EffectiveTotal(Between(search, Len(search.selection) + 1, Len(search.order))) = 0
    BY <1>2, <2>2, <2>3, <2>4, Zenon
  <2> QED  BY <2>1, <2>5 DEF SearchIs
<1>4. Types
  <2>1. pc = "filter" /\ pc \in Parts
    BY DEF Init, Parts
  <2>2. tx \in [sent : Nat, change : Nat] /\ fellBack \in BOOLEAN
    BY DEF Init, NoTx
  <2>3. /\ picked \subseteq MyCoins /\ amount \in Nat
        /\ outputAmount \in Nat /\ changeAmount \in Int
    BY <1>1 DEF Init, RequestOK
  <2> QED  BY <2>1, <2>2, <2>3 DEF Types
<1>5. SendsWhatIsAsked /\ NothingYet /\ PickedFairly /\ EnoughIsAccepted
  BY <1>1 DEF Init, SendsWhatIsAsked, NothingYet, PickedFairly, EnoughIsAccepted, RequestOK
<1> QED  BY <1>3, <1>4, <1>5 DEF Init, Inv

\* Steps that pick nothing.
LEMMA PicksNothing ==
    ASSUME Inv, UNCHANGED <<request, picked, amount, outputAmount, changeAmount, fellBack, tx>>,
           NEW s, search' = s, SearchIs(s),
           \/ pc' = pc
           \/ pc = "filter" /\ pc' \in {"deep", "merge", "failed"}
           \/ pc = "filter" /\ pc' = "search" /\ ~request.wipe
           \/ pc = "search" /\ pc' = "knapsack",
           pc' = "search" /\ s.best # {} => InRange(s.best),
           pc' = "failed" => Total(MyCoins) < request.amount + request.fee *
                                Size(Cardinality(MyCoins), request.output + ChangeSize)
    PROVE  Inv'
<1>1. /\ RequestOK /\ request' = request /\ outputAmount' = outputAmount
      /\ picked \subseteq MyCoins
  BY InvGives
<1>2. MyCoins' = MyCoins /\ (IsEstimated' <=> IsEstimated)
  BY <1>1, RequestStays
<1>3. PICK S, M : S = picked /\ M = MyCoins
  OBVIOUS
<1>4. /\ Total(S)' = Total(S) /\ Total(M)' = Total(M)
      /\ \A change : Fair(S, change)' <=> Fair(S, change)
  BY <1>1, <1>3, EffectiveTotalStays, FairStays
<1>5. SearchIs(search)'
  BY <1>1, SearchStays
<1>6. Types'
  <2>1. pc' \in Parts
    BY DEF Inv, Types, Parts
  <2>2. ASSUME pc' \in {"deep", "merge"}
        PROVE  amount = Total(S) + (IF fellBack THEN outputAmount ELSE 0)
    <3>1. CASE pc' = pc
      BY <1>3, <2>2, <3>1 DEF Inv, Types
    <3>2. CASE pc = "filter"
      <4>1. amount = 0 /\ S = {} /\ ~fellBack
        BY <1>3, <3>2 DEF Inv, NothingYet
      <4>2. Total({}) = 0
        BY <1>1, EffectiveTotalAdds
      <4>3. Total(S) = 0
        BY <4>1, <4>2, Zenon
      <4> QED  BY <4>1, <4>3
    <3> QED  BY <2>2, <3>1, <3>2
  <2>3. Total(picked)' = Total(S)
    BY <1>3, <1>4
  <2> QED  BY <1>2, <2>1, <2>2, <2>3 DEF Inv, Types
<1>7. SendsWhatIsAsked'
  <2>1. Total(picked)' = Total(picked)
    BY <1>3, <1>4
  <2> QED  BY <2>1 DEF Inv, SendsWhatIsAsked
<1>8. NothingYet'
  <2>1. ASSUME pc' = "search", s.best # {} PROVE InRange(s.best)'
    <3>1. s.best \in SUBSET MyCoins
      BY InvGives DEF SearchIs
    <3>2. PICK b \in SUBSET MyCoins : b = s.best
      BY <3>1
    <3>3. InRange(b)' <=> InRange(b)
      BY <1>1, FairStays
    <3> QED  BY <2>1, <3>2, <3>3
  <2>2. pc' \in {"filter", "search", "knapsack"} =>
            picked = {} /\ changeAmount = 0 /\ ~fellBack /\ (pc' = "filter" => amount = 0)
    BY DEF Inv, NothingYet
  <2> QED  BY <2>1, <2>2 DEF NothingYet
<1>9. PickedFairly'
  <2>1. pc' \in {"outputs", "done"} => pc' = pc
    OBVIOUS
  <2>2. Fair(picked, changeAmount)' <=> Fair(picked, changeAmount)
    BY <1>3, <1>4
  <2> QED  BY <1>2, <2>1, <2>2 DEF Inv, PickedFairly
<1>10. EnoughIsAccepted'
  <2>1. Total(MyCoins)' = Total(MyCoins)
    BY <1>2, <1>3, <1>4
  <2> QED  BY <1>2, <2>1 DEF EnoughIsAccepted
<1> QED  BY <1>1, <1>5, <1>6, <1>7, <1>8, <1>9, <1>10 DEF Inv

\* A try is counted.
LEMMA TriedOnce ==
    ASSUME NEW s, SearchIs(s), s.tries < TotalTries
    PROVE  LET r == [s EXCEPT !.tries = @ + 1] IN
             /\ SearchIs(r) /\ r.value = s.value /\ r.best = s.best
             /\ r.selection = s.selection /\ r.order = s.order
<1> DEFINE r == [s EXCEPT !.tries = @ + 1]
<1>1. s \in [order : Seq(EffectiveCoins), selection : Seq(BOOLEAN),
              value : Int, available : Int, waste : Int,
              best : SUBSET EffectiveCoins, bestWaste : Int, tries : 0..TotalTries]
  BY DEF SearchIs
<1>2. s.tries + 1 \in 0..TotalTries
  BY <1>1, TotalTriesAssumption
<1>3. r \in [order : Seq(EffectiveCoins), selection : Seq(BOOLEAN),
              value : Int, available : Int, waste : Int,
              best : SUBSET EffectiveCoins, bestWaste : Int, tries : 0..TotalTries]
  BY <1>1, <1>2
<1>4. /\ r.value = s.value /\ r.best = s.best /\ r.selection = s.selection
      /\ r.order = s.order /\ r.waste = s.waste /\ r.available = s.available
  BY <1>1
<1> HIDE DEF r
<1>5. Selected(r) = Selected(s)
      /\ \A a, b : Between(r, a, b) = Between(s, a, b)
  BY <1>4 DEF Selected, Between
<1>6. SearchIs(r)
  <2>1. Between(r, Len(s.selection) + 1, Len(s.order))
            = Between(s, Len(s.selection) + 1, Len(s.order))
    BY <1>5
  <2>2. EffectiveTotal(Between(r, Len(s.selection) + 1, Len(s.order)))
            = EffectiveTotal(Between(s, Len(s.selection) + 1, Len(s.order)))
    BY <2>1, Zenon
  <2>3. EffectiveTotal(Selected(r)) = EffectiveTotal(Selected(s))
        /\ Cardinality(Selected(r)) = Cardinality(Selected(s))
    BY <1>5, Zenon
  <2> QED  BY <1>3, <1>4, <2>2, <2>3 DEF SearchIs
<1> QED  BY <1>4, <1>6 DEF r

-----------------------------------------------------------------------------
(* Every action keeps it.                                                  *)

\* Who is refused has no coins, or all that are worth their fees are not enough.
LEMMA RefuseKeeps == ASSUME Inv, Refuse PROVE Inv'
<1>1. /\ UNCHANGED <<request, picked, amount, outputAmount, changeAmount, fellBack, tx>>
      /\ pc = "filter" /\ pc' = "failed"
      /\ MyCoins = {} \/ (Optimizes /\ ~HasFunds)
  BY DEF Refuse
<1>2. PICK s : s = search
  OBVIOUS
<1>3. search' = s /\ SearchIs(s)
  BY <1>2 DEF Refuse, Inv
<1> DEFINE N == Cardinality(MyCoins)
           less == request.fee * ChangeSize
           fees == request.fee * Size(N, request.output)
           needed == request.fee * Size(N, request.output + ChangeSize)
<1>4. /\ Total(MyCoins) \in Int /\ fees \in Nat /\ less \in Nat /\ needed = fees + less
      /\ Left(MyCoins) = Total(MyCoins) - outputAmount - fees
      /\ Target \in Nat /\ EffectiveTotal(MyCoins) \in Int
  <2>1. MyCoins \in SUBSET MyCoins
    OBVIOUS
  <2> QED  BY <2>1, InvGives, LeftIs
<1>5. request.amount \in Nat /\ outputAmount \in Nat
  BY InvGives DEF RequestOK
<1>6. Total(MyCoins) < request.amount + needed
  <2>1. CASE MyCoins = {}
    <3>1. Total({}) = 0
      BY InvGives, EffectiveTotalAdds
    <3>2. Total(MyCoins) = 0
      BY <2>1, <3>1, Zenon
    <3>3. needed > 0
      <4>1. /\ N \in Nat /\ request.output + ChangeSize \in Nat /\ InputSize \in Nat
            /\ request.fee \in Nat \ {0}
        BY InvGives, SparesAre, SizesAssumption DEF RequestOK
      <4>2. Size(N, request.output + ChangeSize) \in Nat \ {0}
        <5>1. InputSize * N \in Nat
          <6> HIDE DEF N
          <6> QED  BY <4>1
        <5> HIDE DEF N
        <5> QED  BY <4>1, <5>1 DEF Size, FixedSize
      <4>3. \A a, b \in Nat \ {0} : a * b > 0
        OBVIOUS
      <4> QED  BY <4>1, <4>2, <4>3
    <3> HIDE DEF needed, fees, less
    <3> QED  BY <1>4, <1>5, <3>2, <3>3
  <2>2. CASE Optimizes /\ ~HasFunds
    <3>1. outputAmount = request.amount
      BY <2>2 DEF Inv, SendsWhatIsAsked, Optimizes
    <3>2. EffectiveTotal(MyCoins) <= EffectiveTotal(EffectiveCoins)
          /\ EffectiveTotal(EffectiveCoins) \in Int
      <4>1. MyCoins \in SUBSET MyCoins /\ EffectiveCoins \in SUBSET MyCoins
        BY InvGives
      <4> QED  BY <4>1, InvGives, EffectiveCoinsAreWorthMost, EffectiveTotalAdds
    <3>3. EffectiveTotal(EffectiveCoins) < Target
      BY <1>4, <2>2, <3>2 DEF HasFunds
    <3>4. Left(MyCoins) < 0
      BY <1>4, <3>2, <3>3 DEF Left
    <3> HIDE DEF needed, fees, less
    <3> QED  BY <1>4, <1>5, <3>1, <3>4
  <2> QED  BY <1>1, <2>1, <2>2
<1> QED  BY <1>1, <1>3, <1>6, PicksNothing

\* Nothing is picked when the coins are to be sorted.
LEMMA StartSortingKeeps == ASSUME Inv, StartSorting PROVE Inv'
<1>1. /\ UNCHANGED <<request, picked, amount, outputAmount, changeAmount, fellBack, tx>>
      /\ pc = "filter" /\ pc' \in {"deep", "merge"}
  BY DEF StartSorting
<1>2. PICK s : s = search
  OBVIOUS
<1>3. search' = s /\ SearchIs(s)
  BY <1>2 DEF StartSorting, Inv
<1> QED  BY <1>1, <1>3, PicksNothing

\* The search starts with all effective coins available, each once.
LEMMA StartSearchKeeps == ASSUME Inv, StartSearch PROVE Inv'
<1>1. /\ UNCHANGED <<request, picked, amount, outputAmount, changeAmount, fellBack, tx>>
      /\ pc = "filter" /\ pc' = "search" /\ ~request.wipe
  BY DEF StartSearch, Optimizes
<1>2. PICK order \in Orders :
        search' = [NoSearch EXCEPT !.order = order, !.available = EffectiveTotal(EffectiveCoins)]
  BY DEF StartSearch
<1>3. PICK s : s = search'
  OBVIOUS
<1>4. RequestOK /\ EffectiveCoins \subseteq MyCoins /\ IsFiniteSet(EffectiveCoins)
      /\ EffectiveTotal(EffectiveCoins) \in Int /\ WasteOfInput \in Int
  BY InvGives, MyCoinsAreFinite, EffectiveTotalAdds, CostsAreNumbers
<1>5. /\ order \in Seq(EffectiveCoins)
      /\ \A i, j \in 1..Len(order) : order[i] = order[j] => i = j
      /\ {order[i] : i \in 1..Len(order)} = EffectiveCoins
  <2>1. order \in SetToSeqs(EffectiveCoins)
    BY DEF Orders
  <2> QED  BY <1>4, <2>1, SequencesAre
<1>6. /\ s.order = order /\ s.selection = <<>> /\ s.value = 0 /\ s.waste = 0
      /\ s.available = EffectiveTotal(EffectiveCoins) /\ s.best = {}
      /\ s \in [order : Seq(EffectiveCoins), selection : Seq(BOOLEAN),
              value : Int, available : Int, waste : Int,
              best : SUBSET EffectiveCoins, bestWaste : Int, tries : 0..TotalTries]
  <2>1. s = [order |-> order, selection |-> <<>>, value |-> 0,
             available |-> EffectiveTotal(EffectiveCoins),
             waste |-> 0, best |-> {}, bestWaste |-> 0, tries |-> 0]
    BY <1>2, <1>3 DEF NoSearch
  <2> QED  BY <1>4, <1>5, <2>1, TotalTriesAssumption
<1>7. SearchIs(s)
  <2>1. Len(s.selection) = 0 /\ Len(s.order) \in Nat
    BY <1>5, <1>6
  <2>2. Selected(s) = {}
    BY <1>6 DEF Selected
  <2>3. EffectiveTotal({}) = 0 /\ Cardinality({}) * WasteOfInput = 0
    BY <1>4, EffectiveTotalAdds, FS_EmptySet
  <2>4. EffectiveTotal(Selected(s)) = 0 /\ Cardinality(Selected(s)) * WasteOfInput = 0
    BY <2>2, <2>3, Zenon
  <2>5. Between(s, Len(s.selection) + 1, Len(s.order)) = EffectiveCoins
    <3>1. Len(s.selection) + 1 = 1 /\ Len(s.order) = Len(order)
      BY <1>6, <2>1
    <3>2. Between(s, 1, Len(order)) = EffectiveCoins
      BY <1>5, <1>6, ZenonT(30) DEF Between
    <3> QED  BY <3>1, <3>2, Zenon
  <2>6. EffectiveTotal(Between(s, Len(s.selection) + 1, Len(s.order)))
            = EffectiveTotal(EffectiveCoins)
    BY <2>5, Zenon
  <2> QED  BY <1>5, <1>6, <2>1, <2>4, <2>6 DEF SearchIs
<1> QED  BY <1>1, <1>3, <1>6, <1>7, PicksNothing

\* Going back keeps the sums, and the best that is kept needs no change.
LEMMA BacktrackKeeps == ASSUME Inv, Backtrack PROVE Inv'
<1>1. /\ UNCHANGED <<request, picked, amount, outputAmount, changeAmount, fellBack, tx>>
      /\ pc = "search" /\ pc' = pc /\ search.tries < TotalTries
      /\ Deepest(search.selection) # 0
      /\ search' = OmitDeepest(BestOf([search EXCEPT !.tries = @ + 1]))
  BY DEF Backtrack, IsSearching
<1> DEFINE r == [search EXCEPT !.tries = @ + 1]
<1>2. /\ SearchIs(r) /\ r.value = search.value /\ r.best = search.best
      /\ r.selection = search.selection
  BY <1>1, TriedOnce DEF Inv
<1> HIDE DEF r
<1>3. /\ SearchIs(BestOf(r)) /\ BestOf(r).selection = r.selection
      /\ BestOf(r).best # {} => InRange(BestOf(r).best)
  <2>1. r.best # {} => InRange(r.best)
    BY <1>1, <1>2 DEF Inv, NothingYet
  <2>2. RequestOK /\ Target \in Int
    BY InvGives
  <2> QED  BY <1>2, <2>1, <2>2, BestOfKeeps
<1> DEFINE b == BestOf(r)
<1> HIDE DEF b
<1>4. /\ SearchIs(OmitDeepest(b)) /\ OmitDeepest(b).best = b.best
  <2>1. RequestOK /\ SearchIs(b) /\ Deepest(b.selection) # 0
    BY <1>1, <1>2, <1>3, InvGives DEF b
  <2> QED  BY <2>1, OmitDeepestKeeps
<1>5. PICK s : s = search'
  OBVIOUS
<1>6. s = OmitDeepest(b)
  BY <1>1, <1>5 DEF b, r
<1>7. SearchIs(s) /\ (s.best # {} => InRange(s.best))
  BY <1>3, <1>4, <1>6 DEF b
<1> QED  BY <1>1, <1>5, <1>7, PicksNothing

\* There is a next coin to take: without one there is nothing available.
LEMMA ForwardHasNext ==
    ASSUME Inv, ~IsHopeless, ~IsInRange
    PROVE  Len(search.selection) < Len(search.order)
<1>1. /\ search.value \in Int /\ search.available \in Int
      /\ Len(search.selection) \in Nat /\ Len(search.order) \in Nat
      /\ Len(search.selection) <= Len(search.order)
  BY DEF Inv, SearchIs
<1>2. search.available > 0
  BY <1>1, InvGives DEF IsHopeless, IsInRange
<1>3. ASSUME Len(search.selection) = Len(search.order) PROVE FALSE
  <2>1. Between(search, Len(search.selection) + 1, Len(search.order)) = {}
    BY <1>1, <1>3 DEF Between
  <2>2. EffectiveTotal({}) = 0
    BY InvGives, EffectiveTotalAdds
  <2>3. EffectiveTotal(Between(search, Len(search.selection) + 1, Len(search.order))) = 0
    BY <2>1, <2>2, Zenon
  <2> QED  BY <1>2, <2>3 DEF Inv, SearchIs
<1> QED  BY <1>1, <1>3

\* Going forward keeps the sums, and the best stays the same.
LEMMA ForwardKeeps == ASSUME Inv, Forward PROVE Inv'
<1>1. /\ UNCHANGED <<request, picked, amount, outputAmount, changeAmount, fellBack, tx>>
      /\ pc = "search" /\ pc' = pc /\ search.tries < TotalTries
      /\ ~IsHopeless /\ ~IsInRange
      /\ search' = TakeNext([search EXCEPT !.tries = @ + 1])
  BY DEF Forward, IsSearching
<1>2. Len(search.selection) < Len(search.order)
  BY <1>1, ForwardHasNext
<1> DEFINE r == [search EXCEPT !.tries = @ + 1]
<1>3. /\ SearchIs(r) /\ r.best = search.best
      /\ r.selection = search.selection /\ r.order = search.order
  BY <1>1, TriedOnce DEF Inv
<1> HIDE DEF r
<1>4. SearchIs(TakeNext(r)) /\ TakeNext(r).best = r.best
  <2>1. RequestOK /\ Len(r.selection) < Len(r.order)
    BY <1>2, <1>3, InvGives
  <2> QED  BY <1>3, <2>1, TakeNextKeeps
<1>5. PICK s : s = search'
  OBVIOUS
<1>6. s = TakeNext(r)
  BY <1>1, <1>5 DEF r
<1>7. SearchIs(s) /\ (s.best # {} => InRange(s.best))
  BY <1>1, <1>3, <1>4, <1>6 DEF Inv, NothingYet
<1> QED  BY <1>1, <1>5, <1>7, PicksNothing

\* A step that picks: the rest of the invariant, when the selection ended or goes on.
LEMMA PickNextKeeps == ASSUME Inv, NEW c \in MyCoins, PickNext(c) PROVE Inv'
<1> DEFINE T == picked \cup {c}
           total == amount + request.value[c]
           last == T = MyCoins
           found == HasEnough(total, Cardinality(T), last)
           fees == request.fee * Size(Cardinality(T), request.output)
           less == request.fee * ChangeSize
           rest == total - outputAmount - fees
<1>1. /\ pc \in {"deep", "merge"} /\ c \in MyCoins \ picked
      /\ picked' = T /\ amount' = total
      /\ UNCHANGED <<request, search, fellBack, tx>>
      /\ changeAmount' = found.change /\ outputAmount' = found.output
      /\ pc' = IF found.enough \/ (last /\ request.wipe) THEN "outputs"
               ELSE IF last THEN "failed" ELSE pc
  BY DEF PickNext
<1>2. PICK S, M : S = T /\ M = MyCoins
  OBVIOUS
<1>3. /\ RequestOK /\ picked \subseteq MyCoins /\ S \in SUBSET MyCoins
      /\ outputAmount \in Nat /\ amount \in Nat /\ changeAmount \in Int
      /\ fellBack \in BOOLEAN /\ tx \in [sent : Nat, change : Nat]
      /\ amount = Total(picked) + (IF fellBack THEN outputAmount ELSE 0)
  BY <1>1, <1>2, InvGives DEF Inv, Types
<1>4. total \in Nat /\ total = Total(T) + (IF fellBack THEN outputAmount ELSE 0)
  <2>1. Total(T) = Total(picked) + request.value[c] /\ Total(picked) \in Int
    BY <1>1, <1>3, EffectiveTotalAdds
  <2>2. request.value[c] \in Nat
    BY <1>3 DEF RequestOK
  <2> HIDE DEF T
  <2> QED  BY <1>3, <2>1, <2>2
<1>5. /\ Cardinality(T) \in Nat /\ fees \in Nat /\ less \in Nat
      /\ Left(T) = Total(T) - outputAmount - fees /\ Total(T) \in Int
      /\ request.fee * Size(Cardinality(T), request.output + ChangeSize) = fees + less
  <2> HIDE DEF T
  <2> QED  BY <1>2, <1>3, LeftIs
<1>6. /\ found.change \in Int /\ found.output \in Nat
      /\ ~request.wipe =>
           /\ found.output = outputAmount
           /\ ~found.enough => total < outputAmount + (fees + less)
      /\ request.wipe =>
           /\ ~found.enough /\ found.change = changeAmount
           /\ found.output = outputAmount \/ (last /\ found.output = rest)
  <2>1. last \in BOOLEAN
    OBVIOUS
  <2> HIDE DEF T, total, last
  <2> QED  BY <1>3, <1>4, <1>5, <2>1, HasEnoughIs, SMTT(30)
<1>7. /\ request' = request /\ picked' = S /\ MyCoins' = M
      /\ (IsEstimated' <=> IsEstimated)
      /\ Total(S)' = Total(S) /\ Total(M)' = Total(M)
  <2>1. M \in SUBSET MyCoins
    BY <1>2
  <2> QED  BY <1>1, <1>2, <1>3, <2>1, RequestStays, EffectiveTotalStays
<1>8. Total(picked)' = Total(T) /\ Total(MyCoins)' = Total(MyCoins)
  BY <1>2, <1>7
<1> HIDE DEF T, total, last, found, fees, less
<1>9. pc' \in {"deep", "merge", "outputs", "failed"}
      /\ (pc' \in {"deep", "merge"} => ~found.enough /\ ~last)
      /\ (pc' = "failed" => ~found.enough /\ last /\ ~request.wipe)
  BY <1>1
<1>10. Types'
  <2>1. T \subseteq MyCoins
    BY <1>2, <1>3
  <2>2. pc' \in {"deep", "merge"} =>
            total = Total(T) + (IF fellBack THEN found.output ELSE 0)
    <3>1. CASE fellBack
      <4>1. ~request.wipe
        BY <3>1 DEF Inv, SendsWhatIsAsked
      <4> QED  BY <1>4, <1>6, <4>1
    <3>2. CASE ~fellBack
      BY <1>4, <3>2
    <3> QED  BY <3>1, <3>2
  <2>3. pc' \in Parts
    BY <1>9 DEF Parts
  <2> QED  BY <1>1, <1>2, <1>3, <1>4, <1>6, <1>7, <1>8, <2>1, <2>2, <2>3 DEF Types
<1>11. SearchIs(search)'
  <2>1. PICK s : s = search
    OBVIOUS
  <2>2. SearchIs(s)'
    BY <1>3, <1>7, <2>1, SearchStays DEF Inv
  <2> QED  BY <1>1, <2>1, <2>2
<1>12. SendsWhatIsAsked'
  <2>1. ASSUME ~request.wipe PROVE found.output = request.amount
    BY <1>6, <2>1 DEF Inv, SendsWhatIsAsked
  <2>2. ASSUME request.wipe
        PROVE  /\ pc' \notin {"search", "knapsack"} /\ ~fellBack /\ found.change = 0
               /\ pc' \in {"filter", "deep", "merge"} => found.output = 0
               /\ found.output > 0 => Total(T) = found.output + fees
    <3>1. ~fellBack /\ changeAmount = 0 /\ outputAmount = 0
      BY <1>1, <2>2 DEF Inv, SendsWhatIsAsked
    <3>2. total = Total(T)
      BY <1>4, <1>5, <3>1
    <3>3. found.output > 0 => found.output = Total(T) - fees
      BY <1>5, <1>6, <2>2, <3>1, <3>2
    <3>4. pc' \in {"filter", "deep", "merge"} => found.output = 0
      BY <1>6, <1>9, <2>2, <3>1
    <3> QED  BY <1>5, <1>6, <1>9, <2>2, <3>1, <3>3, <3>4
  <2> QED  BY <1>1, <1>7, <1>8, <2>1, <2>2 DEF SendsWhatIsAsked, fees
<1>13. NothingYet'
  BY <1>9 DEF NothingYet
<1>14. PickedFairly'
  <2>1. ASSUME pc' = "outputs", ~request.wipe, ~fellBack, IsEstimated
        PROVE  Fair(picked, changeAmount)'
    <3>1. found.enough
      BY <1>1, <2>1
    <3>2. PICK change : change = found.change
      OBVIOUS
    <3>3. Fair(S, change)
      <4>1. total = Total(S) /\ Total(S) \in Nat
        BY <1>2, <1>4, <1>5, <2>1
      <4>2. found = HasEnough(Total(S), Cardinality(S), last) /\ last \in BOOLEAN
        BY <1>2, <4>1 DEF found, last
      <4> QED  BY <1>3, <2>1, <3>1, <3>2, <4>1, <4>2, EnoughIsFair
    <3>4. Fair(S, change)'
      <4>1. outputAmount' = outputAmount
        BY <1>1, <1>6, <2>1
      <4> QED  BY <1>3, <1>7, <3>3, <4>1, FairStays
    <3> QED  BY <1>1, <1>7, <3>2, <3>4
  <2> QED  BY <1>1, <1>7, <1>9, <2>1 DEF PickedFairly
<1>15. EnoughIsAccepted'
  <2>1. ASSUME pc' = "failed"
        PROVE  Total(MyCoins) < request.amount + request.fee *
                    Size(Cardinality(MyCoins), request.output + ChangeSize)
    <3>1. /\ last /\ ~request.wipe /\ ~found.enough /\ outputAmount = request.amount
      BY <1>9, <2>1 DEF Inv, SendsWhatIsAsked
    <3>2. T = MyCoins
      BY <3>1 DEF last
    <3>3. total < outputAmount + (fees + less)
      BY <1>6, <3>1
    <3>4. Total(T) <= total
      BY <1>3, <1>4, <1>5
    <3>5. Total(T) < request.amount
                + request.fee * Size(Cardinality(T), request.output + ChangeSize)
      BY <1>3, <1>4, <1>5, <3>1, <3>3, <3>4
    <3> QED  BY <3>2, <3>5, Zenon
  <2>2. MyCoins' = MyCoins
    BY <1>2, <1>7
  <2> QED  BY <1>7, <1>8, <2>1, <2>2 DEF EnoughIsAccepted
<1> QED  BY <1>7, <1>10, <1>11, <1>12, <1>13, <1>14, <1>15 DEF Inv

\* The end of the search, and of the knapsack solver.
LEMMA PicksFairly ==
    ASSUME Inv, UNCHANGED <<request, outputAmount, amount, search, fellBack, tx>>,
           pc \in {"search", "knapsack"}, pc' = "outputs",
           NEW S \in SUBSET MyCoins, picked' = S,
           NEW change \in Int, changeAmount' = change,
           IsEstimated => Fair(S, change)
    PROVE  Inv'
<1>1. /\ RequestOK /\ request' = request /\ outputAmount' = outputAmount
      /\ ~request.wipe
  BY InvGives DEF Inv, SendsWhatIsAsked, RequestOK
<1>2. MyCoins' = MyCoins /\ (IsEstimated' <=> IsEstimated)
  BY <1>1, RequestStays
<1>3. IsEstimated => Fair(S, change)'
  BY <1>1, FairStays
<1>4. SearchIs(search)'
  <2>1. PICK s : s = search
    OBVIOUS
  <2>2. SearchIs(s)'
    BY <1>1, <2>1, SearchStays DEF Inv
  <2> QED  BY <2>1, <2>2
<1>5. Types'
  BY <1>2 DEF Inv, Types, Parts
<1>6. SendsWhatIsAsked' /\ NothingYet' /\ EnoughIsAccepted'
  BY <1>1 DEF Inv, SendsWhatIsAsked, NothingYet, EnoughIsAccepted
<1>7. PickedFairly'
  BY <1>2, <1>3 DEF PickedFairly
<1> QED  BY <1>1, <1>4, <1>5, <1>6, <1>7 DEF Inv

\* Coins that need no change are fair.
LEMMA InRangeIsFair ==
    ASSUME Inv, NEW S \in SUBSET MyCoins, InRange(S)
    PROVE  Fair(S, 0)
<1> DEFINE all == DustAmount(Size(Cardinality(MyCoins) + 1, request.output + ChangeSize))
           nd == Cardinality(S) * DustAmount(InputSize)
           dust == DustAmount(Size(Cardinality(S), request.output + ChangeSize))
<1>1. /\ RequestOK /\ Target \in Nat /\ CostOfChange \in Nat /\ EffectiveTotal(S) \in Int
  BY InvGives, EffectiveTotalAdds
<1>2. all \in Nat /\ nd \in Nat /\ Spare(S) = all + nd /\ dust \in 0..all
  BY <1>1, SparesAre
<1> HIDE DEF all, nd, dust
<1>3. Left(S) \in 0..CostOfChange
  BY <1>1 DEF InRange, Left
<1>4. ~(0 > dust) /\ Left(S) >= 0 /\ Left(S) <= CostOfChange + Spare(S)
  BY <1>1, <1>2, <1>3
<1> QED  BY <1>4 DEF Fair, dust

\* The best of the search is fair, or the knapsack solver starts with nothing.
LEMMA EndSearchKeeps == ASSUME Inv, EndSearch PROVE Inv'
<1>1. /\ UNCHANGED <<request, amount, outputAmount, changeAmount, search, fellBack, tx>>
      /\ pc = "search" /\ picked' = search.best
      /\ pc' = IF search.best = {} THEN "knapsack" ELSE "outputs"
  BY DEF EndSearch
<1>2. PICK s, S, change : s = search /\ S = search.best /\ change = changeAmount
  OBVIOUS
<1>3. picked = {} /\ change = 0 /\ SearchIs(s) /\ S \in SUBSET MyCoins
  BY <1>1, <1>2, InvGives DEF Inv, NothingYet
<1>4. CASE S = {}
  <2>1. pc' = "knapsack" /\ picked' = picked /\ search' = s
    BY <1>1, <1>2, <1>3, <1>4
  <2> QED  BY <1>1, <1>3, <2>1, PicksNothing
<1>5. CASE S # {}
  <2>1. pc' = "outputs" /\ picked' = S /\ changeAmount' = change /\ change \in Int
    BY <1>1, <1>2, <1>3, <1>5
  <2>2. InRange(S)
    BY <1>1, <1>2, <1>5 DEF Inv, NothingYet
  <2>3. Fair(S, change)
    BY <1>3, <2>2, InRangeIsFair
  <2> QED  BY <1>1, <1>3, <2>1, <2>3, PicksFairly
<1> QED  BY <1>4, <1>5

\* The approximation is fair.
LEMMA SolveKeeps == ASSUME Inv, Solve PROVE Inv'
<1>1. /\ UNCHANGED <<request, amount, outputAmount, search, fellBack, tx>>
      /\ pc = "knapsack" /\ pc' = "outputs"
      /\ EffectiveTotal(LowerCoins) >= Target \/ LargerCoins # {}
  BY DEF Solve
<1>2. PICK order \in LowerOrders : \E best \in BestSubsets(order) :
        \E choice \in Choose(best, SmallestOf(LargerCoins),
                LeastChange(Cardinality(best.coins) + 1, EstimatedOutput)) :
            picked' = choice.coins /\ changeAmount' = choice.change
  BY DEF Solve
<1>3. PICK best \in BestSubsets(order) :
        \E choice \in Choose(best, SmallestOf(LargerCoins),
                LeastChange(Cardinality(best.coins) + 1, EstimatedOutput)) :
            picked' = choice.coins /\ changeAmount' = choice.change
  BY <1>2
<1>4. PICK choice \in Choose(best, SmallestOf(LargerCoins),
                LeastChange(Cardinality(best.coins) + 1, EstimatedOutput)) :
            picked' = choice.coins /\ changeAmount' = choice.change
  BY <1>3
<1>5. RequestOK /\ Target \in Int
  BY InvGives
<1>6. /\ choice.coins \in SUBSET MyCoins /\ choice.change \in Nat
      /\ IsEstimated => Fair(choice.coins, choice.change)
  BY <1>1, <1>5, ChoiceIs
<1>7. PICK S, change : S = choice.coins /\ change = choice.change
  OBVIOUS
<1>8. /\ S \in SUBSET MyCoins /\ picked' = S /\ change \in Int /\ changeAmount' = change
      /\ IsEstimated => Fair(S, change)
  BY <1>4, <1>6, <1>7
<1> QED  BY <1>1, <1>8, PicksFairly

\* A coin, or coins, worth the target need no change.
LEMMA SolveExactlyKeeps == ASSUME Inv, SolveExactly PROVE Inv'
<1>1. /\ UNCHANGED <<request, amount, outputAmount, changeAmount, search, fellBack, tx>>
      /\ pc = "knapsack" /\ pc' = "outputs" /\ changeAmount = 0
  BY DEF SolveExactly, Inv, NothingYet
<1>2. RequestOK /\ Target \in Nat /\ CostOfChange \in Nat
  BY InvGives
<1>3. PICK S \in SUBSET MyCoins : picked' = S /\ EffectiveTotal(S) = Target
  <2> DEFINE exact == {c \in MyCoins : Effective(c) = Target}
  <2>1. CASE \E c \in FirstOf(exact) : picked' = {c}
    <3>1. PICK c \in FirstOf(exact) : picked' = {c}
      BY <2>1
    <3>2. c \in MyCoins /\ Effective(c) = Target
      BY DEF FirstOf
    <3>3. EffectiveTotal({} \cup {c}) = EffectiveTotal({}) + Effective(c)
          /\ EffectiveTotal({}) = 0
      BY <1>2, <3>2, EffectiveTotalAdds
    <3>4. {} \cup {c} = {c}
      OBVIOUS
    <3>5. EffectiveTotal({c}) = EffectiveTotal({}) + Effective(c)
      BY <3>3, <3>4, Zenon
    <3>6. EffectiveTotal({c}) = Target
      BY <1>2, <3>2, <3>3, <3>5
    <3> QED  BY <3>1, <3>2, <3>6
  <2>2. CASE picked' = LowerCoins /\ EffectiveTotal(LowerCoins) = Target
    <3>1. LowerCoins \in SUBSET MyCoins
      BY DEF LowerCoins
    <3> QED  BY <2>2, <3>1
  <2> QED  BY <2>1, <2>2 DEF SolveExactly
<1>4. Fair(S, 0)
  <2>1. InRange(S)
    BY <1>2, <1>3 DEF InRange
  <2> QED  BY <2>1, InRangeIsFair
<1>5. PICK change \in Int : change = 0
  OBVIOUS
<1>6. changeAmount' = change /\ Fair(S, change)
  BY <1>1, <1>4, <1>5
<1> QED  BY <1>1, <1>3, <1>6, PicksFairly

\* The fallback starts with nothing picked, as if what is sent were there.
LEMMA FallBackKeeps == ASSUME Inv, FallBack PROVE Inv'
<1>1. /\ UNCHANGED <<request, picked, outputAmount, changeAmount, search, tx>>
      /\ pc = "knapsack" /\ pc' = "deep" /\ amount' = outputAmount /\ fellBack' = TRUE
  BY DEF FallBack
<1>2. RequestOK /\ outputAmount \in Nat /\ picked = {} /\ ~request.wipe
  BY <1>1, InvGives DEF Inv, NothingYet, SendsWhatIsAsked, RequestOK
<1>3. MyCoins' = MyCoins
  BY <1>1, <1>2, RequestStays
<1>4. PICK s, S : s = search /\ S = {}
  OBVIOUS
<1>5. SearchIs(search)'
  <2>1. SearchIs(s)'
    BY <1>1, <1>2, <1>4, SearchStays DEF Inv
  <2> QED  BY <1>1, <1>4, <2>1
<1>6. Total(picked)' = 0
  <2>1. Total(S)' = Total(S) /\ Total({}) = 0
    BY <1>1, <1>2, <1>4, EffectiveTotalStays, EffectiveTotalAdds
  <2>2. Total(S) = 0
    BY <1>4, <2>1, Zenon
  <2>3. picked' = S
    BY <1>1, <1>2, <1>4
  <2> QED  BY <2>1, <2>2, <2>3
<1>7. Types'
  <2>1. amount' = Total(picked)' + outputAmount'
    BY <1>1, <1>2, <1>6
  <2>2. pc' \in Parts
    BY <1>1 DEF Parts
  <2> QED  BY <1>1, <1>2, <1>3, <2>1, <2>2 DEF Inv, Types
<1>8. SendsWhatIsAsked' /\ NothingYet' /\ EnoughIsAccepted' /\ PickedFairly'
  BY <1>1, <1>2 DEF Inv, SendsWhatIsAsked, NothingYet, EnoughIsAccepted, PickedFairly
<1> QED  BY <1>1, <1>5, <1>7, <1>8 DEF Inv

\* The transaction has the change that was left, if it is more than dust.
LEMMA FillOutputsKeeps == ASSUME Inv, FillOutputs PROVE Inv'
<1> DEFINE dust == DustAmount(Size(Cardinality(picked), request.output + ChangeSize))
<1>1. /\ UNCHANGED <<request, picked, amount, outputAmount, changeAmount, search, fellBack>>
      /\ pc = "outputs" /\ pc' = "done"
      /\ tx' = [sent |-> outputAmount,
                change |-> IF changeAmount > dust THEN changeAmount ELSE 0]
  BY DEF FillOutputs
<1>2. RequestOK /\ outputAmount \in Nat /\ picked \in SUBSET MyCoins /\ changeAmount \in Int
  BY InvGives DEF Inv, Types
<1>3. MyCoins' = MyCoins /\ (IsEstimated' <=> IsEstimated)
  BY <1>1, <1>2, RequestStays
<1>4. PICK s, S, change : s = search /\ S = picked /\ change = changeAmount
  OBVIOUS
<1>5. SearchIs(search)'
  <2>1. SearchIs(s)'
    BY <1>1, <1>2, <1>4, SearchStays DEF Inv
  <2> QED  BY <1>1, <1>4, <2>1
<1>6. /\ Total(picked)' = Total(picked)
      /\ Fair(picked, changeAmount)' <=> Fair(picked, changeAmount)
  <2>1. Total(S)' = Total(S) /\ (Fair(S, change)' <=> Fair(S, change))
    BY <1>1, <1>2, <1>4, EffectiveTotalStays, FairStays
  <2> QED  BY <1>1, <1>4, <2>1
<1>7. tx' \in [sent : Nat, change : Nat]
  <2>1. dust \in Nat
    BY <1>2, SparesAre
  <2> HIDE DEF dust
  <2> QED  BY <1>1, <1>2, <2>1
<1>8. Types'
  BY <1>1, <1>3, <1>7 DEF Inv, Types, Parts
<1>9. SendsWhatIsAsked'
  BY <1>1, <1>6 DEF Inv, SendsWhatIsAsked
<1>10. NothingYet' /\ EnoughIsAccepted'
  BY <1>1 DEF NothingYet, EnoughIsAccepted
<1>11. PickedFairly'
  BY <1>1, <1>3, <1>6 DEF Inv, PickedFairly
<1> QED  BY <1>1, <1>5, <1>8, <1>9, <1>10, <1>11 DEF Inv

\* A step that changes nothing.
LEMMA StutterKeeps == ASSUME Inv, UNCHANGED vars PROVE Inv'
<1>1. PICK s : s = search
  OBVIOUS
<1>2. search' = s /\ SearchIs(s)
  BY <1>1 DEF vars, Inv
<1>3. pc' = "search" /\ s.best # {} => InRange(s.best)
  BY <1>1 DEF vars, Inv, NothingYet
<1>4. pc' = "failed" => Total(MyCoins) < request.amount + request.fee *
                            Size(Cardinality(MyCoins), request.output + ChangeSize)
  BY DEF vars, Inv, EnoughIsAccepted
<1> QED  BY <1>2, <1>3, <1>4, PicksNothing DEF vars

\* Every step keeps the invariant.
LEMMA Inductive == Inv /\ [Next]_vars => Inv'
<1> SUFFICES ASSUME Inv, [Next]_vars PROVE Inv'
  OBVIOUS
<1>1. CASE \E c \in MyCoins : PickNext(c)
  BY <1>1, PickNextKeeps
<1>2. CASE Refuse \/ StartSorting \/ StartSearch
  BY <1>2, RefuseKeeps, StartSortingKeeps, StartSearchKeeps
<1>3. CASE Backtrack \/ Forward \/ EndSearch
  BY <1>3, BacktrackKeeps, ForwardKeeps, EndSearchKeeps
<1>4. CASE Solve \/ SolveExactly \/ FallBack
  BY <1>4, SolveKeeps, SolveExactlyKeeps, FallBackKeeps
<1>5. CASE FillOutputs
  BY <1>5, FillOutputsKeeps
<1>6. CASE UNCHANGED vars
  BY <1>6, StutterKeeps
<1> QED  BY <1>1, <1>2, <1>3, <1>4, <1>5, <1>6 DEF Next

-----------------------------------------------------------------------------
(* What it gives.                                                          *)

\* The invariant has all of the types.
LEMMA InvTypes == Inv => TypeOK
<1> SUFFICES ASSUME Inv PROVE TypeOK
  OBVIOUS
<1>1. /\ search.order \in Seq(EffectiveCoins) /\ search.selection \in Seq(BOOLEAN)
      /\ search.tries \in 0..TotalTries /\ search.best \subseteq EffectiveCoins
  BY DEF Inv, SearchIs
<1>2. ToSet(search.order) \subseteq EffectiveCoins
  BY <1>1 DEF ToSet
<1>3. /\ search.value = EffectiveTotal(Selected(search))
      /\ search.waste = Cardinality(Selected(search)) * WasteOfInput
      /\ search.available = EffectiveTotal(
           {search.order[i] : i \in (Len(search.selection) + 1)..Len(search.order)})
  BY DEF Inv, SearchIs, Between
<1> QED  BY <1>1, <1>2, <1>3 DEF Inv, Types, TypeOK

\* A transaction made of fair coins pays a fair fee.
LEMMA InvIsFair == Inv => FeeIsFair
<1> SUFFICES ASSUME Inv, pc = "done", ~fellBack, request.wipe => tx.sent > 0, IsEstimated
    PROVE  FeePaid \in FeeNeeded..FeeAccepted
  BY DEF FeeIsFair, IsEstimated
<1> DEFINE n == Cardinality(picked)
           all == DustAmount(Size(Cardinality(MyCoins) + 1, request.output + ChangeSize))
           nd == n * DustAmount(InputSize)
           dust == DustAmount(Size(n, request.output + ChangeSize))
           fees == request.fee * Size(n, request.output)
           more == request.fee * Size(n, request.output + ChangeSize)
           less == request.fee * ChangeSize
           total == Total(picked)
<1>1. RequestOK /\ outputAmount \in Nat /\ picked \in SUBSET MyCoins /\ CostOfChange \in Nat
  BY InvGives
<1>2. /\ all \in Nat /\ nd \in Nat /\ Spare(picked) = all + nd /\ dust \in Nat
  BY <1>1, SparesAre
<1>3. /\ total \in Int /\ fees \in Nat /\ less \in Nat /\ more = fees + less
      /\ Left(picked) = total - outputAmount - fees
  BY <1>1, LeftIs
<1>4. /\ tx = [sent |-> outputAmount,
               change |-> IF changeAmount > dust THEN changeAmount ELSE 0]
      /\ changeAmount \in Int
  BY DEF Inv, PickedFairly, Types
<1>5. /\ FeePaid = total - tx.sent - tx.change
      /\ FeeAccepted = FeeNeeded + CostOfChange + all + nd
  BY DEF FeePaid, FeeAccepted
<1>6. CASE changeAmount > dust
  <2>1. tx.sent = outputAmount /\ tx.change = changeAmount /\ changeAmount > 0
    BY <1>2, <1>4, <1>6
  <2>2. FeeNeeded = more
    BY <2>1 DEF FeeNeeded, Outputs
  <2>3. ~request.wipe
    BY <1>2, <1>4, <1>6 DEF Inv, SendsWhatIsAsked
  <2>4. Left(picked) - changeAmount - less \in 0..(CostOfChange + (all + nd))
    BY <1>2, <1>6, <2>3 DEF Inv, PickedFairly, Fair
  <2> HIDE DEF all, nd, dust, fees, more, less, total
  <2> QED  BY <1>1, <1>2, <1>3, <1>4, <1>5, <2>1, <2>2, <2>4
<1>7. CASE ~(changeAmount > dust)
  <2>1. tx.sent = outputAmount /\ tx.change = 0
    BY <1>4, <1>7
  <2>2. FeeNeeded = fees
    BY <1>1, <2>1 DEF FeeNeeded, Outputs, RequestOK
  <2>3. Left(picked) \in 0..(CostOfChange + (all + nd))
    <3>1. CASE request.wipe
      <4>1. outputAmount > 0
        BY <2>1, <3>1
      <4>2. total = outputAmount + fees
        BY <3>1, <4>1 DEF Inv, SendsWhatIsAsked
      <4> HIDE DEF all, nd, dust, fees, more, less, total
      <4> QED  BY <1>1, <1>2, <1>3, <4>2
    <3>2. CASE ~request.wipe
      <4>1. Left(picked) >= 0 /\ Left(picked) <= CostOfChange + (all + nd)
        BY <1>2, <1>7, <3>2 DEF Inv, PickedFairly, Fair
      <4> HIDE DEF all, nd, dust, fees, more, less, total
      <4> QED  BY <1>1, <1>2, <1>3, <4>1
    <3> QED  BY <3>1, <3>2
  <2> HIDE DEF all, nd, dust, fees, more, less, total
  <2> QED  BY <1>1, <1>2, <1>3, <1>5, <2>1, <2>2, <2>3
<1> QED  BY <1>6, <1>7

\* For any coins, fees, sizes and dust policy every state that is reached satisfies
\* the invariant.
THEOREM Safety == Spec => []Inv
BY Initially, Inductive, PTL DEF Spec

\* For any coins, fees, sizes, dust policy and number of tries: the sums that
\* filterWithSort and the search keep, added and taken back one coin at a time, are
\* always those of the coins that are picked or selected.
THEOREM TypeCorrect == Spec => []TypeOK
BY Safety, InvTypes, PTL

\* For any of these, and for all three strategies and the knapsack solver, whichever
\* bits it draws: a transaction pays its fee, and gives away no more than FeeAccepted.
THEOREM FeesAreFair == Spec => []FeeIsFair
BY Safety, InvIsFair, PTL

\* For any of these: a request fails only if all coins together do not pay for it
\* with a change output.
THEOREM NobodyWithEnoughIsRefused == Spec => []EnoughIsAccepted
<1>1. Inv => EnoughIsAccepted
  BY DEF Inv
<1> QED  BY <1>1, Safety, PTL

-----------------------------------------------------------------------------
(* What the search has seen.                                               *)

\* Coins that are selected up to a place as they are in a set; a set that the search
\* has passed: at the first place where it differs it has a coin that was left out.
Agrees(s, S, n) == \A i \in 1..n : s.order[i] \in S <=> s.selection[i]
Passed(s, S) ==
    \E i \in 1..Len(s.selection) :
        s.order[i] \in S /\ ~s.selection[i] /\ Agrees(s, S, i - 1)

\* If such a set needs no change there is a best one, and it does not waste more
\* than one of which every coin is needed.
Needed(S) == \A c \in S : EffectiveTotal(S \ {c}) < Target
Covered(s, S) ==
    InRange(S) => s.best # {} /\ (Needed(S) => s.bestWaste <= Waste(S))

BestIs(s) == s.best # {} => InRange(s.best) /\ s.bestWaste = Waste(s.best)

\* The invariant of the search, and what it leaves.
Sees(s) ==
    /\ {s.order[i] : i \in 1..Len(s.order)} = EffectiveCoins
    /\ BestIs(s)
    /\ \A S \in SUBSET EffectiveCoins : Passed(s, S) => Covered(s, S)
HasSeen(s) == BestIs(s) /\ \A S \in SUBSET EffectiveCoins : Covered(s, S)

SearchInv ==
    /\ pc = "filter" \/ request.wipe => search.order = <<>>
    /\ pc = "search" => Sees(search)
    /\ pc \notin {"filter", "search"} /\ search.order # <<>> /\ search.tries < TotalTries =>
        HasSeen(search)

\* More coins worth their fees are not worth less, and one less as much less.
LEMMA EffectiveTotalGrows ==
    ASSUME RequestOK, NEW T \in SUBSET EffectiveCoins, NEW S \in SUBSET T
    PROVE  /\ EffectiveTotal(S) <= EffectiveTotal(T) /\ Cardinality(S) <= Cardinality(T)
           /\ EffectiveTotal(S) \in Int /\ EffectiveTotal(T) \in Int
           /\ Cardinality(S) \in Nat /\ Cardinality(T) \in Nat
<1> DEFINE P == {U \in SUBSET MyCoins : U \subseteq EffectiveCoins => EffectiveTotal(U) >= 0}
<1>1. EffectiveCoins \subseteq MyCoins
  BY CostsAreNumbers
<1>2. {} \in P
  BY EffectiveTotalAdds
<1>3. ASSUME NEW U \in SUBSET MyCoins, NEW c \in MyCoins \ U, U \in P
      PROVE  U \cup {c} \in P
  <2>1. /\ EffectiveTotal(U \cup {c}) = EffectiveTotal(U) + Effective(c)
        /\ EffectiveTotal(U) \in Int /\ Effective(c) \in Int
    BY EffectiveTotalAdds, CostsAreNumbers
  <2>2. ASSUME U \cup {c} \subseteq EffectiveCoins PROVE EffectiveTotal(U \cup {c}) >= 0
    <3>1. EffectiveTotal(U) >= 0 /\ Effective(c) > 0
      BY <1>3, <2>2 DEF EffectiveCoins
    <3> QED  BY <2>1, <3>1
  <2> QED  BY <2>2
<1> HIDE DEF P
<1>4. SUBSET MyCoins \subseteq P
  BY <1>2, <1>3, MyCoinsAreFinite, SetInduction
<1>5. EffectiveTotal(T \ S) >= 0
  <2>1. T \ S \in P /\ T \ S \subseteq EffectiveCoins
    BY <1>1, <1>4
  <2> QED  BY <2>1 DEF P
<1>6. EffectiveTotal(S \cup (T \ S)) = EffectiveTotal(S) + EffectiveTotal(T \ S)
  <2>1. S \in SUBSET MyCoins /\ T \ S \in SUBSET MyCoins /\ S \cap (T \ S) = {}
    BY <1>1
  <2> QED  BY <2>1, EffectiveTotalOfUnion
<1>7. S \cup (T \ S) = T
  OBVIOUS
<1>8. EffectiveTotal(T) = EffectiveTotal(S) + EffectiveTotal(T \ S)
  BY <1>6, <1>7, Zenon
<1>9. /\ EffectiveTotal(S) \in Int /\ EffectiveTotal(T) \in Int
      /\ EffectiveTotal(T \ S) \in Int
  <2>1. S \in SUBSET MyCoins /\ T \in SUBSET MyCoins /\ T \ S \in SUBSET MyCoins
    BY <1>1
  <2> QED  BY <2>1, EffectiveTotalAdds
<1>10. /\ Cardinality(S) <= Cardinality(T)
       /\ Cardinality(S) \in Nat /\ Cardinality(T) \in Nat
  <2>1. IsFiniteSet(T) /\ Cardinality(S) \in Nat /\ Cardinality(T) \in Nat
    BY <1>1, MyCoinsAreFinite
  <2> QED  BY <2>1, FS_Subset
<1> QED  BY <1>5, <1>8, <1>9, <1>10

\* Coins without one of them are worth as much less as that one.
LEMMA EffectiveTotalWithout ==
    ASSUME RequestOK, NEW S \in SUBSET MyCoins, NEW c \in S
    PROVE  /\ EffectiveTotal(S \ {c}) = EffectiveTotal(S) - Effective(c)
           /\ EffectiveTotal(S \ {c}) \in Int /\ EffectiveTotal(S) \in Int
           /\ Effective(c) \in Int
<1>1. EffectiveTotal((S \ {c}) \cup {c}) = EffectiveTotal(S \ {c}) + Effective(c)
  BY EffectiveTotalAdds
<1>2. (S \ {c}) \cup {c} = S
  OBVIOUS
<1>3. EffectiveTotal(S) = EffectiveTotal(S \ {c}) + Effective(c)
  BY <1>1, <1>2, Zenon
<1>4. /\ EffectiveTotal(S \ {c}) \in Int /\ EffectiveTotal(S) \in Int
      /\ Effective(c) \in Int
  BY EffectiveTotalAdds, CostsAreNumbers
<1> QED  BY <1>3, <1>4

\* A coin may be exchanged for another with the same effective value.
LEMMA ExchangeIs ==
    ASSUME RequestOK, NEW S \in SUBSET EffectiveCoins, NEW c \in S,
           NEW d \in EffectiveCoins \ S, Effective(c) = Effective(d), NEW s,
           Covered(s, (S \ {c}) \cup {d})
    PROVE  Covered(s, S)
<1> DEFINE T == (S \ {c}) \cup {d}
<1>1. EffectiveCoins \subseteq MyCoins
  BY CostsAreNumbers
<1>2. /\ S \in SUBSET MyCoins /\ T \in SUBSET MyCoins /\ S \ {c} \in SUBSET MyCoins
      /\ d \in MyCoins \ (S \ {c}) /\ d \in T
  BY <1>1
<1>3. EffectiveTotal(T) = EffectiveTotal(S)
  <2>1. EffectiveTotal(T) = EffectiveTotal(S \ {c}) + Effective(d)
    BY <1>2, EffectiveTotalAdds
  <2>2. EffectiveTotal(S \ {c}) = EffectiveTotal(S) - Effective(c)
        /\ EffectiveTotal(S) \in Int /\ Effective(c) \in Int
    BY <1>2, EffectiveTotalWithout
  <2> QED  BY <2>1, <2>2
<1>4. Cardinality(T) = Cardinality(S)
  <2>1. IsFiniteSet(S) /\ IsFiniteSet(S \ {c}) /\ Cardinality(S) \in Nat
    BY <1>2, MyCoinsAreFinite
  <2>2. Cardinality(S \ {c}) = Cardinality(S) - 1
    BY <2>1, FS_RemoveElement
  <2>3. Cardinality(T) = Cardinality(S \ {c}) + 1
    BY <1>2, <2>1, FS_AddElement
  <2> QED  BY <2>1, <2>2, <2>3
<1>5. Needed(S) => Needed(T)
  <2> SUFFICES ASSUME Needed(S), NEW e \in T PROVE EffectiveTotal(T \ {e}) < Target
    BY DEF Needed
  <2> HIDE DEF T
  <2>1. EffectiveTotal(T \ {e}) = EffectiveTotal(S) - Effective(e)
    BY <1>2, <1>3, EffectiveTotalWithout
  <2>2. CASE e = d
    <3>1. EffectiveTotal(S \ {c}) = EffectiveTotal(S) - Effective(c)
      BY <1>2, EffectiveTotalWithout
    <3>2. EffectiveTotal(S \ {c}) < Target
      BY DEF Needed
    <3>3. Effective(e) = Effective(c)
      BY <2>2
    <3> QED  BY <2>1, <3>1, <3>2, <3>3
  <2>3. CASE e # d
    <3>1. e \in S
      BY <2>3 DEF T
    <3>2. EffectiveTotal(S \ {e}) = EffectiveTotal(S) - Effective(e)
      BY <1>2, <3>1, EffectiveTotalWithout
    <3>3. EffectiveTotal(S \ {e}) < Target
      BY <3>1 DEF Needed
    <3> QED  BY <2>1, <3>2, <3>3
  <2> QED  BY <2>2, <2>3
<1> HIDE DEF T
<1>6. (InRange(S) <=> InRange(T)) /\ Waste(S) = Waste(T)
  BY <1>3, <1>4 DEF InRange, Waste
<1>7. Covered(s, T)
  BY DEF T
<1> QED  BY <1>5, <1>6, <1>7 DEF Covered

\* Coins that agree with the selection: the selected ones and some behind it.
LEMMA ExtensionIs ==
    ASSUME RequestOK, NEW s, SearchIs(s),
           {s.order[i] : i \in 1..Len(s.order)} = EffectiveCoins,
           NEW S \in SUBSET EffectiveCoins, Agrees(s, S, Len(s.selection))
    PROVE  /\ Selected(s) \in SUBSET S
           /\ s.value <= EffectiveTotal(S)
           /\ EffectiveTotal(S) <= s.value + s.available
           /\ Cardinality(Selected(s)) <= Cardinality(S)
           /\ s.value \in Int /\ s.available \in Int /\ EffectiveTotal(S) \in Int
           /\ Cardinality(Selected(s)) \in Nat /\ Cardinality(S) \in Nat
<1> DEFINE n == Len(s.selection)
           N == Len(s.order)
           A == Selected(s)
           B == Between(s, n + 1, N)
<1>1. n \in Nat /\ N \in Nat /\ n <= N
  BY DEF SearchIs
<1>2. A = {s.order[i] : i \in {j \in 1..n : s.selection[j]}} /\ A \subseteq EffectiveCoins
  BY SelectedIs
<1>3. B \subseteq EffectiveCoins
  <2> HIDE DEF n, N
  <2>1. n + 1 \in Nat \ {0} /\ N <= N
    BY <1>1
  <2> QED  BY <1>1, <2>1, BetweenIs DEF N
<1>4. A \subseteq S
  BY <1>2 DEF Agrees
<1>5. S \subseteq A \cup B
  <2> SUFFICES ASSUME NEW c \in S PROVE c \in A \/ c \in B
    OBVIOUS
  <2>1. PICK i \in 1..N : c = s.order[i]
    OBVIOUS
  <2>2. CASE i \in 1..n
    BY <1>2, <2>1, <2>2 DEF Agrees
  <2>3. CASE i \in (n + 1)..N
    BY <2>1, <2>3 DEF Between
  <2> QED  BY <1>1, <2>1, <2>2, <2>3
<1>6. A \cap B = {}
  <2> SUFFICES ASSUME NEW c \in A, c \in B PROVE FALSE
    OBVIOUS
  <2>1. PICK i \in 1..n : c = s.order[i]
    BY <1>2
  <2>2. PICK j \in (n + 1)..N : c = s.order[j]
    BY DEF Between
  <2>3. i \in 1..N /\ j \in 1..N /\ i # j
    BY <1>1
  <2> QED  BY <2>1, <2>2, <2>3 DEF SearchIs
<1>7. s.value = EffectiveTotal(A) /\ s.available = EffectiveTotal(B)
  BY DEF SearchIs
<1>8. EffectiveCoins \subseteq MyCoins
  BY CostsAreNumbers
<1> HIDE DEF A, B, n, N
<1>9. EffectiveTotal(A \cup B) = EffectiveTotal(A) + EffectiveTotal(B)
  BY <1>2, <1>3, <1>6, <1>8, EffectiveTotalOfUnion
<1>10. /\ EffectiveTotal(A) <= EffectiveTotal(S) /\ Cardinality(A) <= Cardinality(S)
       /\ EffectiveTotal(A) \in Int /\ EffectiveTotal(S) \in Int
       /\ Cardinality(A) \in Nat /\ Cardinality(S) \in Nat
  BY <1>4, EffectiveTotalGrows
<1>11. EffectiveTotal(S) <= EffectiveTotal(A \cup B)
  <2>1. A \cup B \in SUBSET EffectiveCoins
    BY <1>2, <1>3
  <2> QED  BY <1>5, <2>1, EffectiveTotalGrows
<1>12. EffectiveTotal(B) \in Int
  BY <1>3, <1>8, EffectiveTotalAdds
<1> QED  BY <1>4, <1>7, <1>9, <1>10, <1>11, <1>12 DEF A

\* Where the selection is hopeless no set that agrees with it is missed.
LEMMA HopelessIsCovered ==
    ASSUME RequestOK, Target \in Nat, CostOfChange \in Nat, NEW s, SearchIs(s),
           {s.order[i] : i \in 1..Len(s.order)} = EffectiveCoins,
           \/ s.value + s.available < Target
           \/ s.value > Target + CostOfChange
           \/ s.best # {} /\ s.waste > s.bestWaste /\ WasteOfInput > 0,
           NEW S \in SUBSET EffectiveCoins, Agrees(s, S, Len(s.selection))
    PROVE  Covered(s, S)
<1> DEFINE m == Cardinality(Selected(s))
           k == Cardinality(S)
           E == EffectiveTotal(S)
<1>1. /\ s.value <= E /\ E <= s.value + s.available /\ m <= k
      /\ s.value \in Int /\ s.available \in Int /\ E \in Int /\ m \in Nat /\ k \in Nat
  BY ExtensionIs
<1>2. s.waste = m * WasteOfInput /\ s.waste \in Int /\ s.bestWaste \in Int
      /\ WasteOfInput \in Int
  BY CostsAreNumbers DEF SearchIs
<1>3. InRange(S) <=> E >= Target /\ E <= Target + CostOfChange
  BY <1>1 DEF InRange
<1>4. Waste(S) = k * WasteOfInput + E - Target
  BY DEF Waste
<1> HIDE DEF m, k, E
<1>5. CASE s.value + s.available < Target \/ s.value > Target + CostOfChange
  BY <1>1, <1>3, <1>5 DEF Covered
<1>6. CASE s.best # {} /\ s.waste > s.bestWaste /\ WasteOfInput > 0
  <2>1. m * WasteOfInput <= k * WasteOfInput /\ k * WasteOfInput \in Int
    <3>1. PICK x \in Nat : k = m + x
      <4>1. k - m \in Nat /\ k = m + (k - m)
        BY <1>1
      <4> QED  BY <4>1
    <3>2. WasteOfInput \in Nat
      BY <1>2, <1>6
    <3>3. \A a, b \in Nat, w \in Nat : (a + b) * w = a * w + b * w
                                       /\ a * w \in Nat /\ b * w \in Nat
      OBVIOUS
    <3>4. /\ (m + x) * WasteOfInput = m * WasteOfInput + x * WasteOfInput
          /\ m * WasteOfInput \in Nat /\ x * WasteOfInput \in Nat
      BY <1>1, <3>2, <3>3
    <3> QED  BY <3>1, <3>4
  <2>2. E >= Target => s.bestWaste <= Waste(S)
    BY <1>1, <1>2, <1>4, <1>6, <2>1
  <2> QED  BY <1>3, <1>6, <2>2 DEF Covered
<1> QED  BY <1>5, <1>6

\* Where it is in range a set that agrees has coins that are not needed, or is the
\* selection.
LEMMA InRangeIsCovered ==
    ASSUME RequestOK, Target \in Nat, NEW s, SearchIs(s),
           {s.order[i] : i \in 1..Len(s.order)} = EffectiveCoins,
           s.value >= Target, NEW b, b.best # {},
           b.bestWaste <= s.waste + s.value - Target,
           NEW S \in SUBSET EffectiveCoins, Agrees(s, S, Len(s.selection))
    PROVE  Covered(b, S)
<1>1. Selected(s) \in SUBSET S
  BY ExtensionIs
<1>2. CASE S = Selected(s)
  <2>1. Waste(S) = s.waste + s.value - Target
    BY <1>2, Zenon DEF Waste, SearchIs
  <2> QED  BY <2>1 DEF Covered
<1>3. CASE S # Selected(s)
  <2>1. PICK c \in S : c \notin Selected(s)
    BY <1>1, <1>3
  <2>2. /\ EffectiveTotal(Selected(s)) <= EffectiveTotal(S \ {c})
        /\ EffectiveTotal(Selected(s)) \in Int /\ EffectiveTotal(S \ {c}) \in Int
    <3>1. S \ {c} \in SUBSET EffectiveCoins /\ Selected(s) \in SUBSET (S \ {c})
      BY <1>1, <2>1
    <3> QED  BY <3>1, EffectiveTotalGrows
  <2>3. ~(EffectiveTotal(S \ {c}) < Target)
    <3>1. EffectiveTotal(Selected(s)) >= Target
      BY DEF SearchIs
    <3> QED  BY <2>2, <3>1
  <2>4. ~Needed(S)
    BY <2>1, <2>3 DEF Needed
  <2> QED  BY <2>4 DEF Covered
<1> QED  BY <1>2, <1>3

\* A set that agrees up to a place behind which nothing is selected agrees with all,
\* or it is passed.
LEMMA AgreesOrPassed ==
    ASSUME NEW s, s.selection \in Seq(BOOLEAN), NEW S,
           NEW k \in 0..Len(s.selection), Agrees(s, S, k),
           \A j \in (k + 1)..Len(s.selection) : ~s.selection[j]
    PROVE  Passed(s, S) \/ Agrees(s, S, Len(s.selection))
<1> DEFINE n == Len(s.selection)
           T == {j \in (k + 1)..n : s.order[j] \in S}
<1>1. n \in Nat /\ k \in Nat
  OBVIOUS
<1>2. CASE T = {}
  <2>1. ASSUME NEW i \in 1..n PROVE s.order[i] \in S <=> s.selection[i]
    <3>1. CASE i \in 1..k
      BY <3>1 DEF Agrees
    <3>2. CASE i \in (k + 1)..n
      BY <1>2, <3>2
    <3> QED  BY <1>1, <3>1, <3>2
  <2> QED  BY <2>1 DEF Agrees
<1>3. CASE T # {}
  <2>1. T \subseteq Nat
    BY <1>1
  <2>2. PICK i \in T : \A j \in T : i <= j
    <3> HIDE DEF T
    <3> QED  BY <1>3, <2>1, LeastNumber
  <2>3. i \in 1..n /\ s.order[i] \in S /\ ~s.selection[i]
    BY <1>1
  <2>4. Agrees(s, S, i - 1)
    <3> SUFFICES ASSUME NEW j \in 1..(i - 1) PROVE s.order[j] \in S <=> s.selection[j]
      BY DEF Agrees
    <3>1. CASE j \in 1..k
      BY <3>1 DEF Agrees
    <3>2. CASE j \in (k + 1)..n
      <4>1. ~(i <= j)
        BY <2>3
      <4>2. j \notin T
        BY <2>2, <4>1
      <4> QED  BY <3>2, <4>2
    <3> QED  BY <1>1, <2>3, <3>1, <3>2
  <2> QED  BY <2>3, <2>4 DEF Passed
<1> QED  BY <1>2, <1>3

\* What is said of sets of coins is said with other selections of the same order and
\* the same best selection.
LEMMA SameBestCovers ==
    ASSUME NEW s, NEW t, t.best = s.best, t.bestWaste = s.bestWaste
    PROVE  /\ BestIs(t) <=> BestIs(s)
           /\ \A S : Covered(t, S) <=> Covered(s, S)
BY DEF BestIs, Covered

\* Going back keeps what was seen, if every set was that agrees with the selection.
LEMMA OmitSees ==
    ASSUME NEW s, SearchIs(s), Deepest(s.selection) # 0, Sees(s),
           \A S \in SUBSET EffectiveCoins :
               Agrees(s, S, Len(s.selection)) => Covered(s, S),
           NEW t, t.order = s.order, t.best = s.best, t.bestWaste = s.bestWaste,
           t.selection = Append(SubSeq(s.selection, 1, Deepest(s.selection) - 1), FALSE)
    PROVE  Sees(t)
<1> DEFINE k == Deepest(s.selection)
           n == Len(s.selection)
<1>1. s.selection \in Seq(BOOLEAN) /\ n \in Nat
  BY DEF SearchIs
<1>2. k \in 1..n /\ s.selection[k] /\ \A i \in 1..n : s.selection[i] => i <= k
  <2> HIDE DEF n
  <2>1. Deepest(s.selection) \in 0..Len(s.selection)
    BY <1>1, DeepestIs
  <2> QED  BY <1>1, <2>1, DeepestIs DEF n
<1>3. /\ Len(t.selection) = k
      /\ \A i \in 1..k : t.selection[i] <=> i < k /\ s.selection[i]
  <2>1. t.selection = Append(SubSeq(s.selection, 1, k - 1), FALSE)
    OBVIOUS
  <2> HIDE DEF k
  <2> QED  BY <1>1, <1>2, <2>1, CutSelection
<1> HIDE DEF k, n
<1>4. ASSUME NEW S \in SUBSET EffectiveCoins, Passed(t, S) PROVE Covered(s, S)
  <2>1. PICK i \in 1..k : t.order[i] \in S /\ ~t.selection[i] /\ Agrees(t, S, i - 1)
    BY <1>3, <1>4 DEF Passed
  <2>2. Agrees(s, S, i - 1)
    <3> SUFFICES ASSUME NEW j \in 1..(i - 1) PROVE s.order[j] \in S <=> s.selection[j]
      BY DEF Agrees
    <3>1. j \in 1..k /\ j < k
      BY <1>2, <2>1
    <3> QED  BY <1>3, <2>1, <3>1 DEF Agrees
  <2>3. CASE i < k
    <3>1. i \in 1..n
      BY <1>1, <1>2, <2>1
    <3>2. ~s.selection[i]
      BY <1>3, <2>1, <2>3, Zenon
    <3>3. Passed(s, S)
      BY <2>1, <2>2, <3>1, <3>2 DEF Passed, n
    <3> QED  BY <3>3 DEF Sees
  <2>4. CASE i = k
    <3>1. Agrees(s, S, k)
      <4> SUFFICES ASSUME NEW j \in 1..k PROVE s.order[j] \in S <=> s.selection[j]
        BY DEF Agrees
      <4>1. CASE j = k
        BY <1>2, <2>1, <2>4, <4>1
      <4>2. CASE j # k
        <5>1. j \in 1..(i - 1)
          BY <1>1, <1>2, <2>4, <4>2
        <5> QED  BY <2>2, <5>1 DEF Agrees
      <4> QED  BY <4>1, <4>2
    <3>2. k \in 0..n /\ \A j \in (k + 1)..n : ~s.selection[j]
      BY <1>1, <1>2
    <3>3. Passed(s, S) \/ Agrees(s, S, n)
      BY <1>1, <3>1, <3>2, AgreesOrPassed DEF n
    <3> QED  BY <3>3 DEF Sees, n
  <2> QED  BY <1>1, <1>2, <2>1, <2>3, <2>4
<1>5. BestIs(t) /\ \A S : Covered(t, S) <=> Covered(s, S)
  BY SameBestCovers DEF Sees
<1> QED  BY <1>4, <1>5 DEF Sees

\* Going forward does: a coin that is left out at once is like the one before.
LEMMA TakeSees ==
    ASSUME RequestOK, NEW s, SearchIs(s), Len(s.selection) < Len(s.order), Sees(s),
           NEW t, t.order = s.order, t.best = s.best, t.bestWaste = s.bestWaste,
           LET k == Len(s.selection) + 1 IN
             IF /\ k > 1 /\ ~s.selection[k - 1]
                /\ Effective(s.order[k - 1]) = Effective(s.order[k])
             THEN t.selection = Append(s.selection, FALSE)
             ELSE t.selection = Append(s.selection, TRUE)
    PROVE  Sees(t)
<1> DEFINE n == Len(s.selection)
           k == n + 1
           known == /\ k > 1 /\ ~s.selection[k - 1]
                    /\ Effective(s.order[k - 1]) = Effective(s.order[k])
<1>1. /\ s.selection \in Seq(BOOLEAN) /\ n \in Nat /\ Len(s.order) \in Nat
      /\ n < Len(s.order)
  BY DEF SearchIs
<1>2. /\ Len(t.selection) = k /\ k \in 1..Len(s.order)
      /\ \A i \in 1..n : t.selection[i] <=> s.selection[i]
      /\ ~t.selection[k] => known
  <2> DEFINE left == Append(s.selection, FALSE)
             taken == Append(s.selection, TRUE)
  <2>1. IF known THEN t.selection = left ELSE t.selection = taken
    OBVIOUS
  <2>2. k \in 1..Len(s.order)
    BY <1>1
  <2>3. /\ Len(left) = k /\ Len(taken) = k /\ taken[k]
        /\ \A i \in 1..n : left[i] <=> s.selection[i]
        /\ \A i \in 1..n : taken[i] <=> s.selection[i]
    BY <1>1, LongerSelection
  <2> HIDE DEF known, left, taken, n
  <2>4. CASE known
    BY <2>1, <2>2, <2>3, <2>4
  <2>5. CASE ~known
    BY <2>1, <2>2, <2>3, <2>5
  <2> QED  BY <2>4, <2>5
<1> HIDE DEF known
<1>3. ASSUME NEW S \in SUBSET EffectiveCoins, Passed(t, S) PROVE Covered(s, S)
  <2>1. PICK i \in 1..k : t.order[i] \in S /\ ~t.selection[i] /\ Agrees(t, S, i - 1)
    BY <1>2, <1>3 DEF Passed
  <2>2. Agrees(s, S, i - 1)
    <3> SUFFICES ASSUME NEW j \in 1..(i - 1) PROVE s.order[j] \in S <=> s.selection[j]
      BY DEF Agrees
    <3>1. j \in 1..n
      BY <1>1, <2>1
    <3> QED  BY <1>2, <2>1, <3>1 DEF Agrees
  <2>3. CASE i \in 1..n
    <3>1. Passed(s, S)
      BY <1>2, <2>1, <2>2, <2>3 DEF Passed
    <3> QED  BY <3>1 DEF Sees
  <2>4. CASE i = k
    <3>1. known
      BY <1>2, <2>1, <2>4
    <3>2. /\ n \in 1..n /\ n \in 1..Len(s.order) /\ ~s.selection[n]
          /\ Effective(s.order[n]) = Effective(s.order[k])
      <4>1. k > 1 /\ k - 1 = n
        BY <1>1, <3>1 DEF known
      <4>2. n \in 1..n /\ n \in 1..Len(s.order)
        BY <1>1, <4>1
      <4> QED  BY <3>1, <4>1, <4>2 DEF known
    <3> DEFINE c == s.order[k]
               d == s.order[n]
               T == (S \ {c}) \cup {d}
    <3>3. c \in S /\ d \in EffectiveCoins /\ d \notin S
      <4>1. c \in S
        BY <2>1, <2>4
      <4>2. d \in EffectiveCoins
        BY <3>2, SelectedIs
      <4>3. Agrees(s, S, n)
        <5>1. i - 1 = n
          BY <1>1, <2>4
        <5> QED  BY <2>2, <5>1
      <4>4. d \notin S
        BY <3>2, <4>3 DEF Agrees
      <4> QED  BY <4>1, <4>2, <4>4
    <3>4. ASSUME NEW j \in 1..(n - 1) PROVE s.order[j] # c /\ s.order[j] # d
      <4>1. j \in 1..Len(s.order) /\ j # k /\ j # n
        BY <1>1
      <4> QED  BY <1>2, <3>2, <4>1 DEF SearchIs
    <3>5. Agrees(s, T, n - 1)
      <4> SUFFICES ASSUME NEW j \in 1..(n - 1) PROVE s.order[j] \in T <=> s.selection[j]
        BY DEF Agrees
      <4>1. j \in 1..(i - 1)
        BY <1>1, <2>4
      <4>2. s.order[j] \in S <=> s.selection[j]
        BY <2>2, <4>1 DEF Agrees
      <4> HIDE DEF c, d
      <4> QED  BY <3>4, <4>2
    <3>6. Passed(s, T)
      <4>1. s.order[n] \in T
        OBVIOUS
      <4> HIDE DEF T
      <4> QED  BY <3>2, <3>5, <4>1 DEF Passed
    <3>7. T \in SUBSET EffectiveCoins
      <4> HIDE DEF c, d
      <4> QED  BY <3>3
    <3>8. Covered(s, T)
      <4> HIDE DEF T
      <4> QED  BY <3>6, <3>7 DEF Sees
    <3>9. Effective(c) = Effective(d) /\ d \in EffectiveCoins \ S
      BY <3>2, <3>3
    <3> HIDE DEF c, d
    <3> QED  BY <3>3, <3>8, <3>9, ExchangeIs
  <2> QED  BY <1>1, <2>1, <2>3, <2>4
<1>4. BestIs(t) /\ \A S : Covered(t, S) <=> Covered(s, S)
  BY SameBestCovers DEF Sees
<1> QED  BY <1>3, <1>4 DEF Sees

\* Something is to be paid.
LEMMA TargetIsPositive ==
    ASSUME RequestOK, outputAmount \in Nat
    PROVE  Target \in Nat /\ Target > 0
<1> DEFINE size == Size(0, request.output)
<1>1. size \in Nat /\ size > 0
  <2>1. request.output \in Nat /\ InputSize \in Nat
    BY SizesAssumption DEF RequestOK
  <2> QED  BY <2>1 DEF Size, FixedSize
<1>2. request.fee \in Nat \ {0}
  BY DEF RequestOK
<1> HIDE DEF size
<1>3. request.fee * size \in Nat /\ request.fee * size > 0
  <2>1. \A a, b \in Nat \ {0} : a * b \in Nat /\ a * b > 0
    OBVIOUS
  <2>2. size \in Nat \ {0}
    BY <1>1
  <2> QED  BY <1>2, <2>1, <2>2
<1> QED  BY <1>3 DEF Target, size

\* A search that is where the search of the state is.
IsHere(s) ==
    /\ s.value = search.value /\ s.available = search.available /\ s.waste = search.waste
    /\ s.best = search.best /\ s.bestWaste = search.bestWaste

\* Where the search turns back, the sets that agree with the selection are covered by
\* the best one, and what was covered before still is.
LEMMA BestOfSees ==
    ASSUME RequestOK, outputAmount \in Nat, NEW s, SearchIs(s), Sees(s), IsHere(s),
           IsHopeless \/ IsInRange
    PROVE  LET b == BestOf(s) IN
             /\ SearchIs(b) /\ Sees(b) /\ b.selection = s.selection /\ b.order = s.order
             /\ \A S \in SUBSET EffectiveCoins :
                    Agrees(b, S, Len(b.selection)) => Covered(b, S)
<1> DEFINE b == BestOf(s)
           waste == s.waste + s.value - Target
           better == IsInRange /\ (s.best = {} \/ waste <= s.bestWaste)
           Types0 == [order : Seq(EffectiveCoins), selection : Seq(BOOLEAN),
                      value : Int, available : Int, waste : Int,
                      best : SUBSET EffectiveCoins, bestWaste : Int, tries : 0..TotalTries]
<1>1. Target \in Nat /\ Target > 0 /\ CostOfChange \in Nat
  BY TargetIsPositive, CostsAreNumbers
<1>2. /\ s \in Types0 /\ s.value \in Int /\ s.waste \in Int /\ s.bestWaste \in Int
      /\ Selected(s) \in SUBSET EffectiveCoins /\ s.best \in SUBSET EffectiveCoins
      /\ waste \in Int
      /\ {s.order[i] : i \in 1..Len(s.order)} = EffectiveCoins
  <2>1. s \in Types0
    BY DEF SearchIs
  <2>2. Selected(s) \in SUBSET EffectiveCoins
    BY SelectedIs
  <2>3. /\ s.value \in Int /\ s.waste \in Int /\ s.bestWaste \in Int
        /\ s.best \in SUBSET EffectiveCoins
    BY <2>1
  <2>4. waste \in Int
    <3> HIDE DEF Types0
    <3> QED  BY <1>1, <2>3
  <2> QED  BY <2>1, <2>2, <2>3, <2>4 DEF Sees
<1>3. SearchIs(b) /\ b.selection = s.selection /\ b.order = s.order
  <2>1. Target \in Int /\ s.value = search.value
    BY <1>1 DEF IsHere
  <2> HIDE DEF b
  <2> QED  BY <2>1, BestOfKeeps DEF b
<1>4. IF better THEN b.best = Selected(s) /\ b.bestWaste = waste ELSE b = s
  <2>1. b = IF better THEN [s EXCEPT !.best = Selected(s), !.bestWaste = waste] ELSE s
    BY DEF BestOf
  <2>2. LET r == [s EXCEPT !.best = Selected(s), !.bestWaste = waste] IN
          r.best = Selected(s) /\ r.bestWaste = waste
    <3> HIDE DEF waste
    <3> QED  BY <1>2
  <2> HIDE DEF better, b, waste
  <2> QED  BY <2>1, <2>2
<1>5. IsInRange =>
        /\ s.value >= Target /\ s.value <= Target + CostOfChange
        /\ Selected(s) # {}
  <2> SUFFICES ASSUME IsInRange
      PROVE  s.value >= Target /\ s.value <= Target + CostOfChange /\ Selected(s) # {}
    OBVIOUS
  <2>1. s.value >= Target /\ s.value <= Target + CostOfChange
    BY <1>1, <1>2 DEF IsInRange, IsHopeless, IsHere
  <2>2. s.value # 0
    BY <1>1, <1>2, <2>1
  <2>3. ASSUME Selected(s) = {} PROVE FALSE
    <3>1. EffectiveTotal({}) = 0
      BY EffectiveTotalAdds
    <3>2. s.value = 0
      BY <2>3, <3>1, Zenon DEF SearchIs
    <3> QED  BY <2>2, <3>2
  <2> QED  BY <2>1, <2>3
<1>6. IsHopeless =>
        \/ s.value + s.available < Target
        \/ s.value > Target + CostOfChange
        \/ s.best # {} /\ s.waste > s.bestWaste /\ WasteOfInput > 0
  BY DEF IsHopeless, IsHere
<1>7. IsInRange => InRange(Selected(s)) /\ Waste(Selected(s)) = waste
  <2> SUFFICES ASSUME IsInRange PROVE InRange(Selected(s)) /\ Waste(Selected(s)) = waste
    OBVIOUS
  <2>1. EffectiveTotal(Selected(s)) = s.value
        /\ Cardinality(Selected(s)) * WasteOfInput = s.waste
    BY DEF SearchIs
  <2>2. InRange(Selected(s))
    BY <1>1, <1>2, <1>5, <2>1 DEF InRange
  <2>3. Waste(Selected(s)) = waste
    BY <2>1, Zenon DEF Waste
  <2> QED  BY <2>2, <2>3
<1> HIDE DEF b, waste, better, Types0
<1>8. /\ BestIs(b)
      /\ b.best = {} => b = s
      /\ s.best # {} => b.best # {} /\ b.bestWaste <= s.bestWaste
      /\ IsInRange => b.best # {} /\ b.bestWaste <= waste
  <2>1. CASE better
    <3>1. IsInRange /\ (s.best = {} \/ waste <= s.bestWaste)
      BY <2>1 DEF better
    <3>2. b.best = Selected(s) /\ b.bestWaste = waste /\ waste <= waste
      BY <1>2, <1>4, <2>1
    <3>3. BestIs(b)
      <4>1. InRange(b.best) /\ Waste(b.best) = b.bestWaste
        BY <1>7, <3>1, <3>2
      <4> QED  BY <4>1 DEF BestIs
    <3> QED  BY <1>5, <3>1, <3>2, <3>3
  <2>2. CASE ~better
    <3>1. b = s /\ s.bestWaste <= s.bestWaste
      BY <1>2, <1>4, <2>2
    <3>2. IsInRange => s.best # {} /\ s.bestWaste <= waste
      BY <1>2, <2>2 DEF better
    <3> QED  BY <3>1, <3>2 DEF Sees
  <2> QED  BY <2>1, <2>2
<1>9. ASSUME NEW S \in SUBSET EffectiveCoins, Covered(s, S) PROVE Covered(b, S)
  <2>1. CASE b.best = {}
    BY <1>8, <1>9, <2>1
  <2>2. CASE b.best # {}
    <3>1. Waste(S) \in Int
      <4>1. S \in SUBSET MyCoins
        BY CostsAreNumbers
      <4>2. /\ Cardinality(S) \in Nat /\ EffectiveTotal(S) \in Int
            /\ WasteOfInput \in Int
        BY <4>1, MyCoinsAreFinite, EffectiveTotalAdds, CostsAreNumbers
      <4>3. Cardinality(S) * WasteOfInput \in Int
        <5>1. \A m \in Nat, w \in Int : m * w \in Int
          OBVIOUS
        <5> QED  BY <4>2, <5>1
      <4> QED  BY <1>1, <4>2, <4>3 DEF Waste
    <3>2. b.bestWaste \in Int
      BY <1>3 DEF SearchIs
    <3> QED  BY <1>2, <1>8, <1>9, <2>2, <3>1, <3>2 DEF Covered
  <2> QED  BY <2>1, <2>2
<1>10. ASSUME NEW S \in SUBSET EffectiveCoins, Agrees(b, S, Len(b.selection))
       PROVE  Covered(b, S)
  <2>1. Agrees(s, S, Len(s.selection))
    BY <1>3, <1>10 DEF Agrees
  <2>2. CASE IsHopeless
    <3>1. Covered(s, S)
      BY <1>1, <1>2, <1>6, <2>1, <2>2, HopelessIsCovered
    <3> QED  BY <1>9, <3>1
  <2>3. CASE IsInRange
    <3>1. /\ b.best # {} /\ b.bestWaste <= s.waste + s.value - Target
          /\ s.value >= Target
      BY <1>5, <1>8, <2>3 DEF waste
    <3> QED  BY <1>1, <1>2, <2>1, <3>1, InRangeIsCovered
  <2> QED  BY <2>2, <2>3
<1>11. Sees(b)
  <2>1. ASSUME NEW S \in SUBSET EffectiveCoins, Passed(b, S) PROVE Covered(b, S)
    <3>1. Passed(s, S)
      BY <1>3, <2>1 DEF Passed, Agrees
    <3>2. Covered(s, S)
      BY <3>1 DEF Sees
    <3> QED  BY <1>9, <3>2
  <2> QED  BY <1>2, <1>3, <1>8, <2>1 DEF Sees
<1> QED  BY <1>3, <1>10, <1>11 DEF b

\* At the end no set is missed: with nothing selected every one is passed or agrees.
LEMMA EndSees ==
    ASSUME RequestOK, outputAmount \in Nat, NEW s, SearchIs(s), Sees(s), IsHere(s),
           IsHopeless \/ IsInRange, Deepest(s.selection) = 0
    PROVE  HasSeen(s)
<1>1. Target \in Nat /\ Target > 0 /\ CostOfChange \in Nat
  BY TargetIsPositive, CostsAreNumbers
<1>2. s.selection \in Seq(BOOLEAN) /\ s.value \in Int /\ s.available \in Int
  BY DEF SearchIs
<1>3. \A j \in (0 + 1)..Len(s.selection) : ~s.selection[j]
  <2> SUFFICES ASSUME NEW j \in (0 + 1)..Len(s.selection), s.selection[j] PROVE FALSE
    OBVIOUS
  <2>1. j \in 1..Len(s.selection)
    BY <1>2
  <2>2. j <= 0
    BY <1>2, <2>1, DeepestIs
  <2> QED  BY <2>1, <2>2
<1>4. s.value = 0
  <2>1. Selected(s) = {}
    <3>1. {j \in 1..Len(s.selection) : s.selection[j]} = {}
      BY <1>3
    <3> QED  BY <3>1, SelectedIs
  <2>2. EffectiveTotal({}) = 0
    BY EffectiveTotalAdds
  <2> QED  BY <2>1, <2>2, Zenon DEF SearchIs
<1>5. IsHopeless
  BY <1>1, <1>4 DEF IsInRange, IsHere
<1>6. ASSUME NEW S \in SUBSET EffectiveCoins PROVE Covered(s, S)
  <2>1. Agrees(s, S, 0) /\ 0 \in 0..Len(s.selection)
    BY <1>2 DEF Agrees
  <2>2. Passed(s, S) \/ Agrees(s, S, Len(s.selection))
    BY <1>2, <1>3, <2>1, AgreesOrPassed
  <2>3. CASE Passed(s, S)
    BY <2>3 DEF Sees
  <2>4. CASE Agrees(s, S, Len(s.selection))
    <3>1. \/ s.value + s.available < Target
          \/ s.value > Target + CostOfChange
          \/ s.best # {} /\ s.waste > s.bestWaste /\ WasteOfInput > 0
      BY <1>5 DEF IsHopeless, IsHere
    <3>2. {s.order[i] : i \in 1..Len(s.order)} = EffectiveCoins
      BY DEF Sees
    <3> QED  BY <1>1, <2>4, <3>1, <3>2, HopelessIsCovered
  <2> QED  BY <2>2, <2>3, <2>4
<1> QED  BY <1>6 DEF HasSeen, Sees

\* What is said of sets of coins and a search does not depend on the step.
LEMMA SeenStays ==
    ASSUME RequestOK, request' = request, outputAmount' = outputAmount,
           NEW s, s.best \in SUBSET MyCoins
    PROVE  (Sees(s)' <=> Sees(s)) /\ (HasSeen(s)' <=> HasSeen(s))
<1>1. /\ EffectiveCoins' = EffectiveCoins /\ EffectiveCoins \subseteq MyCoins
      /\ Target' = Target /\ WasteOfInput' = WasteOfInput
  BY RequestStays, CostsAreNumbers
<1>2. ASSUME NEW S \in SUBSET MyCoins
      PROVE  /\ EffectiveTotal(S)' = EffectiveTotal(S)
             /\ InRange(S)' <=> InRange(S)
  BY EffectiveTotalStays, FairStays
<1>3. ASSUME NEW S \in SUBSET MyCoins PROVE Waste(S)' = Waste(S)
  BY <1>1, <1>2 DEF Waste
<1>4. ASSUME NEW S \in SUBSET MyCoins PROVE Needed(S)' <=> Needed(S)
  <2>1. ASSUME NEW c PROVE EffectiveTotal(S \ {c})' = EffectiveTotal(S \ {c})
    <3>1. PICK T \in SUBSET MyCoins : T = S \ {c}
      OBVIOUS
    <3>2. EffectiveTotal(T)' = EffectiveTotal(T)
      BY <1>2
    <3> QED  BY <3>1, <3>2
  <2> QED  BY <1>1, <2>1 DEF Needed
<1>5. ASSUME NEW S \in SUBSET MyCoins PROVE Covered(s, S)' <=> Covered(s, S)
  BY <1>2, <1>3, <1>4 DEF Covered
<1>6. BestIs(s)' <=> BestIs(s)
  <2>1. PICK b \in SUBSET MyCoins : b = s.best
    OBVIOUS
  <2>2. (InRange(b)' <=> InRange(b)) /\ Waste(b)' = Waste(b)
    BY <1>2, <1>3
  <2> QED  BY <2>1, <2>2 DEF BestIs
<1>7. \A S : Passed(s, S)' <=> Passed(s, S)
  BY DEF Passed, Agrees
<1> QED  BY <1>1, <1>5, <1>6, <1>7 DEF Sees, HasSeen

\* Only a wipe changes what is sent, and it makes no search.
LEMMA AmountStays ==
    ASSUME Inv, Inv', [Next]_vars, ~request.wipe
    PROVE  outputAmount' = outputAmount
<1>1. request' = request
  BY DEF Next, vars, Refuse, StartSorting, StartSearch, PickNext, Backtrack, Forward,
         EndSearch, Solve, SolveExactly, FallBack, FillOutputs
<1> QED  BY <1>1 DEF Inv, SendsWhatIsAsked

\* Before a request is filtered there is no search.
LEMMA SearchInitially == Init => SearchInv
BY DEF Init, NoSearch, SearchInv

\* A search starts with nothing passed.
LEMMA StartSearchSees == ASSUME Inv, Inv', StartSearch PROVE SearchInv'
<1>1. /\ request' = request /\ outputAmount' = outputAmount
      /\ pc = "filter" /\ pc' = "search" /\ ~request.wipe
  BY DEF StartSearch, Optimizes
<1>2. PICK order \in Orders :
        search' = [NoSearch EXCEPT !.order = order, !.available = EffectiveTotal(EffectiveCoins)]
  BY DEF StartSearch
<1>3. PICK s : s = search'
  OBVIOUS
<1>4. RequestOK /\ EffectiveCoins \subseteq MyCoins /\ IsFiniteSet(EffectiveCoins)
  BY InvGives, MyCoinsAreFinite
<1>5. {order[i] : i \in 1..Len(order)} = EffectiveCoins
  <2>1. order \in SetToSeqs(EffectiveCoins)
    BY DEF Orders
  <2> QED  BY <1>4, <2>1, SequencesAre
<1>6. s.order = order /\ s.selection = <<>> /\ s.best = {}
  BY <1>2, <1>3 DEF NoSearch
<1>7. Sees(s)
  <2>1. \A S : ~Passed(s, S)
    BY <1>6 DEF Passed
  <2>2. BestIs(s)
    BY <1>6 DEF BestIs
  <2> QED  BY <1>5, <1>6, <2>1, <2>2 DEF Sees
<1>8. s.best \in SUBSET MyCoins
  BY <1>6
<1>9. Sees(s)'
  BY <1>1, <1>4, <1>7, <1>8, SeenStays
<1>10. Sees(search)'
  BY <1>3, <1>9
<1> QED  BY <1>1, <1>10 DEF SearchInv

\* A try that is counted leaves a search where it is.
LEMMA TriedHere ==
    ASSUME NEW s, SearchIs(s), s.tries < TotalTries
    PROVE  LET r == [s EXCEPT !.tries = @ + 1] IN
             /\ SearchIs(r) /\ (Sees(r) <=> Sees(s)) /\ (s = search => IsHere(r))
             /\ r.selection = s.selection /\ r.order = s.order
             /\ r.best = s.best /\ r.bestWaste = s.bestWaste
<1> DEFINE r == [s EXCEPT !.tries = @ + 1]
<1>1. /\ r.value = s.value /\ r.best = s.best /\ r.selection = s.selection
      /\ r.order = s.order /\ r.waste = s.waste /\ r.available = s.available
      /\ r.bestWaste = s.bestWaste
  BY DEF SearchIs
<1>2. SearchIs(r)
  BY TriedOnce
<1> HIDE DEF r
<1>3. \A S : (Passed(r, S) <=> Passed(s, S)) /\ (Covered(r, S) <=> Covered(s, S))
  BY <1>1 DEF Passed, Agrees, Covered
<1>4. (BestIs(r) <=> BestIs(s)) /\ (s = search => IsHere(r))
  BY <1>1 DEF BestIs, IsHere
<1>5. Sees(r) <=> Sees(s)
  BY <1>1, <1>3, <1>4 DEF Sees
<1> QED  BY <1>1, <1>2, <1>4, <1>5 DEF r

\* Going back: the best selection covers the sets that agree, the others are passed.
LEMMA BacktrackSees == ASSUME Inv, Inv', SearchInv, Backtrack PROVE SearchInv'
<1>1. /\ request' = request /\ outputAmount' = outputAmount
      /\ pc = "search" /\ pc' = pc /\ search.tries < TotalTries
      /\ IsHopeless \/ IsInRange
      /\ Deepest(search.selection) # 0
      /\ search' = OmitDeepest(BestOf([search EXCEPT !.tries = @ + 1]))
  BY DEF Backtrack, IsSearching
<1>2. RequestOK /\ outputAmount \in Nat /\ SearchIs(search) /\ Sees(search)
  BY <1>1, InvGives DEF Inv, SearchInv
<1> DEFINE r == [search EXCEPT !.tries = @ + 1]
<1>3. /\ SearchIs(r) /\ Sees(r) /\ IsHere(r) /\ r.selection = search.selection
  BY <1>1, <1>2, TriedHere
<1> HIDE DEF r
<1> DEFINE b == BestOf(r)
<1>4. /\ SearchIs(b) /\ Sees(b) /\ b.selection = r.selection
      /\ \A S \in SUBSET EffectiveCoins : Agrees(b, S, Len(b.selection)) => Covered(b, S)
  BY <1>1, <1>2, <1>3, BestOfSees
<1> HIDE DEF b
<1>5. PICK s : s = search'
  OBVIOUS
<1>6. s = OmitDeepest(b)
  BY <1>1, <1>5 DEF b, r
<1>7. /\ s.order = b.order /\ s.best = b.best /\ s.bestWaste = b.bestWaste
      /\ s.selection = Append(SubSeq(b.selection, 1, Deepest(b.selection) - 1), FALSE)
  BY <1>4, <1>6 DEF OmitDeepest, SearchIs
<1>8. Sees(s)
  <2>1. Deepest(b.selection) # 0
    BY <1>1, <1>3, <1>4
  <2> QED  BY <1>4, <1>7, <2>1, OmitSees
<1>9. s.best \in SUBSET MyCoins
  BY <1>2, <1>4, <1>7, CostsAreNumbers DEF SearchIs
<1>10. Sees(s)'
  BY <1>1, <1>2, <1>8, <1>9, SeenStays
<1>11. Sees(search)'
  BY <1>5, <1>10
<1>12. ~request.wipe
  BY <1>1 DEF Inv, SendsWhatIsAsked
<1> QED  BY <1>1, <1>11, <1>12 DEF SearchInv

\* Going forward: what is passed is passed already, or like something that is.
LEMMA ForwardSees == ASSUME Inv, Inv', SearchInv, Forward PROVE SearchInv'
<1>1. /\ request' = request /\ outputAmount' = outputAmount
      /\ pc = "search" /\ pc' = pc /\ search.tries < TotalTries
      /\ ~IsHopeless /\ ~IsInRange
      /\ search' = TakeNext([search EXCEPT !.tries = @ + 1])
  BY DEF Forward, IsSearching
<1>2. RequestOK /\ outputAmount \in Nat /\ SearchIs(search) /\ Sees(search)
  BY <1>1, InvGives DEF Inv, SearchInv
<1>3. Len(search.selection) < Len(search.order)
  BY <1>1, ForwardHasNext
<1> DEFINE r == [search EXCEPT !.tries = @ + 1]
<1>4. /\ SearchIs(r) /\ Sees(r) /\ Len(r.selection) < Len(r.order)
  BY <1>1, <1>2, <1>3, TriedHere
<1> HIDE DEF r
<1>5. PICK s : s = search'
  OBVIOUS
<1>6. s = TakeNext(r)
  BY <1>1, <1>5 DEF r
<1>7. s.order = r.order /\ s.best = r.best /\ s.bestWaste = r.bestWaste
      /\ LET k == Len(r.selection) + 1 IN
             IF /\ k > 1 /\ ~r.selection[k - 1]
                /\ Effective(r.order[k - 1]) = Effective(r.order[k])
             THEN s.selection = Append(r.selection, FALSE)
             ELSE s.selection = Append(r.selection, TRUE)
  BY <1>4, <1>6 DEF TakeNext, SearchIs
<1>8. Sees(s)
  BY <1>2, <1>4, <1>7, TakeSees
<1>9. s.best \in SUBSET MyCoins
  BY <1>2, <1>4, <1>7, CostsAreNumbers DEF SearchIs
<1>10. Sees(s)'
  BY <1>1, <1>2, <1>8, <1>9, SeenStays
<1>11. Sees(search)'
  BY <1>5, <1>10
<1>12. ~request.wipe
  BY <1>1 DEF Inv, SendsWhatIsAsked
<1> QED  BY <1>1, <1>11, <1>12 DEF SearchInv

\* At the end of the search every set has been seen, unless there were too many tries.
LEMMA EndSearchSees == ASSUME Inv, Inv', SearchInv, EndSearch PROVE SearchInv'
<1>1. /\ request' = request /\ outputAmount' = outputAmount /\ search' = search
      /\ pc = "search" /\ pc' \in {"knapsack", "outputs"}
      /\ \/ /\ IsHopeless \/ IsInRange
            /\ Deepest(search.selection) = 0
         \/ search.tries = TotalTries
  BY DEF EndSearch
<1>2. RequestOK /\ outputAmount \in Nat /\ SearchIs(search) /\ Sees(search)
  BY <1>1, InvGives DEF Inv, SearchInv
<1>3. PICK s : s = search
  OBVIOUS
<1>4. ASSUME search.tries < TotalTries PROVE HasSeen(s)'
  <2>1. search.tries # TotalTries
    BY <1>4, TotalTriesAssumption
  <2>2. IsHere(search)
    BY DEF IsHere
  <2>3. HasSeen(s)
    BY <1>1, <1>2, <1>3, <2>1, <2>2, EndSees
  <2>4. s.best \in SUBSET MyCoins
    BY <1>2, <1>3, CostsAreNumbers DEF SearchIs
  <2> QED  BY <1>1, <1>2, <2>3, <2>4, SeenStays
<1>5. search.tries < TotalTries => HasSeen(search)'
  BY <1>1, <1>3, <1>4
<1>6. ~request.wipe
  BY <1>1 DEF Inv, SendsWhatIsAsked
<1> QED  BY <1>1, <1>5, <1>6 DEF SearchInv

\* The other steps leave the search alone.
LEMMA OthersSee ==
    ASSUME Inv, Inv', SearchInv, request' = request, search' = search,
           ~request.wipe => outputAmount' = outputAmount,
           \/ pc' = pc
           \/ pc = "filter" /\ pc' # "search"
           \/ pc \notin {"filter", "search"} /\ pc' \notin {"filter", "search"}
    PROVE  SearchInv'
<1>1. RequestOK /\ SearchIs(search)
  BY InvGives DEF Inv
<1>2. PICK s : s = search
  OBVIOUS
<1>3. CASE request.wipe
  <2>1. search.order = <<>>
    BY <1>3 DEF SearchInv
  <2>2. pc' # "search"
    BY <1>3 DEF Inv, SendsWhatIsAsked
  <2> QED  BY <2>1, <2>2 DEF SearchInv
<1>4. CASE ~request.wipe
  <2>1. s.best \in SUBSET MyCoins
    BY <1>1, <1>2, CostsAreNumbers DEF SearchIs
  <2>2. (Sees(s)' <=> Sees(s)) /\ (HasSeen(s)' <=> HasSeen(s))
    BY <1>1, <1>4, <2>1, SeenStays
  <2>3. (Sees(search)' <=> Sees(search)) /\ (HasSeen(search)' <=> HasSeen(search))
    BY <1>2, <2>2
  <2> QED  BY <1>4, <2>3 DEF SearchInv
<1> QED  BY <1>3, <1>4

\* Every step keeps what the search has seen.
LEMMA SearchInductive == Inv /\ Inv' /\ SearchInv /\ [Next]_vars => SearchInv'
<1> SUFFICES ASSUME Inv, Inv', SearchInv, [Next]_vars PROVE SearchInv'
  OBVIOUS
<1>1. ~request.wipe => outputAmount' = outputAmount
  BY AmountStays
<1>2. CASE StartSearch
  BY <1>2, StartSearchSees
<1>3. CASE Backtrack
  BY <1>3, BacktrackSees
<1>4. CASE Forward
  BY <1>4, ForwardSees
<1>5. CASE EndSearch
  BY <1>5, EndSearchSees
<1>6. CASE Refuse \/ StartSorting
  <2>1. request' = request /\ search' = search /\ pc = "filter" /\ pc' # "search"
    BY <1>6 DEF Refuse, StartSorting
  <2> QED  BY <1>1, <2>1, OthersSee
<1>7. CASE \E c \in MyCoins : PickNext(c)
  <2>1. /\ request' = request /\ search' = search
        /\ pc \in {"deep", "merge"} /\ pc' \in {pc, "outputs", "failed"}
    BY <1>7 DEF PickNext
  <2> QED  BY <1>1, <2>1, OthersSee
<1>8. CASE Solve \/ SolveExactly \/ FallBack
  <2>1. /\ request' = request /\ search' = search
        /\ pc = "knapsack" /\ pc' \in {"outputs", "deep"}
    BY <1>8 DEF Solve, SolveExactly, FallBack
  <2> QED  BY <1>1, <2>1, OthersSee
<1>9. CASE FillOutputs
  <2>1. request' = request /\ search' = search /\ pc = "outputs" /\ pc' = "done"
    BY <1>9 DEF FillOutputs
  <2> QED  BY <1>1, <2>1, OthersSee
<1>10. CASE UNCHANGED vars
  BY <1>1, <1>10, OthersSee DEF vars
<1> QED  BY <1>2, <1>3, <1>4, <1>5, <1>6, <1>7, <1>8, <1>9, <1>10 DEF Next

\* Who has seen all has found the best.
LEMMA SearchInvFindsBest == SearchInv => BestIsFound
<1> SUFFICES ASSUME SearchInv, pc \in {"knapsack", "outputs", "done"}, search.order # <<>>,
                    search.tries < TotalTries,
                    NEW S \in SUBSET EffectiveCoins, InRange(S)
             PROVE  /\ search.best # {} /\ InRange(search.best)
                    /\ (\A c \in S : EffectiveTotal(S \ {c}) < Target) =>
                          Waste(search.best) <= Waste(S)
  BY DEF BestIsFound
<1>1. HasSeen(search)
  BY DEF SearchInv
<1>2. BestIs(search) /\ Covered(search, S)
  BY <1>1 DEF HasSeen
<1> QED  BY <1>2 DEF BestIs, Covered, Needed

\* A search that came to its end has found coins that need no change if there are
\* any, and a best that wastes no more than others of which every coin is needed:
\* neither the cuts of filterWithOptimizeSize nor its leaving out of a coin like the
\* one before miss one.
THEOREM BestSelectionIsFound == Spec => []BestIsFound
<1>1. Init => Inv /\ SearchInv
  BY Initially, SearchInitially
<1>2. Inv /\ SearchInv /\ [Next]_vars => Inv' /\ SearchInv'
  BY Inductive, SearchInductive
<1> QED  BY <1>1, <1>2, SearchInvFindsBest, PTL DEF Spec
=============================================================================
