-------------------------- MODULE BitcoinSyncProofs --------------------------
(***************************************************************************)
(* Theorems about BitcoinSync and the keychain it marks addresses in, for  *)
(* any transactions on any indices, any batch sizes and any bounds.        *)
(***************************************************************************)
EXTENDS BitcoinSync, FiniteSetTheorems, SequenceTheorems, TLAPS

-----------------------------------------------------------------------------
(* Numbers.                                                                *)

\* A set of numbers that is not empty has a least one, and so a set with 0 that
\* is closed under successors has all numbers.
LEMMA LeastNumber ==
    ASSUME NEW T, T \subseteq Nat, T # {}
    PROVE  \E x \in T : \A y \in T : x <= y
<1> DEFINE R == OpToRel(<, Nat)
<1>1. IsWellFoundedOn(R, Nat)
  BY NatLessThanWellFounded
<1>2. \A x, y \in Nat : x < y => <<x, y>> \in R
  BY DEF OpToRel
<1> HIDE DEF R
<1>3. PICK x \in T : \A y \in T : <<y, x>> \notin R
  BY <1>1, WFMin
<1>4. \A y \in T : y \in Nat /\ x \in Nat /\ ~ (y < x)
  BY <1>2, <1>3
<1> QED BY <1>4

LEMMA Induction ==
    ASSUME NEW S, 0 \in S, \A n \in Nat : n \in S => n + 1 \in S
    PROVE  Nat \subseteq S
<1> SUFFICES ASSUME Nat \ S # {} PROVE FALSE
  OBVIOUS
<1>1. PICK x \in Nat \ S : \A y \in Nat \ S : x <= y
  BY LeastNumber
<1> QED BY <1>1

-----------------------------------------------------------------------------
\* The state of a keychain, as it is kept.
WellFormed(k) ==
    /\ k \in [next : Nat, apart : SUBSET Nat]
    /\ IsFiniteSet(k.apart)
    /\ \A i \in k.apart : k.next < i

\* The first index that is not used is found, since only finitely many are apart.
LEMMA FirstUnusedIs ==
    ASSUME NEW k, k.next \in Nat, k.apart \subseteq Nat, IsFiniteSet(k.apart)
    PROVE  /\ FirstUnused(k) \in Nat
           /\ k.next <= FirstUnused(k)
           /\ FirstUnused(k) \notin k.apart
           /\ k.next..(FirstUnused(k) - 1) \subseteq k.apart
<1> DEFINE n == k.next
           A == k.apart
           free == {i \in Nat : n <= i /\ i \notin A}
           bound == Cardinality(A)
<1>1. bound \in Nat
  BY FS_CardinalityType
<1>2. ASSUME NEW m \in Nat, n <= m, n..(m - 1) \subseteq A
      PROVE  m <= n + bound
  <2>1. IsFiniteSet(n..(m - 1))
        /\ Cardinality(n..(m - 1)) = IF n > m - 1 THEN 0 ELSE (m - 1) - n + 1
    <3>1. n \in Int /\ m - 1 \in Int
      OBVIOUS
    <3> HIDE DEF n
    <3> QED BY <3>1, FS_Interval, Zenon
  <2>2. Cardinality(n..(m - 1)) <= bound
    BY <1>2, FS_Subset
  <2> QED BY <1>1, <2>1, <2>2
<1>3. free # {}
  <2> SUFFICES ASSUME free = {} PROVE FALSE
    OBVIOUS
  <2>1. n..(n + bound + 1 - 1) \subseteq A
    BY <1>1
  <2>2. n + bound + 1 \in Nat /\ n <= n + bound + 1 /\ ~(n + bound + 1 <= n + bound)
    BY <1>1
  <2> QED BY <1>2, <2>1, <2>2
<1>4. PICK f \in free : \A i \in free : f <= i
  BY <1>3, LeastNumber
<1>5. n..(f - 1) \subseteq A
  BY <1>4
<1>6. f \in n..(n + bound)
  BY <1>1, <1>2, <1>4, <1>5
<1>7. \E i \in n..(n + bound) : i \notin A /\ n..(i - 1) \subseteq A
  BY <1>4, <1>5, <1>6
<1> HIDE DEF free
<1>8. /\ FirstUnused(k) \in n..(n + bound)
      /\ FirstUnused(k) \notin A /\ n..(FirstUnused(k) - 1) \subseteq A
  BY <1>7 DEF FirstUnused
<1> QED BY <1>1, <1>8

\* Saving counts what has become consecutive, and loses nothing.
LEMMA SaveStateKeeps ==
    ASSUME NEW k, k \in [next : Nat, apart : SUBSET Nat], IsFiniteSet(k.apart),
           \A i \in k.apart : k.next <= i
    PROVE  WellFormed(SaveState(k)) /\ UsedIndices(SaveState(k)) = UsedIndices(k)
<1> DEFINE f == FirstUnused(k)
           A == k.apart \ (k.next..(f - 1))
<1>1. /\ k.next \in Nat /\ k.apart \subseteq Nat
      /\ f \in Nat /\ k.next <= f /\ f \notin k.apart
      /\ k.next..(f - 1) \subseteq k.apart
  BY FirstUnusedIs
<1>2. SaveState(k) = [next |-> f, apart |-> A]
  BY DEF SaveState
<1> HIDE DEF f
<1>3. IsFiniteSet(A)
  BY FS_Subset
<1>4. \A i \in A : i \in Nat /\ f < i
  BY <1>1
<1>5. 0..(f - 1) \cup A = 0..(k.next - 1) \cup k.apart
  BY <1>1
<1> QED BY <1>1, <1>2, <1>3, <1>4, <1>5 DEF WellFormed, UsedIndices

\* Marking an address adds its index to those used, and no other.
LEMMA MarkAsUsedAdds ==
    ASSUME NEW k, WellFormed(k), NEW i \in Nat
    PROVE  /\ WellFormed(MarkAsUsed(k, i))
           /\ UsedIndices(MarkAsUsed(k, i)) = UsedIndices(k) \cup {i}
<1> USE DEF WellFormed
<1>1. CASE i < k.next \/ i \in k.apart
  BY <1>1 DEF MarkAsUsed, UsedIndices
<1>2. CASE i = k.next
  <2> DEFINE m == [k EXCEPT !.next = i + 1]
  <2>1. /\ m \in [next : Nat, apart : SUBSET Nat]
        /\ m.apart = k.apart /\ m.next = k.next + 1
        /\ \A j \in m.apart : m.next <= j
    BY <1>2
  <2>2. MarkAsUsed(k, i) = SaveState(m)
    BY <1>2 DEF MarkAsUsed
  <2>3. UsedIndices(m) = UsedIndices(k) \cup {i}
    BY <1>2, <2>1 DEF UsedIndices
  <2> HIDE DEF m
  <2> QED BY <2>1, <2>2, <2>3, SaveStateKeeps
<1>3. CASE k.next < i /\ i \notin k.apart
  <2> DEFINE m == [k EXCEPT !.apart = @ \cup {i}]
  <2>1. /\ m \in [next : Nat, apart : SUBSET Nat]
        /\ m.apart = k.apart \cup {i} /\ m.next = k.next
        /\ \A j \in m.apart : m.next <= j
    BY <1>3
  <2>2. IsFiniteSet(m.apart)
    BY <2>1, FS_AddElement
  <2>3. MarkAsUsed(k, i) = SaveState(m)
    BY <1>3 DEF MarkAsUsed
  <2>4. UsedIndices(m) = UsedIndices(k) \cup {i}
    BY <2>1 DEF UsedIndices
  <2> HIDE DEF m
  <2> QED BY <2>1, <2>2, <2>3, <2>4, SaveStateKeeps
<1> QED BY <1>1, <1>2, <1>3

\* So does marking several.
LEMMA MarkAllAdds ==
    ASSUME NEW k, WellFormed(k), NEW S, S \subseteq Nat, IsFiniteSet(S)
    PROVE  /\ WellFormed(MarkAllAsUsed(k, S))
           /\ UsedIndices(MarkAllAsUsed(k, S)) = UsedIndices(k) \cup S
<1> DEFINE one(s) == CHOOSE x \in s : TRUE
           step(g, s) == IF s = {} THEN k ELSE MarkAsUsed(g[s \ {one(s)}], one(s))
           Small(n) == {s \in SUBSET S : Cardinality(s) <= n}
           Follows(g, n) == \A s \in Small(n) : g[s] = step(g, s)
           iter == CHOOSE g : g = [s \in SUBSET S |-> step(g, s)]
<1>1. MarkAllAsUsed(k, S) = iter[S]
  BY DEF MarkAllAsUsed, FoldSet, MapThenFoldSet
<1>2. ASSUME NEW s \in SUBSET S
      PROVE  IsFiniteSet(s) /\ Cardinality(s) \in Nat
  BY FS_Subset, FS_CardinalityType
<1>3. ASSUME NEW s \in SUBSET S, s # {}
      PROVE  /\ one(s) \in s
             /\ s \ {one(s)} \in SUBSET S
             /\ Cardinality(s \ {one(s)}) = Cardinality(s) - 1
  <2>1. one(s) \in s
    BY <1>3
  <2> HIDE DEF one
  <2> QED BY <1>2, <2>1, FS_RemoveElement
<1>4. ASSUME NEW s \in SUBSET S, Cardinality(s) = 0
      PROVE  s = {}
  BY <1>2, <1>4, FS_EmptySet
<1>5. Cardinality(S) \in Nat /\ \A s \in SUBSET S : s \in Small(Cardinality(S))
  BY FS_Subset, FS_CardinalityType
<1> HIDE DEF one
\* Up to any size of the subsets the recursion has a solution, and so for all.
<1>6. \E g : g = [s \in SUBSET S |-> step(g, s)]
  <2> DEFINE solved == {n \in Nat : \E g : Follows(g, n)}
  <2>1. 0 \in solved
    <3>1. Follows([s \in SUBSET S |-> k], 0)
      <4> SUFFICES ASSUME NEW s \in Small(0)
                   PROVE  [r \in SUBSET S |-> k][s] = step([r \in SUBSET S |-> k], s)
        OBVIOUS
      <4>1. s = {}
        BY <1>2, <1>4
      <4> QED BY <4>1
    <3> QED BY <3>1
  <2>2. ASSUME NEW n \in Nat, n \in solved PROVE n + 1 \in solved
    <3>1. PICK g : Follows(g, n)
      BY <2>2
    <3> DEFINE h == [s \in SUBSET S |-> IF s \in Small(n) THEN g[s] ELSE step(g, s)]
    <3>2. ASSUME NEW s \in Small(n + 1), s # {}
          PROVE  s \ {one(s)} \in Small(n)
      BY <1>2, <1>3, <3>2
    <3>3. \A s \in Small(n) : h[s] = g[s]
      OBVIOUS
    <3>4. \A s \in Small(n + 1) : h[s] = step(g, s)
      BY <3>1
    <3> HIDE DEF h
    <3>5. ASSUME NEW s \in Small(n + 1) PROVE h[s] = step(h, s)
      <4>1. CASE s = {}
        BY <3>4, <4>1
      <4>2. CASE s # {}
        <5>1. h[s \ {one(s)}] = g[s \ {one(s)}]
          BY <3>2, <3>3, <4>2
        <5> QED BY <3>4, <5>1
      <4> QED BY <4>1, <4>2
    <3>6. Follows(h, n + 1)
      BY <3>5
    <3> HIDE DEF Follows
    <3> QED BY <3>6
  <2> HIDE DEF solved
  <2>3. Nat \subseteq solved
    BY <2>1, <2>2, Induction
  <2>4. PICK g : Follows(g, Cardinality(S))
    BY <1>5, <2>3 DEF solved
  <2> DEFINE h == [s \in SUBSET S |-> g[s]]
  <2>5. ASSUME NEW s \in SUBSET S PROVE h[s] = step(h, s)
    <3>1. g[s] = step(g, s)
      BY <1>5, <2>4
    <3>2. s # {} => h[s \ {one(s)}] = g[s \ {one(s)}]
      OBVIOUS
    <3> QED BY <3>1, <3>2
  <2>6. h = [s \in SUBSET S |-> step(h, s)]
    BY <2>5
  <2> HIDE DEF h
  <2> QED BY <2>6
<1>7. iter = [s \in SUBSET S |-> step(iter, s)]
  BY <1>6
<1> HIDE DEF iter
<1>8. \A s \in SUBSET S : iter[s] = step(iter, s)
  BY <1>7
<1> DEFINE Good(s) == /\ WellFormed(iter[s])
                      /\ UsedIndices(iter[s]) = UsedIndices(k) \cup s
           good == {n \in Nat : \A s \in Small(n) : Good(s)}
<1>9. 0 \in good
  <2>1. ASSUME NEW s \in Small(0) PROVE Good(s)
    <3>1. s = {}
      BY <1>2, <1>4
    <3> QED BY <1>8, <3>1
  <2> HIDE DEF Good
  <2> QED BY <2>1
<1>10. ASSUME NEW n \in Nat, n \in good PROVE n + 1 \in good
  <2>1. ASSUME NEW s \in Small(n + 1) PROVE Good(s)
    <3>1. CASE s = {}
      BY <1>8, <3>1
    <3>2. CASE s # {}
      <4> DEFINE r == s \ {one(s)}  i == one(s)
      <4>0. s \in SUBSET S /\ Cardinality(s) <= n + 1 /\ Cardinality(s) \in Nat
        BY <1>2
      <4>5. one(s) \in s /\ Cardinality(r) = Cardinality(s) - 1 /\ r \in SUBSET S
        BY <1>3, <3>2, <4>0
      <4>6. Cardinality(r) <= n
        BY <4>0, <4>5
      <4>1. i \in s /\ r \in Small(n) /\ i \in Nat /\ s = r \cup {i}
        BY <4>5, <4>6
      <4>2. Good(r)
        BY <1>10, <4>1
      <4>3. iter[s] = MarkAsUsed(iter[r], i)
        BY <1>8, <3>2
      <4> HIDE DEF r, i
      <4> QED BY <4>1, <4>2, <4>3, MarkAsUsedAdds
    <3> QED BY <3>1, <3>2
  <2> HIDE DEF Good
  <2> QED BY <2>1
<1> HIDE DEF good
<1>11. Cardinality(S) \in good
  BY <1>5, <1>9, <1>10, Induction
<1>12. Good(S)
  BY <1>5, <1>11 DEF good
<1> QED BY <1>1, <1>12

-----------------------------------------------------------------------------
(* Types.                                                                  *)

LEMMA Division ==
    ASSUME NEW n \in Nat, NEW h \in Nat \ {0}
    PROVE  /\ (n * h) \div h = n /\ (n * h) % h = 0
           /\ \A a \in Nat : a * h < n * h => a < n
           /\ n \div h \in Nat
<1>1. (n * h) \div h = n /\ (n * h) % h = 0
  OBVIOUS
<1>2. ASSUME NEW a \in Nat, a * h < n * h PROVE a < n
  BY <1>2
<1>3. n \div h \in Nat
  OBVIOUS
<1> QED BY <1>1, <1>2, <1>3

RowSets == UNION {[D -> BlockRefs] : D \in SUBSET Txs}
States == [half : Halves \cup {0}, batches : Seq(BlockRefs)]
PageSet == [rows : RowSets, more : BOOLEAN]
Caches == UNION {[D -> PageSet] : D \in SUBSET (Nat \X BlockRefs)}
Jobs ==
    [pc : Stages, state : States, reach : Nat, probe : Nat, cache : Caches,
     asked : SUBSET Nat, at : Nat, done : BOOLEAN, had : BOOLEAN,
     held : SUBSET Txs, began : BlockRefs, broken : BOOLEAN]
Keychains == {k \in [next : Nat, apart : SUBSET Nat] : WellFormed(k)}
SentSets == UNION {[D -> {NotRead} \cup Keychains] : D \in SUBSET Txs}

ExplorerTyped ==
    /\ index \in Indexings
    /\ chain \in Seq(0..MaxReorgs) /\ Len(chain) \in 1..MaxHeight
    /\ mined \in [Txs -> BlockRefs] /\ mempool \subseteq Txs
    /\ reorgs \in 0..MaxReorgs
TableTyped == blocks \subseteq BlockRefs \ {NoBlock} /\ rows \in RowSets

\* A job derives whole batches of the size that is configured.
JobTyped ==
    /\ saved \in States /\ half \in Halves
    /\ job \in Jobs
    /\ job.pc = "idle" => job = NoJob
    /\ job.pc # "idle" => job.state.half = half
    /\ \E n \in Nat : job.reach = n * half

KeysTyped == keychain \in Keychains /\ sent \in SentSets
HistoryTyped == raced \in BOOLEAN /\ spoiled \in BOOLEAN /\ strayed \in BOOLEAN
Typed == ExplorerTyped /\ TableTyped /\ JobTyped /\ KeysTyped /\ HistoryTyped

-----------------------------------------------------------------------------
(* The helpers keep the types.                                             *)

LEMMA BlockRefsAre ==
    /\ NoBlock \in BlockRefs
    /\ \A b \in BlockRefs :
        b = <<b[1], b[2]>> /\ b[1] \in 0..MaxHeight /\ b[2] \in 0..MaxReorgs
    /\ \A b \in BlockRefs : b[1] = 0 => b = NoBlock
    /\ \A h \in 1..MaxHeight, f \in 0..MaxReorgs : <<h, f>> \in BlockRefs
BY BoundsAssumption DEF BlockRefs, NoBlock

LEMMA HalvesAre == \A h \in Halves : h \in Nat \ {0}
BY HalvesAssumption

LEMMA OverIs ==
    ASSUME NEW f, NEW g
    PROVE  /\ DOMAIN Over(f, g) = DOMAIN f \cup DOMAIN g
           /\ \A t \in DOMAIN f : Over(f, g)[t] = f[t]
           /\ \A t \in DOMAIN g \ DOMAIN f : Over(f, g)[t] = g[t]
BY DEF Over

LEMMA OverRows ==
    ASSUME NEW f \in RowSets, NEW g \in RowSets
    PROVE  Over(f, g) \in RowSets
<1>1. DOMAIN f \in SUBSET Txs /\ \A t \in DOMAIN f : f[t] \in BlockRefs
  BY DEF RowSets
<1>2. DOMAIN g \in SUBSET Txs /\ \A t \in DOMAIN g : g[t] \in BlockRefs
  BY DEF RowSets
<1>3. Over(f, g) \in [DOMAIN f \cup DOMAIN g -> BlockRefs]
  BY <1>1, <1>2 DEF Over
<1> QED BY <1>1, <1>2, <1>3 DEF RowSets

LEMMA WithIs ==
    ASSUME NEW f, NEW k, NEW v
    PROVE  /\ DOMAIN With(f, k, v) = DOMAIN f \cup {k}
           /\ With(f, k, v)[k] = v
           /\ \A x \in DOMAIN f \ {k} : With(f, k, v)[x] = f[x]
           /\ With(f, k, v) = [x \in DOMAIN f \cup {k} |-> IF x = k THEN v ELSE f[x]]
BY DEF With, Over

LEMMA WithCache ==
    ASSUME NEW f \in Caches, NEW k \in Nat \X BlockRefs, NEW v \in PageSet
    PROVE  With(f, k, v) \in Caches
<1>1. DOMAIN f \in SUBSET (Nat \X BlockRefs) /\ \A x \in DOMAIN f : f[x] \in PageSet
  BY DEF Caches
<1>2. With(f, k, v) \in [DOMAIN f \cup {k} -> PageSet]
  BY <1>1 DEF With, Over
<1> QED BY <1>1, <1>2 DEF Caches

LEMMA WithSent ==
    ASSUME NEW f \in SentSets, NEW t \in Txs, NEW v \in {NotRead} \cup Keychains
    PROVE  With(f, t, v) \in SentSets
<1>1. DOMAIN f \in SUBSET Txs /\ \A x \in DOMAIN f : f[x] \in {NotRead} \cup Keychains
  BY DEF SentSets
<1>2. With(f, t, v) \in [DOMAIN f \cup {t} -> {NotRead} \cup Keychains]
  BY <1>1 DEF With, Over
<1> QED BY <1>1, <1>2 DEF SentSets

LEMMA WithoutIs ==
    ASSUME NEW f, NEW S
    PROVE  /\ DOMAIN Without(f, S) = DOMAIN f \ S
           /\ \A t \in DOMAIN f \ S : Without(f, S)[t] = f[t]
BY DEF Without

LEMMA WithoutRows ==
    ASSUME NEW f \in RowSets, NEW S
    PROVE  Without(f, S) \in RowSets
<1>1. DOMAIN f \in SUBSET Txs /\ \A x \in DOMAIN f : f[x] \in BlockRefs
  BY DEF RowSets
<1>2. Without(f, S) \in [DOMAIN f \ S -> BlockRefs]
  BY <1>1 DEF Without
<1> QED BY <1>1, <1>2 DEF RowSets

LEMMA WithoutSent ==
    ASSUME NEW f \in SentSets, NEW S
    PROVE  Without(f, S) \in SentSets
<1>1. DOMAIN f \in SUBSET Txs /\ \A x \in DOMAIN f : f[x] \in {NotRead} \cup Keychains
  BY DEF SentSets
<1>2. Without(f, S) \in [DOMAIN f \ S -> {NotRead} \cup Keychains]
  BY <1>1 DEF Without
<1> QED BY <1>1, <1>2 DEF SentSets

LEMMA RewindIs ==
    ASSUME NEW s \in Seq(BlockRefs), NEW height, NEW block \in BlockRefs
    PROVE  /\ Rewind(s, height, block) \in Seq(BlockRefs)
           /\ DOMAIN Rewind(s, height, block) = DOMAIN s
           /\ \A i \in DOMAIN s : Rewind(s, height, block)[i] \in {s[i], block}
BY DEF Rewind

LEMMA RewindAllIs ==
    ASSUME NEW s \in Seq(BlockRefs), NEW block \in BlockRefs
    PROVE  /\ RewindAll(s, block) \in Seq(BlockRefs)
           /\ DOMAIN RewindAll(s, block) = DOMAIN s
           /\ \A i \in DOMAIN s :
                RewindAll(s, block)[i] = IF s[i][1] > block[1] THEN block ELSE s[i]
BY DEF RewindAll

\* There is a lowest batch, the first of those at its height.
LEMMA LowestIs ==
    ASSUME NEW s \in Seq(BlockRefs), s # <<>>
    PROVE  \E i \in DOMAIN s :
            \A k \in DOMAIN s : s[i][1] <= s[k][1] /\ (k < i => s[i][1] < s[k][1])
<1> DEFINE heights == {s[i][1] : i \in DOMAIN s}
<1>1. /\ DOMAIN s \subseteq Nat /\ 1 \in DOMAIN s
      /\ \A i \in DOMAIN s : s[i] \in BlockRefs
  OBVIOUS
<1>2. heights \subseteq Nat /\ heights # {}
  BY <1>1, BlockRefsAre, BoundsAssumption
<1>3. PICK h \in heights : \A g \in heights : h <= g
  BY <1>2, LeastNumber
<1> DEFINE lowest == {i \in DOMAIN s : s[i][1] = h}
<1>4. lowest \subseteq Nat /\ lowest # {}
  BY <1>1, <1>3
<1>5. PICK i \in lowest : \A k \in lowest : i <= k
  BY <1>4, LeastNumber
<1>6. ASSUME NEW k \in DOMAIN s
      PROVE  s[i][1] <= s[k][1] /\ (k < i => s[i][1] < s[k][1])
  <2>1. s[k][1] \in heights /\ s[k][1] \in Nat /\ h \in Nat
    BY <1>2
  <2>2. h <= s[k][1] /\ s[i][1] = h
    BY <2>1, <1>3, <1>5
  <2>3. k < i => k \notin lowest
    BY <1>1, <1>4, <1>5
  <2> QED BY <2>1, <2>2, <2>3
<1> QED BY <1>5, <1>6

\* A state of the size that is configured, whose batches start where they did or
\* at the lowest block of them all.
LEMMA InitializeIs ==
    ASSUME half \in Halves, NEW s \in States
    PROVE  /\ InitializeSavedState(s) \in States
           /\ InitializeSavedState(s).half = half
           /\ s.half = half => InitializeSavedState(s) = s
           /\ s.half # half =>
                \A i \in DOMAIN InitializeSavedState(s).batches :
                    /\ s.batches # <<>>
                    /\ \E k \in DOMAIN s.batches :
                        InitializeSavedState(s).batches[i] = s.batches[k]
                    /\ \A k \in DOMAIN s.batches :
                        InitializeSavedState(s).batches[i][1] <= s.batches[k][1]
<1> DEFINE Lowest == CHOOSE i \in DOMAIN s.batches :
                        \A k \in DOMAIN s.batches :
                            /\ s.batches[i][1] <= s.batches[k][1]
                            /\ k < i => s.batches[i][1] < s.batches[k][1]
           count == (Len(s.batches) * s.half) \div half
           size == IF count = 0 THEN 1 ELSE count + 2
<1>1. s.batches \in Seq(BlockRefs) /\ half \in Nat \ {0} /\ s.half \in Nat
  BY HalvesAre DEF States
<1>2. count \in Nat /\ size \in Nat
  <2>1. Len(s.batches) * s.half \in Nat
    BY <1>1
  <2> QED BY <1>1, <2>1, Division
<1>3. s.batches # <<>> =>
        /\ Lowest \in DOMAIN s.batches
        /\ \A k \in DOMAIN s.batches : s.batches[Lowest][1] <= s.batches[k][1]
  BY <1>1, LowestIs, Zenon
<1> HIDE DEF Lowest
<1> DEFINE many == [i \in 1..size |-> s.batches[Lowest]]
<1>4. s.batches # <<>> => s.batches[Lowest] \in BlockRefs
  BY <1>1, <1>3
<1>5. s.batches # <<>> => many \in Seq(BlockRefs) /\ DOMAIN many = 1..size
  BY <1>2, <1>4
<1>6. CASE s.half = half
  BY <1>6 DEF InitializeSavedState
<1>7. CASE s.half # half /\ s.batches = <<>>
  <2>1. InitializeSavedState(s) = [half |-> half, batches |-> <<>>]
    BY <1>7 DEF InitializeSavedState
  <2> QED BY <1>7, <2>1 DEF States
<1>8. CASE s.half # half /\ s.batches # <<>>
  <2>1. InitializeSavedState(s) = [half |-> half, batches |-> many]
    BY <1>8 DEF InitializeSavedState, Lowest
  <2>2. \A i \in DOMAIN many : many[i] = s.batches[Lowest]
    BY <1>2
  <2> HIDE DEF many, count
  <2> QED BY <1>3, <1>4, <1>5, <1>8, <2>1, <2>2 DEF States
<1> QED BY <1>6, <1>7, <1>8

\* The last of some blocks is one of them, and none is above it.
LEMMA LastBlockIs ==
    ASSUME NEW S \in SUBSET BlockRefs, NEW b \in LastBlock(S)
    PROVE  /\ b \in S \cup {NoBlock} /\ b \in BlockRefs
           /\ \A c \in S : c[1] <= b[1]
BY BlockRefsAre DEF LastBlock, Top

LEMMA EnterBatchIs ==
    ASSUME NEW b \in Jobs, NEW j \in Nat
    PROVE  LET e == EnterBatch(b, j) IN
           /\ e \in Jobs /\ e.pc = "batch" /\ e.at = j
           /\ e.state.half = b.state.half
           /\ e.state.batches = IF j >= Len(b.state.batches)
                                THEN Append(b.state.batches, NoBlock)
                                ELSE b.state.batches
           /\ e.reach = b.reach /\ e.cache = b.cache /\ e.held = b.held
           /\ e.began = b.began /\ e.asked = b.asked
<1> DEFINE more == IF j >= Len(b.state.batches) THEN Append(b.state.batches, NoBlock)
                   ELSE b.state.batches
           last == b.state.batches # <<>> /\ j >= Len(b.state.batches) - 1
<1>1. EnterBatch(b, j) = [b EXCEPT !.pc = "batch", !.at = j, !.had = FALSE,
                                   !.done = last, !.state.batches = more]
  BY DEF EnterBatch, Jobs, States
<1>2. b.state \in States /\ b.state.batches \in Seq(BlockRefs)
  BY DEF Jobs, States
<1>3. more \in Seq(BlockRefs) /\ last \in BOOLEAN
  BY <1>2, BlockRefsAre
<1>4. [b.state EXCEPT !.batches = more] \in States
  BY <1>2, <1>3 DEF States
<1> HIDE DEF more, last
<1>5. EnterBatch(b, j) \in Jobs
  <2>1. PICK s \in States : s = [b.state EXCEPT !.batches = more]
    BY <1>4
  <2>2. EnterBatch(b, j) = [b EXCEPT !.pc = "batch", !.at = j, !.had = FALSE,
                                     !.done = last, !.state = s]
    BY <1>1, <2>1 DEF Jobs
  <2>3. "batch" \in Stages
    BY DEF Stages
  <2>4. [b EXCEPT !.pc = "batch", !.at = j] \in Jobs
    BY <2>3 DEF Jobs
  <2>5. [b EXCEPT !.pc = "batch", !.at = j, !.had = FALSE, !.done = last] \in Jobs
    BY <1>3, <2>4 DEF Jobs
  <2> QED BY <2>2, <2>5 DEF Jobs
<1>6. /\ EnterBatch(b, j).state = [b.state EXCEPT !.batches = more]
      /\ EnterBatch(b, j).pc = "batch" /\ EnterBatch(b, j).at = j
      /\ EnterBatch(b, j).reach = b.reach /\ EnterBatch(b, j).cache = b.cache
      /\ EnterBatch(b, j).held = b.held /\ EnterBatch(b, j).began = b.began
      /\ EnterBatch(b, j).asked = b.asked
  BY <1>1 DEF Jobs
<1>7. /\ EnterBatch(b, j).state.half = b.state.half
      /\ EnterBatch(b, j).state.batches = more
  BY <1>2, <1>6 DEF States
<1> QED BY <1>5, <1>6, <1>7 DEF more

LEMMA AwaitIs ==
    ASSUME NEW b \in Jobs
    PROVE  \/ AwaitAnswers(b) = EnterBatch(b, 0) /\ b.asked = {}
           \/ /\ b.asked # {} /\ AwaitAnswers(b) \in Jobs
              /\ AwaitAnswers(b) = [b EXCEPT !.pc = "ask"]
BY DEF AwaitAnswers, Jobs, Stages

\* A page has transactions of the listing, as they are there.
LEMMA AnswersAre ==
    ASSUME ExplorerTyped, NEW j, NEW from, NEW page \in Answers(j, from)
    PROVE  /\ page \in PageSet
           /\ DOMAIN page.rows \subseteq DOMAIN Listed(j, from)
           /\ \A t \in DOMAIN page.rows : page.rows[t] = mined[t]
           /\ \A t \in DOMAIN page.rows, u \in DOMAIN Listed(j, from) \ DOMAIN page.rows :
                Position(mined[t]) <= Position(mined[u])
<1> DEFINE list == Listed(j, from)
<1>1. DOMAIN list \subseteq Txs /\ \A t \in DOMAIN list : list[t] = mined[t]
  BY DEF Listed
<1>2. \A t \in Txs : mined[t] \in BlockRefs
  BY DEF ExplorerTyped
<1>3. PICK S \in SUBSET DOMAIN list :
        /\ page.rows = [t \in S |-> list[t]] /\ page.more \in BOOLEAN
        /\ page = [rows |-> page.rows, more |-> page.more]
        /\ \/ S = DOMAIN list
           \/ \A t \in S, u \in DOMAIN list \ S :
                    Position(list[t]) <= Position(list[u])
  <2> HIDE DEF list
  <2>1. CASE page = [rows |-> list, more |-> FALSE]
    <3>1. list = [t \in DOMAIN list |-> list[t]]
      BY DEF list, Listed
    <3> QED BY <2>1, <3>1
  <2>2. CASE page \in {[rows |-> [t \in S |-> list[t]], more |-> TRUE] :
                        S \in {U \in SUBSET DOMAIN list :
                            /\ U # DOMAIN list
                            /\ \A t \in U, u \in DOMAIN list \ U :
                                Position(list[t]) <= Position(list[u])
                            /\ \E t, u \in U : list[t] = NoBlock \/ list[t] # list[u]}}
    <3>1. PICK S \in SUBSET DOMAIN list :
            /\ page = [rows |-> [t \in S |-> list[t]], more |-> TRUE]
            /\ \A t \in S, u \in DOMAIN list \ S :
                Position(list[t]) <= Position(list[u])
      BY <2>2
    <3>2. page.rows = [t \in S |-> list[t]] /\ page.more = TRUE
      BY <3>1
    <3> QED BY <3>1, <3>2
  <2> QED BY <2>1, <2>2 DEF Answers, list
<1> HIDE DEF list
<1>4. page.rows \in [S -> BlockRefs] /\ S \in SUBSET Txs
  BY <1>1, <1>2, <1>3
<1>5. page.rows \in RowSets
  BY <1>4 DEF RowSets
<1>6. page \in PageSet
  BY <1>3, <1>5 DEF PageSet
<1> QED BY <1>1, <1>3, <1>6 DEF list

LEMMA PagesAre ==
    ASSUME Typed, NEW page \in Pages
    PROVE  page \in PageSet
<1>1. CASE IsCached
  BY <1>1 DEF Pages, IsCached, Typed, JobTyped, Jobs, Caches
<1>2. CASE ~IsCached
  BY <1>2, AnswersAre DEF Pages, Typed
<1> QED BY <1>1, <1>2

LEMMA BlockOfIs ==
    ASSUME NEW s \in States, NEW j \in Nat
    PROVE  /\ BlockOf(s, j) \in BlockRefs
           /\ Key(s, j) \in Nat \X BlockRefs
           /\ j + 1 \in DOMAIN s.batches => BlockOf(s, j) = s.batches[j + 1]
           /\ j + 1 \notin DOMAIN s.batches => BlockOf(s, j) = NoBlock
BY BlockRefsAre DEF BlockOf, Key, States

LEMMA NoJobIs == NoJob \in Jobs /\ NoJob.pc = "idle" /\ NoJob.reach = 0
<1>1. <<>> \in Seq(BlockRefs) /\ NoState \in States
  BY DEF NoState, States
<1>2. [k \in {} |-> NoRows] \in Caches
  <2>1. [k \in {} |-> NoRows] \in [{} -> PageSet]
    OBVIOUS
  <2> QED BY <2>1 DEF Caches
<1> QED BY <1>1, <1>2, BlockRefsAre DEF NoJob, Jobs, Stages
-----------------------------------------------------------------------------
(* Every step keeps the types.                                             *)

LEMMA InsertTyped ==
    ASSUME TableTyped, NEW ops \in RowSets, BulkInsert(ops)
    PROVE  TableTyped'
<1>1. rows' \in RowSets
  BY OverRows DEF BulkInsert, TableTyped
<1>2. \A t \in DOMAIN ops : ops[t] \in BlockRefs
  BY DEF RowSets
<1>3. blocks' \subseteq BlockRefs \ {NoBlock}
  BY <1>2 DEF BulkInsert, TableTyped
<1> QED BY <1>1, <1>3 DEF TableTyped

LEMMA DeleteTyped ==
    ASSUME TableTyped, NEW S, DeleteBlocks(S)
    PROVE  TableTyped'
BY WithoutRows DEF TableTyped, DeleteBlocks

LEMMA OpsTyped ==
    ASSUME NEW page \in PageSet
    PROVE  /\ [t \in InBlock(page) |-> page.rows[t]] \in RowSets
           /\ DOMAIN page.rows \subseteq Txs
           /\ \A t \in DOMAIN page.rows : page.rows[t] \in BlockRefs
<1>1. DOMAIN page.rows \in SUBSET Txs
      /\ \A t \in DOMAIN page.rows : page.rows[t] \in BlockRefs
  BY DEF PageSet, RowSets
<1>2. [t \in InBlock(page) |-> page.rows[t]] \in [InBlock(page) -> BlockRefs]
  BY <1>1 DEF InBlock
<1> QED BY <1>1, <1>2 DEF RowSets, InBlock

LEMMA NoBlockTyped ==
    ASSUME NEW S \in SUBSET Txs
    PROVE  [t \in S |-> NoBlock] \in RowSets
<1>1. [t \in S |-> NoBlock] \in [S -> BlockRefs]
  BY BlockRefsAre
<1> QED BY <1>1 DEF RowSets

\* The addresses of some transactions are marked.
LEMMA MarkTyped ==
    ASSUME index \in Indexings, NEW k \in Keychains, NEW S \in SUBSET Txs
    PROVE  LET m == MarkAllAsUsed(k, {index[t] : t \in S}) IN
           /\ m \in Keychains
           /\ UsedIndices(m) = UsedIndices(k) \cup {index[t] : t \in S}
<1>1. index \in [Txs -> Nat]
  BY IndexingsAssumption
<1>2. {index[t] : t \in S} \subseteq Nat
  BY <1>1
<1>3. IsFiniteSet({index[t] : t \in S})
  <2>1. IsFiniteSet(S)
    BY TxsAssumption, FS_Subset
  <2>2. [t \in S |-> index[t]] \in Surjection(S, {index[t] : t \in S})
    BY DEF Surjection
  <2> QED BY <2>1, <2>2, FS_Surjection
<1>4. WellFormed(k)
  BY DEF Keychains
<1> QED BY <1>2, <1>3, <1>4, MarkAllAdds DEF Keychains, WellFormed

LEMMA NewKeychainTyped == NewKeychain \in Keychains /\ NewKeychain # NotRead
<1>1. NewKeychain.next = 0 /\ NewKeychain.apart = {}
  BY DEF NewKeychain
<1> QED BY <1>1, FS_EmptySet DEF NewKeychain, Keychains, WellFormed, NotRead

\* A job that goes on.
LEMMA JobGoesOn ==
    ASSUME JobTyped, half' = half, saved' \in States, job' \in Jobs,
           job'.pc # "idle", job'.state.half = half, job'.reach = job.reach
    PROVE  JobTyped'
BY DEF JobTyped

\* A job that ends.
LEMMA JobEnds ==
    ASSUME JobTyped, half' \in Halves, saved' \in States, job' = NoJob
    PROVE  JobTyped'
<1>1. 0 = 0 * half' /\ 0 \in Nat
  BY HalvesAre
<1> QED BY <1>1, NoJobIs DEF JobTyped

LEMMA BlocksAfterAre ==
    ASSUME Typed, NEW page \in PageSet, NEW block \in BlocksAfter(page)
    PROVE  block \in BlockRefs
<1>1. job.state \in States /\ job.at \in Nat
  BY DEF Typed, JobTyped, Jobs
<1> QED BY <1>1, OpsTyped, BlockOfIs DEF BlocksAfter, Top, InBlock

LEMMA Untouched ==
    ASSUME Typed
    PROVE  /\ UNCHANGED explorerVars => ExplorerTyped'
           /\ UNCHANGED databaseVars => TableTyped'
           /\ UNCHANGED <<saved, half, job>> => JobTyped'
           /\ UNCHANGED <<keychain, sent>> => KeysTyped'
           /\ UNCHANGED historyVars => HistoryTyped'
BY DEF Typed, ExplorerTyped, TableTyped, JobTyped, KeysTyped, HistoryTyped,
       explorerVars, databaseVars, historyVars

LEMMA InitTyped == Init => Typed
<1> SUFFICES ASSUME Init PROVE Typed
  OBVIOUS
<1>1. ExplorerTyped
  <2>1. <<0>> \in Seq(0..MaxReorgs) /\ Len(<<0>>) = 1
    BY BoundsAssumption
  <2>2. {NoBlock, <<1, 0>>} \subseteq BlockRefs
    BY BlockRefsAre, BoundsAssumption
  <2>3. mined \in [Txs -> BlockRefs]
    BY <2>2 DEF Init
  <2> QED BY <2>1, <2>3, BoundsAssumption DEF Init, ExplorerTyped
<1>2. TableTyped
  <2>1. NoRows \in [{} -> BlockRefs]
    BY DEF NoRows
  <2> QED BY <2>1 DEF Init, TableTyped, RowSets
<1>3. JobTyped
  <2>1. NoState \in States
    BY DEF NoState, States
  <2>2. 0 = 0 * half /\ half \in Halves
    BY HalvesAre DEF Init
  <2> QED BY <2>1, <2>2, NoJobIs DEF Init, JobTyped
<1>4. KeysTyped
  <2>1. [t \in {} |-> NotRead] \in [{} -> {NotRead} \cup Keychains]
    OBVIOUS
  <2> QED BY <2>1, NewKeychainTyped DEF Init, KeysTyped, SentSets
<1> QED BY <1>1, <1>2, <1>3, <1>4 DEF Init, Typed, HistoryTyped

LEMMA ChainTyped ==
    ASSUME Typed, Mine \/ Reorganize
    PROVE  Typed'
<1>0. /\ index \in Indexings /\ chain \in Seq(0..MaxReorgs)
      /\ Len(chain) \in 1..MaxHeight /\ mined \in [Txs -> BlockRefs]
      /\ mempool \subseteq Txs /\ reorgs \in 0..MaxReorgs
      /\ MaxHeight \in Nat /\ MaxReorgs \in Nat
      /\ \A i \in 1..Len(chain) : chain[i] \in 0..MaxReorgs
  BY BoundsAssumption DEF Typed, ExplorerTyped
<1>1. CASE Mine
  <2>1. chain' \in Seq(0..MaxReorgs) /\ Len(chain') = Len(chain) + 1
    BY <1>0, <1>1 DEF Mine
  <2>2. <<Len(chain'), reorgs>> \in BlockRefs
    <3>1. Len(chain') \in 1..MaxHeight
      BY <1>0, <1>1, <2>1 DEF Mine
    <3> QED BY <1>0, <3>1, BlockRefsAre
  <2>3. PICK S \in SUBSET mempool :
          /\ mempool' = mempool \ S
          /\ mined' = Over([t \in S |-> <<Len(chain'), reorgs>>], mined)
    BY <1>1 DEF Mine
  <2>4. mined' \in [Txs -> BlockRefs]
    BY <1>0, <2>2, <2>3 DEF Over
  <2>5. ExplorerTyped'
    <3>1. Len(chain') \in 1..MaxHeight /\ index' = index /\ reorgs' = reorgs
      BY <1>0, <1>1, <2>1 DEF Mine
    <3> QED BY <1>0, <2>1, <2>3, <2>4, <3>1 DEF ExplorerTyped
  <2> QED BY <1>1, <2>5, Untouched DEF Mine, Typed
<1>2. CASE Reorganize
  <2>1. PICK k \in 1..(Len(chain) - 1) :
          LET orphans == {t \in Txs : mined[t][1] > k} IN
          /\ chain' = [h \in 1..Len(chain) |-> IF h <= k THEN chain[h] ELSE reorgs']
          /\ \E S \in SUBSET orphans, h \in (k + 1)..Len(chain) :
              /\ mined' = Over([t \in orphans |->
                                  IF t \in S THEN <<h, reorgs'>> ELSE NoBlock], mined)
              /\ mempool' = mempool \cup (orphans \ S)
    BY <1>2 DEF Reorganize
  <2> DEFINE orphans == {t \in Txs : mined[t][1] > k}
  <2>2. PICK S \in SUBSET orphans, h \in (k + 1)..Len(chain) :
              /\ mined' = Over([t \in orphans |->
                                  IF t \in S THEN <<h, reorgs'>> ELSE NoBlock], mined)
              /\ mempool' = mempool \cup (orphans \ S)
    BY <2>1
  <2>3. reorgs' \in 0..MaxReorgs
    BY <1>0, <1>2 DEF Reorganize
  <2>4. chain' \in Seq(0..MaxReorgs) /\ Len(chain') = Len(chain)
    <3>1. chain' = [i \in 1..Len(chain) |-> IF i <= k THEN chain[i] ELSE reorgs']
      BY <2>1
    <3>2. \A i \in 1..Len(chain) :
            (IF i <= k THEN chain[i] ELSE reorgs') \in 0..MaxReorgs
      BY <1>0, <2>3
    <3>3. Len(chain) \in Nat
      BY <1>0
    <3> QED BY <3>1, <3>2, <3>3
  <2>5. <<h, reorgs'>> \in BlockRefs /\ NoBlock \in BlockRefs
    <3>1. h \in 1..MaxHeight
      BY <1>0
    <3> QED BY <2>3, <3>1, BlockRefsAre
  <2>6. orphans \subseteq Txs
    OBVIOUS
  <2> HIDE DEF orphans
  <2>7. mined' \in [Txs -> BlockRefs]
    BY <1>0, <2>2, <2>5, <2>6 DEF Over
  <2>8. ExplorerTyped'
    BY <1>0, <1>2, <2>2, <2>3, <2>4, <2>6, <2>7 DEF Reorganize, ExplorerTyped
  <2> QED BY <1>2, <2>8, Untouched DEF Reorganize, Typed
<1> QED BY <1>1, <1>2

LEMMA TransactionsTyped ==
    ASSUME Typed, NEW t \in Txs,
           Appear(t) \/ PushTransaction(t) \/ ReadKeychain(t) \/ OptimisticUpdate(t)
    PROVE  Typed'
<1>1. CASE Appear(t)
  <2>1. ExplorerTyped'
    BY <1>1 DEF Appear, Typed, ExplorerTyped
  <2> QED BY <1>1, <2>1, Untouched DEF Appear, Typed
<1>2. CASE PushTransaction(t)
  <2>1. ExplorerTyped'
    BY <1>2 DEF PushTransaction, Typed, ExplorerTyped
  <2>2. KeysTyped'
    BY <1>2, WithSent DEF PushTransaction, Typed, KeysTyped
  <2> QED BY <1>2, <2>1, <2>2, Untouched DEF PushTransaction, Typed
<1>3. CASE ReadKeychain(t)
  <2>1. sent' \in SentSets
    <3>1. DOMAIN sent \in SUBSET Txs
          /\ \A u \in DOMAIN sent : sent[u] \in {NotRead} \cup Keychains
      BY DEF Typed, KeysTyped, SentSets
    <3>2. sent' \in [DOMAIN sent -> {NotRead} \cup Keychains]
      BY <1>3, <3>1 DEF ReadKeychain, Typed, KeysTyped, SentSets
    <3> QED BY <3>1, <3>2 DEF SentSets
  <2>2. KeysTyped'
    BY <1>3, <2>1 DEF ReadKeychain, Typed, KeysTyped
  <2> QED BY <1>3, <2>2, Untouched DEF ReadKeychain, Typed
<1>4. CASE OptimisticUpdate(t)
  <2>1. [u \in {t} |-> NoBlock] \in RowSets
    BY NoBlockTyped
  <2>2. TableTyped'
    BY <1>4, <2>1, InsertTyped DEF OptimisticUpdate, Typed
  <2>3. keychain' \in Keychains
    <3>1. sent[t] \in Keychains
      BY <1>4 DEF OptimisticUpdate, Typed, KeysTyped, SentSets
    <3>2. WellFormed(sent[t]) /\ index[t] \in Nat
      BY <3>1, IndexingsAssumption DEF Keychains, Typed, ExplorerTyped
    <3>3. MarkAsUsed(sent[t], index[t]) \in Keychains
      BY <3>2, MarkAsUsedAdds DEF Keychains, WellFormed
    <3> QED BY <1>4, <3>3 DEF OptimisticUpdate, Typed, KeysTyped
  <2>4. KeysTyped'
    BY <1>4, <2>3, WithoutSent DEF OptimisticUpdate, Typed, KeysTyped
  <2>5. HistoryTyped'
    BY <1>4 DEF OptimisticUpdate, Typed, HistoryTyped
  <2> QED BY <1>4, <2>2, <2>4, <2>5, Untouched DEF OptimisticUpdate, Typed
<1> QED BY <1>1, <1>2, <1>3, <1>4

LEMMA PerformTyped ==
    ASSUME Typed, PerformSynchronization
    PROVE  Typed'
<1>1. PICK height \in DeepestFailed(saved.batches), block \in LastBlockWithOperations :
        /\ job' = [NoJob EXCEPT
                     !.pc = "head",
                     !.state = InitializeSavedState(
                       [saved EXCEPT !.batches = Rewind(@, height, block)]),
                     !.began = <<Len(chain), reorgs>>]
        /\ strayed' = (strayed \/
                Strays(Rewind(saved.batches, height, block), saved.batches))
  BY DEF PerformSynchronization
<1>2. saved \in States /\ saved.batches \in Seq(BlockRefs) /\ half \in Halves
  BY DEF Typed, JobTyped, States
<1>3. block \in BlockRefs
  <2>1. {rows[t] : t \in DOMAIN rows} \ {NoBlock} \in SUBSET BlockRefs
    BY DEF Typed, TableTyped, RowSets
  <2> QED BY <2>1, LastBlockIs DEF LastBlockWithOperations
<1> DEFINE s == [saved EXCEPT !.batches = Rewind(@, height, block)]
<1>4. s \in States
  BY <1>2, <1>3, RewindIs DEF States
<1> HIDE DEF s
<1>5. InitializeSavedState(s) \in States /\ InitializeSavedState(s).half = half
  BY <1>2, <1>4, InitializeIs
<1>6. <<Len(chain), reorgs>> \in BlockRefs
  BY BlockRefsAre DEF Typed, ExplorerTyped
<1>7. /\ job' \in Jobs /\ job'.pc = "head" /\ job'.reach = 0
      /\ job'.state = InitializeSavedState(s)
  <2>1. job' = [NoJob EXCEPT !.pc = "head", !.state = InitializeSavedState(s),
                             !.began = <<Len(chain), reorgs>>]
    BY <1>1 DEF s
  <2> QED BY <1>5, <1>6, <2>1, NoJobIs DEF Jobs, Stages
<1>8. 0 = 0 * half
  BY <1>2, HalvesAre
<1>9. JobTyped'
  BY <1>2, <1>5, <1>7, <1>8 DEF JobTyped, PerformSynchronization
<1>10. HistoryTyped'
  BY <1>1 DEF PerformSynchronization, Typed, HistoryTyped, Strays
<1> QED BY <1>9, <1>10, Untouched DEF PerformSynchronization, Typed

LEMMA ChainIs ==
    ASSUME Typed
    PROVE  /\ Len(chain) \in 1..MaxHeight /\ reorgs \in 0..MaxReorgs
           /\ \A h \in 1..Len(chain) : chain[h] \in 0..MaxReorgs
           /\ chain[Len(chain)] \in 0..MaxReorgs
<1>1. /\ chain \in Seq(0..MaxReorgs)
      /\ Len(chain) \in 1..MaxHeight /\ reorgs \in 0..MaxReorgs
  BY DEF Typed, ExplorerTyped
<1>2. MaxHeight \in Nat
  BY BoundsAssumption
<1>3. Len(chain) \in 1..Len(chain)
  BY <1>1, <1>2
<1>4. \A h \in 1..Len(chain) : chain[h] \in 0..MaxReorgs
  BY <1>1, ElementOfSeq
<1> QED BY <1>1, <1>3, <1>4

LEMMA ExceptIs ==
    ASSUME NEW s \in Seq(BlockRefs), NEW i \in Nat, NEW b \in BlockRefs
    PROVE  /\ [s EXCEPT ![i] = b] \in Seq(BlockRefs)
           /\ DOMAIN [s EXCEPT ![i] = b] = DOMAIN s
           /\ \A k \in DOMAIN s : [s EXCEPT ![i] = b][k] = IF k = i THEN b ELSE s[k]
<1>1. CASE i \in 1..Len(s)
  BY <1>1, ExceptSeq
<1>2. CASE i \notin 1..Len(s)
  <2>1. DOMAIN s = 1..Len(s) /\ s = [k \in DOMAIN s |-> s[k]]
    OBVIOUS
  <2>2. [s EXCEPT ![i] = b] = [k \in DOMAIN s |-> s[k]]
    BY <1>2, <2>1
  <2> QED BY <1>2, <2>1, <2>2
<1> QED BY <1>1, <1>2

LEMMA AwaitKeeps ==
    ASSUME NEW b \in Jobs
    PROVE  /\ AwaitAnswers(b) \in Jobs /\ AwaitAnswers(b).pc # "idle"
           /\ AwaitAnswers(b).state.half = b.state.half
           /\ AwaitAnswers(b).reach = b.reach
<1>1. CASE AwaitAnswers(b) = EnterBatch(b, 0)
  BY <1>1, EnterBatchIs
<1>2. CASE AwaitAnswers(b) = [b EXCEPT !.pc = "ask"] /\ AwaitAnswers(b) \in Jobs
  BY <1>2 DEF Jobs
<1> QED BY <1>1, <1>2, AwaitIs

LEMMA AnswersTyped ==
    ASSUME Typed,
           \/ AnswerCurrentBlock \/ AnswerProbe
           \/ \E j \in job.asked : AnswerBatch(j) \/ RefuseBatch(j)
    PROVE  Typed'
<1>0. /\ job \in Jobs /\ job.state \in States /\ saved \in States
      /\ half \in Halves /\ half \in Nat \ {0}
  BY HalvesAre DEF Typed, JobTyped, Jobs
<1>1. CASE AnswerCurrentBlock
  <2>1. <<Len(chain), chain[Len(chain)]>> \in BlockRefs \ {NoBlock}
    <3>1. Len(chain) \in 1..MaxHeight /\ chain[Len(chain)] \in 0..MaxReorgs
      BY ChainIs
    <3> QED BY <3>1, BlockRefsAre DEF NoBlock
  <2>2. TableTyped'
    BY <1>1, <2>1 DEF AnswerCurrentBlock, Typed, TableTyped
  <2>3. /\ job' \in Jobs /\ job'.pc # "idle" /\ job'.state = job.state
        /\ job'.reach = half
    BY <1>0, <1>1 DEF AnswerCurrentBlock, Jobs, Stages
  <2>4. half = 1 * half /\ job.pc # "idle"
    BY <1>0, <1>1 DEF AnswerCurrentBlock
  <2>5. JobTyped'
    BY <1>0, <1>1, <2>3, <2>4 DEF AnswerCurrentBlock, Typed, JobTyped
  <2> QED BY <1>1, <2>2, <2>5, Untouched DEF AnswerCurrentBlock, Typed
<1>2. CASE AnswerProbe
  <2>1. PICK page \in Answers(job.probe, NoBlock) :
        LET cached == [job EXCEPT !.cache = With(@, <<job.probe, NoBlock>>, page)] IN
        \/ job' = [cached EXCEPT !.probe = (@ + 1) * 2,
                                 !.reach = (job.probe * 2 + 3) * half]
        \/ job' = AwaitAnswers([cached EXCEPT !.asked =
                        {j \in 0..(job.reach \div half - 1) :
                            Key(job.state, j) \notin DOMAIN cached.cache}])
    BY <1>2 DEF AnswerProbe
  <2> DEFINE cached == [job EXCEPT !.cache = With(@, <<job.probe, NoBlock>>, page)]
             missing == {j \in 0..(job.reach \div half - 1) :
                            Key(job.state, j) \notin DOMAIN cached.cache}
  <2>2. cached \in Jobs /\ cached.state = job.state /\ cached.reach = job.reach
        /\ cached.pc = job.pc /\ cached.probe = job.probe
    <3>1. page \in PageSet
      BY AnswersAre DEF Typed
    <3>2. <<job.probe, NoBlock>> \in Nat \X BlockRefs
      BY <1>0, BlockRefsAre DEF Jobs
    <3>3. With(job.cache, <<job.probe, NoBlock>>, page) \in Caches
      BY <1>0, <3>1, <3>2, WithCache DEF Jobs
    <3> QED BY <1>0, <3>3 DEF Jobs
  <2>3. job.pc # "idle" /\ job.state.half = half
    BY <1>2 DEF AnswerProbe, Typed, JobTyped
  <2>4. missing \subseteq Nat
    OBVIOUS
  <2>5. \/ job' = [cached EXCEPT !.probe = (@ + 1) * 2,
                                 !.reach = (job.probe * 2 + 3) * half]
        \/ job' = AwaitAnswers([cached EXCEPT !.asked = missing])
    BY <2>1
  <2> HIDE DEF cached, missing
  <2>6. CASE job' = [cached EXCEPT !.probe = (@ + 1) * 2,
                                   !.reach = (job.probe * 2 + 3) * half]
    <3> DEFINE n == job.probe * 2 + 3
    <3>1. n \in Nat /\ n * half \in Nat /\ (job.probe + 1) * 2 \in Nat
      BY <1>0 DEF Jobs
    <3>2. job' = [cached EXCEPT !.probe = (job.probe + 1) * 2, !.reach = n * half]
      BY <2>2, <2>6 DEF Jobs
    <3> HIDE DEF n
    <3>3. /\ job' \in Jobs /\ job'.pc # "idle" /\ job'.state = job.state
          /\ job'.reach = n * half
      BY <2>2, <2>3, <3>1, <3>2 DEF Jobs
    <3>4. JobTyped'
      BY <1>0, <1>2, <2>3, <3>1, <3>3 DEF JobTyped, AnswerProbe
    <3> QED BY <1>2, <3>4, Untouched DEF AnswerProbe, Typed
  <2>7. CASE job' = AwaitAnswers([cached EXCEPT !.asked = missing])
    <3> DEFINE b == [cached EXCEPT !.asked = missing]
    <3>1. b \in Jobs /\ b.state = job.state /\ b.reach = job.reach
      BY <2>2, <2>4 DEF Jobs
    <3> HIDE DEF b
    <3>2. /\ job' \in Jobs /\ job'.pc # "idle" /\ job'.state.half = job.state.half
          /\ job'.reach = job.reach
      <4>1. job' = AwaitAnswers(b)
        BY <2>7 DEF b
      <4> QED BY <3>1, <4>1, AwaitKeeps
    <3>3. JobTyped'
      BY <1>0, <1>2, <2>3, <3>2, JobGoesOn DEF AnswerProbe, Typed
    <3> QED BY <1>2, <3>3, Untouched DEF AnswerProbe, Typed
  <2> QED BY <2>5, <2>6, <2>7
<1>3. ASSUME NEW j \in job.asked, AnswerBatch(j) PROVE Typed'
  <2>1. PICK page \in Answers(j, BlockOf(job.state, j)) :
        job' = AwaitAnswers([job EXCEPT
                 !.cache = With(@, Key(job.state, j), page),
                 !.asked = @ \ {j}])
    BY <1>3 DEF AnswerBatch
  <2> DEFINE b == [job EXCEPT !.cache = With(@, Key(job.state, j), page),
                              !.asked = @ \ {j}]
  <2>2. b \in Jobs /\ b.state = job.state /\ b.reach = job.reach
    <3>1. page \in PageSet
      BY AnswersAre DEF Typed
    <3>2. j \in Nat /\ job.asked \ {j} \subseteq Nat
      BY <1>0 DEF Jobs
    <3>3. With(job.cache, Key(job.state, j), page) \in Caches
      BY <1>0, <3>1, <3>2, WithCache, BlockOfIs DEF Jobs
    <3> QED BY <1>0, <3>2, <3>3 DEF Jobs
  <2> HIDE DEF b
  <2>3. /\ job' \in Jobs /\ job'.pc # "idle" /\ job'.state.half = job.state.half
        /\ job'.reach = job.reach
    <3>1. job' = AwaitAnswers(b)
      BY <2>1 DEF b
    <3> QED BY <2>2, <3>1, AwaitKeeps
  <2>4. job.pc # "idle" /\ job.state.half = half
    BY <1>3 DEF AnswerBatch, Typed, JobTyped
  <2>5. JobTyped'
    BY <1>0, <1>3, <2>3, <2>4, JobGoesOn DEF AnswerBatch, Typed
  <2> QED BY <1>3, <2>5, Untouched DEF AnswerBatch, Typed
<1>4. ASSUME NEW j \in job.asked, RefuseBatch(j) PROVE Typed'
  <2>1. JobTyped'
    BY <1>0, <1>4, JobEnds DEF RefuseBatch, Typed
  <2> QED BY <1>4, <2>1, Untouched DEF RefuseBatch, Typed
<1> QED BY <1>1, <1>2, <1>3, <1>4

\* The state with the batch moved to a block.
Moved(block) == [job.state EXCEPT !.batches[job.at + 1] = block]

LEMMA MovedIs ==
    ASSUME Typed, NEW block \in BlockRefs
    PROVE  /\ Moved(block) \in States /\ Moved(block).half = job.state.half
           /\ DOMAIN Moved(block).batches = DOMAIN job.state.batches
           /\ \A i \in DOMAIN job.state.batches :
                Moved(block).batches[i] =
                    IF i = job.at + 1 THEN block ELSE job.state.batches[i]
<1>1. job.state \in States /\ job.at \in Nat
  BY DEF Typed, JobTyped, Jobs
<1>2. [job.state.batches EXCEPT ![job.at + 1] = block] \in Seq(BlockRefs)
  BY <1>1, ExceptIs DEF States
<1>3. Moved(block) = [job.state EXCEPT
            !.batches = [job.state.batches EXCEPT ![job.at + 1] = block]]
  BY <1>1 DEF Moved, States
<1>4. /\ Moved(block) \in States /\ Moved(block).half = job.state.half
      /\ Moved(block).batches = [job.state.batches EXCEPT ![job.at + 1] = block]
  BY <1>1, <1>2, <1>3 DEF States
<1>5. job.state.batches \in Seq(BlockRefs)
  BY <1>1 DEF States
<1> QED BY <1>4, <1>5, ExceptIs

\* What reading a page does to the job.
LEMMA ReadPageIs ==
    ASSUME Typed, NEW page \in Pages, ReadPage(page)
    PROVE  \E block \in BlocksAfter(page) :
            /\ block \in BlockRefs /\ job' \in Jobs
            /\ job'.state = Moved(block)
            /\ job'.pc \in {"batch", "stored"}
            /\ job'.reach = job.reach /\ job'.at = job.at /\ job'.cache = job.cache
            /\ job'.began = job.began /\ job'.asked = job.asked
            /\ job'.pc = "stored" <=> ~page.more
            /\ job'.had <=> job.had \/ DOMAIN page.rows # {}
<1>1. PICK block \in BlocksAfter(page) :
        job' = [job EXCEPT !.state.batches[job.at + 1] = block,
                           !.had = @ \/ DOMAIN page.rows # {},
                           !.held = Held(page),
                           !.pc = IF page.more THEN "batch" ELSE "stored"]
  BY DEF ReadPage
<1>2. job \in Jobs /\ page \in PageSet /\ block \in BlockRefs
  BY PagesAre, BlocksAfterAre DEF Typed, JobTyped
<1> DEFINE stage == IF page.more THEN "batch" ELSE "stored"
           has == job.had \/ DOMAIN page.rows # {}
<1>3. Held(page) \subseteq Txs /\ stage \in {"batch", "stored"} /\ has \in BOOLEAN
  BY <1>2, OpsTyped DEF Held, Jobs
<1>4. job' = [job EXCEPT !.state = Moved(block), !.had = has, !.held = Held(page),
                         !.pc = stage]
  BY <1>1, <1>2 DEF Moved, Jobs
<1> HIDE DEF stage, has
<1>5. Moved(block) \in States
  BY <1>2, MovedIs
<1>6. /\ job' \in Jobs /\ job'.state = Moved(block) /\ job'.pc = stage
      /\ job'.reach = job.reach /\ job'.at = job.at /\ job'.cache = job.cache
      /\ job'.began = job.began /\ job'.asked = job.asked /\ (job'.had <=> has)
  BY <1>2, <1>3, <1>4, <1>5 DEF Jobs, Stages
<1>7. job'.pc = "stored" <=> ~page.more
  BY <1>6 DEF stage
<1> QED BY <1>2, <1>3, <1>6, <1>7 DEF has

LEMMA ReadPageTyped ==
    ASSUME Typed, NEW page \in Pages, ReadPage(page)
    PROVE  Typed'
<1>1. PICK block \in BlocksAfter(page) :
            /\ block \in BlockRefs /\ job' \in Jobs
            /\ job'.state = Moved(block)
            /\ job'.pc \in {"batch", "stored"}
            /\ job'.reach = job.reach
  BY ReadPageIs
<1>2. page \in PageSet /\ saved \in States /\ job.pc # "idle" /\ job.state.half = half
  BY PagesAre DEF Typed, JobTyped, ReadPage, InRange
<1>3. job'.state \in States /\ job'.state.half = half
  BY <1>1, <1>2, MovedIs
<1>4. saved' \in States
  BY <1>2, <1>3 DEF ReadPage
<1>5. JobTyped'
  BY <1>1, <1>3, <1>4, JobGoesOn DEF ReadPage, Typed
<1>6. TableTyped'
  BY <1>2, OpsTyped, InsertTyped DEF ReadPage, Typed
<1>7. keychain' \in Keychains
  BY <1>2, OpsTyped, MarkTyped DEF ReadPage, Interpret, Typed, ExplorerTyped, KeysTyped
<1>8. KeysTyped'
  BY <1>7 DEF ReadPage, Typed, KeysTyped
<1> QED BY <1>5, <1>6, <1>8, Untouched DEF ReadPage, Typed

LEMMA FailuresTyped ==
    ASSUME Typed, JobFails \/ RequestFails \/ \E page \in Pages : InsertFails(page)
    PROVE  Typed'
<1>0. job \in Jobs /\ saved \in States /\ half \in Halves
  BY DEF Typed, JobTyped
<1>1. CASE JobFails
  <2>1. JobTyped'
    BY <1>0, <1>1, JobEnds DEF JobFails, Typed
  <2> QED BY <1>1, <2>1, Untouched DEF JobFails, Typed
<1>2. CASE RequestFails
  <2>1. /\ job' \in Jobs /\ job'.pc # "idle" /\ job'.state = job.state
        /\ job'.reach = job.reach
    BY <1>0, <1>2 DEF RequestFails, Jobs, Stages
  <2>2. job.state.half = half
    BY <1>2 DEF RequestFails, InRange, Typed, JobTyped
  <2>3. JobTyped'
    BY <1>0, <1>2, <2>1, <2>2, JobGoesOn DEF RequestFails, Typed
  <2> QED BY <1>2, <2>3, Untouched DEF RequestFails, Typed
<1>3. ASSUME NEW page \in Pages, InsertFails(page) PROVE Typed'
  <2>1. page \in PageSet
    BY PagesAre
  <2>2. Held(page) \subseteq Txs
    BY <1>0, <2>1, OpsTyped DEF Held, Jobs
  <2>3. /\ job' \in Jobs /\ job'.pc # "idle" /\ job'.state = job.state
        /\ job'.reach = job.reach
    BY <1>0, <1>3, <2>2 DEF InsertFails, Jobs, Stages
  <2>4. job.state.half = half
    BY <1>3 DEF InsertFails, InRange, Typed, JobTyped
  <2>5. JobTyped'
    BY <1>0, <1>3, <2>3, <2>4, JobGoesOn DEF InsertFails, Typed
  <2>6. keychain' \in Keychains
    BY <1>3, <2>1, OpsTyped, MarkTyped
    DEF InsertFails, Interpret, Typed, ExplorerTyped, KeysTyped
  <2>7. KeysTyped'
    BY <1>3, <2>6 DEF InsertFails, Typed, KeysTyped
  <2> QED BY <1>3, <2>5, <2>7, Untouched DEF InsertFails, Typed
<1> QED BY <1>1, <1>2, <1>3

LEMMA BatchEndsTyped ==
    ASSUME Typed, SkipBatch \/ EndBatch \/ RefusePage
    PROVE  Typed'
<1>0. /\ job \in Jobs /\ job.state \in States /\ saved \in States
      /\ half \in Halves /\ job.at + 1 \in Nat
  BY DEF Typed, JobTyped, Jobs
<1>1. job.pc # "idle" /\ job.state.half = half
  BY DEF SkipBatch, EndBatch, RefusePage, InRange, Typed, JobTyped
<1>2. CASE SkipBatch
  <2>1. /\ job' \in Jobs /\ job'.pc # "idle" /\ job'.state = job.state
        /\ job'.reach = job.reach
    BY <1>0, <1>2 DEF SkipBatch, Jobs, Stages
  <2>2. JobTyped'
    BY <1>0, <1>1, <1>2, <2>1, JobGoesOn DEF SkipBatch, Typed
  <2> QED BY <1>2, <2>2, Untouched DEF SkipBatch, Typed
<1>3. CASE RefusePage
  <2>1. /\ job' \in Jobs /\ job'.pc # "idle" /\ job'.state = job.state
        /\ job'.reach = job.reach
    BY <1>0, <1>3 DEF RefusePage, Jobs, Stages
  <2>2. JobTyped'
    BY <1>0, <1>1, <1>3, <2>1, JobGoesOn DEF RefusePage, Typed
  <2> QED BY <1>3, <2>2, Untouched DEF RefusePage, Typed
<1>4. CASE EndBatch
  <2>1. CASE job' = EnterBatch(job, job.at + 1)
    <3>1. /\ job' \in Jobs /\ job'.pc # "idle" /\ job'.state.half = job.state.half
          /\ job'.reach = job.reach
      BY <1>0, <2>1, EnterBatchIs
    <3>2. JobTyped'
      BY <1>0, <1>1, <1>4, <3>1, JobGoesOn DEF EndBatch, Typed
    <3> QED BY <1>4, <3>2, Untouched DEF EndBatch, Typed
  <2>2. CASE job' = [job EXCEPT !.pc = "mempool"]
    <3>1. /\ job' \in Jobs /\ job'.pc # "idle" /\ job'.state = job.state
          /\ job'.reach = job.reach
      BY <1>0, <2>2 DEF Jobs, Stages
    <3>2. JobTyped'
      BY <1>0, <1>1, <1>4, <3>1, JobGoesOn DEF EndBatch, Typed
    <3> QED BY <1>4, <3>2, Untouched DEF EndBatch, Typed
  <2> QED BY <1>4, <2>1, <2>2 DEF EndBatch
<1> QED BY <1>2, <1>3, <1>4

\* The state with every batch above a block taken back to it.
Back(block) == [job.state EXCEPT !.batches = RewindAll(@, block)]

LEMMA BackIs ==
    ASSUME Typed, NEW block \in BlockRefs
    PROVE  /\ Back(block) \in States /\ Back(block).half = job.state.half
           /\ Back(block).batches = RewindAll(job.state.batches, block)
<1>1. job.state \in States
  BY DEF Typed, JobTyped, Jobs
<1> QED BY <1>1, RewindAllIs DEF Back, States

\* What the recovery does.
LEMMA RecoveryIs ==
    ASSUME Typed, RecoverFromReorganization
    PROVE  /\ job' \in Jobs /\ job'.pc = "batch" /\ job'.at = job.at
           /\ job'.state.half = job.state.half
           /\ job'.reach = job.reach /\ job'.cache = job.cache
           /\ job'.began = job.began
           /\ saved' = job'.state
           /\ \/ /\ CanDelete(Doomed) /\ DeleteBlocks(Doomed)
                 /\ \E block \in LastBlock(blocks') :
                     /\ job' = EnterBatch([job EXCEPT !.state = Back(block)], job.at)
                     /\ block \in BlockRefs
                     /\ [job EXCEPT !.state = Back(block)] \in Jobs
                     /\ strayed' = (strayed \/
                            Strays(Back(block).batches, job.state.batches))
              \/ /\ ~CanDelete(Doomed)
                 /\ job' = EnterBatch(job, job.at)
                 /\ UNCHANGED <<databaseVars, strayed>>
<1>0. job \in Jobs /\ job.state \in States /\ job.at \in Nat
  BY DEF Typed, JobTyped, Jobs
<1>1. CASE CanDelete(Doomed)
  <2>1. PICK block \in LastBlock(blocks') :
          /\ DeleteBlocks(Doomed)
          /\ job' = EnterBatch([job EXCEPT !.state.batches = RewindAll(@, block)], job.at)
          /\ strayed' = (strayed \/
                Strays(RewindAll(job.state.batches, block), job.state.batches))
          /\ saved' = job'.state
    BY <1>1 DEF RecoverFromReorganization
  <2>2. blocks' \in SUBSET BlockRefs
    BY <2>1, DeleteTyped DEF Typed, TableTyped
  <2>3. block \in BlockRefs
    BY <2>2, LastBlockIs
  <2> DEFINE b == [job EXCEPT !.state = Back(block)]
  <2>4. [job EXCEPT !.state.batches = RewindAll(@, block)] = b
    BY <1>0 DEF Back, Jobs, States
  <2>5. /\ b \in Jobs /\ b.state = Back(block) /\ b.reach = job.reach
        /\ b.cache = job.cache /\ b.began = job.began
    BY <1>0, <2>3, BackIs DEF Jobs
  <2>6. job' = EnterBatch(b, job.at)
    BY <2>1, <2>4
  <2>7. Strays(RewindAll(job.state.batches, block), job.state.batches)
            = Strays(Back(block).batches, job.state.batches)
    BY <2>3, BackIs
  <2>8. /\ job' \in Jobs /\ job'.pc = "batch" /\ job'.at = job.at
        /\ job'.state.half = job.state.half
        /\ job'.reach = job.reach /\ job'.cache = job.cache
        /\ job'.began = job.began
    <3>1. b.state.half = job.state.half
      BY <2>3, <2>5, BackIs
    <3> HIDE DEF b
    <3>2. /\ job' \in Jobs /\ job'.pc = "batch" /\ job'.at = job.at
          /\ job'.state.half = b.state.half /\ job'.reach = b.reach
          /\ job'.cache = b.cache /\ job'.began = b.began
      BY <1>0, <2>5, <2>6, EnterBatchIs
    <3> QED BY <2>5, <3>1, <3>2
  <2> QED BY <1>1, <2>1, <2>3, <2>5, <2>6, <2>7, <2>8
<1>2. CASE ~CanDelete(Doomed)
  <2>1. /\ job' = EnterBatch(job, job.at) /\ UNCHANGED <<databaseVars, strayed>>
        /\ saved' = job'.state
    BY <1>2 DEF RecoverFromReorganization
  <2> QED BY <1>0, <1>2, <2>1, EnterBatchIs
<1> QED BY <1>1, <1>2

LEMMA RecoveryTyped ==
    ASSUME Typed, RecoverFromReorganization
    PROVE  Typed'
<1>1. /\ job' \in Jobs /\ job'.pc = "batch" /\ job'.state.half = job.state.half
      /\ job'.reach = job.reach /\ saved' = job'.state
      /\ \/ DeleteBlocks(Doomed) /\ strayed' \in BOOLEAN
         \/ UNCHANGED <<databaseVars, strayed>>
  BY RecoveryIs DEF Typed, HistoryTyped, Strays
<1>2. job.state.half = half /\ saved' \in States
  BY <1>1 DEF RecoverFromReorganization, Typed, JobTyped, Jobs
<1>3. JobTyped'
  BY <1>1, <1>2, JobGoesOn DEF RecoverFromReorganization, Typed
<1>4. TableTyped'
  <2>1. CASE DeleteBlocks(Doomed)
    BY <2>1, DeleteTyped DEF Typed
  <2>2. CASE UNCHANGED databaseVars
    BY <2>2, Untouched
  <2> QED BY <1>1, <2>1, <2>2
<1>5. HistoryTyped'
  BY <1>1 DEF RecoverFromReorganization, Typed, HistoryTyped
<1> QED BY <1>3, <1>4, <1>5, Untouched DEF RecoverFromReorganization, Typed

LEMMA MempoolTyped ==
    ASSUME Typed, SynchronizeMempool
    PROVE  Typed'
<1>1. job.held \in SUBSET Txs /\ saved \in States /\ half \in Halves
  BY DEF Typed, JobTyped, Jobs
<1>2. JobTyped'
  BY <1>1, JobEnds DEF SynchronizeMempool, Typed
<1>3. TableTyped'
  BY <1>1, NoBlockTyped, InsertTyped DEF SynchronizeMempool, Typed
<1>4. keychain' \in Keychains
  BY <1>1, MarkTyped DEF SynchronizeMempool, Typed, ExplorerTyped, KeysTyped
<1>5. KeysTyped'
  BY <1>4 DEF SynchronizeMempool, Typed, KeysTyped
<1> QED BY <1>2, <1>3, <1>5, Untouched DEF SynchronizeMempool, Typed

LEMMA CrashTyped ==
    ASSUME Typed, Crash \/ CrashInRecovery \/ \E page \in Pages : CrashInInsert(page)
    PROVE  Typed'
<1>1. Die /\ UNCHANGED saved
  BY DEF Crash, CrashInRecovery, CrashInInsert
<1>2. JobTyped'
  <2>1. saved \in States /\ half \in Halves
    BY DEF Typed, JobTyped
  <2> QED BY <1>1, <2>1, JobEnds DEF Die, Typed
<1>3. sent' \in SentSets
  BY <1>1, WithoutSent DEF Die, Typed, KeysTyped
<1>4. TableTyped' /\ keychain' \in Keychains
  <2>1. CASE Crash
    BY <2>1, Untouched DEF Crash, Typed, KeysTyped
  <2>2. CASE CrashInRecovery
    BY <2>2, DeleteTyped DEF CrashInRecovery, Typed, KeysTyped
  <2>3. ASSUME NEW page \in Pages, CrashInInsert(page)
        PROVE  TableTyped' /\ keychain' \in Keychains
    <3>1. page \in PageSet
      BY PagesAre
    <3> QED BY <2>3, <3>1, OpsTyped, InsertTyped, MarkTyped
            DEF CrashInInsert, Interpret, Typed, ExplorerTyped, KeysTyped
  <2> QED BY <2>1, <2>2, <2>3
<1> QED BY <1>1, <1>2, <1>3, <1>4, Untouched DEF Die, Typed, KeysTyped

LEMMA ConfigureTyped ==
    ASSUME Typed, NEW size \in Halves, Configure(size)
    PROVE  Typed'
<1>1. job' = NoJob /\ saved \in States
  BY DEF Configure, Typed, JobTyped
<1>2. JobTyped'
  BY <1>1, JobEnds DEF Configure, Typed
<1>3. HistoryTyped'
  BY DEF Configure, Typed, HistoryTyped
<1> QED BY <1>2, <1>3, Untouched DEF Configure, Typed

LEMMA TypedNext == Typed /\ [Next]_vars => Typed'
<1> SUFFICES ASSUME Typed, [Next]_vars PROVE Typed'
  OBVIOUS
<1>1. CASE UNCHANGED vars
  BY <1>1, Untouched DEF vars, Typed, explorerVars, databaseVars, historyVars
<1>2. CASE Continue
  BY <1>2, AnswersTyped, ReadPageTyped, BatchEndsTyped, RecoveryTyped, MempoolTyped
  DEF Continue
<1> QED BY <1>1, <1>2, ChainTyped, TransactionsTyped, PerformTyped, FailuresTyped,
           CrashTyped, ConfigureTyped
        DEF Next

LEMMA AlwaysTyped == Spec => []Typed
BY InitTyped, TypedNext, PTL DEF Spec

\* Every variable has its type: a job has always derived whole batches of the
\* configured size, however often that changed, and whatever a keychain keeps
\* apart is above the index that it gives out next.
THEOREM TypeCorrect == Spec => []TypeOK
<1>1. Typed => TypeOK
  <2> SUFFICES ASSUME Typed PROVE TypeOK
    OBVIOUS
  <2>1. \A b \in BlockRefs : b \in BlockRefs
    OBVIOUS
  <2>2. IsRows(rows) /\ \A f \in RowSets : IsRows(f)
    BY DEF Typed, TableTyped, RowSets, IsRows
  <2>3. \A s \in States : IsState(s)
    BY DEF States, IsState, ToSet
  <2>4. \A k \in Keychains : IsKeychain(k)
    BY DEF Keychains, WellFormed, IsKeychain
  <2>5. job \in Jobs /\ saved \in States /\ half \in Halves
    BY DEF Typed, JobTyped
  <2>6. job.reach % half = 0
    <3>1. PICK n \in Nat : job.reach = n * half
      BY DEF Typed, JobTyped
    <3> QED BY <2>5, <3>1, HalvesAre, Division
  <2>7. \A k \in DOMAIN job.cache : k[2] \in BlockRefs /\ IsRows(job.cache[k].rows)
    BY <2>2, <2>5 DEF Jobs, Caches, PageSet
  <2>8. DOMAIN sent \subseteq Txs
        /\ \A t \in DOMAIN sent : sent[t] = NotRead \/ IsKeychain(sent[t])
    BY <2>4 DEF Typed, KeysTyped, SentSets
  <2>9. DOMAIN chain = 1..Len(chain) /\ Len(chain) \in 1..MaxHeight
    BY DEF Typed, ExplorerTyped
  <2>10. \A h \in DOMAIN chain : chain[h] \in 0..MaxReorgs
    BY <2>9, ChainIs
  <2>11. job.pc # "idle" => job.state.half = half
    BY DEF Typed, JobTyped
  <2>12. job.pc \in Stages /\ job.state \in States /\ job.asked \subseteq Nat
         /\ job.held \subseteq Txs /\ job.began \in BlockRefs
    BY <2>5 DEF Jobs
  <2> QED BY <2>2, <2>3, <2>4, <2>5, <2>6, <2>7, <2>8, <2>9, <2>10, <2>11, <2>12
          DEF TypeOK, Typed, ExplorerTyped, TableTyped, KeysTyped, HistoryTyped
<1> QED BY <1>1, AlwaysTyped, PTL
-----------------------------------------------------------------------------
(* The addresses of what is stored are used.                               *)

\* No broadcast has read a state of the keychain that holds an index for used
\* which the keychain does not: what it saves is then the state there is or,
\* as long as no older one was saved, that with one more index.
Known ==
    ~raced =>
        /\ \A t \in DOMAIN rows : index[t] \in UsedIndices(keychain)
        /\ \A t \in DOMAIN sent :
            sent[t] # NotRead => UsedIndices(sent[t]) \subseteq UsedIndices(keychain)

LEMMA KnownKept ==
    ASSUME Known, index' = index, raced' = raced,
           UsedIndices(keychain) \subseteq UsedIndices(keychain'),
           \A t \in DOMAIN rows' :
                t \in DOMAIN rows \/ index[t] \in UsedIndices(keychain'),
           \A t \in DOMAIN sent' :
                \/ sent'[t] \in {NotRead, keychain}
                \/ t \in DOMAIN sent /\ sent'[t] = sent[t]
    PROVE  Known'
BY DEF Known

\* Neither rows nor addresses are touched.
LEMMA KnownUntouched ==
    ASSUME Known, index' = index, UNCHANGED <<rows, keychain, sent, raced>>
    PROVE  Known'
BY DEF Known

\* A page, or what was held back, is stored: its addresses are marked.
LEMMA KnownMarked ==
    ASSUME Typed, Known, index' = index, raced' = raced, NEW S \in SUBSET Txs,
           keychain' = MarkAllAsUsed(keychain, {index[t] : t \in S}),
           \A t \in DOMAIN rows' : t \in DOMAIN rows \cup S,
           \A t \in DOMAIN sent' : t \in DOMAIN sent /\ sent'[t] = sent[t]
    PROVE  Known'
<1>1. UsedIndices(keychain') = UsedIndices(keychain) \cup {index[t] : t \in S}
  BY MarkTyped DEF Typed, ExplorerTyped, KeysTyped
<1> QED BY <1>1, KnownKept

LEMMA KnownDied ==
    ASSUME Die
    PROVE  /\ index' = index /\ raced' = raced
           /\ \A t \in DOMAIN sent' : t \in DOMAIN sent /\ sent'[t] = sent[t]
BY DEF Die, Without, explorerVars, historyVars

LEMMA InterpretKeeps ==
    ASSUME Typed, Known, NEW page \in Pages, Interpret(page),
           index' = index, raced' = raced,
           \/ BulkInsert([t \in InBlock(page) |-> page.rows[t]])
           \/ rows' = rows,
           \A t \in DOMAIN sent' : t \in DOMAIN sent /\ sent'[t] = sent[t]
    PROVE  Known'
<1>1. DOMAIN page.rows \in SUBSET Txs /\ InBlock(page) \subseteq DOMAIN page.rows
  BY PagesAre, OpsTyped DEF InBlock
<1>2. \A t \in DOMAIN rows' : t \in DOMAIN rows \cup DOMAIN page.rows
  <2>1. CASE rows' = rows
    BY <2>1
  <2>2. CASE BulkInsert([t \in InBlock(page) |-> page.rows[t]])
    BY <1>1, <2>2 DEF BulkInsert, Over
  <2> QED BY <2>1, <2>2
<1> QED BY <1>1, <1>2, KnownMarked DEF Interpret

LEMMA OptimisticUpdateKeeps ==
    ASSUME Typed, Known, NEW t \in Txs, OptimisticUpdate(t)
    PROVE  Known'
<1> DEFINE after == MarkAsUsed(sent[t], index[t])
<1>1. /\ t \in DOMAIN sent /\ sent[t] # NotRead
      /\ keychain' = IF after = sent[t] THEN keychain ELSE after
      /\ raced' = (raced \/ (after # sent[t] /\ sent[t] # keychain))
      /\ BulkInsert([u \in {t} |-> NoBlock])
      /\ sent' = Without(sent, {t})
      /\ index' = index
  BY DEF OptimisticUpdate, explorerVars
<1>2. UsedIndices(after) = UsedIndices(sent[t]) \cup {index[t]}
  <2>1. sent[t] \in Keychains
    BY <1>1 DEF Typed, KeysTyped, SentSets
  <2>2. WellFormed(sent[t]) /\ index[t] \in Nat
    BY <2>1, IndexingsAssumption DEF Keychains, Typed, ExplorerTyped
  <2> QED BY <2>2, MarkAsUsedAdds
<1> HIDE DEF after
<1>3. CASE raced'
  BY <1>3 DEF Known
<1>4. CASE ~raced'
  <2>1. ~raced /\ raced' = raced /\ (after = sent[t] \/ sent[t] = keychain)
    BY <1>1, <1>4 DEF Typed, HistoryTyped
  <2>2. UsedIndices(sent[t]) \subseteq UsedIndices(keychain)
    BY <1>1, <2>1 DEF Known
  <2>3. /\ UsedIndices(keychain) \subseteq UsedIndices(keychain')
        /\ index[t] \in UsedIndices(keychain')
    BY <1>1, <1>2, <2>1, <2>2
  <2>4. \A u \in DOMAIN rows' : u \in DOMAIN rows \cup {t}
    BY <1>1 DEF BulkInsert, Over
  <2>5. \A u \in DOMAIN sent' : u \in DOMAIN sent /\ sent'[u] = sent[u]
    BY <1>1 DEF Without
  <2> QED BY <1>1, <2>1, <2>3, <2>4, <2>5, KnownKept
<1> QED BY <1>3, <1>4

LEMMA KnownContinue ==
    ASSUME Typed, Known, Continue
    PROVE  Known'
<1>1. CASE \/ AnswerCurrentBlock \/ AnswerProbe
           \/ \E j \in job.asked : AnswerBatch(j) \/ RefuseBatch(j)
           \/ SkipBatch \/ EndBatch \/ RefusePage
  BY <1>1, KnownUntouched
  DEF AnswerCurrentBlock, AnswerProbe, AnswerBatch, RefuseBatch, SkipBatch, EndBatch,
      RefusePage, explorerVars, databaseVars, historyVars
<1>2. ASSUME NEW page \in Pages, ReadPage(page) PROVE Known'
  BY <1>2, InterpretKeeps DEF ReadPage, explorerVars, historyVars
<1>3. CASE RecoverFromReorganization
  <2>1. index' = index /\ UNCHANGED <<keychain, sent, raced>>
    BY <1>3 DEF RecoverFromReorganization, explorerVars
  <2>2. \A t \in DOMAIN rows' : t \in DOMAIN rows
    BY <1>3 DEF RecoverFromReorganization, DeleteBlocks, databaseVars, Without
  <2> QED BY <2>1, <2>2, KnownKept
<1>4. CASE SynchronizeMempool
  <2>1. job.held \in SUBSET Txs
    BY DEF Typed, JobTyped, Jobs
  <2>2. \A t \in DOMAIN rows' : t \in DOMAIN rows \cup job.held
    BY <1>4, OverIs DEF SynchronizeMempool, BulkInsert
  <2> QED BY <1>4, <2>1, <2>2, KnownMarked
          DEF SynchronizeMempool, explorerVars, historyVars
<1> QED BY <1>1, <1>2, <1>3, <1>4 DEF Continue

LEMMA KnownNext == Typed /\ Known /\ [Next]_vars => Known'
<1> SUFFICES ASSUME Typed, Known, [Next]_vars PROVE Known'
  OBVIOUS
<1>1. CASE Mine \/ Reorganize \/ PerformSynchronization \/ JobFails \/ RequestFails
           \/ \E size \in Halves : Configure(size)
  BY <1>1, KnownUntouched
  DEF Mine, Reorganize, PerformSynchronization, JobFails, RequestFails, Configure,
      explorerVars, databaseVars, historyVars
<1>2. ASSUME NEW t \in Txs, Appear(t) PROVE Known'
  BY <1>2, KnownUntouched DEF Appear, databaseVars, historyVars
<1>3. ASSUME NEW t \in Txs, PushTransaction(t) PROVE Known'
  <2>1. /\ index' = index /\ UNCHANGED <<rows, keychain, raced>>
        /\ sent' = With(sent, t, NotRead)
    BY <1>3 DEF PushTransaction, databaseVars, historyVars
  <2>2. \A u \in DOMAIN sent' :
            sent'[u] = NotRead \/ (u \in DOMAIN sent /\ sent'[u] = sent[u])
    BY <2>1 DEF With, Over
  <2> QED BY <2>1, <2>2, KnownKept
<1>4. ASSUME NEW t \in Txs, ReadKeychain(t) PROVE Known'
  <2>1. /\ index' = index /\ UNCHANGED <<rows, keychain, raced>>
        /\ sent' = [sent EXCEPT ![t] = keychain]
    BY <1>4 DEF ReadKeychain, explorerVars, databaseVars, historyVars
  <2>2. \A u \in DOMAIN sent' :
            sent'[u] = keychain \/ (u \in DOMAIN sent /\ sent'[u] = sent[u])
    BY <2>1
  <2> QED BY <2>1, <2>2, KnownKept
<1>5. ASSUME NEW t \in Txs, OptimisticUpdate(t) PROVE Known'
  BY <1>5, OptimisticUpdateKeeps
<1>6. CASE Continue
  BY <1>6, KnownContinue
<1>7. ASSUME NEW page \in Pages, InsertFails(page) PROVE Known'
  BY <1>7, InterpretKeeps DEF InsertFails, explorerVars, databaseVars, historyVars
<1>8. CASE Crash
  BY <1>8, KnownDied, KnownKept DEF Crash, databaseVars
<1>9. CASE CrashInRecovery
  <2>1. \A t \in DOMAIN rows' : t \in DOMAIN rows
    BY <1>9 DEF CrashInRecovery, DeleteBlocks, Without
  <2> QED BY <1>9, <2>1, KnownDied, KnownKept DEF CrashInRecovery
<1>10. ASSUME NEW page \in Pages, CrashInInsert(page) PROVE Known'
  BY <1>10, KnownDied, InterpretKeeps DEF CrashInInsert
<1>11. CASE UNCHANGED vars
  BY <1>11, KnownUntouched DEF vars, explorerVars, databaseVars, historyVars
<1> QED BY <1>1, <1>2, <1>3, <1>4, <1>5, <1>6, <1>7, <1>8, <1>9, <1>10, <1>11 DEF Next

\* The address of a stored transaction is not given out as a fresh one, whatever
\* fails, is cut off or dies between the commit of the keychain and that of the
\* rows, unless a broadcast saved a state of the keychain that was older.
THEOREM UsedStaysUsed == Spec => []UsedIsNotFresh
<1>1. Init => Known
  BY DEF Init, Known, NoRows
<1>2. Known => UsedIsNotFresh
  BY DEF Known, UsedIsNotFresh
<1> QED BY <1>1, <1>2, AlwaysTyped, KnownNext, PTL DEF Spec
-----------------------------------------------------------------------------
(* What is below the block of a batch is stored.                           *)

\* A block that is, or was once, of the chain.
Made(c) == c[2] <= reorgs /\ (c[2] = reorgs => c[1] <= Len(chain))

\* Forks only get newer up the chain, and what is mined is in it.
ChainSound ==
    /\ \A h \in 1..Len(chain) : chain[h] <= reorgs
    /\ \A h, k \in 1..Len(chain) : h <= k => chain[h] <= chain[k]
    /\ \A t \in Txs : mined[t] \in ChainBlocks \cup {NoBlock}
    /\ \A t \in mempool : mined[t] = NoBlock

\* A block of the chain that was below c when c was of the chain.
Below(b, c) == b # NoBlock /\ b[1] < c[1] /\ b[2] <= c[2]

\* All of batch j that was below c, and still is where it was, is stored.
Sound(c, j, size) ==
    \A t \in Txs : index[t] \div size = j /\ Below(mined[t], c) => Stored(t)
SoundState(s) == \A i \in DOMAIN s.batches : Sound(s.batches[i], i - 1, s.half)

\* A block that left the table is no longer of the chain.
InTable(c) == c \in blocks \cup {NoBlock}
Kept(c) == InTable(c) \/ c \notin ChainBlocks
WellKept(s) == \A i \in DOMAIN s.batches : Made(s.batches[i]) /\ Kept(s.batches[i])

TableSound ==
    /\ \A b \in blocks : Made(b)
    /\ \A t \in DOMAIN rows : InTable(rows[t])

\* The block was made before the job began.
Old(b) == b[2] < job.began[2] \/ (b[2] = job.began[2] /\ b[1] <= job.began[1])

\* A page of a batch, from the block it was asked for.  A transaction that has
\* been in its block since before the job is there as it is, and of what is
\* below a block of the page only what is below the first one can be missing.
PageSound(j, from, page) ==
    /\ \A t \in DOMAIN page.rows :
        /\ t \in Txs /\ index[t] \div half = j
        /\ Made(page.rows[t])
        /\ ~Below(mined[t], from)
        /\ mined[t] # NoBlock /\ Old(mined[t]) => page.rows[t] = mined[t]
    /\ \A u \in DOMAIN page.rows, t \in Txs :
        page.rows[u] # NoBlock /\ index[t] \div half = j
                /\ Below(mined[t], page.rows[u]) =>
            \/ t \in DOMAIN page.rows /\ page.rows[t] = mined[t]
            \/ Below(mined[t], from)
CacheSound ==
    \A k \in DOMAIN job.cache : Made(k[2]) /\ PageSound(k[1], k[2], job.cache[k])

\* What is saved of a batch is what the job has, or older than the job.
SavedOrOld ==
    \A i \in DOMAIN saved.batches :
        \/ Old(saved.batches[i])
        \/ /\ saved.half = job.state.half
           /\ i \in DOMAIN job.state.batches
           /\ job.state.batches[i] = saved.batches[i]

\* Before the batches are asked for, each begins where it did or at the beginning.
OnProbe == job.pc \in {"head", "probe"} => \A k \in DOMAIN job.cache : k[2] = NoBlock

\* The batches that have addresses left off at blocks of the table.
InReach == 0..(job.reach \div half - 1)
Asked ==
    job.pc = "ask" =>
        \A j \in InReach : j \in job.asked \/ InTable(BlockOf(job.state, j))
Batches == {"batch", "stored", "reorganized"}
Working ==
    job.pc \in Batches =>
        /\ job.at + 1 \in DOMAIN job.state.batches
        /\ \A j \in InReach : InTable(BlockOf(job.state, j))

\* A refused block has left the chain.
Gone ==
    job.pc = "reorganized" =>
        /\ job.at \in InReach
        /\ BlockOf(job.state, job.at) \notin ChainBlocks \cup {NoBlock}

JobBase ==
    /\ Made(job.began)
    /\ CacheSound /\ SavedOrOld /\ WellKept(job.state)
    /\ ~spoiled /\ ~strayed => SoundState(job.state)
JobFlow == OnProbe /\ Asked /\ Working /\ Gone
JobSound == job.pc # "idle" => JobBase /\ JobFlow

\* After a resize the batches start again where the lowest one was: a job that
\* came to a batch without transactions left that at no block.
Resized ==
    ~spoiled /\ saved.half # half =>
        saved.batches = <<>> \/ NoBlock \in ToSet(saved.batches)

SavedSound ==
    /\ WellKept(saved) /\ Resized
    /\ ~spoiled /\ ~strayed => SoundState(saved)

ReadOn == ChainSound /\ TableSound /\ SavedSound /\ JobSound

LEMMA StatesAre ==
    ASSUME NEW s \in States
    PROVE  /\ s.batches \in Seq(BlockRefs) /\ s.half \in Nat
           /\ \A i \in DOMAIN s.batches : s.batches[i] \in BlockRefs /\ i \in Nat \ {0}
BY HalvesAre DEF States

LEMMA TypedIs ==
    ASSUME Typed
    PROVE  /\ index \in [Txs -> Nat] /\ mined \in [Txs -> BlockRefs]
           /\ \A t \in Txs : mined[t] \in BlockRefs /\ index[t] \in Nat
           /\ blocks \subseteq BlockRefs \ {NoBlock}
           /\ DOMAIN rows \subseteq Txs /\ \A t \in DOMAIN rows : rows[t] \in BlockRefs
           /\ saved \in States /\ job \in Jobs /\ job.state \in States
           /\ job.began \in BlockRefs /\ half \in Nat \ {0}
           /\ \A k \in DOMAIN job.cache :
                k \in Nat \X BlockRefs /\ k[2] \in BlockRefs /\ job.cache[k] \in PageSet
<1>1. job \in Jobs /\ saved \in States /\ half \in Nat \ {0} /\ job.began \in BlockRefs
      /\ job.state \in States
  BY HalvesAre DEF Typed, JobTyped, Jobs
<1>2. \A k \in DOMAIN job.cache :
        k \in Nat \X BlockRefs /\ k[2] \in BlockRefs /\ job.cache[k] \in PageSet
  BY <1>1 DEF Jobs, Caches
<1>3. index \in [Txs -> Nat] /\ mined \in [Txs -> BlockRefs]
  BY IndexingsAssumption DEF Typed, ExplorerTyped
<1>4. DOMAIN rows \subseteq Txs /\ \A t \in DOMAIN rows : rows[t] \in BlockRefs
  BY DEF Typed, TableTyped, RowSets
<1>5. blocks \subseteq BlockRefs \ {NoBlock}
  BY DEF Typed, TableTyped
<1> QED BY <1>1, <1>2, <1>3, <1>4, <1>5

LEMMA PageIs ==
    ASSUME NEW page \in PageSet
    PROVE  /\ DOMAIN page.rows \subseteq Txs
           /\ \A t \in DOMAIN page.rows : page.rows[t] \in BlockRefs
BY OpsTyped

\* The blocks of the chain are made, and none of them is at height 0.
LEMMA ChainMade ==
    ASSUME Typed, ChainSound
    PROVE  /\ Made(NoBlock) /\ NoBlock \notin ChainBlocks
           /\ ChainBlocks \subseteq BlockRefs
           /\ \A c \in ChainBlocks : Made(c)
           /\ \A t \in Txs : Made(mined[t])
<1>1. /\ Len(chain) \in 1..MaxHeight /\ reorgs \in 0..MaxReorgs
      /\ \A h \in 1..Len(chain) : chain[h] \in 0..MaxReorgs /\ chain[h] <= reorgs
  BY ChainIs DEF ChainSound
<1>2. MaxHeight \in Nat /\ MaxReorgs \in Nat
  BY BoundsAssumption
<1>3. Made(NoBlock)
  BY <1>1, <1>2 DEF Made, NoBlock
<1>4. ASSUME NEW c \in ChainBlocks
      PROVE  Made(c) /\ c # NoBlock /\ c \in BlockRefs
  <2>1. PICK h \in 1..Len(chain) : c = <<h, chain[h]>>
    BY DEF ChainBlocks
  <2>2. h \in 1..MaxHeight /\ chain[h] \in 0..MaxReorgs
    BY <1>1, <1>2
  <2> QED BY <1>1, <1>2, <2>1, <2>2, BlockRefsAre DEF Made, NoBlock
<1> QED BY <1>3, <1>4 DEF ChainSound

\* Nothing that was made is what a new block is, and none is above a new block.
Grown ==
    /\ \A c \in BlockRefs : Made(c) => Made(c)'
    /\ \A c \in BlockRefs : Made(c) /\ c \in ChainBlocks' => c \in ChainBlocks
    /\ \A t \in Txs :
        \/ mined'[t] = mined[t]
        \/ mined'[t] = NoBlock
        \/ \A c \in BlockRefs : Made(c) =>
            c[2] < mined'[t][2] \/ (c[2] = mined'[t][2] /\ c[1] < mined'[t][1])

LEMMA MineGrows ==
    ASSUME Typed, ChainSound, Mine
    PROVE  Grown /\ ChainSound'
<1> DEFINE n == Len(chain) + 1
<1>1. /\ Len(chain) \in 1..MaxHeight /\ reorgs \in 0..MaxReorgs
      /\ MaxHeight \in Nat /\ MaxReorgs \in Nat
      /\ \A h \in 1..Len(chain) : chain[h] \in 0..MaxReorgs /\ chain[h] <= reorgs
      /\ \A h, k \in 1..Len(chain) : h <= k => chain[h] <= chain[k]
      /\ mined \in [Txs -> BlockRefs] /\ mempool \subseteq Txs
  BY ChainIs, BoundsAssumption DEF ChainSound, Typed, ExplorerTyped
<1>2. /\ reorgs' = reorgs /\ Len(chain') = n /\ n \in Nat /\ chain'[n] = reorgs
      /\ \A h \in 1..Len(chain) : chain'[h] = chain[h]
  <2>1. chain \in Seq(0..MaxReorgs) /\ chain' = Append(chain, reorgs) /\ reorgs' = reorgs
    BY DEF Mine, Typed, ExplorerTyped
  <2> QED BY <1>1, <2>1
<1>3. ChainBlocks' = ChainBlocks \cup {<<n, reorgs>>}
  <2>1. ASSUME NEW h \in 1..n
        PROVE  <<h, chain'[h]>> \in ChainBlocks \cup {<<n, reorgs>>}
    <3>1. h = n \/ h \in 1..Len(chain)
      BY <1>1
    <3> QED BY <1>2, <3>1 DEF ChainBlocks
  <2>2. ASSUME NEW h \in 1..Len(chain)
        PROVE  h \in 1..n /\ <<h, chain[h]>> = <<h, chain'[h]>>
    BY <1>1, <1>2
  <2>3. n \in 1..n
    BY <1>1
  <2> QED BY <1>2, <2>1, <2>2, <2>3 DEF ChainBlocks
<1>4. PICK S \in SUBSET mempool :
        /\ mempool' = mempool \ S
        /\ mined' = Over([t \in S |-> <<Len(chain'), reorgs>>], mined)
  BY DEF Mine
<1>5. \A t \in Txs : mined'[t] = IF t \in S THEN <<n, reorgs>> ELSE mined[t]
  BY <1>1, <1>2, <1>4 DEF Over
<1> HIDE DEF n
<1>6. ASSUME NEW c \in BlockRefs, Made(c)
      PROVE  c[2] < reorgs \/ (c[2] = reorgs /\ c[1] < n)
  <2>1. c[1] \in Nat /\ c[2] \in Nat
    BY BlockRefsAre, <1>1
  <2> QED BY <1>1, <1>6, <2>1 DEF Made, n
<1>7. Grown
  <2>1. ASSUME NEW c \in BlockRefs, Made(c) PROVE Made(c)'
    <3>1. c[1] \in Nat /\ c[2] \in Nat
      BY BlockRefsAre, <1>1
    <3> QED BY <1>1, <1>2, <2>1, <3>1 DEF Made, n
  <2>2. ASSUME NEW c \in BlockRefs, Made(c), c \in ChainBlocks' PROVE c \in ChainBlocks
    BY <1>1, <1>3, <1>6, <2>2, BlockRefsAre
  <2>3. ASSUME NEW t \in Txs
        PROVE  \/ mined'[t] = mined[t]
               \/ \A c \in BlockRefs : Made(c) =>
                    c[2] < mined'[t][2] \/ (c[2] = mined'[t][2] /\ c[1] < mined'[t][1])
    BY <1>5, <1>6
  <2> QED BY <2>1, <2>2, <2>3 DEF Grown
<1>8. ChainSound'
  <2>1. \A h \in 1..n : h = n \/ h \in 1..Len(chain)
    BY <1>1 DEF n
  <2>2. \A h \in 1..n : chain'[h] <= reorgs
    BY <1>1, <1>2, <2>1
  <2>3. \A h, k \in 1..n : h <= k => chain'[h] <= chain'[k]
    BY <1>1, <1>2, <2>1 DEF n
  <2>4. \A t \in Txs : mined'[t] \in ChainBlocks' \cup {NoBlock}
    BY <1>3, <1>5 DEF ChainSound
  <2>5. \A t \in mempool' : mined'[t] = NoBlock
    BY <1>1, <1>4, <1>5 DEF ChainSound
  <2> QED BY <1>2, <2>2, <2>3, <2>4, <2>5 DEF ChainSound
<1> QED BY <1>7, <1>8

LEMMA ReorganizeGrows ==
    ASSUME Typed, ChainSound, Reorganize
    PROVE  Grown /\ ChainSound'
<1>1. /\ Len(chain) \in 1..MaxHeight /\ reorgs \in 0..MaxReorgs
      /\ MaxHeight \in Nat /\ MaxReorgs \in Nat
      /\ \A h \in 1..Len(chain) : chain[h] \in 0..MaxReorgs /\ chain[h] <= reorgs
      /\ \A h, k \in 1..Len(chain) : h <= k => chain[h] <= chain[k]
      /\ mined \in [Txs -> BlockRefs] /\ mempool \subseteq Txs
  BY ChainIs, BoundsAssumption DEF ChainSound, Typed, ExplorerTyped
<1>2. PICK k \in 1..(Len(chain) - 1) :
        LET orphans == {t \in Txs : mined[t][1] > k} IN
        /\ chain' = [h \in 1..Len(chain) |-> IF h <= k THEN chain[h] ELSE reorgs']
        /\ \E S \in SUBSET orphans, h \in (k + 1)..Len(chain) :
            /\ mined' = Over([t \in orphans |->
                                IF t \in S THEN <<h, reorgs'>> ELSE NoBlock], mined)
            /\ mempool' = mempool \cup (orphans \ S)
  BY DEF Reorganize
<1> DEFINE orphans == {t \in Txs : mined[t][1] > k}
<1>3. PICK S \in SUBSET orphans, h \in (k + 1)..Len(chain) :
        /\ mined' = Over([t \in orphans |->
                            IF t \in S THEN <<h, reorgs'>> ELSE NoBlock], mined)
        /\ mempool' = mempool \cup (orphans \ S)
  BY <1>2
<1>4. /\ reorgs' = reorgs + 1 /\ Len(chain') = Len(chain)
      /\ \A i \in 1..Len(chain) : chain'[i] = IF i <= k THEN chain[i] ELSE reorgs + 1
      /\ h \in Nat /\ k \in Nat /\ h > k /\ h \in 1..Len(chain)
  <2>1. chain' = [i \in 1..Len(chain) |-> IF i <= k THEN chain[i] ELSE reorgs']
    BY <1>2
  <2>2. Len(chain) \in Nat /\ reorgs' = reorgs + 1
    BY <1>1 DEF Reorganize
  <2> QED BY <2>1, <2>2
<1>5. \A t \in Txs : mined'[t] = IF t \in S THEN <<h, reorgs + 1>>
                                 ELSE IF t \in orphans THEN NoBlock ELSE mined[t]
  BY <1>1, <1>3, <1>4 DEF Over
<1>6. \A t \in Txs \ orphans : mined[t][1] <= k
  BY <1>1, <1>4, BlockRefsAre
<1> HIDE DEF orphans
<1>7. \A c \in BlockRefs : Made(c) => c[2] < reorgs + 1
  BY <1>1, BlockRefsAre DEF Made
<1>8. Grown
  <2>1. ASSUME NEW c \in BlockRefs, Made(c) PROVE Made(c)'
    BY <1>1, <1>4, <1>7, <2>1, BlockRefsAre DEF Made
  <2>2. ASSUME NEW c \in BlockRefs, Made(c), c \in ChainBlocks' PROVE c \in ChainBlocks
    <3>1. PICK i \in 1..Len(chain) : c = <<i, chain'[i]>>
      BY <1>4, <2>2 DEF ChainBlocks
    <3>2. chain'[i] = chain[i]
      BY <1>1, <1>4, <1>7, <2>2, <3>1
    <3> QED BY <3>1, <3>2 DEF ChainBlocks
  <2>3. ASSUME NEW t \in Txs
        PROVE  \/ mined'[t] = mined[t] \/ mined'[t] = NoBlock
               \/ \A c \in BlockRefs : Made(c) =>
                    c[2] < mined'[t][2] \/ (c[2] = mined'[t][2] /\ c[1] < mined'[t][1])
    BY <1>5, <1>7
  <2> QED BY <2>1, <2>2, <2>3 DEF Grown
<1>9. ChainSound'
  <2>1. \A i \in 1..Len(chain) : chain'[i] <= reorgs + 1
    BY <1>1, <1>4
  <2>2. ASSUME NEW i \in 1..Len(chain), NEW j \in 1..Len(chain), i <= j
        PROVE  chain'[i] <= chain'[j]
    <3>1. chain[i] <= chain[j] /\ chain[i] <= reorgs /\ chain[j] <= reorgs
          /\ chain[i] \in 0..MaxReorgs /\ chain[j] \in 0..MaxReorgs
      BY <1>1, <2>2
    <3>2. chain'[i] = (IF i <= k THEN chain[i] ELSE reorgs + 1)
          /\ chain'[j] = (IF j <= k THEN chain[j] ELSE reorgs + 1)
      BY <1>4
    <3> QED BY <1>1, <1>4, <2>2, <3>1, <3>2
  <2>3. \A t \in Txs : mined'[t] \in ChainBlocks' \cup {NoBlock}
    <3> SUFFICES ASSUME NEW t \in Txs, mined'[t] # NoBlock
                 PROVE  mined'[t] \in ChainBlocks'
      OBVIOUS
    <3>1. CASE t \in S
      <4>1. mined'[t] = <<h, chain'[h]>>
        BY <1>4, <1>5, <3>1
      <4> QED BY <1>4, <4>1 DEF ChainBlocks
    <3>2. CASE t \notin S
      <4>1. mined'[t] = mined[t] /\ mined[t] # NoBlock /\ mined[t][1] <= k
        BY <1>5, <1>6, <3>2
      <4>2. PICK i \in 1..Len(chain) : mined[t] = <<i, chain[i]>>
        BY <4>1 DEF ChainSound, ChainBlocks
      <4>3. chain'[i] = chain[i]
        BY <1>4, <4>1, <4>2
      <4> QED BY <1>4, <4>1, <4>2, <4>3 DEF ChainBlocks
    <3> QED BY <3>1, <3>2
  <2>4. \A t \in mempool' : mined'[t] = NoBlock
    <3>1. \A t \in mempool : t \in Txs /\ mined[t] = NoBlock
      BY <1>1 DEF ChainSound
    <3>2. \A t \in mempool : t \notin orphans
      BY <1>4, <3>1 DEF orphans, NoBlock
    <3>3. orphans \subseteq Txs
      BY DEF orphans
    <3> QED BY <1>3, <1>5, <3>1, <3>2, <3>3
  <2> QED BY <1>4, <2>1, <2>2, <2>3, <2>4 DEF ChainSound
<1> QED BY <1>8, <1>9

\* What is mined anew is not below any block that was made ...
LEMMA GrownBelow ==
    ASSUME Typed, Typed', Grown, NEW c \in BlockRefs, Made(c), NEW t \in Txs,
           Below(mined'[t], c)
    PROVE  mined'[t] = mined[t]
<1>1. mined'[t] \in BlockRefs
  BY DEF Typed, ExplorerTyped
<1>2. /\ c[1] \in Nat /\ c[2] \in Nat /\ mined'[t][1] \in Nat /\ mined'[t][2] \in Nat
  BY <1>1, BlockRefsAre, BoundsAssumption
<1> QED BY <1>2 DEF Grown, Below

\* ... and so the chain may grow under a page, a saved state and a job.
LEMMA GrownPage ==
    ASSUME Typed, Typed', Grown, index' = index, half' = half,
           job'.began = job.began,
           Made(job.began), NEW j \in Nat, NEW from \in BlockRefs, Made(from),
           NEW page \in PageSet, PageSound(j, from, page)
    PROVE  PageSound(j, from, page)'
<1>1. \A t \in DOMAIN page.rows : page.rows[t] \in BlockRefs /\ t \in Txs
  BY PageIs
<1>2. ASSUME NEW t \in Txs, mined'[t] # NoBlock, Old(mined'[t])
      PROVE  mined'[t] = mined[t]
  <2>1. mined'[t] \in BlockRefs /\ job.began \in BlockRefs
    BY TypedIs DEF Typed, ExplorerTyped
  <2>2. /\ job.began[1] \in Nat /\ job.began[2] \in Nat
        /\ mined'[t][1] \in Nat /\ mined'[t][2] \in Nat
    BY <2>1, BlockRefsAre, BoundsAssumption
  <2> QED BY <1>2, <2>1, <2>2 DEF Grown, Old
<1>3. ASSUME NEW t \in DOMAIN page.rows
      PROVE  /\ t \in Txs /\ index[t] \div half = j
             /\ Made(page.rows[t])'
             /\ ~Below(mined'[t], from)
             /\ mined'[t] # NoBlock /\ Old(mined'[t]) => page.rows[t] = mined'[t]
  <2>1. Made(page.rows[t]) /\ ~Below(mined[t], from) /\ index[t] \div half = j
        /\ (mined[t] # NoBlock /\ Old(mined[t]) => page.rows[t] = mined[t])
    BY DEF PageSound
  <2>2. ~Below(mined'[t], from)
    BY <1>1, <2>1, GrownBelow
  <2>3. Made(page.rows[t])'
    BY <1>1, <2>1 DEF Grown
  <2> QED BY <1>1, <1>2, <2>1, <2>2, <2>3
<1>4. ASSUME NEW u \in DOMAIN page.rows, NEW t \in Txs, page.rows[u] # NoBlock,
             index[t] \div half = j, Below(mined'[t], page.rows[u])
      PROVE  \/ t \in DOMAIN page.rows /\ page.rows[t] = mined'[t]
             \/ Below(mined'[t], from)
  <2>1. Made(page.rows[u])
    BY DEF PageSound
  <2>2. mined'[t] = mined[t]
    BY <1>1, <1>4, <2>1, GrownBelow
  <2> QED BY <1>4, <2>2 DEF PageSound
<1> QED BY <1>3, <1>4 DEF PageSound, Old

LEMMA GrownCache ==
    ASSUME Typed, Typed', Grown, index' = index, half' = half, job' = job,
           Made(job.began), CacheSound
    PROVE  CacheSound'
<1> SUFFICES ASSUME NEW k \in DOMAIN job.cache
             PROVE  Made(k[2])' /\ PageSound(k[1], k[2], job.cache[k])'
  BY DEF CacheSound
<1> DEFINE j == k[1]
           from == k[2]
<1>1. PICK page \in PageSet : page = job.cache[k]
  BY TypedIs
<1>2. /\ j \in Nat /\ from \in BlockRefs /\ Made(from)
      /\ PageSound(j, from, page)
  BY <1>1, TypedIs DEF CacheSound
<1> HIDE DEF j, from
<1>3. Made(from)'
  BY <1>2 DEF Grown
<1>4. PageSound(j, from, page)'
  BY <1>2, GrownPage
<1>5. job' = job
  OBVIOUS
<1> QED BY <1>1, <1>3, <1>4, <1>5 DEF j, from

LEMMA GrownState ==
    ASSUME Typed, Typed', Grown, UNCHANGED <<index, rows, blocks>>,
           NEW s \in States, WellKept(s)
    PROVE  /\ WellKept(s)'
           /\ SoundState(s) => SoundState(s)'
<1>1. \A i \in DOMAIN s.batches : s.batches[i] \in BlockRefs
  BY StatesAre
<1>2. ASSUME NEW i \in DOMAIN s.batches
      PROVE  Made(s.batches[i])' /\ Kept(s.batches[i])'
  <2> DEFINE c == s.batches[i]
  <2>1. c \in BlockRefs /\ Made(c) /\ Kept(c)
    BY <1>1 DEF WellKept
  <2> HIDE DEF c
  <2>2. Made(c)'
    BY <2>1 DEF Grown
  <2>3. Kept(c)'
    BY <2>1 DEF Kept, InTable, Grown
  <2> QED BY <2>2, <2>3 DEF c
<1>3. ASSUME SoundState(s), NEW i \in DOMAIN s.batches
      PROVE  Sound(s.batches[i], i - 1, s.half)'
  <2> SUFFICES ASSUME NEW t \in Txs, index[t] \div s.half = i - 1,
                      Below(mined'[t], s.batches[i])
               PROVE  Stored(t)'
    BY DEF Sound
  <2>1. Made(s.batches[i])
    BY DEF WellKept
  <2>2. mined'[t] = mined[t]
    BY <1>1, <2>1, GrownBelow
  <2>3. Stored(t)
    BY <1>3, <2>2 DEF SoundState, Sound
  <2> QED BY <2>2, <2>3 DEF Stored
<1> QED BY <1>2, <1>3 DEF WellKept, SoundState

LEMMA GrownKeeps ==
    ASSUME Typed, Typed', ReadOn, Grown, ChainSound',
           UNCHANGED <<index, blocks, rows, saved, half, job, spoiled, strayed>>
    PROVE  ReadOn'
<1>1. TableSound'
  <2>1. \A b \in blocks : b \in BlockRefs /\ Made(b)
    BY TypedIs DEF ReadOn, TableSound
  <2>2. \A b \in blocks : Made(b)'
    BY <2>1 DEF Grown
  <2> QED BY <2>2 DEF ReadOn, TableSound, InTable
<1>2. SavedSound'
  <2>1. saved \in States /\ WellKept(saved) /\ Resized
        /\ (~spoiled /\ ~strayed => SoundState(saved))
    BY TypedIs DEF ReadOn, SavedSound
  <2>2. PICK s \in States : s = saved
    BY <2>1
  <2>3. WellKept(s)' /\ (SoundState(s) => SoundState(s)')
    BY <2>1, <2>2, GrownState
  <2>4. saved' = saved /\ UNCHANGED <<spoiled, strayed, half>>
    OBVIOUS
  <2> QED BY <2>1, <2>2, <2>3, <2>4 DEF SavedSound, Resized
<1>3. JobSound'
  <2> SUFFICES ASSUME job.pc # "idle" PROVE JobBase' /\ JobFlow'
    BY DEF JobSound
  <2>1. JobBase /\ JobFlow
    BY DEF ReadOn, JobSound
  <2>2. job \in Jobs /\ job.state \in States /\ job.began \in BlockRefs /\ job' = job
    BY TypedIs
  <2>3. Made(job.began)'
    <3>1. PICK c \in BlockRefs : c = job.began
      BY <2>2
    <3>2. Made(c)'
      BY <2>1, <3>1 DEF Grown, JobBase
    <3> QED BY <2>2, <3>1, <3>2
  <2>4. CacheSound'
    BY <2>1, GrownCache DEF JobBase
  <2>5. SavedOrOld'
    BY <2>1 DEF JobBase, SavedOrOld, Old
  <2>6. WellKept(job.state)' /\ (~spoiled /\ ~strayed => SoundState(job.state))'
    <3>1. PICK s \in States : s = job.state
      BY <2>2
    <3>2. WellKept(s)' /\ (SoundState(s) => SoundState(s)')
      BY <2>1, <3>1, GrownState DEF JobBase
    <3>3. job.state' = job.state /\ UNCHANGED <<spoiled, strayed>>
      BY <2>2
    <3> QED BY <2>1, <3>1, <3>2, <3>3 DEF JobBase
  <2>7. OnProbe' /\ Asked' /\ Working'
    BY <2>1, <2>2 DEF JobFlow, OnProbe, Asked, Working, InTable, InReach, BlockOf, Batches
  <2>8. Gone'
    <3> SUFFICES ASSUME job.pc = "reorganized"
                 PROVE  (job.at \in InReach)'
                        /\ (BlockOf(job.state, job.at) \notin ChainBlocks \cup {NoBlock})'
      BY <2>2 DEF Gone
    <3> DEFINE c == BlockOf(job.state, job.at)
    <3>1. c \notin ChainBlocks \cup {NoBlock} /\ job.at \in InReach
      BY <2>1 DEF JobFlow, Gone
    <3>2. c \in BlockRefs /\ Made(c)
      <4>1. job.at \in Nat /\ job.at + 1 \in DOMAIN job.state.batches
        BY <2>1, <2>2 DEF Jobs, JobFlow, Working, Batches
      <4>2. c = job.state.batches[job.at + 1] /\ c \in BlockRefs
        BY <2>2, <4>1, BlockOfIs
      <4> QED BY <2>1, <4>1, <4>2 DEF JobBase, WellKept
    <3>3. c \notin ChainBlocks'
      BY <3>1, <3>2 DEF Grown
    <3>4. c' = c
      BY <2>2 DEF BlockOf
    <3> QED BY <2>2, <3>1, <3>3, <3>4 DEF InReach
  <2> QED BY <2>3, <2>4, <2>5, <2>6, <2>7, <2>8 DEF JobBase, JobFlow
<1> QED BY <1>1, <1>2, <1>3 DEF ReadOn

\* Steps that leave the explorer, the indices and the size alone.
Still == UNCHANGED <<index, chain, mined, mempool, reorgs, half>>

LEMMA StillIs ==
    ASSUME Still
    PROVE  /\ index' = index /\ mined' = mined /\ half' = half /\ reorgs' = reorgs
           /\ ChainBlocks' = ChainBlocks
           /\ ChainSound => ChainSound'
           /\ \A c : Made(c)' <=> Made(c)
BY DEF Still, ChainBlocks, ChainSound, Made

LEMMA StillState ==
    ASSUME Still, NEW s
    PROVE  /\ blocks \subseteq blocks' /\ WellKept(s) => WellKept(s)'
           /\ (\A t \in Txs : Stored(t) => Stored(t)') /\ SoundState(s) => SoundState(s)'
<1>1. ASSUME blocks \subseteq blocks', WellKept(s) PROVE WellKept(s)'
  <2>1. ASSUME NEW i \in DOMAIN s.batches
        PROVE  Made(s.batches[i])' /\ Kept(s.batches[i])'
    BY <1>1, StillIs DEF WellKept, Kept, InTable
  <2> QED BY <2>1 DEF WellKept
<1>2. ASSUME \A t \in Txs : Stored(t) => Stored(t)', SoundState(s)
      PROVE  SoundState(s)'
  BY <1>2, StillIs DEF SoundState, Sound
<1> QED BY <1>1, <1>2

\* A state with more batches, that begin at the beginning.
Extends(e, s) ==
    /\ e.half = s.half
    /\ DOMAIN s.batches \subseteq DOMAIN e.batches
    /\ \A i \in DOMAIN s.batches : e.batches[i] = s.batches[i]
    /\ \A i \in DOMAIN e.batches \ DOMAIN s.batches : e.batches[i] = NoBlock

LEMMA ExtendsIs ==
    ASSUME Typed, ChainSound, NEW s \in States, NEW e \in States, Extends(e, s)
    PROVE  /\ WellKept(s) => WellKept(e)
           /\ SoundState(s) => SoundState(e)
           /\ \A j \in Nat : BlockOf(e, j) = BlockOf(s, j)
<1>1. WellKept(s) => WellKept(e)
  BY ChainMade DEF Extends, WellKept, Kept, InTable
<1>2. \A t \in Txs : ~Below(mined[t], NoBlock)
  <2>1. \A t \in Txs : mined[t][1] \in 0..MaxHeight
    BY TypedIs, BlockRefsAre
  <2> QED BY <2>1, BoundsAssumption DEF Below, NoBlock
<1>3. ASSUME SoundState(s), NEW i \in DOMAIN e.batches
      PROVE  Sound(e.batches[i], i - 1, e.half)
  <2>1. CASE i \in DOMAIN s.batches
    BY <1>3, <2>1 DEF SoundState, Extends
  <2>2. CASE i \notin DOMAIN s.batches
    BY <1>2, <2>2 DEF Sound, Extends
  <2> QED BY <2>1, <2>2
<1>4. ASSUME NEW j \in Nat PROVE BlockOf(e, j) = BlockOf(s, j)
  <2>1. CASE j + 1 \in DOMAIN s.batches
    <3>1. j + 1 \in DOMAIN e.batches /\ e.batches[j + 1] = s.batches[j + 1]
      BY <2>1 DEF Extends
    <3>2. BlockOf(s, j) = s.batches[j + 1] /\ BlockOf(e, j) = e.batches[j + 1]
      BY <2>1, <3>1, BlockOfIs
    <3> QED BY <3>1, <3>2
  <2>2. CASE j + 1 \notin DOMAIN s.batches /\ j + 1 \in DOMAIN e.batches
    BY <2>2, BlockOfIs DEF Extends
  <2>3. CASE j + 1 \notin DOMAIN s.batches /\ j + 1 \notin DOMAIN e.batches
    BY <2>3, BlockOfIs
  <2> QED BY <2>1, <2>2, <2>3
<1> QED BY <1>1, <1>3, <1>4 DEF SoundState

LEMMA ExtendsSame ==
    ASSUME NEW s
    PROVE  Extends(s, s)
BY DEF Extends

\* Entering a batch behind the last one adds that batch to the state.
LEMMA EnterExtends ==
    ASSUME NEW b \in Jobs, NEW j \in Nat, j <= Len(b.state.batches)
    PROVE  /\ Extends(EnterBatch(b, j).state, b.state)
           /\ j + 1 \in DOMAIN EnterBatch(b, j).state.batches
<1> DEFINE e == EnterBatch(b, j)
           s == b.state.batches
<1>1. /\ e.state.half = b.state.half
      /\ e.state.batches = IF j >= Len(s) THEN Append(s, NoBlock) ELSE s
  BY EnterBatchIs
<1>2. s \in Seq(BlockRefs) /\ Len(s) \in Nat /\ DOMAIN s = 1..Len(s)
  BY DEF Jobs, States
<1> HIDE DEF e, s
<1>3. CASE j >= Len(s)
  <2>1. j = Len(s)
    BY <1>2, <1>3 DEF s
  <2>2. /\ e.state.batches = Append(s, NoBlock)
        /\ DOMAIN Append(s, NoBlock) = 1..(Len(s) + 1)
        /\ \A i \in 1..Len(s) : Append(s, NoBlock)[i] = s[i]
        /\ Append(s, NoBlock)[Len(s) + 1] = NoBlock
    BY <1>1, <1>2, <1>3, BlockRefsAre
  <2>3. 1..(Len(s) + 1) = 1..Len(s) \cup {Len(s) + 1}
    BY <1>2
  <2> QED BY <1>1, <1>2, <2>1, <2>2, <2>3 DEF Extends, e, s
<1>4. CASE ~(j >= Len(s))
  <2>1. e.state.batches = s /\ j + 1 \in DOMAIN s
    BY <1>1, <1>2, <1>4
  <2> QED BY <1>1, <2>1 DEF Extends, e, s
<1> QED BY <1>3, <1>4

\* The cache is still sound if the job is the same.
LEMMA StillCache ==
    ASSUME Still, CacheSound, job'.cache = job.cache, job'.began = job.began
    PROVE  CacheSound'
<1>1. \A b : Old(b)' <=> Old(b)
  BY DEF Old
<1> QED BY <1>1, StillIs DEF CacheSound, PageSound

LEMMA BaseKept ==
    ASSUME Typed, Typed', ChainSound, Still, JobBase,
           blocks \subseteq blocks', \A t \in Txs : Stored(t) => Stored(t)',
           UNCHANGED <<spoiled, strayed>>,
           Extends(job'.state, job.state), job'.began = job.began, CacheSound',
           saved' \in {saved, job.state, job'.state}
    PROVE  JobBase'
<1>1. PICK s \in States, e \in States : s = job.state /\ e = job'.state
  BY TypedIs DEF Typed, JobTyped, Jobs
<1>2. WellKept(e) /\ (~spoiled /\ ~strayed => SoundState(e))
  BY <1>1, ExtendsIs DEF JobBase
<1>3. WellKept(e)' /\ (~spoiled /\ ~strayed => SoundState(e)')
  BY <1>2, StillState
<1>4. WellKept(job.state)' /\ (~spoiled /\ ~strayed => SoundState(job.state))'
  BY <1>1, <1>3
<1>5. Made(job.began)'
  BY StillIs DEF JobBase
<1>6. SavedOrOld'
  <2>1. CASE saved' = saved
    BY <2>1 DEF JobBase, SavedOrOld, Extends, Old
  <2>2. CASE saved' \in {job.state, job'.state}
    BY <2>2 DEF SavedOrOld, Extends
  <2> QED BY <2>1, <2>2
<1> QED BY <1>4, <1>5, <1>6 DEF JobBase

LEMMA SavedKept ==
    ASSUME Typed, Typed', Still, SavedSound, blocks \subseteq blocks',
           \A t \in Txs : Stored(t) => Stored(t)',
           UNCHANGED <<spoiled, strayed, saved>>
    PROVE  SavedSound'
<1>1. PICK s : s = saved
  OBVIOUS
<1>2. /\ WellKept(s)' /\ (~spoiled /\ ~strayed => SoundState(s)')
  BY <1>1, StillState DEF SavedSound
<1>3. Resized'
  BY StillIs DEF SavedSound, Resized
<1>4. s = saved'
  BY <1>1
<1> QED BY <1>1, <1>2, <1>3, <1>4 DEF SavedSound

\* The state of a job is saved, or the one it had.
LEMMA SavedFromJob ==
    ASSUME Typed, Typed', Still, JobBase, job.pc # "idle", blocks \subseteq blocks',
           \A t \in Txs : Stored(t) => Stored(t)',
           UNCHANGED <<spoiled, strayed>>, saved' = job.state
    PROVE  SavedSound'
<1>1. PICK s : s = job.state
  OBVIOUS
<1>2. WellKept(s)' /\ (~spoiled /\ ~strayed => SoundState(s)')
  BY <1>1, StillState DEF JobBase
<1>3. s.half = half
  BY <1>1 DEF Typed, JobTyped
<1>4. Resized'
  BY <1>1, <1>3, StillIs DEF Resized
<1> QED BY <1>1, <1>2, <1>4 DEF SavedSound

LEMMA SavedWithJob ==
    ASSUME Typed', JobBase', job'.pc # "idle", saved' = job'.state
    PROVE  SavedSound'
<1>1. saved'.half = half'
  BY DEF Typed, JobTyped
<1> QED BY <1>1 DEF SavedSound, JobBase, Resized

LEMMA TableKept ==
    ASSUME Still, TableSound, blocks' = blocks, rows' = rows
    PROVE  TableSound'
BY StillIs DEF TableSound, InTable

\* A job whose flow is like that of the one before.
LEMMA JobNotIdle ==
    ASSUME ReadOn, job.pc # "idle"
    PROVE  JobBase /\ JobFlow
BY DEF ReadOn, JobSound

\* What the explorer answers when it knows the block.
LEMMA AnswerSound ==
    ASSUME Typed, ChainSound, NEW j \in Nat, NEW from \in BlockRefs, Knows(from),
           NEW page \in Answers(j, from)
    PROVE  PageSound(j, from, page)
<1>1. /\ DOMAIN page.rows \subseteq DOMAIN Listed(j, from)
      /\ \A t \in DOMAIN page.rows : page.rows[t] = mined[t]
      /\ \A t \in DOMAIN page.rows, u \in DOMAIN Listed(j, from) \ DOMAIN page.rows :
            Position(mined[t]) <= Position(mined[u])
  BY AnswersAre DEF Typed
<1>2. DOMAIN Listed(j, from) =
        {u \in Txs : index[u] \div half = j /\
                        (u \in mempool \/
                         (mined[u] # NoBlock /\ mined[u][1] >= from[1]))}
  BY DEF Listed
<1>3. /\ \A t \in Txs : mined[t] \in BlockRefs
      /\ \A b \in BlockRefs : b[1] \in Nat /\ b[2] \in Nat /\ (b[1] = 0 => b = NoBlock)
  BY TypedIs, BlockRefsAre, BoundsAssumption
<1>4. ASSUME NEW t \in DOMAIN page.rows
      PROVE  /\ t \in Txs /\ index[t] \div half = j /\ page.rows[t] = mined[t]
             /\ Made(page.rows[t]) /\ ~Below(mined[t], from)
  <2>1. t \in Txs /\ index[t] \div half = j /\ page.rows[t] = mined[t]
        /\ (t \in mempool \/ mined[t][1] >= from[1])
    BY <1>1, <1>2
  <2>2. ~Below(mined[t], from)
    BY <1>3, <2>1 DEF Below, ChainSound
  <2> QED BY <2>1, <2>2, ChainMade
\* What is below a block of the page is listed, and not cut off, or below "from".
<1>5. ASSUME NEW u \in DOMAIN page.rows, NEW t \in Txs, page.rows[u] # NoBlock,
             index[t] \div half = j, Below(mined[t], page.rows[u]),
             t \notin DOMAIN page.rows
      PROVE  Below(mined[t], from)
  <2>1. page.rows[u] = mined[u] /\ u \in Txs /\ mined[t] # NoBlock
        /\ mined[t][1] < mined[u][1]
    BY <1>4, <1>5 DEF Below
  <2>2. t \notin DOMAIN Listed(j, from)
    <3> SUFFICES ASSUME t \in DOMAIN Listed(j, from) PROVE FALSE
      OBVIOUS
    <3>1. mined[u] # NoBlock /\ Position(mined[u]) <= Position(mined[t])
      BY <1>1, <1>4, <1>5, <2>1
    <3> QED BY <1>3, <2>1, <3>1 DEF Position
  <2>3. mined[t][1] < from[1]
    BY <1>2, <1>3, <1>5, <2>1, <2>2
  <2>4. from # NoBlock
    BY <1>3, <2>3 DEF NoBlock
  <2>5. from \in ChainBlocks /\ mined[t] \in ChainBlocks
    BY <2>1, <2>4 DEF Knows, ChainSound
  <2>6. PICK h \in 1..Len(chain), k \in 1..Len(chain) :
            from = <<h, chain[h]>> /\ mined[t] = <<k, chain[k]>>
    BY <2>5 DEF ChainBlocks
  <2>7. k <= h
    BY <2>3, <2>6
  <2>8. mined[t][2] <= from[2]
    BY <2>6, <2>7 DEF ChainSound
  <2> QED BY <2>1, <2>3, <2>8 DEF Below
<1> QED BY <1>4, <1>5 DEF PageSound

LEMMA CacheGrows ==
    ASSUME Still, CacheSound, NEW j, NEW from, NEW page, Made(from),
           PageSound(j, from, page), job'.began = job.began,
           job'.cache = With(job.cache, <<j, from>>, page)
    PROVE  CacheSound'
<1>1. \A b : Old(b)' <=> Old(b)
  BY DEF Old
<1>2. \A i, f, p : PageSound(i, f, p)' <=> PageSound(i, f, p)
  BY <1>1, StillIs DEF PageSound
<1>3. ASSUME NEW k \in DOMAIN job'.cache
      PROVE  Made(k[2]) /\ PageSound(k[1], k[2], job'.cache[k])
  <2>1. CASE k = <<j, from>>
    <3>1. job'.cache[k] = page
      BY <1>3, <2>1 DEF With, Over
    <3> QED BY <2>1, <3>1
  <2>2. CASE k # <<j, from>>
    <3>1. k \in DOMAIN job.cache /\ job'.cache[k] = job.cache[k]
      BY <1>3, <2>2 DEF With, Over
    <3> QED BY <3>1 DEF CacheSound
  <2> QED BY <2>1, <2>2
<1>4. \A k \in DOMAIN job'.cache :
        Made(k[2])' /\ PageSound(k[1], k[2], job.cache[k])'
  <2> SUFFICES ASSUME NEW k \in DOMAIN job'.cache
               PROVE  Made(k[2])' /\ PageSound(k[1], k[2], job.cache[k])'
    OBVIOUS
  <2>1. PICK p : p = job'.cache[k]
    OBVIOUS
  <2>2. PageSound(k[1], k[2], p)'
    BY <1>2, <1>3, <2>1
  <2> QED BY <1>3, <2>1, <2>2, StillIs
<1> QED BY <1>4 DEF CacheSound

\* The requests are made, or all are answered and the first batch begins.
LEMMA AwaitFlow ==
    ASSUME Typed, ChainSound, Still, blocks' = blocks, NEW b \in Jobs,
           job' = AwaitAnswers(b), b.state = job.state, b.reach = job.reach,
           \A j \in InReach : j \in b.asked \/ InTable(BlockOf(job.state, j))
    PROVE  /\ JobFlow' /\ Extends(job'.state, job.state)
           /\ job'.began = b.began /\ job'.cache = b.cache /\ job'.pc # "idle"
<1>1. job.reach \in Nat /\ half \in Nat \ {0} /\ b.state \in States
  BY TypedIs DEF Jobs
<1>2. InReach \subseteq Nat
  BY DEF InReach
<1>3. CASE job' = EnterBatch(b, 0) /\ b.asked = {}
  <2>1. /\ Extends(job'.state, job.state) /\ 1 \in DOMAIN job'.state.batches
    BY <1>1, <1>3, EnterExtends, StatesAre
  <2>2. /\ job'.pc = "batch" /\ job'.at = 0 /\ job'.reach = job.reach
        /\ job'.state \in States /\ job'.began = b.began /\ job'.cache = b.cache
    <3>1. /\ job' \in Jobs /\ job'.pc = "batch" /\ job'.at = 0
          /\ job'.reach = b.reach /\ job'.cache = b.cache /\ job'.began = b.began
      BY <1>3, EnterBatchIs
    <3> QED BY <3>1 DEF Jobs
  <2>3. \A j \in Nat : BlockOf(job'.state, j) = BlockOf(job.state, j)
    <3>1. PICK s \in States, e \in States : s = job.state /\ e = job'.state
      BY <1>1, <2>2
    <3> QED BY <2>1, <3>1, ExtendsIs
  <2>4. InReach' = InReach
    BY <2>2, StillIs DEF InReach
  <2>5. Working'
    BY <1>2, <1>3, <2>1, <2>2, <2>3, <2>4 DEF Working, InTable
  <2> QED BY <2>1, <2>2, <2>5 DEF JobFlow, OnProbe, Asked, Gone
<1>4. CASE job' = [b EXCEPT !.pc = "ask"]
  <2>1. /\ job'.pc = "ask" /\ job'.asked = b.asked /\ job'.reach = job.reach
        /\ job'.state = job.state /\ job'.began = b.began /\ job'.cache = b.cache
    BY <1>4 DEF Jobs
  <2>2. InReach' = InReach
    BY <2>1, StillIs DEF InReach
  <2>3. Asked'
    BY <2>1, <2>2 DEF Asked, InTable
  <2> QED BY <2>1, <2>3, ExtendsSame DEF JobFlow, OnProbe, Working, Gone, Batches
<1> QED BY <1>3, <1>4, AwaitIs

LEMMA SameStored == UNCHANGED <<rows, mined>> => \A t \in Txs : Stored(t) => Stored(t)'
BY DEF Stored

-----------------------------------------------------------------------------
(* Every step of a job keeps it so.                                        *)

LEMMA AnswerCurrentBlockReadsOn ==
    ASSUME Typed, Typed', ReadOn, AnswerCurrentBlock
    PROVE  ReadOn'
<1>1. /\ Still /\ UNCHANGED <<rows, saved, spoiled, strayed>> /\ job.pc = "head"
      /\ blocks' = blocks \cup {<<Len(chain), chain[Len(chain)]>>}
      /\ job' = [job EXCEPT !.pc = "probe", !.probe = 0, !.reach = half]
  BY DEF AnswerCurrentBlock, explorerVars, historyVars, Still
<1>2. JobBase /\ JobFlow /\ ChainSound /\ TableSound /\ SavedSound
  BY <1>1, JobNotIdle DEF ReadOn
<1>3. /\ job'.pc = "probe" /\ job'.state = job.state /\ job'.began = job.began
      /\ job'.cache = job.cache
  BY <1>1, TypedIs DEF Jobs
<1>4. ChainSound' /\ CacheSound' /\ \A t \in Txs : Stored(t) => Stored(t)'
  BY <1>1, <1>2, <1>3, StillIs, StillCache, SameStored DEF JobBase
<1>5. TableSound'
  <2>1. <<Len(chain), chain[Len(chain)]>> \in ChainBlocks
    BY ChainIs DEF ChainBlocks
  <2>2. \A b \in blocks' : Made(b)
    BY <1>1, <1>2, <2>1, ChainMade DEF TableSound
  <2> QED BY <1>1, <1>2, <2>2, StillIs DEF TableSound, InTable
<1>6. JobBase' /\ SavedSound'
  BY <1>1, <1>2, <1>3, <1>4, ExtendsSame, BaseKept, SavedKept
<1>7. JobFlow'
  BY <1>1, <1>2, <1>3 DEF JobFlow, OnProbe, Asked, Working, Gone, Batches
<1> QED BY <1>4, <1>5, <1>6, <1>7 DEF ReadOn, JobSound

LEMMA AnswerProbeReadsOn ==
    ASSUME Typed, Typed', ReadOn, AnswerProbe
    PROVE  ReadOn'
<1>1. PICK page \in Answers(job.probe, NoBlock) :
        LET cached == [job EXCEPT !.cache = With(@, <<job.probe, NoBlock>>, page)] IN
        \/ job' = [cached EXCEPT !.probe = (@ + 1) * 2,
                                 !.reach = (job.probe * 2 + 3) * half]
        \/ job' = AwaitAnswers([cached EXCEPT !.asked =
                        {j \in 0..(job.reach \div half - 1) :
                            Key(job.state, j) \notin DOMAIN cached.cache}])
  BY DEF AnswerProbe
<1>2. /\ Still /\ UNCHANGED <<rows, blocks, saved, spoiled, strayed>>
      /\ job.pc = "probe"
  BY DEF AnswerProbe, explorerVars, databaseVars, historyVars, Still
<1>3. JobBase /\ JobFlow /\ ChainSound /\ TableSound /\ SavedSound
  BY <1>2, JobNotIdle DEF ReadOn
<1> DEFINE key == <<job.probe, NoBlock>>
           cache == With(job.cache, key, page)
           cached == [job EXCEPT !.cache = cache]
           missing == {j \in InReach : Key(job.state, j) \notin DOMAIN cache}
<1>4. job.probe \in Nat /\ key \in Nat \X BlockRefs /\ NoBlock \in BlockRefs
  BY TypedIs, BlockRefsAre DEF Jobs
<1>5. page \in PageSet /\ PageSound(job.probe, NoBlock, page)
  BY <1>3, <1>4, AnswersAre, AnswerSound DEF Typed, Knows
<1>6. cache \in Caches
  BY <1>4, <1>5, WithCache, TypedIs DEF Jobs
<1>7. \A k \in DOMAIN cache : k[2] = NoBlock
  BY <1>2, <1>3 DEF JobFlow, OnProbe, With, Over
<1>8. /\ cached \in Jobs /\ cached.state = job.state /\ cached.reach = job.reach
      /\ cached.pc = "probe" /\ cached.began = job.began /\ cached.cache = cache
  <2> HIDE DEF cache
  <2> QED BY <1>2, <1>6, TypedIs DEF Jobs
<1>9. \/ job' = [cached EXCEPT !.probe = (@ + 1) * 2,
                               !.reach = (job.probe * 2 + 3) * half]
      \/ job' = AwaitAnswers([cached EXCEPT !.asked = missing])
  BY <1>1, <1>8 DEF InReach
<1>10. ChainSound' /\ TableSound' /\ SavedSound' /\ \A t \in Txs : Stored(t) => Stored(t)'
  BY <1>2, <1>3, StillIs, TableKept, SavedKept, SameStored
<1>11. ASSUME job'.cache = cache, job'.began = job.began,
              Extends(job'.state, job.state)
       PROVE  JobBase'
  <2>1. Made(NoBlock) /\ CacheSound
    BY <1>3, ChainMade DEF JobBase
  <2>2. CacheSound'
    BY <1>2, <1>5, <1>11, <2>1, CacheGrows
  <2> QED BY <1>2, <1>3, <1>10, <1>11, <2>2, BaseKept
<1> HIDE DEF cache, cached, missing
<1>12. CASE job' = [cached EXCEPT !.probe = (@ + 1) * 2,
                                  !.reach = (job.probe * 2 + 3) * half]
  <2>1. /\ job'.pc = "probe" /\ job'.state = job.state /\ job'.began = job.began
        /\ job'.cache = cache
    BY <1>8, <1>12 DEF Jobs
  <2>2. JobBase'
    BY <1>11, <2>1, ExtendsSame
  <2>3. JobFlow'
    BY <1>7, <2>1 DEF JobFlow, OnProbe, Asked, Working, Gone, Batches
  <2> QED BY <1>10, <2>2, <2>3 DEF ReadOn, JobSound
<1>13. CASE job' = AwaitAnswers([cached EXCEPT !.asked = missing])
  <2> DEFINE b == [cached EXCEPT !.asked = missing]
  <2>1. missing \subseteq Nat
    BY DEF missing, InReach
  <2>2. /\ b \in Jobs /\ b.state = job.state /\ b.reach = job.reach
        /\ b.began = job.began /\ b.cache = cache /\ b.asked = missing
    BY <1>8, <2>1 DEF Jobs
  <2>3. job' = AwaitAnswers(b)
    BY <1>13
  <2> HIDE DEF b
  <2>4. ASSUME NEW j \in InReach
        PROVE  j \in b.asked \/ InTable(BlockOf(job.state, j))
    <3>1. CASE Key(job.state, j) \in DOMAIN cache
      BY <1>7, <3>1 DEF Key, InTable
    <3>2. CASE Key(job.state, j) \notin DOMAIN cache
      BY <2>2, <3>2 DEF missing
    <3> QED BY <3>1, <3>2
  <2>5. /\ JobFlow' /\ Extends(job'.state, job.state)
        /\ job'.began = b.began /\ job'.cache = b.cache /\ job'.pc # "idle"
    BY <1>2, <1>3, <2>2, <2>3, <2>4, AwaitFlow
  <2>6. JobBase'
    BY <1>11, <2>2, <2>5
  <2> QED BY <1>10, <2>5, <2>6 DEF ReadOn, JobSound
<1> QED BY <1>9, <1>12, <1>13

LEMMA AnswerBatchReadsOn ==
    ASSUME Typed, Typed', ReadOn, NEW j \in job.asked, AnswerBatch(j)
    PROVE  ReadOn'
<1> DEFINE from == BlockOf(job.state, j)
           key == Key(job.state, j)
<1>1. PICK page \in Answers(j, from) :
        job' = AwaitAnswers([job EXCEPT !.cache = With(@, key, page),
                                        !.asked = @ \ {j}])
  BY DEF AnswerBatch
<1>2. /\ Still /\ UNCHANGED <<rows, blocks, saved, spoiled, strayed>>
      /\ job.pc = "ask" /\ Knows(from)
  BY DEF AnswerBatch, explorerVars, databaseVars, historyVars, Still
<1>3. JobBase /\ JobFlow /\ ChainSound /\ TableSound /\ SavedSound
  BY <1>2, JobNotIdle DEF ReadOn
<1>4. /\ j \in Nat /\ from \in BlockRefs /\ key = <<j, from>>
      /\ key \in Nat \X BlockRefs /\ job \in Jobs /\ job.state \in States
  BY TypedIs, BlockOfIs DEF Jobs, Key
<1>5. page \in PageSet /\ PageSound(j, from, page)
  <2> HIDE DEF from
  <2> QED BY <1>2, <1>3, <1>4, AnswersAre, AnswerSound DEF Typed
<1>6. Made(from) /\ InTable(from)
  <2>1. CASE j + 1 \in DOMAIN job.state.batches
    <3>1. from = job.state.batches[j + 1]
      BY <1>4, <2>1, BlockOfIs
    <3>2. Made(from) /\ Kept(from)
      BY <1>3, <2>1, <3>1 DEF JobBase, WellKept
    <3> QED BY <1>2, <3>2 DEF Kept, Knows, InTable
  <2>2. CASE j + 1 \notin DOMAIN job.state.batches
    <3>1. from = NoBlock
      BY <1>4, <2>2, BlockOfIs
    <3> QED BY <1>3, <3>1, ChainMade DEF InTable
  <2> QED BY <2>1, <2>2
<1> DEFINE cache == With(job.cache, key, page)
           rest == job.asked \ {j}
           b == [job EXCEPT !.cache = cache, !.asked = rest]
<1>7. cache \in Caches /\ rest \subseteq Nat
  BY <1>4, <1>5, WithCache DEF Jobs
<1>8. job' = AwaitAnswers(b)
  BY <1>1
<1>9. /\ b \in Jobs /\ b.state = job.state /\ b.reach = job.reach
      /\ b.began = job.began /\ b.cache = cache /\ b.asked = rest
  <2> HIDE DEF cache, rest
  <2> QED BY <1>4, <1>7 DEF Jobs
<1> HIDE DEF b
<1>10. ASSUME NEW i \in InReach
       PROVE  i \in b.asked \/ InTable(BlockOf(job.state, i))
  BY <1>2, <1>3, <1>6, <1>9 DEF JobFlow, Asked
<1>11. /\ JobFlow' /\ Extends(job'.state, job.state)
       /\ job'.began = job.began /\ job'.cache = cache /\ job'.pc # "idle"
  <2> HIDE DEF cache, rest
  <2> QED BY <1>2, <1>3, <1>8, <1>9, <1>10, AwaitFlow
<1>12. ChainSound' /\ TableSound' /\ SavedSound' /\ \A t \in Txs : Stored(t) => Stored(t)'
  BY <1>2, <1>3, StillIs, TableKept, SavedKept, SameStored
<1>13. CacheSound'
  <2>1. CacheSound /\ job'.cache = With(job.cache, <<j, from>>, page)
    BY <1>3, <1>4, <1>11 DEF JobBase
  <2> HIDE DEF from
  <2> QED BY <1>2, <1>5, <1>6, <1>11, <2>1, CacheGrows
<1>14. JobBase'
  BY <1>2, <1>3, <1>11, <1>12, <1>13, BaseKept
<1> QED BY <1>11, <1>12, <1>14 DEF ReadOn, JobSound

\* The job ends and nothing is stored.
LEMMA JobOverReadsOn ==
    ASSUME Typed, Typed', ReadOn, Still, job' = NoJob,
           UNCHANGED <<rows, blocks, saved, spoiled, strayed>>
    PROVE  ReadOn'
<1>1. ChainSound /\ TableSound /\ SavedSound
  BY DEF ReadOn
<1>2. ChainSound' /\ TableSound' /\ SavedSound'
  BY <1>1, StillIs, TableKept, SavedKept, SameStored
<1> QED BY <1>2, NoJobIs DEF ReadOn, JobSound

\* The job is where it was, or comes to its end.
LEMMA BatchOverReadsOn ==
    ASSUME Typed, Typed', ReadOn, SkipBatch \/ RefusePage \/ RequestFails
                \/ \E page \in Pages : InsertFails(page)
    PROVE  ReadOn'
<1>1. /\ Still /\ UNCHANGED <<rows, blocks, saved, spoiled, strayed>>
      /\ job.pc = "batch"
      /\ job'.state = job.state /\ job'.began = job.began /\ job'.cache = job.cache
      /\ job'.reach = job.reach /\ job'.at = job.at
      /\ \/ job'.pc = "stored" \/ job'.pc = "mempool"
         \/ RefusePage /\ job'.pc = "reorganized"
  <2>1. job \in Jobs
    BY TypedIs
  <2>2. CASE SkipBatch \/ RefusePage \/ RequestFails
    BY <2>1, <2>2
    DEF SkipBatch, RefusePage, RequestFails, InRange, explorerVars, databaseVars,
        historyVars, Still, Jobs
  <2>3. ASSUME NEW page \in Pages, InsertFails(page) PROVE <1>1!:
    BY <2>1, <2>3
    DEF InsertFails, InRange, explorerVars, databaseVars, historyVars, Still, Jobs
  <2> QED BY <2>2, <2>3
<1>2. JobBase /\ JobFlow /\ ChainSound /\ TableSound /\ SavedSound
  BY <1>1, JobNotIdle DEF ReadOn
<1>3. /\ ChainSound' /\ TableSound' /\ SavedSound' /\ CacheSound'
      /\ \A t \in Txs : Stored(t) => Stored(t)'
  BY <1>1, <1>2, StillIs, TableKept, SavedKept, SameStored, StillCache DEF JobBase
<1>4. JobBase'
  BY <1>1, <1>2, <1>3, ExtendsSame, BaseKept
<1>5. InReach' = InReach /\ Working'
  <2>1. InReach' = InReach
    BY <1>1, StillIs DEF InReach
  <2> QED BY <1>1, <1>2, <2>1 DEF JobFlow, Working, Batches, InTable, BlockOf
<1>6. Gone'
  <2> SUFFICES ASSUME RefusePage
               PROVE  /\ job.at \in InReach
                      /\ BlockOf(job.state, job.at) \notin ChainBlocks \cup {NoBlock}
    BY <1>1, <1>5, StillIs DEF Gone, BlockOf
  <2>1. job.at * half < job.reach /\ ~IsCached /\ Pages = {}
    BY DEF RefusePage, InRange
  <2>2. job.at \in InReach
    <3>1. PICK n \in Nat : job.reach = n * half
      BY DEF Typed, JobTyped
    <3>2. half \in Nat \ {0} /\ job.at \in Nat
      BY TypedIs DEF Jobs
    <3>3. job.at < n /\ job.reach \div half = n
      BY <2>1, <3>1, <3>2, Division
    <3> QED BY <3>2, <3>3 DEF InReach
  <2>3. ~Knows(BlockOf(job.state, job.at))
    <3> SUFFICES ASSUME Knows(BlockOf(job.state, job.at)) PROVE FALSE
      OBVIOUS
    <3>1. [rows |-> Listed(job.at, BlockOf(job.state, job.at)), more |-> FALSE]
            \in Answers(job.at, BlockOf(job.state, job.at))
      BY DEF Answers
    <3>2. Pages = Answers(job.at, BlockOf(job.state, job.at))
      BY <2>1 DEF Pages
    <3> QED BY <2>1, <3>1, <3>2
  <2> QED BY <2>2, <2>3 DEF Knows
<1>7. JobFlow'
  BY <1>1, <1>5, <1>6 DEF JobFlow, OnProbe, Asked
<1> QED BY <1>3, <1>4, <1>7 DEF ReadOn, JobSound

\* The state of the job is saved, and it goes on with the next batch.
LEMMA EndBatchReadsOn ==
    ASSUME Typed, Typed', ReadOn, EndBatch
    PROVE  ReadOn'
<1>1. /\ Still /\ UNCHANGED <<rows, blocks, spoiled, strayed>>
      /\ job.pc = "stored" /\ saved' = job.state
      /\ \/ job' = EnterBatch(job, job.at + 1)
         \/ job' = [job EXCEPT !.pc = "mempool"]
  BY DEF EndBatch, explorerVars, databaseVars, historyVars, Still
<1>2. JobBase /\ JobFlow /\ ChainSound /\ TableSound
  BY <1>1, JobNotIdle DEF ReadOn
<1>3. ChainSound' /\ TableSound' /\ \A t \in Txs : Stored(t) => Stored(t)'
  BY <1>1, <1>2, StillIs, TableKept, SameStored
<1>4. SavedSound'
  BY <1>1, <1>2, <1>3, SavedFromJob
<1>5. job \in Jobs /\ job.state \in States /\ job.at \in Nat
      /\ job.at + 1 \in DOMAIN job.state.batches
  BY <1>1, <1>2, TypedIs DEF Jobs, JobFlow, Working, Batches
<1>6. CASE job' = EnterBatch(job, job.at + 1)
  <2>1. job.at + 1 \in Nat /\ job.at + 1 <= Len(job.state.batches)
    BY <1>5, StatesAre
  <2>2. /\ Extends(job'.state, job.state)
        /\ job.at + 1 + 1 \in DOMAIN job'.state.batches
    BY <1>5, <1>6, <2>1, EnterExtends
  <2>3. /\ job'.pc = "batch" /\ job'.at = job.at + 1 /\ job'.reach = job.reach
        /\ job' \in Jobs /\ job'.began = job.began /\ job'.cache = job.cache
    BY <1>5, <1>6, <2>1, EnterBatchIs
  <2>4. JobBase'
    <3>1. CacheSound'
      BY <1>1, <1>2, <2>3, StillCache DEF JobBase
    <3> QED BY <1>1, <1>2, <1>3, <2>2, <2>3, <3>1, BaseKept
  <2>5. \A j \in Nat : BlockOf(job'.state, j) = BlockOf(job.state, j)
    <3>1. PICK s \in States, e \in States : s = job.state /\ e = job'.state
      BY <1>5, <2>3 DEF Jobs
    <3> QED BY <1>2, <2>2, <3>1, ExtendsIs
  <2>6. InReach' = InReach /\ InReach \subseteq Nat
    BY <1>1, <2>3, StillIs DEF InReach
  <2>7. \A j \in InReach : InTable(BlockOf(job.state, j))
    BY <1>1, <1>2 DEF JobFlow, Working, Batches
  <2>8. Working'
    BY <1>1, <2>2, <2>3, <2>5, <2>6, <2>7 DEF Working, InTable
  <2> QED BY <1>3, <1>4, <2>3, <2>4, <2>8
          DEF ReadOn, JobSound, JobFlow, OnProbe, Asked, Gone
<1>7. CASE job' = [job EXCEPT !.pc = "mempool"]
  <2>1. /\ job'.pc = "mempool" /\ job'.state = job.state /\ job'.began = job.began
        /\ job'.cache = job.cache
    BY <1>5, <1>7 DEF Jobs
  <2>2. JobBase'
    <3>1. CacheSound'
      BY <1>1, <1>2, <2>1, StillCache DEF JobBase
    <3> QED BY <1>1, <1>2, <1>3, <2>1, <3>1, ExtendsSame, BaseKept
  <2> QED BY <1>3, <1>4, <2>1, <2>2
          DEF ReadOn, JobSound, JobFlow, OnProbe, Asked, Working, Gone, Batches
<1> QED BY <1>1, <1>6, <1>7

\* The rows of a page are inserted.
LEMMA InsertIs ==
    ASSUME NEW page \in PageSet, BulkInsert([t \in InBlock(page) |-> page.rows[t]])
    PROVE  /\ blocks \subseteq blocks' /\ DOMAIN rows' = DOMAIN rows \cup InBlock(page)
           /\ \A t \in InBlock(page) : rows'[t] = page.rows[t] /\ page.rows[t] \in blocks'
           /\ \A t \in DOMAIN rows \ InBlock(page) : rows'[t] = rows[t]
           /\ blocks' = blocks \cup {page.rows[t] : t \in InBlock(page)}
<1>1. blocks' = blocks \cup {page.rows[t] : t \in InBlock(page)}
  BY DEF BulkInsert, InBlock
<1>2. /\ DOMAIN rows' = DOMAIN rows \cup InBlock(page)
      /\ \A t \in InBlock(page) : rows'[t] = page.rows[t]
      /\ \A t \in DOMAIN rows \ InBlock(page) : rows'[t] = rows[t]
  BY DEF BulkInsert, Over
<1> QED BY <1>1, <1>2

LEMMA InsertTable ==
    ASSUME Still, TableSound, NEW j, NEW from, NEW page \in PageSet,
           PageSound(j, from, page),
           BulkInsert([t \in InBlock(page) |-> page.rows[t]])
    PROVE  TableSound'
<1>1. ASSUME NEW b \in blocks' PROVE Made(b)
  <2>1. CASE b \in blocks
    BY <2>1 DEF TableSound
  <2>2. ASSUME NEW t \in InBlock(page), b = page.rows[t] PROVE Made(b)
    BY <2>2 DEF PageSound, InBlock
  <2>3. blocks' = blocks \cup {page.rows[t] : t \in InBlock(page)}
    BY InsertIs
  <2> QED BY <2>1, <2>2, <2>3
<1>2. \A t \in DOMAIN rows' : rows'[t] \in blocks' \cup {NoBlock}
  BY InsertIs DEF TableSound, InTable
<1> QED BY <1>1, <1>2, StillIs DEF TableSound, InTable

\* A page that is read is sound, be it of the cache or a new answer.
LEMMA PagesSound ==
    ASSUME Typed, ReadOn, job.pc = "batch", NEW page \in Pages
    PROVE  PageSound(job.at, BlockOf(job.state, job.at), page)
<1>1. PICK from : from = BlockOf(job.state, job.at)
  OBVIOUS
<1>2. JobBase /\ ChainSound
  BY JobNotIdle DEF ReadOn
<1>3. job.at \in Nat /\ from \in BlockRefs
  BY <1>1, TypedIs, BlockOfIs DEF Jobs
<1>4. CASE IsCached
  <2>1. PICK k \in DOMAIN job.cache : k = <<job.at, from>>
    BY <1>1, <1>4 DEF IsCached, Key
  <2>2. page = job.cache[k] /\ k[1] = job.at /\ k[2] = from
    BY <1>1, <1>4, <2>1 DEF Pages, Key
  <2>3. PageSound(k[1], k[2], job.cache[k])
    BY <1>2 DEF JobBase, CacheSound
  <2> QED BY <1>1, <2>2, <2>3
<1>5. CASE ~IsCached
  <2>1. Knows(from) /\ page \in Answers(job.at, from)
    BY <1>1, <1>5 DEF Pages
  <2> QED BY <1>1, <1>2, <1>3, <2>1, AnswerSound
<1> QED BY <1>4, <1>5

\* What is below the new block of a batch is on the page or was below the former
\* one; what another batch has is not on the page.
LEMMA ReadPageSound ==
    ASSUME Typed, NEW page \in PageSet, NEW from, PageSound(job.at, from, page),
           Still, BulkInsert([t \in InBlock(page) |-> page.rows[t]]),
           NEW c, NEW j, NEW t \in Txs, index[t] \div half = j,
           \/ j # job.at /\ Stored(t)
           \/ /\ j = job.at /\ mined[t] # NoBlock
              /\ Below(mined[t], from) => Stored(t)
              /\ \/ Below(mined[t], from)
                 \/ t \in DOMAIN page.rows /\ page.rows[t] = mined[t]
    PROVE  Stored(t)'
<1>1. /\ DOMAIN rows' = DOMAIN rows \cup InBlock(page)
      /\ \A u \in InBlock(page) : rows'[u] = page.rows[u]
      /\ \A u \in DOMAIN rows \ InBlock(page) : rows'[u] = rows[u]
  BY InsertIs
<1>2. \A u \in InBlock(page) : index[u] \div half = job.at /\ ~Below(mined[u], from)
  BY DEF PageSound, InBlock
<1>3. CASE t \notin InBlock(page) /\ Stored(t)
  BY <1>1, <1>3, StillIs DEF Stored
<1>4. CASE t \in DOMAIN page.rows /\ page.rows[t] = mined[t] /\ mined[t] # NoBlock
  BY <1>1, <1>4, StillIs DEF Stored, InBlock
<1> QED BY <1>2, <1>3, <1>4

LEMMA ReadPageReadsOn ==
    ASSUME Typed, Typed', ReadOn, NEW page \in Pages, ReadPage(page)
    PROVE  ReadOn'
<1> DEFINE from == BlockOf(job.state, job.at)
<1>1. /\ Still /\ UNCHANGED <<spoiled, strayed>> /\ job.pc = "batch"
      /\ BulkInsert([t \in InBlock(page) |-> page.rows[t]])
      /\ saved' = IF InBlock(page) = {} THEN saved ELSE job'.state
  BY DEF ReadPage, InRange, explorerVars, historyVars, Still
<1>2. JobBase /\ JobFlow /\ ChainSound /\ TableSound /\ SavedSound
  BY <1>1, JobNotIdle DEF ReadOn
<1>3. PICK block \in BlocksAfter(page) :
            /\ block \in BlockRefs /\ job' \in Jobs
            /\ job'.state = Moved(block)
            /\ job'.pc \in {"batch", "stored"}
            /\ job'.reach = job.reach /\ job'.at = job.at /\ job'.cache = job.cache
            /\ job'.began = job.began /\ job'.asked = job.asked
  BY ReadPageIs
<1>4. PageSound(job.at, from, page) /\ page \in PageSet
  BY <1>1, PagesSound, PagesAre
<1>5. /\ job.state \in States /\ job.at \in Nat /\ job.at + 1 \in DOMAIN job.state.batches
      /\ from = job.state.batches[job.at + 1] /\ job.state.half = half
      /\ \A j \in InReach : InTable(BlockOf(job.state, j))
  <2>1. job.state \in States /\ job.at \in Nat /\ job.state.half = half
    BY <1>1, TypedIs DEF Jobs, Typed, JobTyped
  <2>2. /\ job.at + 1 \in DOMAIN job.state.batches
        /\ \A j \in InReach : InTable(BlockOf(job.state, j))
    BY <1>1, <1>2 DEF JobFlow, Working, Batches
  <2> QED BY <2>1, <2>2, BlockOfIs
<1> HIDE DEF from
<1>6. \/ block = from /\ InBlock(page) = {}
      \/ \E u \in InBlock(page) : block = page.rows[u]
  BY DEF BlocksAfter, Top, from
<1>7. PICK new \in States :
      /\ new = job'.state /\ new.half = half
      /\ DOMAIN new.batches = DOMAIN job.state.batches
      /\ \A i \in DOMAIN job.state.batches :
            new.batches[i] = IF i = job.at + 1 THEN block ELSE job.state.batches[i]
  BY <1>3, <1>5, MovedIs
<1>8. TableSound' /\ ChainSound' /\ CacheSound'
  BY <1>1, <1>2, <1>3, <1>4, InsertTable, StillIs, StillCache DEF JobBase
<1>9. blocks \subseteq blocks' /\ \A u \in InBlock(page) : page.rows[u] \in blocks'
  BY <1>1, <1>4, InsertIs
<1>10. WellKept(new)'
  <2>1. ASSUME NEW i \in DOMAIN new.batches
        PROVE  Made(new.batches[i]) /\ (new.batches[i] \in blocks' \cup {NoBlock}
                                        \/ new.batches[i] \notin ChainBlocks)
    <3>1. i \in DOMAIN job.state.batches
      BY <1>7
    <3>2. Made(job.state.batches[i]) /\ Kept(job.state.batches[i])
      BY <1>2, <3>1 DEF JobBase, WellKept
    <3>3. CASE new.batches[i] = job.state.batches[i]
      BY <1>9, <3>2, <3>3 DEF Kept, InTable
    <3>4. CASE \E u \in InBlock(page) : new.batches[i] = page.rows[u]
      BY <1>4, <1>9, <3>4 DEF PageSound, InBlock
    <3> QED BY <1>5, <1>6, <1>7, <3>1, <3>3, <3>4
  <2> QED BY <2>1, StillIs, <1>1 DEF WellKept, Kept, InTable
<1>11. ASSUME ~spoiled, ~strayed PROVE SoundState(new)'
  <2>1. SoundState(job.state)
    BY <1>2, <1>11 DEF JobBase
  <2>2. ASSUME NEW i \in DOMAIN new.batches, NEW t \in Txs,
               index[t] \div half = i - 1, Below(mined[t], new.batches[i])
        PROVE  Stored(t)'
    <3>1. /\ i \in DOMAIN job.state.batches /\ i \in Nat
          /\ Sound(job.state.batches[i], i - 1, half)
      BY <1>5, <1>7, <2>1, StatesAre DEF SoundState
    <3>2. CASE i # job.at + 1
      <4>1. Stored(t) /\ i - 1 # job.at
        BY <1>5, <1>7, <2>2, <3>1, <3>2 DEF Sound
      <4> QED BY <1>1, <1>4, <2>2, <4>1, ReadPageSound
    <3>3. CASE i = job.at + 1
      <4>1. Below(mined[t], block) /\ i - 1 = job.at /\ mined[t] # NoBlock
        BY <1>5, <1>7, <2>2, <3>1, <3>3 DEF Below
      <4>2. Below(mined[t], from) => Stored(t)
        BY <1>5, <2>2, <3>1, <3>3 DEF Sound
      <4>3. \/ Below(mined[t], from)
            \/ t \in DOMAIN page.rows /\ page.rows[t] = mined[t]
        <5>1. CASE block = from
          BY <4>1, <5>1
        <5>2. ASSUME NEW u \in InBlock(page), block = page.rows[u] PROVE <4>3!1 \/ <4>3!2
          BY <1>4, <2>2, <4>1, <5>2 DEF PageSound, InBlock
        <5> QED BY <1>6, <5>1, <5>2
      <4> QED BY <1>1, <1>4, <2>2, <4>1, <4>2, <4>3, ReadPageSound
    <3> QED BY <3>2, <3>3
  <2> QED BY <1>1, <1>7, <2>2, StillIs DEF SoundState, Sound
<1>12. JobBase'
  <2>1. SavedOrOld'
    <3>1. CASE InBlock(page) = {}
      <4>1. saved' = saved /\ block = from
        BY <1>1, <1>6, <3>1
      <4>2. \A i \in DOMAIN job.state.batches : new.batches[i] = job.state.batches[i]
        BY <1>5, <1>7, <4>1
      <4> QED BY <1>2, <1>3, <1>5, <1>7, <4>1, <4>2 DEF JobBase, SavedOrOld, Old
    <3>2. CASE InBlock(page) # {}
      BY <1>1, <3>2 DEF SavedOrOld
    <3> QED BY <3>1, <3>2
  <2>2. Made(job.began)'
    BY <1>1, <1>2, <1>3, StillIs DEF JobBase
  <2>3. WellKept(job.state)' /\ (~spoiled /\ ~strayed => SoundState(job.state))'
    BY <1>1, <1>7, <1>10, <1>11
  <2> QED BY <1>8, <2>1, <2>2, <2>3 DEF JobBase
<1>13. SavedSound'
  <2>1. CASE InBlock(page) = {}
    <3>1. saved' = saved /\ \A t \in Txs : Stored(t) => Stored(t)'
      BY <1>1, <1>4, <2>1, InsertIs, StillIs DEF Stored
    <3> QED BY <1>1, <1>2, <1>9, <3>1, SavedKept
  <2>2. CASE InBlock(page) # {}
    BY <1>1, <1>3, <1>12, <2>2, SavedWithJob
  <2> QED BY <2>1, <2>2
<1>14. Working'
  <2>1. InReach' = InReach /\ InReach \subseteq Nat
    BY <1>1, <1>3, StillIs DEF InReach
  <2>2. ASSUME NEW j \in InReach
        PROVE  BlockOf(new, j) \in blocks' \cup {NoBlock}
    <3>1. BlockOf(job.state, j) \in blocks \cup {NoBlock} /\ j \in Nat
      BY <1>5, <2>1 DEF InTable
    <3>2. CASE j = job.at
      <4>1. BlockOf(new, j) = block
        BY <1>5, <1>7, <3>2, BlockOfIs
      <4>2. from = BlockOf(job.state, j)
        BY <3>2 DEF from
      <4> QED BY <1>6, <1>9, <3>1, <4>1, <4>2
    <3>3. CASE j # job.at
      <4>1. CASE j + 1 \in DOMAIN new.batches
        <5>1. BlockOf(new, j) = new.batches[j + 1]
              /\ BlockOf(job.state, j) = job.state.batches[j + 1]
          BY <1>5, <1>7, <3>1, <4>1, BlockOfIs
        <5>2. j + 1 # job.at + 1
          BY <1>5, <3>1, <3>3
        <5> QED BY <1>7, <1>9, <3>1, <4>1, <5>1, <5>2
      <4>2. CASE j + 1 \notin DOMAIN new.batches
        <5>1. BlockOf(new, j) = NoBlock
          BY <1>7, <3>1, <4>2, BlockOfIs
        <5> QED BY <5>1
      <4> QED BY <4>1, <4>2
    <3> QED BY <3>2, <3>3
  <2> QED BY <1>3, <1>5, <1>7, <2>1, <2>2 DEF Working, InTable
<1> QED BY <1>3, <1>8, <1>12, <1>13, <1>14
        DEF ReadOn, JobSound, JobFlow, OnProbe, Asked, Gone

LEMMA CrashInInsertReadsOn ==
    ASSUME Typed, Typed', ReadOn, NEW page \in Pages, CrashInInsert(page)
    PROVE  ReadOn'
<1> DEFINE from == BlockOf(job.state, job.at)
<1>1. /\ Still /\ UNCHANGED <<spoiled, strayed, saved>> /\ job.pc = "batch"
      /\ BulkInsert([t \in InBlock(page) |-> page.rows[t]]) /\ job' = NoJob
  BY DEF CrashInInsert, Die, InRange, explorerVars, historyVars, Still
<1>2. JobBase /\ JobFlow /\ ChainSound /\ TableSound /\ SavedSound
  BY <1>1, JobNotIdle DEF ReadOn
<1>3. PageSound(job.at, from, page) /\ page \in PageSet
  BY <1>1, PagesSound, PagesAre
<1>4. job.state.half = half /\ job.at \in Nat /\ job.state \in States /\ saved \in States
      /\ job.began \in BlockRefs
  BY <1>1, TypedIs DEF Typed, JobTyped, Jobs
<1>5. ChainSound' /\ TableSound' /\ blocks \subseteq blocks'
  BY <1>1, <1>2, <1>3, StillIs, InsertTable, InsertIs
<1>6. ASSUME ~spoiled, ~strayed, NEW i \in DOMAIN saved.batches, NEW t \in Txs,
             index[t] \div saved.half = i - 1, Below(mined[t], saved.batches[i])
      PROVE  Stored(t)'
  <2>1. Stored(t)
    BY <1>2, <1>6 DEF SavedSound, SoundState, Sound
  <2>2. CASE t \notin InBlock(page)
    BY <1>1, <1>3, <2>1, <2>2, InsertIs, StillIs DEF Stored
  <2>3. CASE t \in InBlock(page)
    <3>1. rows'[t] = page.rows[t] /\ t \in DOMAIN rows'
      BY <1>1, <1>3, <2>3, InsertIs
    <3>2. t \in DOMAIN page.rows /\ index[t] \div half = job.at /\ ~Below(mined[t], from)
          /\ (mined[t] # NoBlock /\ Old(mined[t]) => page.rows[t] = mined[t])
      BY <1>3, <2>3 DEF PageSound, InBlock
    <3>3. CASE Old(saved.batches[i])
      <4>1. /\ saved.batches[i] \in BlockRefs /\ mined[t] \in BlockRefs
        BY <1>4, StatesAre, TypedIs
      <4>2. Old(mined[t]) /\ mined[t] # NoBlock
        BY <1>4, <1>6, <3>3, <4>1, BlockRefsAre, BoundsAssumption DEF Old, Below
      <4> QED BY <1>1, <3>1, <3>2, <4>2, StillIs DEF Stored
    <3>4. CASE /\ saved.half = job.state.half /\ i \in DOMAIN job.state.batches
               /\ job.state.batches[i] = saved.batches[i]
      <4>1. i = job.at + 1
        BY <1>4, <1>6, <3>2, <3>4, StatesAre
      <4>2. from = saved.batches[i]
        BY <1>4, <3>4, <4>1, BlockOfIs
      <4> QED BY <1>6, <3>2, <4>2
    <3> QED BY <1>2, <3>3, <3>4 DEF JobBase, SavedOrOld
  <2> QED BY <2>2, <2>3
<1>7. SavedSound'
  <2>1. PICK s : s = saved
    OBVIOUS
  <2>2. WellKept(s)'
    BY <1>1, <1>2, <1>5, <2>1, StillState DEF SavedSound
  <2>3. ~spoiled /\ ~strayed => SoundState(s)'
    BY <1>1, <1>6, <2>1, StillIs DEF SoundState, Sound
  <2>4. Resized'
    BY <1>1, <1>2, StillIs DEF SavedSound, Resized
  <2> QED BY <1>1, <2>1, <2>2, <2>3, <2>4 DEF SavedSound
<1> QED BY <1>1, <1>5, <1>7, NoJobIs DEF ReadOn, JobSound

\* The recovery deletes the refused block, or nothing.
LEMMA RefusedIs ==
    ASSUME Typed, ReadOn, job.pc = "reorganized", CanDelete(Doomed)
    PROVE  \E F \in blocks :
            /\ Doomed = {F} /\ F \notin ChainBlocks \cup {NoBlock}
            /\ F = BlockOf(job.state, job.at)
            /\ \A b \in blocks : b[1] >= F[1] => b = F
<1>1. JobFlow
  BY JobNotIdle
<1>2. PICK F : F = BlockOf(job.state, job.at)
  OBVIOUS
<1>3. F \in blocks /\ F \notin ChainBlocks \cup {NoBlock}
  BY <1>1, <1>2 DEF JobFlow, Working, Gone, Batches, InTable
<1>4. Doomed = {b \in blocks : b[1] >= F[1]}
  BY <1>2 DEF Doomed
<1>5. blocks \subseteq BlockRefs
  BY TypedIs
<1>6. F \in Doomed
  BY <1>3, <1>4, <1>5, BlockRefsAre
<1>7. IsFiniteSet(Doomed)
  <2>1. IsFiniteSet(1..MaxHeight) /\ IsFiniteSet(0..MaxReorgs)
    BY FS_Interval, BoundsAssumption
  <2>2. IsFiniteSet((1..MaxHeight) \X (0..MaxReorgs))
    BY <2>1, FS_Product
  <2>3. IsFiniteSet(BlockRefs)
    BY <2>2, FS_AddElement DEF BlockRefs
  <2>4. Doomed \subseteq BlockRefs
    BY <1>4, <1>5
  <2> QED BY <2>3, <2>4, FS_Subset
<1>8. Doomed = {F}
  <2>1. Cardinality(Doomed) = 1
    BY DEF CanDelete
  <2>2. \E x : Doomed = {x}
    BY <1>7, <2>1, FS_Singleton
  <2> QED BY <1>6, <2>2
<1> QED BY <1>2, <1>3, <1>4, <1>8

\* What leaves the table with it is no longer of the chain.
LEMMA DeleteKeeps ==
    ASSUME Typed, ChainSound, TableSound, Still, NEW F, DeleteBlocks({F}),
           F \notin ChainBlocks \cup {NoBlock}
    PROVE  /\ TableSound' /\ \A c : Kept(c) => Kept(c)'
           /\ \A t \in Txs : Stored(t) => Stored(t)'
<1>1. /\ blocks' = blocks \ {F}
      /\ DOMAIN rows' = {t \in DOMAIN rows : rows[t] # F}
      /\ \A t \in DOMAIN rows' : rows'[t] = rows[t]
  BY DEF DeleteBlocks, Without
<1>2. \A c : Kept(c) => Kept(c)'
  BY <1>1, StillIs DEF Kept, InTable
<1>3. TableSound'
  BY <1>1, StillIs DEF TableSound, InTable
<1>4. ASSUME NEW t \in Txs, Stored(t) PROVE Stored(t)'
  <2>1. t \in DOMAIN rows /\ rows[t] \in {mined[t], NoBlock}
    BY <1>4 DEF Stored
  <2>2. mined[t] \in ChainBlocks \cup {NoBlock}
    BY DEF ChainSound
  <2>3. t \in DOMAIN rows' /\ rows'[t] = rows[t]
    BY <1>1, <2>1, <2>2
  <2> QED BY <2>1, <2>3, StillIs DEF Stored
<1> QED BY <1>2, <1>3, <1>4

\* A state whose batches stay, begin at the beginning or are taken to one block.
LEMMA TakenBack ==
    ASSUME Typed, ChainSound, Still, NEW s \in States, NEW f \in States,
           f.half = s.half, WellKept(s), \A c : Kept(c) => Kept(c)',
           \A t \in Txs : Stored(t) => Stored(t)',
           NEW block, Made(block), Kept(block)',
           \A i \in DOMAIN f.batches :
                \/ f.batches[i] = NoBlock
                \/ i \in DOMAIN s.batches /\ f.batches[i] \in {s.batches[i], block}
    PROVE  /\ WellKept(f)'
           /\ SoundState(s) /\
                (\A i \in DOMAIN s.batches \cap DOMAIN f.batches :
                    f.batches[i] = NoBlock \/ GoesBack(f.batches[i], s.batches[i]))
                => SoundState(f)'
<1>1. ASSUME NEW i \in DOMAIN f.batches
      PROVE  Made(f.batches[i])' /\ Kept(f.batches[i])'
  <2>1. CASE f.batches[i] = NoBlock
    BY <2>1, StillIs, ChainMade DEF Kept, InTable
  <2>2. CASE i \in DOMAIN s.batches /\ f.batches[i] = s.batches[i]
    BY <2>2, StillIs DEF WellKept
  <2>3. CASE f.batches[i] = block
    BY <2>3, StillIs
  <2> QED BY <2>1, <2>2, <2>3
<1>2. ASSUME SoundState(s),
             \A i \in DOMAIN s.batches \cap DOMAIN f.batches :
                f.batches[i] = NoBlock \/ GoesBack(f.batches[i], s.batches[i]),
             NEW i \in DOMAIN f.batches, NEW t \in Txs,
             index[t] \div f.half = i - 1, Below(mined[t], f.batches[i])
      PROVE  Stored(t)'
  <2>1. mined[t] \in BlockRefs /\ f.batches[i] \in BlockRefs
    BY TypedIs, StatesAre
  <2>2. f.batches[i] # NoBlock
    BY <1>2, <2>1, BlockRefsAre, BoundsAssumption DEF Below, NoBlock
  <2>3. i \in DOMAIN s.batches /\ GoesBack(f.batches[i], s.batches[i])
    BY <1>2, <2>2
  <2>4. s.batches[i] \in BlockRefs
    BY <2>3, StatesAre
  <2>5. Below(mined[t], s.batches[i])
    BY <1>2, <2>1, <2>3, <2>4, BlockRefsAre, BoundsAssumption DEF Below, GoesBack
  <2>6. Stored(t)
    BY <1>2, <2>3, <2>5 DEF SoundState, Sound
  <2> QED BY <2>6
<1> QED BY <1>1, <1>2, StillIs DEF WellKept, SoundState, Sound

LEMMA RecoveryKeepsSaved ==
    ASSUME Typed, Typed', ReadOn, CrashInRecovery
    PROVE  ReadOn'
<1>1. /\ Still /\ UNCHANGED <<saved, spoiled, strayed>> /\ job' = NoJob
      /\ job.pc = "reorganized" /\ CanDelete(Doomed) /\ DeleteBlocks(Doomed)
  BY DEF CrashInRecovery, Die, explorerVars, historyVars, Still
<1>2. PICK F \in blocks : Doomed = {F} /\ F \notin ChainBlocks \cup {NoBlock}
  BY <1>1, RefusedIs
<1>3. ChainSound /\ TableSound /\ SavedSound
  BY DEF ReadOn
<1>4. /\ TableSound' /\ \A c : Kept(c) => Kept(c)'
      /\ \A t \in Txs : Stored(t) => Stored(t)'
  BY <1>1, <1>2, <1>3, DeleteKeeps
<1>5. SavedSound'
  <2>1. PICK s \in States : s = saved
    BY TypedIs
  <2>2. WellKept(s)' /\ (SoundState(s) => SoundState(s)')
    BY <1>1, <1>3, <1>4, <2>1, StillIs
       DEF SavedSound, WellKept, SoundState, Sound
  <2>3. Resized'
    BY <1>1, <1>3, StillIs DEF SavedSound, Resized
  <2> QED BY <1>1, <1>3, <2>1, <2>2, <2>3 DEF SavedSound
<1>6. ChainSound'
  BY <1>1, <1>3, StillIs
<1> QED BY <1>1, <1>4, <1>5, <1>6, NoJobIs DEF ReadOn, JobSound

\* The refused batch is entered again, with its block deleted or as it was.
LEMMA RecoverReadsOn ==
    ASSUME Typed, Typed', ReadOn, RecoverFromReorganization
    PROVE  ReadOn'
<1>1. /\ Still /\ UNCHANGED spoiled /\ job.pc = "reorganized"
  BY DEF RecoverFromReorganization, explorerVars, Still
<1>2. JobBase /\ JobFlow /\ ChainSound /\ TableSound
  BY <1>1, JobNotIdle DEF ReadOn
<1>3. /\ job' \in Jobs /\ job'.pc = "batch" /\ job'.at = job.at
      /\ job'.state.half = job.state.half
      /\ job'.reach = job.reach /\ job'.cache = job.cache
      /\ job'.began = job.began
      /\ saved' = job'.state
  BY RecoveryIs
<1>4. /\ job \in Jobs /\ job.state \in States /\ job.at \in Nat
      /\ job.at + 1 \in DOMAIN job.state.batches
      /\ job.at <= Len(job.state.batches)
      /\ \A j \in InReach : j \in Nat /\ InTable(BlockOf(job.state, j))
  <2>1. job \in Jobs /\ job.state \in States /\ job.at \in Nat
        /\ job.at + 1 \in DOMAIN job.state.batches
        /\ \A j \in InReach : j \in Nat /\ InTable(BlockOf(job.state, j))
    BY <1>1, <1>2, TypedIs DEF Jobs, JobFlow, Working, Batches, InReach
  <2> QED BY <2>1, StatesAre
<1>5. ChainSound' /\ CacheSound' /\ InReach' = InReach
  BY <1>1, <1>2, <1>3, StillIs, StillCache DEF JobBase, InReach
<1>6. JobBase' /\ Working' /\ TableSound' => ReadOn'
  BY <1>3, <1>5, SavedWithJob
     DEF ReadOn, JobSound, JobFlow, OnProbe, Asked, Gone
<1>7. CASE ~CanDelete(Doomed)
  <2>1. job' = EnterBatch(job, job.at) /\ UNCHANGED <<databaseVars, strayed>>
    BY <1>7, RecoveryIs
  <2>2. TableSound' /\ blocks' = blocks /\ \A t \in Txs : Stored(t) => Stored(t)'
    BY <1>1, <1>2, <2>1, TableKept, SameStored, StillIs DEF databaseVars
  <2>3. /\ Extends(job'.state, job.state) /\ job.at + 1 \in DOMAIN job'.state.batches
    BY <1>4, <2>1, EnterExtends
  <2>4. JobBase'
    BY <1>1, <1>2, <1>3, <1>5, <2>1, <2>2, <2>3, BaseKept
  <2>5. \A j \in Nat : BlockOf(job'.state, j) = BlockOf(job.state, j)
    <3>1. PICK s \in States, e \in States : s = job.state /\ e = job'.state
      BY <1>3, <1>4 DEF Jobs
    <3> QED BY <1>2, <2>3, <3>1, ExtendsIs
  <2>6. Working'
    BY <1>3, <1>4, <1>5, <2>2, <2>3, <2>5 DEF Working, InTable
  <2> QED BY <1>6, <2>2, <2>4, <2>6
<1>8. CASE CanDelete(Doomed)
  <2>1. PICK block \in BlockRefs :
          /\ block \in LastBlock(blocks') /\ DeleteBlocks(Doomed)
          /\ job' = EnterBatch([job EXCEPT !.state = Back(block)], job.at)
          /\ [job EXCEPT !.state = Back(block)] \in Jobs
          /\ strayed' = (strayed \/ Strays(Back(block).batches, job.state.batches))
    BY <1>8, RecoveryIs
  <2>2. PICK F \in blocks :
          /\ Doomed = {F} /\ F \notin ChainBlocks \cup {NoBlock}
          /\ \A b \in blocks : b[1] >= F[1] => b = F
    BY <1>1, <1>8, RefusedIs
  <2>3. /\ TableSound' /\ \A c : Kept(c) => Kept(c)'
        /\ \A t \in Txs : Stored(t) => Stored(t)'
    BY <1>1, <1>2, <2>1, <2>2, DeleteKeeps
  <2>4. blocks' = blocks \ {F} /\ blocks' \subseteq BlockRefs
    BY <2>1, <2>2, TypedIs DEF DeleteBlocks
  <2>5. block \in blocks' \cup {NoBlock}
    BY <2>1, <2>4, LastBlockIs
  <2>6. Made(block) /\ Kept(block)'
    <3>1. Made(block)
      BY <1>2, <2>4, <2>5, ChainMade DEF TableSound
    <3> QED BY <2>5, <3>1 DEF Kept, InTable
  <2>7. F \in BlockRefs /\ block[1] < F[1]
    <3>1. F \in BlockRefs /\ F # NoBlock
      BY <2>2, TypedIs
    <3>2. CASE block = NoBlock
      BY <3>1, <3>2, BlockRefsAre, BoundsAssumption DEF NoBlock
    <3>3. CASE block \in blocks'
      <4>1. ~(block[1] >= F[1])
        BY <2>2, <2>4, <3>3
      <4> QED BY <3>1, <4>1, BlockRefsAre, BoundsAssumption
    <3> QED BY <2>5, <3>1, <3>2, <3>3
  <2>8. PICK s \in States, e \in States, f \in States :
            s = job.state /\ e = Back(block) /\ f = job'.state
    BY <1>3, <1>4, BackIs DEF Jobs
  <2>9. /\ e.half = s.half /\ DOMAIN e.batches = DOMAIN s.batches
        /\ \A i \in DOMAIN s.batches :
            e.batches[i] = IF s.batches[i][1] > block[1] THEN block ELSE s.batches[i]
    <3>1. s.batches \in Seq(BlockRefs)
      BY StatesAre
    <3>2. e.half = s.half /\ e.batches = RewindAll(s.batches, block)
      BY <2>8, BackIs
    <3> QED BY <3>1, <3>2, RewindAllIs
  <2>10. Extends(f, e) /\ job.at + 1 \in DOMAIN f.batches
    <3>1. PICK b \in Jobs : b = [job EXCEPT !.state = Back(block)]
      BY <2>1
    <3>2. b.state = e
      BY <1>4, <2>8, <3>1 DEF Jobs
    <3>3. Len(e.batches) = Len(s.batches)
      BY <2>9, StatesAre
    <3>4. f = EnterBatch(b, job.at).state
      BY <2>1, <2>8, <3>1
    <3>5. job.at <= Len(b.state.batches)
      BY <1>4, <2>8, <3>2, <3>3
    <3> QED BY <1>4, <3>2, <3>4, <3>5, EnterExtends
  <2>11. f.half = s.half /\
         \A i \in DOMAIN f.batches :
            \/ f.batches[i] = NoBlock
            \/ i \in DOMAIN s.batches /\ f.batches[i] \in {s.batches[i], block}
    BY <2>9, <2>10 DEF Extends
  <2>12. WellKept(f)' /\ (~spoiled /\ ~strayed' => SoundState(f)')
    <3>1. WellKept(s) /\ (~spoiled /\ ~strayed => SoundState(s))
      BY <1>2, <2>8 DEF JobBase
    <3>2. ASSUME ~strayed', NEW i \in DOMAIN s.batches \cap DOMAIN f.batches
          PROVE  GoesBack(f.batches[i], s.batches[i])
      BY <2>1, <2>8, <2>9, <2>10, <3>2 DEF Strays, Extends
    <3>3. /\ WellKept(f)'
          /\ SoundState(s) /\
                (\A i \in DOMAIN s.batches \cap DOMAIN f.batches :
                    f.batches[i] = NoBlock \/ GoesBack(f.batches[i], s.batches[i]))
                => SoundState(f)'
      BY <1>1, <1>2, <2>3, <2>6, <2>11, <3>1, TakenBack
    <3> QED BY <2>1, <3>1, <3>2, <3>3
  <2>13. JobBase'
    <3>1. Made(job.began)'
      BY <1>2, <1>3, StillIs, <1>1 DEF JobBase
    <3>2. SavedOrOld'
      BY <1>3 DEF SavedOrOld
    <3> QED BY <1>1, <1>5, <2>8, <2>12, <3>1, <3>2 DEF JobBase
  <2>14. Working'
    <3>1. ASSUME NEW j \in InReach
          PROVE  BlockOf(f, j) \in blocks' \cup {NoBlock}
      <4>1. j \in Nat /\ BlockOf(s, j) \in blocks \cup {NoBlock} /\ BlockOf(s, j) \in BlockRefs
        BY <1>4, <2>8, BlockOfIs DEF InTable
      <4>2. BlockOf(f, j) = BlockOf(e, j)
        BY <1>2, <2>10, <4>1, ExtendsIs
      <4>3. CASE j + 1 \in DOMAIN s.batches
        <5>1. BlockOf(s, j) = s.batches[j + 1] /\ BlockOf(e, j) = e.batches[j + 1]
          BY <2>9, <4>1, <4>3, BlockOfIs
        <5>2. CASE s.batches[j + 1][1] > block[1]
          BY <2>5, <2>9, <4>2, <4>3, <5>1, <5>2
        <5>3. CASE ~(s.batches[j + 1][1] > block[1])
          <6>1. s.batches[j + 1] # F
            BY <2>7, <4>1, <5>1, <5>3, BlockRefsAre, BoundsAssumption
          <6> QED BY <2>4, <2>9, <4>1, <4>2, <4>3, <5>1, <5>3, <6>1
        <5> QED BY <5>2, <5>3
      <4>4. CASE j + 1 \notin DOMAIN s.batches
        BY <2>9, <4>1, <4>2, <4>4, BlockOfIs
      <4> QED BY <4>3, <4>4
    <3> QED BY <1>3, <1>5, <2>8, <2>10, <3>1 DEF Working, InTable
  <2> QED BY <1>6, <2>3, <2>13, <2>14
<1> QED BY <1>7, <1>8

\* What waits is stored in no block.
LEMMA InsertWaiting ==
    ASSUME Typed, TableSound, Still, NEW D, BulkInsert([t \in D |-> NoBlock])
    PROVE  /\ blocks' = blocks /\ TableSound'
           /\ \A t \in Txs : Stored(t) => Stored(t)'
<1>1. /\ blocks' = blocks /\ DOMAIN rows' = DOMAIN rows \cup D
      /\ \A t \in DOMAIN rows' : rows'[t] = IF t \in D THEN NoBlock ELSE rows[t]
  BY DEF BulkInsert, Over
<1>2. TableSound'
  BY <1>1, StillIs DEF TableSound, InTable
<1>3. \A t \in Txs : Stored(t) => Stored(t)'
  BY <1>1, StillIs DEF Stored
<1> QED BY <1>1, <1>2, <1>3

LEMMA MempoolReadsOn ==
    ASSUME Typed, Typed', ReadOn, SynchronizeMempool
    PROVE  ReadOn'
<1>1. /\ Still /\ UNCHANGED <<saved, spoiled, strayed>> /\ job' = NoJob
      /\ BulkInsert([t \in job.held |-> NoBlock])
  BY DEF SynchronizeMempool, explorerVars, historyVars, Still
<1>2. ChainSound /\ TableSound /\ SavedSound
  BY DEF ReadOn
<1>3. ChainSound' /\ TableSound' /\ SavedSound'
  <2>1. /\ blocks' = blocks /\ TableSound'
        /\ \A t \in Txs : Stored(t) => Stored(t)'
    BY <1>1, <1>2, InsertWaiting
  <2> QED BY <1>1, <1>2, <2>1, StillIs, SavedKept
<1> QED BY <1>1, <1>3, NoJobIs DEF ReadOn, JobSound

LEMMA OptimisticUpdateReadsOn ==
    ASSUME Typed, Typed', ReadOn, NEW t \in Txs, OptimisticUpdate(t)
    PROVE  ReadOn'
<1>1. /\ Still /\ UNCHANGED <<saved, job, spoiled, strayed>>
      /\ BulkInsert([u \in {t} |-> NoBlock])
  BY DEF OptimisticUpdate, explorerVars, Still
<1>2. ChainSound /\ TableSound /\ SavedSound
  BY DEF ReadOn
<1>3. /\ blocks' = blocks /\ TableSound'
      /\ \A u \in Txs : Stored(u) => Stored(u)'
  BY <1>1, <1>2, InsertWaiting
<1>4. ChainSound' /\ SavedSound'
  BY <1>1, <1>2, <1>3, StillIs, SavedKept
<1>5. JobSound'
  <2> SUFFICES ASSUME job.pc # "idle" PROVE JobBase' /\ JobFlow'
    BY <1>1 DEF JobSound
  <2>1. JobBase /\ JobFlow
    BY JobNotIdle
  <2>2. CacheSound'
    BY <1>1, <2>1, StillCache DEF JobBase
  <2>3. JobBase'
    BY <1>1, <1>2, <1>3, <2>1, <2>2, ExtendsSame, BaseKept
  <2>4. JobFlow'
    BY <1>1, <1>3, <2>1, StillIs
    DEF JobFlow, OnProbe, Asked, Working, Gone, InReach, InTable, BlockOf, Batches
  <2> QED BY <2>3, <2>4
<1> QED BY <1>3, <1>4, <1>5 DEF ReadOn

LEMMA ConfigureReadsOn ==
    ASSUME Typed, Typed', ReadOn, NEW size \in Halves, Configure(size)
    PROVE  ReadOn'
<1>1. /\ UNCHANGED <<index, chain, mined, mempool, reorgs, blocks, rows, saved, job,
                     strayed>>
      /\ job.pc = "idle"
      /\ spoiled' = (spoiled \/ (saved.batches # <<>> /\
                               NoBlock \notin ToSet(saved.batches)))
  BY DEF Configure, explorerVars, databaseVars
<1>2. ChainSound /\ TableSound /\ SavedSound
  BY DEF ReadOn
<1>3. ChainSound' /\ TableSound' /\ JobSound'
  BY <1>1, <1>2 DEF ChainSound, ChainBlocks, TableSound, InTable, Made, JobSound
<1>4. WellKept(saved)' /\ (SoundState(saved) => SoundState(saved)')
  BY <1>1, <1>2
  DEF SavedSound, WellKept, Made, Kept, InTable, ChainBlocks, SoundState, Sound, Stored
<1>5. Resized'
  BY <1>1 DEF Resized
<1> QED BY <1>1, <1>2, <1>3, <1>4, <1>5 DEF ReadOn, SavedSound

\* A job begins where the saved state leaves off, or below.
LEMMA PerformReadsOn ==
    ASSUME Typed, Typed', ReadOn, PerformSynchronization
    PROVE  ReadOn'
<1>1. PICK height \in DeepestFailed(saved.batches), block \in LastBlockWithOperations :
        /\ job' = [NoJob EXCEPT
                     !.pc = "head",
                     !.state = InitializeSavedState(
                       [saved EXCEPT !.batches = Rewind(@, height, block)]),
                     !.began = <<Len(chain), reorgs>>]
        /\ strayed' = (strayed \/
                Strays(Rewind(saved.batches, height, block), saved.batches))
  BY DEF PerformSynchronization
<1>2. Still /\ UNCHANGED <<blocks, rows, saved, spoiled>>
  BY DEF PerformSynchronization, explorerVars, databaseVars, Still
<1>3. ChainSound /\ TableSound /\ SavedSound
  BY DEF ReadOn
<1>4. saved \in States /\ saved.batches \in Seq(BlockRefs) /\ half \in Halves
  BY TypedIs DEF Typed, JobTyped, States
<1>5. block \in BlockRefs /\ Made(block) /\ InTable(block)
  <2>1. {rows[t] : t \in DOMAIN rows} \ {NoBlock} \in SUBSET BlockRefs
    BY TypedIs
  <2>2. block \in ({rows[t] : t \in DOMAIN rows} \ {NoBlock}) \cup {NoBlock}
        /\ block \in BlockRefs
    BY <2>1, LastBlockIs DEF LastBlockWithOperations
  <2>3. InTable(block)
    BY <1>3, <2>2 DEF TableSound, InTable
  <2> QED BY <1>3, <2>2, <2>3, ChainMade DEF TableSound, InTable
<1> DEFINE rewound == Rewind(saved.batches, height, block)
<1>6. /\ rewound \in Seq(BlockRefs) /\ DOMAIN rewound = DOMAIN saved.batches
      /\ \A i \in DOMAIN saved.batches : rewound[i] \in {saved.batches[i], block}
  BY <1>4, <1>5, RewindIs
<1> HIDE DEF rewound
<1>7. PICK r \in States : r = [saved EXCEPT !.batches = rewound]
  BY <1>4, <1>6 DEF States
<1>8. r.half = saved.half /\ r.batches = rewound
  BY <1>4, <1>7 DEF States
<1>9. PICK f \in States : f = InitializeSavedState(r)
  BY <1>4, InitializeIs
<1>10. /\ f.half = half
       /\ r.half = half => f = r
       /\ r.half # half =>
            \A i \in DOMAIN f.batches :
                /\ r.batches # <<>>
                /\ \E k \in DOMAIN r.batches : f.batches[i] = r.batches[k]
                /\ \A k \in DOMAIN r.batches : f.batches[i][1] <= r.batches[k][1]
  BY <1>4, <1>9, InitializeIs
<1>11. /\ job'.pc = "head" /\ job'.state = f /\ job'.began = <<Len(chain), reorgs>>
       /\ job'.cache = [k \in {} |-> NoRows]
  <2>1. [saved EXCEPT !.batches = Rewind(@, height, block)] = r
    BY <1>4, <1>7 DEF rewound, States
  <2>2. job' = [NoJob EXCEPT !.pc = "head", !.state = f,
                             !.began = <<Len(chain), reorgs>>]
    BY <1>1, <1>9, <2>1
  <2> QED BY <2>2 DEF NoJob
<1>12. strayed' = (strayed \/ Strays(rewound, saved.batches))
  BY <1>1 DEF rewound
<1>13. ChainSound' /\ TableSound' /\ \A t \in Txs : Stored(t) => Stored(t)'
  BY <1>2, <1>3, StillIs, TableKept, SameStored
<1>14. /\ WellKept(saved) /\ (~spoiled /\ ~strayed => SoundState(saved)) /\ Resized
       /\ \A c : Kept(c) => Kept(c)'
  BY <1>2, <1>3, StillIs DEF SavedSound, Kept, InTable
<1>15. SavedSound'
  <2>1. PICK s \in States : s = saved
    BY <1>4
  <2>2. WellKept(s)' /\ (SoundState(s) => SoundState(s)')
    BY <1>2, <1>13, <1>14, <2>1, StillState
  <2>3. Resized' /\ (strayed => strayed')
    BY <1>2, <1>12, <1>14, StillIs DEF Resized
  <2> QED BY <1>2, <1>14, <2>1, <2>2, <2>3 DEF SavedSound
<1>16. /\ WellKept(r)' /\ (~spoiled /\ ~strayed' => SoundState(r)')
  <2>1. PICK s \in States : s = saved
    BY <1>4
  <2>2. r.half = s.half /\ WellKept(s) /\ (~spoiled /\ ~strayed => SoundState(s))
    BY <1>8, <1>14, <2>1
  <2>3. \A i \in DOMAIN r.batches :
            \/ r.batches[i] = NoBlock
            \/ i \in DOMAIN s.batches /\ r.batches[i] \in {s.batches[i], block}
    BY <1>6, <1>8, <2>1
  <2>4. Kept(block)'
    BY <1>5, <1>14 DEF Kept
  <2>5. /\ WellKept(r)'
        /\ SoundState(s) /\
                (\A i \in DOMAIN s.batches \cap DOMAIN r.batches :
                    r.batches[i] = NoBlock \/ GoesBack(r.batches[i], s.batches[i]))
                => SoundState(r)'
    BY <1>2, <1>3, <1>5, <1>13, <1>14, <2>2, <2>3, <2>4, TakenBack
  <2>6. ~strayed' => ~strayed /\ \A i \in DOMAIN s.batches : GoesBack(r.batches[i], s.batches[i])
    BY <1>8, <1>12, <2>1 DEF Strays
  <2> QED BY <2>2, <2>5, <2>6
<1>17. WellKept(f)' /\ (~spoiled /\ ~strayed' => SoundState(f)')
  <2>1. CASE r.half = half
    BY <1>10, <1>16, <2>1
  <2>2. CASE r.half # half
    <3>1. WellKept(f)'
      BY <1>10, <1>16, <2>2 DEF WellKept
    <3>2. ASSUME ~spoiled, ~strayed', NEW i \in DOMAIN f.batches
          PROVE  f.batches[i] = NoBlock
      <4>1. saved.batches # <<>> /\ NoBlock \in ToSet(saved.batches)
        <5>1. r.batches # <<>>
          BY <1>10, <2>2, <3>2
        <5>2. saved.batches # <<>>
          BY <1>6, <1>8, <5>1, StatesAre
        <5> QED BY <1>8, <1>14, <2>2, <3>2, <5>2 DEF Resized
      <4>2. PICK k \in DOMAIN saved.batches : saved.batches[k] = NoBlock
        BY <4>1 DEF ToSet
      <4>3. GoesBack(rewound[k], saved.batches[k]) /\ rewound[k] \in BlockRefs
        <5>1. ~Strays(rewound, saved.batches)
          BY <1>12, <3>2
        <5>2. GoesBack(rewound[k], saved.batches[k])
          BY <5>1 DEF Strays
        <5>3. rewound[k] \in BlockRefs
          BY <1>6
        <5> QED BY <5>2, <5>3
      <4>4. rewound[k][1] = 0
        BY <4>2, <4>3, BlockRefsAre, BoundsAssumption DEF GoesBack, NoBlock
      <4>5. f.batches[i][1] <= 0 /\ f.batches[i] \in BlockRefs
        BY <1>6, <1>8, <1>10, <2>2, <4>2, <4>4, StatesAre
      <4> QED BY <4>5, BlockRefsAre, BoundsAssumption
    <3>3. ASSUME ~spoiled, ~strayed' PROVE SoundState(f)'
      <4>1. \A t \in Txs : ~Below(mined[t], NoBlock)
        BY TypedIs, BlockRefsAre, BoundsAssumption DEF Below, NoBlock
      <4> QED BY <3>2, <3>3, <4>1, StillIs, <1>2 DEF SoundState, Sound
    <3> QED BY <3>1, <3>3
  <2> QED BY <2>1, <2>2
<1>18. JobBase'
  <2>1. Made(job.began)'
    <3>1. Made(<<Len(chain), reorgs>>)
      BY ChainIs, BoundsAssumption DEF Made
    <3> QED BY <1>2, <1>11, <3>1, StillIs
  <2>2. CacheSound'
    BY <1>11 DEF CacheSound
  <2>3. SavedOrOld'
    <3> SUFFICES ASSUME NEW i \in DOMAIN saved.batches
                 PROVE  Old(saved.batches[i])'
      BY <1>2 DEF SavedOrOld
    <3>1. Made(saved.batches[i]) /\ saved.batches[i] \in BlockRefs
      BY <1>4, <1>14, StatesAre DEF WellKept
    <3>2. Len(chain) \in Nat /\ reorgs \in Nat
      BY ChainIs, BoundsAssumption
    <3> QED BY <1>2, <1>11, <3>1, <3>2, BlockRefsAre, BoundsAssumption DEF Made, Old
  <2> QED BY <1>2, <1>11, <1>17, <2>1, <2>2, <2>3 DEF JobBase
<1>19. JobFlow'
  BY <1>11 DEF JobFlow, OnProbe, Asked, Working, Gone, Batches
<1> QED BY <1>13, <1>15, <1>18, <1>19 DEF ReadOn, JobSound

\* The explorer's other steps, and those that only touch the keychain.
LEMMA OutsideReadsOn ==
    ASSUME Typed, Typed', ReadOn,
           \/ UNCHANGED vars
           \/ \E t \in Txs : Appear(t) \/ PushTransaction(t) \/ ReadKeychain(t)
    PROVE  ReadOn'
<1>1. UNCHANGED <<index, chain, mined, reorgs, blocks, rows, saved, half, job,
                  spoiled, strayed>>
  BY DEF vars, explorerVars, databaseVars, historyVars, Appear, PushTransaction,
         ReadKeychain
<1>2. \A t \in mempool' : mined[t] = NoBlock
  <2>1. \A t \in mempool : mined[t] = NoBlock
    BY DEF ReadOn, ChainSound
  <2> QED BY <2>1 DEF vars, explorerVars, Appear, PushTransaction, ReadKeychain
<1>3. ChainSound'
  BY <1>1, <1>2 DEF ReadOn, ChainSound, ChainBlocks
<1>4. Grown
  BY <1>1 DEF Grown, Made, ChainBlocks
<1> QED BY <1>1, <1>3, <1>4, GrownKeeps

LEMMA InitReadsOn == Init => ReadOn
<1> SUFFICES ASSUME Init PROVE ReadOn
  OBVIOUS
<1>1. /\ chain = <<0>> /\ reorgs = 0 /\ blocks = {} /\ mempool = {} /\ rows = NoRows
      /\ saved = NoState /\ job = NoJob /\ mined \in [Txs -> {NoBlock, <<1, 0>>}]
  BY DEF Init
<1>2. Len(chain) = 1 /\ chain[1] = 0
  BY <1>1
<1>3. ChainBlocks = {<<1, 0>>}
  BY <1>2 DEF ChainBlocks
<1>4. ChainSound
  BY <1>1, <1>2, <1>3 DEF ChainSound
<1>5. TableSound
  BY <1>1 DEF TableSound, NoRows
<1>6. SavedSound
  BY <1>1 DEF SavedSound, WellKept, Resized, SoundState, NoState
<1> QED BY <1>1, <1>4, <1>5, <1>6, NoJobIs DEF ReadOn, JobSound

LEMMA NextReadsOn == Typed /\ Typed' /\ ReadOn /\ [Next]_vars => ReadOn'
<1> SUFFICES ASSUME Typed, Typed', ReadOn, [Next]_vars PROVE ReadOn'
  OBVIOUS
<1>1. CASE Mine \/ Reorganize
  <2>1. Grown /\ ChainSound'
    BY <1>1, MineGrows, ReorganizeGrows DEF ReadOn
  <2>2. UNCHANGED <<index, blocks, rows, saved, half, job, spoiled, strayed>>
    BY <1>1 DEF Mine, Reorganize, databaseVars, historyVars
  <2> QED BY <2>1, <2>2, GrownKeeps
<1>2. CASE Continue
  <2>1. CASE AnswerCurrentBlock \/ AnswerProbe \/ SkipBatch \/ EndBatch
                \/ RefusePage \/ RecoverFromReorganization \/ SynchronizeMempool
    BY <2>1, AnswerCurrentBlockReadsOn, AnswerProbeReadsOn, BatchOverReadsOn,
       EndBatchReadsOn, RecoverReadsOn, MempoolReadsOn
  <2>2. CASE \E j \in job.asked : AnswerBatch(j)
    BY <2>2, AnswerBatchReadsOn
  <2>3. CASE \E j \in job.asked : RefuseBatch(j)
    <3>1. /\ Still /\ job' = NoJob
          /\ UNCHANGED <<rows, blocks, saved, spoiled, strayed>>
      BY <2>3 DEF RefuseBatch, explorerVars, databaseVars, historyVars, Still
    <3> QED BY <3>1, JobOverReadsOn
  <2>4. CASE \E page \in Pages : ReadPage(page)
    BY <2>4, ReadPageReadsOn
  <2> QED BY <1>2, <2>1, <2>2, <2>3, <2>4 DEF Continue
<1>3. CASE JobFails \/ Crash
  <2>1. /\ Still /\ job' = NoJob
        /\ UNCHANGED <<rows, blocks, saved, spoiled, strayed>>
    BY <1>3 DEF JobFails, Crash, Die, explorerVars, databaseVars, historyVars, Still
  <2> QED BY <2>1, JobOverReadsOn
<1>4. CASE RequestFails \/ \E page \in Pages : InsertFails(page)
  BY <1>4, BatchOverReadsOn
<1>5. CASE \E page \in Pages : CrashInInsert(page)
  BY <1>5, CrashInInsertReadsOn
<1>6. CASE CrashInRecovery
  BY <1>6, RecoveryKeepsSaved
<1>7. CASE \/ UNCHANGED vars
           \/ \E t \in Txs : Appear(t) \/ PushTransaction(t) \/ ReadKeychain(t)
  BY <1>7, OutsideReadsOn
<1>8. CASE \E t \in Txs : OptimisticUpdate(t)
  BY <1>8, OptimisticUpdateReadsOn
<1>9. CASE PerformSynchronization
  BY <1>9, PerformReadsOn
<1>10. CASE \E size \in Halves : Configure(size)
  BY <1>10, ConfigureReadsOn
<1> QED BY <1>1, <1>2, <1>3, <1>4, <1>5, <1>6, <1>7, <1>8, <1>9, <1>10 DEF Next

\* No transaction of the account is skipped: below the block at which the next
\* synchronization of a batch starts, all that was mined on its addresses is
\* stored, whatever pages were cached, however the chain was reorganized under a
\* job and wherever the process died.
THEOREM NothingIsSkipped == Spec => []NothingSkipped
<1>1. Typed /\ ReadOn => NothingSkipped
  <2> SUFFICES ASSUME Typed, ReadOn, ~spoiled, ~strayed,
                      NEW i \in DOMAIN saved.batches, saved.batches[i] \in ChainBlocks,
                      NEW t \in Txs, index[t] \div saved.half = i - 1,
                      mined[t] # NoBlock, mined[t][1] < saved.batches[i][1]
               PROVE  Stored(t)
    BY DEF NothingSkipped
  <2>1. PICK h \in 1..Len(chain) : saved.batches[i] = <<h, chain[h]>>
    BY DEF ChainBlocks
  <2>2. PICK k \in 1..Len(chain) : mined[t] = <<k, chain[k]>>
    BY DEF ReadOn, ChainSound, ChainBlocks
  <2>3. chain[k] <= chain[h]
    <3>1. k <= h
      BY <2>1, <2>2
    <3> QED BY <3>1 DEF ReadOn, ChainSound
  <2>4. Below(mined[t], saved.batches[i])
    BY <2>1, <2>2, <2>3 DEF Below
  <2> QED BY <2>4 DEF ReadOn, SavedSound, SoundState, Sound
<1> QED BY <1>1, AlwaysTyped, InitReadsOn, NextReadsOn, PTL DEF Spec

-----------------------------------------------------------------------------
(* What a job finds.                                                       *)

\* Nothing has happened for which the gap limit would not be kept.
Clean == ~spoiled /\ ~strayed

\* The explorer has the transaction, and has it still whatever becomes of its block.
Present(t) == t \in mempool \/ mined[t] # NoBlock

\* From its block on a batch has a transaction: a page of it is not empty.
Active(c, j, size) ==
    c # NoBlock =>
        \E v \in Txs : index[v] \div size = j /\ Present(v) /\ ~Below(mined[v], c)
ActiveState(s) == \A i \in DOMAIN s.batches : Active(s.batches[i], i - 1, s.half)

\* A page moves its batch to a block where it is active, and a page that is not
\* cut off has all that is due and not below its first block.
PageSeen(j, from, page) ==
    /\ \A u \in DOMAIN page.rows : Present(u) /\ ~Below(mined[u], page.rows[u])
    /\ ~page.more => \A t \in Due :
        index[t] \div half = j => t \in DOMAIN page.rows \/ Below(mined[t], from)
    /\ Clean /\ from # NoBlock => DOMAIN page.rows # {}
CacheSeen == \A k \in DOMAIN job.cache : PageSeen(k[1], k[2], job.cache[k])

\* The last batch of the addresses is the one that is probed, and derivation ends
\* when nothing is due on it.
Probing == job.pc = "probe" => job.reach = (job.probe + 1) * half
Derived ==
    job.pc \notin {"idle", "head", "probe"} =>
        \E n \in Nat :
            job.reach = (n + 1) * half /\ \A u \in Due : index[u] \div half # n

\* What is due on the batches before this one is stored, and on this one if it is
\* over.  If it is over and had nothing, then nothing is due on it.
Before(j) ==
    index[j] \div half < job.at \/ (job.pc = "stored" /\ index[j] \div half = job.at)
Read ==
    job.pc \in Batches => \A t \in Due : index[t] < job.reach /\ Before(t) => Stored(t)
Ends ==
    job.pc = "stored" /\ ~job.had =>
        \A u \in Due : index[u] < job.reach => index[u] \div half # job.at
Found == job.pc = "mempool" /\ ~job.broken => \A t \in Due : IsNear(t) => Stored(t)

JobFinds ==
    /\ CacheSeen /\ Probing /\ Derived
    /\ Clean => ActiveState(job.state) /\ Read /\ Ends /\ Found
Finds == (Clean => ActiveState(saved)) /\ (job.pc # "idle" => JobFinds)

LEMMA DueIs ==
    ASSUME Typed, NEW t \in Due
    PROVE  /\ t \in Txs /\ mined[t] # NoBlock /\ Old(mined[t]) /\ mined[t] \in BlockRefs
           /\ index[t] \in Nat
<1>1. /\ t \in Txs /\ mined[t] # NoBlock /\ mined[t][1] <= job.began[1]
      /\ mined[t][2] <= job.began[2]
  BY DEF Due
<1>2. mined[t] \in BlockRefs /\ job.began \in BlockRefs /\ index[t] \in Nat
  BY <1>1, TypedIs
<1>3. /\ job.began[1] \in Nat /\ job.began[2] \in Nat
      /\ mined[t][1] \in Nat /\ mined[t][2] \in Nat
  BY <1>2, BlockRefsAre, BoundsAssumption
<1> QED BY <1>1, <1>2, <1>3 DEF Old

\* What is due was so before the chain grew, in the same block.
LEMMA DueStays ==
    ASSUME Typed, Typed', Grown, Made(job.began), job'.began = job.began, NEW t \in Due'
    PROVE  t \in Due /\ mined'[t] = mined[t]
<1>1. /\ t \in Txs /\ mined'[t] # NoBlock /\ mined'[t][1] <= job.began[1]
      /\ mined'[t][2] <= job.began[2]
  BY DEF Due
<1>2. mined'[t] \in BlockRefs /\ job.began \in BlockRefs
  BY <1>1, TypedIs DEF Typed, ExplorerTyped
<1>3. /\ job.began[1] \in Nat /\ job.began[2] \in Nat
      /\ mined'[t][1] \in Nat /\ mined'[t][2] \in Nat
  BY <1>2, BlockRefsAre, BoundsAssumption
<1>4. mined'[t] = mined[t]
  BY <1>1, <1>2, <1>3 DEF Grown
<1> QED BY <1>1, <1>4 DEF Due

LEMMA GrownActive ==
    ASSUME Typed, Typed', Grown, index' = index,
           \A t \in Txs : Present(t) => Present(t)',
           NEW s \in States, WellKept(s), ActiveState(s)
    PROVE  ActiveState(s)'
<1> SUFFICES ASSUME NEW i \in DOMAIN s.batches, s.batches[i] # NoBlock
             PROVE  \E v \in Txs : /\ index[v] \div s.half = i - 1 /\ Present(v)'
                                   /\ ~Below(mined'[v], s.batches[i])
  BY DEF ActiveState, Active, Below
<1>1. PICK c \in BlockRefs : c = s.batches[i] /\ Made(c) /\ c # NoBlock
  BY StatesAre DEF WellKept
<1>2. PICK v \in Txs : index[v] \div s.half = i - 1 /\ Present(v) /\ ~Below(mined[v], c)
  BY <1>1 DEF ActiveState, Active
<1>3. ~Below(mined'[v], c)
  BY <1>1, <1>2, GrownBelow
<1> QED BY <1>1, <1>2, <1>3

LEMMA GrownSeen ==
    ASSUME Typed, Typed', Grown, index' = index, half' = half,
           \A t \in Txs : Present(t) => Present(t)', Clean' => Clean,
           job'.began = job.began, Made(job.began),
           NEW j, NEW from \in BlockRefs, NEW page \in PageSet,
           PageSound(j, from, page), PageSeen(j, from, page)
    PROVE  PageSeen(j, from, page)'
<1>1. ASSUME NEW u \in DOMAIN page.rows
      PROVE  Present(u)' /\ ~Below(mined'[u], page.rows[u])
  <2>1. u \in Txs /\ page.rows[u] \in BlockRefs /\ Made(page.rows[u])
    BY PageIs DEF PageSound
  <2>2. Present(u) /\ ~Below(mined[u], page.rows[u])
    BY DEF PageSeen
  <2> QED BY <2>1, <2>2, GrownBelow
<1>2. ASSUME ~page.more, NEW t \in Due', index[t] \div half = j
      PROVE  t \in DOMAIN page.rows \/ Below(mined'[t], from)
  BY <1>2, DueStays DEF PageSeen
<1> QED BY <1>1, <1>2 DEF PageSeen, Below


LEMMA GrownFinds ==
    ASSUME Typed, Typed', ReadOn, Finds, Grown,
           \A t \in Txs : Present(t) => Present(t)',
           \A t \in Txs : mined'[t] = mined[t] /\ Stored(t) => Stored(t)',
           UNCHANGED <<index, saved, half, job, spoiled, strayed>>
    PROVE  Finds'
<1>1. Clean' <=> Clean
  BY DEF Clean
<1>2. Clean => ActiveState(saved)'
  <2>1. PICK s \in States : s = saved /\ WellKept(s)
    BY TypedIs DEF ReadOn, SavedSound
  <2>2. ActiveState(s) => ActiveState(s)'
    BY <2>1, GrownActive
  <2> QED BY <2>1, <2>2 DEF Finds
<1>3. ASSUME job.pc # "idle" PROVE JobFinds'
  <2>1. JobFinds /\ Made(job.began) /\ CacheSound /\ WellKept(job.state)
    BY <1>3, JobNotIdle DEF Finds, JobBase
  <2>2. job' = job /\ job.began' = job.began
    OBVIOUS
  <2>3. \A t \in Due' : t \in Due /\ mined'[t] = mined[t] /\ t \in Txs
    BY <2>1, <2>2, DueStays, DueIs
  <2>4. CacheSeen'
    <3> SUFFICES ASSUME NEW k \in DOMAIN job.cache
                 PROVE  PageSeen(k[1], k[2], job.cache[k])'
      BY <2>2 DEF CacheSeen
    <3>1. PICK page \in PageSet, j \in Nat, from \in BlockRefs :
                page = job.cache[k] /\ j = k[1] /\ from = k[2]
      BY TypedIs
    <3>2. PageSound(j, from, page) /\ PageSeen(j, from, page)
      BY <2>1, <3>1 DEF CacheSound, JobFinds, CacheSeen
    <3>3. PageSeen(j, from, page)'
      BY <1>1, <2>1, <2>2, <3>2, GrownSeen
    <3> QED BY <2>2, <3>1, <3>3
  <2>5. Probing' /\ Derived'
    BY <2>1, <2>2, <2>3 DEF JobFinds, Probing, Derived
  <2>6. Clean => ActiveState(job.state)'
    <3>1. PICK s \in States : s = job.state
      BY TypedIs
    <3>2. ActiveState(s) => ActiveState(s)'
      BY <2>1, <3>1, GrownActive
    <3> QED BY <2>1, <2>2, <3>1, <3>2 DEF JobFinds
  <2>7. \A t \in Due' : Stored(t) => Stored(t)'
    BY <2>3
  <2>8. \A t \in Due' : IsNear(t)' => IsNear(t)
    BY <2>2, <2>3 DEF IsNear
  <2>9. Clean => Read' /\ Ends' /\ Found'
    BY <2>1, <2>2, <2>3, <2>7, <2>8 DEF JobFinds, Read, Ends, Found, Before
  <2> QED BY <1>1, <2>4, <2>5, <2>6, <2>9 DEF JobFinds
<1> QED BY <1>1, <1>2, <1>3 DEF Finds

\* What the explorer does not list of a batch is below the block it knows.
LEMMA UnlistedIsBelow ==
    ASSUME Typed, ChainSound, NEW from \in BlockRefs, Knows(from), NEW j,
           NEW t \in Txs, index[t] \div half = j, Present(t), t \notin DOMAIN Listed(j, from)
    PROVE  Below(mined[t], from)
<1>1. mined[t] # NoBlock /\ ~(mined[t][1] >= from[1])
  BY DEF Listed, Present
<1>2. mined[t] \in BlockRefs
  BY TypedIs
<1>3. mined[t][1] < from[1] /\ mined[t][1] \in Nat
  BY <1>1, <1>2, BlockRefsAre, BoundsAssumption
<1>4. from # NoBlock
  BY <1>3 DEF NoBlock
<1>5. from \in ChainBlocks /\ mined[t] \in ChainBlocks
  BY <1>1, <1>4 DEF Knows, ChainSound
<1>6. PICK h \in 1..Len(chain), k \in 1..Len(chain) :
        from = <<h, chain[h]>> /\ mined[t] = <<k, chain[k]>>
  BY <1>5 DEF ChainBlocks
<1>7. k <= h
  BY <1>3, <1>6
<1>8. mined[t][2] <= from[2]
  BY <1>6, <1>7 DEF ChainSound
<1> QED BY <1>1, <1>3, <1>8 DEF Below

\* A page is all of the listing, or is cut off and has something.
LEMMA WholeOrCut ==
    ASSUME NEW j, NEW from, NEW page \in Answers(j, from)
    PROVE  \/ DOMAIN page.rows = DOMAIN Listed(j, from) /\ ~page.more
           \/ DOMAIN page.rows # {} /\ page.more
<1> DEFINE list == Listed(j, from)
           IsCut(S) ==
                /\ \A t \in S, u \in DOMAIN list \ S :
                    Position(list[t]) <= Position(list[u])
                /\ \E t, u \in S : list[t] = NoBlock \/ list[t] # list[u]
<1> HIDE DEF list
<1>1. CASE page = [rows |-> list, more |-> FALSE]
  BY <1>1 DEF list
<1>2. ASSUME NEW S \in {U \in SUBSET DOMAIN list : U # DOMAIN list /\ IsCut(U)},
             page = [rows |-> [t \in S |-> list[t]], more |-> TRUE]
      PROVE  DOMAIN page.rows # {} /\ page.more
  <2>1. S # {}
    OBVIOUS
  <2>2. page.rows = [t \in S |-> list[t]] /\ page.more = TRUE
    BY <1>2
  <2> QED BY <2>1, <2>2
<1>3. \/ page = [rows |-> list, more |-> FALSE]
      \/ \E S \in {U \in SUBSET DOMAIN list : U # DOMAIN list /\ IsCut(U)} :
            page = [rows |-> [t \in S |-> list[t]], more |-> TRUE]
  <2>1. page \in {[rows |-> list, more |-> FALSE]} \cup
                 {[rows |-> [t \in S |-> list[t]], more |-> TRUE] :
                    S \in {U \in SUBSET DOMAIN list : U # DOMAIN list /\ IsCut(U)}}
    BY DEF Answers, list
  <2> HIDE DEF IsCut
  <2> QED BY <2>1
<1> QED BY <1>1, <1>2, <1>3

LEMMA AnswerSeen ==
    ASSUME Typed, ChainSound, NEW j \in Nat, NEW from \in BlockRefs, Knows(from),
           NEW page \in Answers(j, from), Clean => Active(from, j, half)
    PROVE  PageSeen(j, from, page)
<1>1. /\ DOMAIN page.rows \subseteq DOMAIN Listed(j, from)
      /\ \A t \in DOMAIN page.rows : page.rows[t] = mined[t]
  BY AnswersAre DEF Typed
<1>2. \/ DOMAIN page.rows = DOMAIN Listed(j, from) /\ ~page.more
      \/ DOMAIN page.rows # {} /\ page.more
  BY WholeOrCut
<1>3. ASSUME NEW u \in DOMAIN page.rows
      PROVE  Present(u) /\ ~Below(mined[u], page.rows[u])
  <2>1. u \in Txs /\ Present(u) /\ page.rows[u] = mined[u]
    BY <1>1 DEF Listed, Present
  <2>2. mined[u] \in BlockRefs
    BY <2>1, TypedIs
  <2> QED BY <2>1, <2>2, BlockRefsAre, BoundsAssumption DEF Below
<1>4. ASSUME ~page.more, NEW t \in Due, index[t] \div half = j
      PROVE  t \in DOMAIN page.rows \/ Below(mined[t], from)
  <2>1. t \in Txs /\ Present(t)
    BY DueIs DEF Present
  <2> QED BY <1>2, <1>4, <2>1, UnlistedIsBelow
<1>5. ASSUME Clean, from # NoBlock PROVE DOMAIN page.rows # {}
  <2>1. PICK v \in Txs : index[v] \div half = j /\ Present(v) /\ ~Below(mined[v], from)
    BY <1>5 DEF Active
  <2>2. v \in DOMAIN Listed(j, from)
    BY <2>1, UnlistedIsBelow
  <2> QED BY <1>2, <2>2
<1> QED BY <1>3, <1>4, <1>5 DEF PageSeen


\* Steps of a job leave what is due and what is active.
LEMMA StillFinds ==
    ASSUME Still
    PROVE  /\ job'.began = job.began => Due' = Due
           /\ \A s : ActiveState(s)' <=> ActiveState(s)
           /\ \A c, j, size : Active(c, j, size)' <=> Active(c, j, size)
<1>1. UNCHANGED <<index, mined, mempool>>
  BY DEF Still
<1>2. \A c, j, size : Active(c, j, size)' <=> Active(c, j, size)
  BY <1>1 DEF Active, Present, Below
<1>3. \A s : ActiveState(s)' <=> ActiveState(s)
  BY <1>2 DEF ActiveState
<1>4. job'.began = job.began => Due' = Due
  BY <1>1 DEF Due
<1> QED BY <1>2, <1>3, <1>4

LEMMA StillSeen ==
    ASSUME Still, job'.began = job.began, Clean' => Clean, NEW j, NEW from, NEW page,
           PageSeen(j, from, page)
    PROVE  PageSeen(j, from, page)'
<1>1. UNCHANGED <<index, mined, mempool, half>> /\ Due' = Due
  BY StillFinds DEF Still
<1> QED BY <1>1 DEF PageSeen, Present, Below

LEMMA StillCacheSeen ==
    ASSUME Still, job'.began = job.began, job'.cache = job.cache, Clean' => Clean,
           CacheSeen
    PROVE  CacheSeen'
<1> SUFFICES ASSUME NEW k \in DOMAIN job.cache
             PROVE  PageSeen(k[1], k[2], job.cache[k])'
  BY DEF CacheSeen
<1>1. PICK p : p = job.cache[k]
  OBVIOUS
<1>2. PageSeen(k[1], k[2], p)'
  BY <1>1, StillSeen DEF CacheSeen
<1> QED BY <1>1, <1>2

LEMMA CacheSeenGrows ==
    ASSUME Still, CacheSeen, NEW j, NEW from, NEW page, PageSeen(j, from, page),
           job'.began = job.began, Clean' => Clean,
           job'.cache = With(job.cache, <<j, from>>, page)
    PROVE  CacheSeen'
<1>1. ASSUME NEW k \in DOMAIN job'.cache
      PROVE  PageSeen(k[1], k[2], job'.cache[k])
  <2>1. CASE k = <<j, from>>
    <3>1. job'.cache[k] = page
      BY <1>1, <2>1 DEF With, Over
    <3> QED BY <2>1, <3>1
  <2>2. CASE k # <<j, from>>
    <3>1. k \in DOMAIN job.cache /\ job'.cache[k] = job.cache[k]
      BY <1>1, <2>2 DEF With, Over
    <3> QED BY <3>1 DEF CacheSeen
  <2> QED BY <2>1, <2>2
<1> SUFFICES ASSUME NEW k \in DOMAIN job'.cache
             PROVE  PageSeen(k[1], k[2], job.cache[k])'
  BY DEF CacheSeen
<1>2. PICK p : p = job'.cache[k]
  OBVIOUS
<1>3. PageSeen(k[1], k[2], p)'
  BY <1>1, <1>2, StillSeen
<1> QED BY <1>2, <1>3

\* More batches, that begin at the beginning, are active as well.
LEMMA ExtendsActive ==
    ASSUME NEW s, NEW e, Extends(e, s), ActiveState(s)
    PROVE  ActiveState(e)
<1> SUFFICES ASSUME NEW i \in DOMAIN e.batches
             PROVE  Active(e.batches[i], i - 1, e.half)
  BY DEF ActiveState
<1>1. CASE i \in DOMAIN s.batches
  BY <1>1 DEF ActiveState, Extends
<1>2. CASE i \notin DOMAIN s.batches
  BY <1>2 DEF Active, Extends
<1> QED BY <1>1, <1>2

LEMMA ActiveKept ==
    ASSUME Still, Finds, job.pc # "idle", Clean' => Clean,
           Extends(job'.state, job.state), saved' \in {saved, job.state, job'.state}
    PROVE  Clean' => ActiveState(saved)' /\ ActiveState(job.state)'
<1> SUFFICES ASSUME Clean PROVE ActiveState(saved)' /\ ActiveState(job.state)'
  OBVIOUS
<1>1. PICK s, e, n : s = saved' /\ e = job'.state /\ n = job.state
  OBVIOUS
<1>2. ActiveState(saved) /\ ActiveState(n)
  BY <1>1 DEF Finds, JobFinds
<1>3. Extends(e, n)
  BY <1>1
<1>4. ActiveState(e)
  BY <1>2, <1>3, ExtendsActive
<1>5. s \in {saved, n, e}
  BY <1>1
<1>6. ActiveState(s)
  BY <1>2, <1>4, <1>5
<1>7. ActiveState(s)' /\ ActiveState(e)'
  BY <1>4, <1>6, StillFinds
<1> QED BY <1>1, <1>7

\* The job ends.
LEMMA JobOverFinds ==
    ASSUME Still, Finds, job' = NoJob, saved' = saved, Clean' => Clean
    PROVE  Finds'
<1>1. PICK s : s = saved
  OBVIOUS
<1>2. Clean => ActiveState(s)'
  BY <1>1, StillFinds DEF Finds
<1>3. Clean' => ActiveState(saved)'
  BY <1>1, <1>2
<1> QED BY <1>3, NoJobIs DEF Finds

LEMMA AnswerCurrentBlockFinds ==
    ASSUME Typed, Typed', ReadOn, Finds, AnswerCurrentBlock
    PROVE  Finds'
<1>1. /\ Still /\ UNCHANGED <<saved, spoiled, strayed>> /\ job.pc = "head"
      /\ job' = [job EXCEPT !.pc = "probe", !.probe = 0, !.reach = half]
  BY DEF AnswerCurrentBlock, explorerVars, historyVars, Still
<1>2. /\ job'.pc = "probe" /\ job'.state = job.state /\ job'.began = job.began
      /\ job'.cache = job.cache /\ job'.probe = 0 /\ job'.reach = half
  BY <1>1, TypedIs DEF Jobs
<1>3. (Clean' <=> Clean) /\ JobFinds
  BY <1>1 DEF Clean, Finds
<1>4. CacheSeen'
  BY <1>1, <1>2, <1>3, StillCacheSeen DEF JobFinds
<1>5. Clean' => ActiveState(saved)' /\ ActiveState(job.state)'
  BY <1>1, <1>2, <1>3, ExtendsSame, ActiveKept
<1>6. Probing'
  BY <1>1, <1>2, StillIs, TypedIs DEF Probing
<1> QED BY <1>2, <1>4, <1>5, <1>6
        DEF Finds, JobFinds, Derived, Read, Ends, Found, Batches

\* All answers are there, or some are waited for: derivation has ended.
LEMMA AwaitFinds ==
    ASSUME Typed, Typed', Still, Finds, job.pc # "idle", UNCHANGED <<saved, spoiled, strayed>>,
           NEW b \in Jobs, job' = AwaitAnswers(b), b.state = job.state,
           b.began = job.began, Extends(job'.state, job.state), CacheSeen',
           NEW n \in Nat, b.reach = (n + 1) * half,
           \A u \in Due : index[u] \div half # n
    PROVE  Finds'
<1>1. Clean' <=> Clean
  BY DEF Clean
<1>2. Clean' => ActiveState(saved)' /\ ActiveState(job.state)'
  BY <1>1, ActiveKept
<1>3. /\ job'.began = b.began /\ job'.reach = b.reach
      /\ job'.pc = "ask" \/ (job'.pc = "batch" /\ job'.at = 0)
  <2>1. CASE job' = EnterBatch(b, 0)
    BY <2>1, EnterBatchIs
  <2>2. CASE job' = [b EXCEPT !.pc = "ask"]
    BY <2>2 DEF Jobs
  <2> QED BY <2>1, <2>2, AwaitIs
<1>4. Due' = Due /\ index' = index /\ half' = half
  BY <1>3, StillFinds, StillIs
<1>5. Derived'
  BY <1>3, <1>4 DEF Derived
<1>6. Read'
  <2>1. \A t \in Due' : ~(index'[t] \div half' < 0)
    <3> SUFFICES ASSUME NEW t \in Due PROVE ~(index[t] \div half < 0)
      BY <1>4
    <3>1. index[t] \in Nat /\ half \in Nat \ {0}
      BY DueIs, TypedIs
    <3>2. index[t] \div half \in Nat
      BY <3>1, Division
    <3> QED BY <3>2
  <2> QED BY <1>3, <2>1 DEF Read, Before, Batches
<1> QED BY <1>2, <1>3, <1>5, <1>6
        DEF Finds, JobFinds, Probing, Ends, Found, Batches


LEMMA AnswerProbeFinds ==
    ASSUME Typed, Typed', ReadOn, Finds, AnswerProbe
    PROVE  Finds'
<1>1. PICK page \in Answers(job.probe, NoBlock) :
        LET cached == [job EXCEPT !.cache = With(@, <<job.probe, NoBlock>>, page)] IN
        \/ job' = [cached EXCEPT !.probe = (@ + 1) * 2,
                                 !.reach = (job.probe * 2 + 3) * half]
        \/ /\ DOMAIN page.rows = {}
           /\ job' = AwaitAnswers([cached EXCEPT !.asked =
                        {j \in 0..(job.reach \div half - 1) :
                            Key(job.state, j) \notin DOMAIN cached.cache}])
  BY DEF AnswerProbe
<1>2. /\ Still /\ UNCHANGED <<rows, blocks, saved, spoiled, strayed>>
      /\ job.pc = "probe"
  BY DEF AnswerProbe, explorerVars, databaseVars, historyVars, Still
<1>3. JobBase /\ JobFlow /\ ChainSound /\ JobFinds /\ (Clean' <=> Clean)
  BY <1>2, JobNotIdle DEF ReadOn, Finds, Clean
<1> DEFINE key == <<job.probe, NoBlock>>
           cache == With(job.cache, key, page)
           cached == [job EXCEPT !.cache = cache]
           missing == {j \in InReach : Key(job.state, j) \notin DOMAIN cache}
<1>4. job.probe \in Nat /\ key \in Nat \X BlockRefs /\ NoBlock \in BlockRefs
      /\ half \in Nat \ {0} /\ job.reach = (job.probe + 1) * half
  BY <1>2, <1>3, TypedIs, BlockRefsAre DEF Jobs, JobFinds, Probing
<1>5. page \in PageSet /\ PageSeen(job.probe, NoBlock, page)
  BY <1>3, <1>4, AnswersAre, AnswerSeen DEF Typed, Knows, Active
<1>6. cache \in Caches
  BY <1>4, <1>5, WithCache, TypedIs DEF Jobs
<1>7. /\ cached \in Jobs /\ cached.state = job.state /\ cached.reach = job.reach
      /\ cached.pc = "probe" /\ cached.began = job.began /\ cached.cache = cache
      /\ cached.probe = job.probe
  <2> HIDE DEF cache
  <2> QED BY <1>2, <1>6, TypedIs DEF Jobs
<1>8. \/ job' = [cached EXCEPT !.probe = (@ + 1) * 2,
                               !.reach = (job.probe * 2 + 3) * half]
      \/ DOMAIN page.rows = {} /\ job' = AwaitAnswers([cached EXCEPT !.asked = missing])
  BY <1>1, <1>7 DEF InReach
<1>9. ASSUME job'.cache = cache, job'.began = job.began PROVE CacheSeen'
  BY <1>2, <1>3, <1>5, <1>9, CacheSeenGrows DEF JobFinds
<1> HIDE DEF cache, cached, missing
<1>10. CASE job' = [cached EXCEPT !.probe = (@ + 1) * 2,
                                  !.reach = (job.probe * 2 + 3) * half]
  <2>1. /\ job'.pc = "probe" /\ job'.state = job.state /\ job'.began = job.began
        /\ job'.cache = cache /\ job'.probe = (job.probe + 1) * 2
        /\ job'.reach = (job.probe * 2 + 3) * half
    BY <1>7, <1>10 DEF Jobs
  <2>2. (job.probe + 1) * 2 + 1 = job.probe * 2 + 3
    BY <1>4
  <2>3. Probing'
    BY <1>2, <2>1, <2>2, StillIs DEF Probing
  <2>4. Clean' => ActiveState(saved)' /\ ActiveState(job.state)'
    BY <1>2, <1>3, <2>1, ExtendsSame, ActiveKept
  <2> QED BY <1>9, <2>1, <2>3, <2>4
          DEF Finds, JobFinds, Derived, Read, Ends, Found, Batches
<1>11. CASE DOMAIN page.rows = {} /\ job' = AwaitAnswers([cached EXCEPT !.asked = missing])
  <2> DEFINE b == [cached EXCEPT !.asked = missing]
  <2>1. missing \subseteq Nat
    BY DEF missing, InReach
  <2>2. /\ b \in Jobs /\ b.state = job.state /\ b.reach = job.reach
        /\ b.began = job.began /\ b.cache = cache /\ b.asked = missing
    BY <1>7, <2>1 DEF Jobs
  <2>3. job' = AwaitAnswers(b)
    BY <1>11
  <2> HIDE DEF b
  <2>4. /\ Extends(job'.state, job.state)
        /\ job'.began = b.began /\ job'.cache = b.cache
    <3>1. CASE job' = EnterBatch(b, 0)
      <4>1. 0 <= Len(b.state.batches)
        BY <2>2, StatesAre DEF Jobs
      <4> QED BY <2>2, <3>1, <4>1, EnterExtends, EnterBatchIs
    <3>2. CASE job' = [b EXCEPT !.pc = "ask"]
      BY <2>2, <3>2, ExtendsSame DEF Jobs
    <3> QED BY <2>2, <2>3, <3>1, <3>2, AwaitIs
\* What is due on the batch would be on the page.
  <2>5. ASSUME NEW u \in Due PROVE index[u] \div half # job.probe
    <3>1. ~page.more
      BY <1>11, WholeOrCut
    <3>2. mined[u] \in BlockRefs
      BY DueIs
    <3>3. ~Below(mined[u], NoBlock)
      BY <3>2, BlockRefsAre, BoundsAssumption DEF Below, NoBlock
    <3> QED BY <1>5, <1>11, <3>1, <3>3 DEF PageSeen
  <2> QED BY <1>2, <1>4, <1>9, <2>2, <2>3, <2>4, <2>5, AwaitFinds
<1> QED BY <1>8, <1>10, <1>11

LEMMA AnswerBatchFinds ==
    ASSUME Typed, Typed', ReadOn, Finds, NEW j \in job.asked, AnswerBatch(j)
    PROVE  Finds'
<1> DEFINE from == BlockOf(job.state, j)
           key == Key(job.state, j)
<1>1. PICK page \in Answers(j, from) :
        job' = AwaitAnswers([job EXCEPT !.cache = With(@, key, page),
                                        !.asked = @ \ {j}])
  BY DEF AnswerBatch
<1>2. /\ Still /\ UNCHANGED <<rows, blocks, saved, spoiled, strayed>>
      /\ job.pc = "ask" /\ Knows(from)
  BY DEF AnswerBatch, explorerVars, databaseVars, historyVars, Still
<1>3. JobBase /\ JobFlow /\ ChainSound /\ JobFinds /\ (Clean' <=> Clean)
  BY <1>2, JobNotIdle DEF ReadOn, Finds, Clean
<1>4. /\ j \in Nat /\ from \in BlockRefs /\ key = <<j, from>>
      /\ key \in Nat \X BlockRefs /\ job \in Jobs /\ job.state \in States
      /\ job.state.half = half
  BY <1>2, TypedIs, BlockOfIs DEF Jobs, Key, Typed, JobTyped
<1>5. Clean => Active(from, j, half)
  <2>1. CASE j + 1 \in DOMAIN job.state.batches
    <3>1. from = job.state.batches[j + 1] /\ j + 1 - 1 = j
      BY <1>4, <2>1, BlockOfIs
    <3>2. PICK i \in DOMAIN job.state.batches : i = j + 1
      BY <2>1
    <3>3. Clean => Active(job.state.batches[i], i - 1, job.state.half)
      BY <1>3 DEF JobFinds, ActiveState
    <3>4. job.state.batches[i] = from /\ i - 1 = j
      BY <1>4, <3>1, <3>2
    <3> QED BY <1>4, <3>3, <3>4
  <2>2. CASE j + 1 \notin DOMAIN job.state.batches
    BY <1>4, <2>2, BlockOfIs DEF Active
  <2> QED BY <2>1, <2>2
<1>6. page \in PageSet /\ PageSeen(j, from, page)
  <2> HIDE DEF from
  <2> QED BY <1>2, <1>3, <1>4, <1>5, AnswersAre, AnswerSeen DEF Typed
<1> DEFINE cache == With(job.cache, key, page)
           rest == job.asked \ {j}
           b == [job EXCEPT !.cache = cache, !.asked = rest]
<1>7. cache \in Caches /\ rest \subseteq Nat
  BY <1>4, <1>6, WithCache DEF Jobs
<1>8. job' = AwaitAnswers(b)
  BY <1>1
<1>9. /\ b \in Jobs /\ b.state = job.state /\ b.reach = job.reach
      /\ b.began = job.began /\ b.cache = cache /\ b.asked = rest
  <2> HIDE DEF cache, rest
  <2> QED BY <1>4, <1>7 DEF Jobs
<1> HIDE DEF b
<1>10. /\ Extends(job'.state, job.state)
       /\ job'.began = job.began /\ job'.cache = b.cache
  <2>1. CASE job' = EnterBatch(b, 0)
    <3>1. 0 <= Len(b.state.batches)
      BY <1>9, StatesAre DEF Jobs
    <3> QED BY <1>9, <2>1, <3>1, EnterExtends, EnterBatchIs
  <2>2. CASE job' = [b EXCEPT !.pc = "ask"]
    BY <1>9, <2>2, ExtendsSame DEF Jobs
  <2> QED BY <1>8, <1>9, <2>1, <2>2, AwaitIs
<1>11. CacheSeen'
  <2>1. CacheSeen /\ job'.cache = With(job.cache, <<j, from>>, page)
    BY <1>3, <1>4, <1>9, <1>10 DEF JobFinds
  <2> HIDE DEF from
  <2> QED BY <1>2, <1>3, <1>6, <1>10, <2>1, CacheSeenGrows
<1>12. PICK n \in Nat : /\ job.reach = (n + 1) * half
                        /\ \A u \in Due : index[u] \div half # n
  BY <1>2, <1>3 DEF JobFinds, Derived
<1> QED BY <1>2, <1>8, <1>9, <1>10, <1>11, <1>12, AwaitFinds


\* The batch of an index.
LEMMA BatchOf ==
    ASSUME NEW h \in Nat \ {0}
    PROVE  /\ \A a \in Nat : a \div h \in Nat /\ (a \div h) * h <= a
           /\ \A j, a \in Nat : j * h <= a /\ a <= j * h + h - 1 => a \div h = j
           /\ \A j, a \in Nat : j < a \div h => j * h \in 0..a /\ j * h + h <= a
<1>1. ASSUME NEW a \in Nat PROVE a \div h \in Nat /\ (a \div h) * h <= a
  OBVIOUS
<1>2. ASSUME NEW j \in Nat, NEW a \in Nat, j * h <= a, a <= j * h + h - 1
      PROVE  a \div h = j
  BY <1>2
<1>3. ASSUME NEW j \in Nat, NEW a \in Nat, j < a \div h
      PROVE  j * h \in 0..a /\ j * h + h <= a
  <2>1. PICK q \in Nat : q = a \div h
    BY <1>1
  <2>2. q * h <= a /\ j + 1 <= q
    BY <1>1, <1>3, <2>1
  <2>3. \A k \in Nat : k <= q => k * h <= q * h
    BY <2>1
  <2>4. (j + 1) * h <= q * h
    BY <2>2, <2>3
  <2>5. (j + 1) * h = j * h + h /\ j * h \in Nat
    OBVIOUS
  <2>6. PICK x \in Nat : x = j * h
    BY <2>5
  <2>7. PICK y : y = q * h
    OBVIOUS
  <2>8. x + h <= y /\ y <= a /\ y \in Int
    BY <2>2, <2>4, <2>5, <2>6, <2>7
  <2> QED BY <2>6, <2>8
<1> QED BY <1>1, <1>2, <1>3

\* A batch is skipped, refused or broken off.
LEMMA BatchOverFinds ==
    ASSUME Typed, Typed', ReadOn, Finds, SkipBatch \/ RefusePage \/ RequestFails
                \/ \E page \in Pages : InsertFails(page)
    PROVE  Finds'
<1>1. /\ Still /\ UNCHANGED <<rows, blocks, saved, spoiled, strayed>>
      /\ job.pc = "batch"
      /\ job'.state = job.state /\ job'.began = job.began /\ job'.cache = job.cache
      /\ job'.reach = job.reach /\ job'.at = job.at
      /\ \/ SkipBatch /\ job'.pc = "stored"
         \/ job'.pc = "mempool" /\ job'.broken
         \/ job'.pc = "reorganized"
  <2>1. job \in Jobs
    BY TypedIs
  <2>2. CASE SkipBatch \/ RefusePage \/ RequestFails
    BY <2>1, <2>2
    DEF SkipBatch, RefusePage, RequestFails, InRange, explorerVars, databaseVars,
        historyVars, Still, Jobs
  <2>3. ASSUME NEW page \in Pages, InsertFails(page) PROVE <1>1!:
    BY <2>1, <2>3
    DEF InsertFails, InRange, explorerVars, databaseVars, historyVars, Still, Jobs
  <2> QED BY <2>2, <2>3
<1>2. JobFinds /\ (Clean' <=> Clean)
  BY <1>1 DEF Finds, Clean
<1>3. CacheSeen'
  BY <1>1, <1>2, StillCacheSeen DEF JobFinds
<1>4. Clean' => ActiveState(saved)' /\ ActiveState(job.state)'
  BY <1>1, <1>2, ExtendsSame, ActiveKept
<1>5. Due' = Due /\ index' = index /\ half' = half /\ \A t \in Txs : Stored(t) => Stored(t)'
  BY <1>1, StillFinds, StillIs, SameStored
<1>6. Probing' /\ Derived'
  BY <1>1, <1>2, <1>5 DEF JobFinds, Probing, Derived
<1>7. ASSUME SkipBatch, NEW t \in Due, index[t] < job.reach PROVE index[t] \div half # job.at
  <2>1. /\ index[t] \in Nat /\ half \in Nat \ {0} /\ job.reach \in Nat /\ job.at \in Nat
        /\ ~(job.at * half < job.reach)
    BY <1>1, <1>7, DueIs, TypedIs DEF SkipBatch, InRange, Jobs
  <2>2. (index[t] \div half) * half <= index[t]
    BY <2>1, BatchOf
  <2> QED BY <1>7, <2>1, <2>2
<1>8. Clean => Read' /\ Ends' /\ Found'
  <2> SUFFICES ASSUME Clean PROVE Read' /\ Ends' /\ Found'
    OBVIOUS
  <2>1. \A t \in Due : index[t] < job.reach /\ index[t] \div half < job.at => Stored(t)'
    BY <1>1, <1>2, <1>5, DueIs DEF JobFinds, Read, Before, Batches
  <2>2. Read'
    BY <1>1, <1>5, <1>7, <2>1 DEF Read, Before
  <2> QED BY <1>1, <1>5, <1>7, <2>2 DEF Ends, Found
<1> QED BY <1>2, <1>3, <1>4, <1>6, <1>8 DEF Finds, JobFinds

\* The next batch begins, or nothing near is left.
LEMMA EndBatchFinds ==
    ASSUME Typed, Typed', ReadOn, Finds, EndBatch
    PROVE  Finds'
<1>1. /\ Still /\ UNCHANGED <<rows, blocks, spoiled, strayed>>
      /\ job.pc = "stored" /\ saved' = job.state
      /\ \/ job' = EnterBatch(job, job.at + 1)
         \/ ~job.had /\ job' = [job EXCEPT !.pc = "mempool"]
  BY DEF EndBatch, explorerVars, databaseVars, historyVars, Still
<1>2. JobFinds /\ (Clean' <=> Clean) /\ JobFlow
  BY <1>1, JobNotIdle DEF Finds, Clean
<1>3. job \in Jobs /\ job.state \in States /\ job.at \in Nat /\ half \in Nat \ {0}
      /\ job.at + 1 \in DOMAIN job.state.batches /\ job.reach \in Nat
  BY <1>1, <1>2, TypedIs DEF Jobs, JobFlow, Working, Batches
<1>4. \A t \in Due : t \in Txs /\ index[t] \in Nat /\ index[t] \div half \in Nat
  BY <1>3, DueIs, BatchOf
<1>5. /\ Extends(job'.state, job.state) /\ job'.began = job.began
      /\ job'.cache = job.cache /\ job'.reach = job.reach
      /\ \/ job'.pc = "batch" /\ job'.at = job.at + 1
         \/ job'.pc = "mempool" /\ ~job.had
  <2>1. CASE job' = EnterBatch(job, job.at + 1)
    <3>1. job.at + 1 \in Nat /\ job.at + 1 <= Len(job.state.batches)
      BY <1>3, StatesAre
    <3> QED BY <1>3, <2>1, <3>1, EnterExtends, EnterBatchIs
  <2>2. CASE ~job.had /\ job' = [job EXCEPT !.pc = "mempool"]
    BY <1>3, <2>2, ExtendsSame DEF Jobs
  <2> QED BY <1>1, <2>1, <2>2
<1>6. CacheSeen' /\ (Clean' => ActiveState(saved)' /\ ActiveState(job.state)')
  BY <1>1, <1>2, <1>5, StillCacheSeen, ActiveKept DEF JobFinds
<1>7. Due' = Due /\ index' = index /\ half' = half /\ \A t \in Txs : Stored(t) => Stored(t)'
  BY <1>1, <1>5, StillFinds, StillIs, SameStored
<1>8. Probing' /\ Derived'
  BY <1>1, <1>2, <1>5, <1>7 DEF JobFinds, Probing, Derived
<1>9. ASSUME Clean, NEW t \in Due, index[t] < job.reach, index[t] \div half <= job.at
      PROVE  Stored(t)'
  BY <1>1, <1>2, <1>3, <1>4, <1>7, <1>9 DEF JobFinds, Read, Before, Batches
<1>10. ASSUME Clean, ~job.had, NEW t \in Due, IsNear(t) PROVE Stored(t)'
  <2>1. PICK n \in Nat : job.reach = (n + 1) * half /\ \A u \in Due : index[u] \div half # n
    BY <1>1, <1>2 DEF JobFinds, Derived
\* It is before the last of the addresses that were derived ...
  <2>2. index[t] < job.reach
    <3> SUFFICES ASSUME ~(index[t] < job.reach) PROVE FALSE
      OBVIOUS
    <3>1. PICK x \in Nat : x = n * half
      BY <1>3
    <3>2. (n + 1) * half = x + half
      BY <1>3, <3>1
    <3>3. x \in 0..index[t]
      BY <1>3, <1>4, <2>1, <3>1, <3>2
    <3>4. PICK u \in Due : index[u] \in x..(x + half - 1)
      BY <1>10, <3>3 DEF IsNear
    <3>5. index[u] \in Nat /\ x <= index[u] /\ index[u] <= x + half - 1
      BY <1>3, <1>4, <3>4
    <3>6. index[u] \div half = n
      BY <1>3, <3>1, <3>5, BatchOf
    <3> QED BY <2>1, <3>6
\* ... and on a batch before this one, where nothing is due.
  <2>3. index[t] \div half <= job.at
    <3> SUFFICES ASSUME job.at < index[t] \div half PROVE FALSE
      BY <1>3, <1>4
    <3>1. job.at * half \in 0..index[t] /\ job.at * half + half <= index[t]
      BY <1>3, <1>4, BatchOf
    <3>2. PICK u \in Due : index[u] \in (job.at * half)..(job.at * half + half - 1)
      BY <1>10, <3>1 DEF IsNear
    <3>3. PICK x \in Nat : x = job.at * half
      BY <1>3
    <3>4. index[u] < job.reach /\ x <= index[u] /\ index[u] <= x + half - 1
      BY <1>3, <1>4, <2>2, <3>1, <3>2, <3>3
    <3>5. index[u] \div half = job.at
      BY <1>3, <1>4, <3>3, <3>4, BatchOf
    <3> QED BY <1>1, <1>2, <1>10, <3>4, <3>5 DEF JobFinds, Ends
  <2> QED BY <1>9, <1>10, <2>2, <2>3
<1>11. Clean => Read' /\ Ends' /\ Found'
  <2> SUFFICES ASSUME Clean PROVE Read' /\ Ends' /\ Found'
    OBVIOUS
  <2>1. job'.pc = "batch" =>
            \A t \in Due : index[t] < job.reach /\ index[t] \div half < job'.at => Stored(t)'
    BY <1>3, <1>4, <1>5, <1>9
  <2>2. Read'
    BY <1>5, <1>7, <2>1 DEF Read, Before, Batches
  <2>3. \A t \in Due : IsNear(t)' <=> IsNear(t)
    BY <1>7 DEF IsNear
  <2> QED BY <1>5, <1>7, <1>10, <2>2, <2>3 DEF Ends, Found
<1> QED BY <1>2, <1>5, <1>6, <1>8, <1>11 DEF Finds, JobFinds


\* A page that is read has what is due, be it of the cache or a new answer.
LEMMA PagesSeen ==
    ASSUME Typed, ReadOn, Finds, job.pc = "batch", NEW page \in Pages
    PROVE  PageSeen(job.at, BlockOf(job.state, job.at), page)
<1>1. PICK from : from = BlockOf(job.state, job.at)
  OBVIOUS
<1>2. JobBase /\ JobFlow /\ ChainSound /\ JobFinds
  BY JobNotIdle DEF ReadOn, Finds
<1>3. job.at \in Nat /\ from \in BlockRefs /\ job.state.half = half
  BY <1>1, TypedIs, BlockOfIs DEF Jobs, Typed, JobTyped
<1>4. CASE IsCached
  <2>1. PICK k \in DOMAIN job.cache : k = <<job.at, from>>
    BY <1>1, <1>4 DEF IsCached, Key
  <2>2. page = job.cache[k] /\ k[1] = job.at /\ k[2] = from
    BY <1>1, <1>4, <2>1 DEF Pages, Key
  <2>3. PageSeen(k[1], k[2], job.cache[k])
    BY <1>2 DEF JobFinds, CacheSeen
  <2> QED BY <1>1, <2>2, <2>3
<1>5. CASE ~IsCached
  <2>1. Knows(from) /\ page \in Answers(job.at, from)
    BY <1>1, <1>5 DEF Pages
  <2>2. Clean => Active(from, job.at, half)
    <3>1. job.at + 1 \in DOMAIN job.state.batches /\ job.state \in States
      BY <1>2, TypedIs DEF JobFlow, Working, Batches
    <3>2. from = job.state.batches[job.at + 1]
      BY <1>1, <1>3, <3>1, BlockOfIs
    <3>3. PICK i \in DOMAIN job.state.batches : i = job.at + 1
      BY <3>1
    <3>4. Clean => Active(job.state.batches[i], i - 1, job.state.half)
      BY <1>2 DEF JobFinds, ActiveState
    <3>5. job.state.batches[i] = from /\ i - 1 = job.at
      BY <1>3, <3>3, <3>2
    <3> QED BY <1>3, <3>4, <3>5
  <2> QED BY <1>1, <1>2, <1>3, <2>1, <2>2, AnswerSeen
<1> QED BY <1>4, <1>5

LEMMA ReadPageFinds ==
    ASSUME Typed, Typed', ReadOn, Finds, NEW page \in Pages, ReadPage(page)
    PROVE  Finds'
<1> DEFINE from == BlockOf(job.state, job.at)
<1>1. /\ Still /\ UNCHANGED <<spoiled, strayed>> /\ job.pc = "batch"
      /\ BulkInsert([t \in InBlock(page) |-> page.rows[t]])
      /\ saved' = IF InBlock(page) = {} THEN saved ELSE job'.state
  BY DEF ReadPage, InRange, explorerVars, historyVars, Still
<1>2. JobBase /\ JobFlow /\ JobFinds /\ (Clean' <=> Clean)
  BY <1>1, JobNotIdle DEF Finds, Clean
<1>3. PICK block \in BlocksAfter(page) :
            /\ block \in BlockRefs /\ job' \in Jobs
            /\ job'.state = Moved(block)
            /\ job'.pc \in {"batch", "stored"}
            /\ job'.reach = job.reach /\ job'.at = job.at /\ job'.cache = job.cache
            /\ job'.began = job.began /\ job'.asked = job.asked
            /\ job'.pc = "stored" <=> ~page.more
            /\ job'.had <=> job.had \/ DOMAIN page.rows # {}
  BY ReadPageIs
<1>4. /\ PageSound(job.at, from, page) /\ PageSeen(job.at, from, page)
      /\ page \in PageSet
  BY <1>1, PagesSound, PagesSeen, PagesAre
<1>5. /\ job.state \in States /\ job.at \in Nat /\ job.at + 1 \in DOMAIN job.state.batches
      /\ from = job.state.batches[job.at + 1] /\ job.state.half = half
      /\ from \in BlockRefs
  <2>1. job.state \in States /\ job.at \in Nat /\ job.state.half = half
    BY <1>1, TypedIs DEF Jobs, Typed, JobTyped
  <2>2. job.at + 1 \in DOMAIN job.state.batches
    BY <1>1, <1>2 DEF JobFlow, Working, Batches
  <2> QED BY <2>1, <2>2, BlockOfIs
<1> HIDE DEF from
<1>6. \/ block = from /\ InBlock(page) = {}
      \/ \E u \in InBlock(page) : block = page.rows[u]
  BY DEF BlocksAfter, Top, from
<1>7. PICK new \in States :
      /\ new = job'.state /\ new.half = half
      /\ DOMAIN new.batches = DOMAIN job.state.batches
      /\ \A i \in DOMAIN job.state.batches :
            new.batches[i] = IF i = job.at + 1 THEN block ELSE job.state.batches[i]
  BY <1>3, <1>5, MovedIs
<1>8. CacheSeen'
  BY <1>1, <1>2, <1>3, StillCacheSeen DEF JobFinds
<1>9. /\ Due' = Due /\ index' = index /\ half' = half /\ mined' = mined
      /\ \A t \in Due : /\ t \in Txs /\ mined[t] # NoBlock /\ Old(mined[t])
                        /\ index[t] \in Nat
  BY <1>1, <1>3, StillFinds, StillIs, DueIs
<1>10. Probing' /\ Derived'
  BY <1>1, <1>2, <1>3, <1>9 DEF JobFinds, Probing, Derived
\* The batch moves to a block where it has a transaction, or stays.
<1>11. Clean => ActiveState(new)
  <2> SUFFICES ASSUME Clean, NEW i \in DOMAIN job.state.batches
               PROVE  Active(new.batches[i], i - 1, half)
    BY <1>7 DEF ActiveState
  <2>1. Active(job.state.batches[i], i - 1, half)
    BY <1>2, <1>5 DEF JobFinds, ActiveState
  <2>2. CASE new.batches[i] = job.state.batches[i]
    BY <2>1, <2>2
  <2>3. ASSUME i = job.at + 1, NEW u \in InBlock(page), block = page.rows[u]
        PROVE  Active(new.batches[i], i - 1, half)
    <3>1. u \in Txs /\ index[u] \div half = job.at /\ Present(u) /\ ~Below(mined[u], block)
      BY <1>4, <2>3 DEF PageSound, PageSeen, InBlock
    <3>2. new.batches[i] = block /\ i - 1 = job.at
      BY <1>5, <1>7, <2>3
    <3> QED BY <3>1, <3>2 DEF Active
  <2> QED BY <1>5, <1>6, <1>7, <2>2, <2>3
<1>12. Clean' => ActiveState(saved)' /\ ActiveState(job.state)'
  <2>1. Clean => ActiveState(new)'
    BY <1>1, <1>11, StillFinds
  <2>2. PICK s : s = saved
    OBVIOUS
  <2>3. Clean => ActiveState(s)'
    BY <1>1, <2>2, StillFinds DEF Finds
  <2>4. saved' \in {s, new}
    BY <1>1, <1>7, <2>2
  <2>5. ASSUME Clean PROVE ActiveState(saved)' /\ ActiveState(job.state)'
    <3>1. CASE saved' = s
      BY <1>7, <2>1, <2>3, <2>5, <3>1
    <3>2. CASE saved' = new
      BY <1>7, <2>1, <2>5, <3>2
    <3> QED BY <2>4, <3>1, <3>2
  <2> QED BY <1>2, <2>5
\* What is due on the page is stored as it is, and nothing else that is due changes.
<1>13. ASSUME NEW t \in Due, Stored(t) \/ t \in DOMAIN page.rows
       PROVE  Stored(t)'
  <2>1. /\ DOMAIN rows' = DOMAIN rows \cup InBlock(page)
        /\ \A u \in InBlock(page) : rows'[u] = page.rows[u]
        /\ \A u \in DOMAIN rows \ InBlock(page) : rows'[u] = rows[u]
    BY <1>1, <1>4, InsertIs
  <2>2. t \in DOMAIN page.rows => page.rows[t] = mined[t] /\ t \in InBlock(page)
    BY <1>4, <1>9 DEF PageSound, InBlock
  <2>3. InBlock(page) \subseteq DOMAIN page.rows
    BY DEF InBlock
  <2> QED BY <1>9, <1>13, <2>1, <2>2, <2>3 DEF Stored
<1>14. ASSUME Clean, ~page.more, NEW t \in Due, index[t] \div half = job.at
       PROVE  t \in DOMAIN page.rows \/ (Stored(t) /\ from # NoBlock)
  <2>1. t \in DOMAIN page.rows \/ Below(mined[t], from)
    BY <1>4, <1>14 DEF PageSeen
  <2>2. PICK i \in DOMAIN job.state.batches : i = job.at + 1
    BY <1>5
  <2>3. Sound(job.state.batches[i], i - 1, half)
    BY <1>2, <1>5, <1>14 DEF JobBase, SoundState, Clean
  <2>4. job.state.batches[i] = from /\ i - 1 = job.at
    BY <1>5, <2>2
  <2>5. Below(mined[t], from) => Stored(t)
    BY <1>9, <1>14, <2>3, <2>4 DEF Sound
  <2>6. mined[t] \in BlockRefs
    BY DueIs
  <2>7. Below(mined[t], from) => from # NoBlock
    BY <2>6, BlockRefsAre, BoundsAssumption DEF Below, NoBlock
  <2> QED BY <2>1, <2>5, <2>7
<1>15. Clean => Read' /\ Ends' /\ Found'
  <2> SUFFICES ASSUME Clean PROVE Read' /\ Ends' /\ Found'
    OBVIOUS
  <2>1. ASSUME NEW t \in Due, index[t] < job.reach,
               \/ index[t] \div half < job.at
               \/ ~page.more /\ index[t] \div half = job.at
        PROVE  Stored(t)'
    <3>1. CASE index[t] \div half < job.at
      BY <1>1, <1>2, <1>13, <2>1, <3>1 DEF JobFinds, Read, Before, Batches
    <3>2. CASE ~page.more /\ index[t] \div half = job.at
      BY <1>13, <1>14, <3>2
    <3> QED BY <2>1, <3>1, <3>2
  <2>2. Read'
    BY <1>3, <1>9, <2>1 DEF Read, Before
  <2>3. ASSUME ~page.more, DOMAIN page.rows = {}, NEW t \in Due
        PROVE  index[t] \div half # job.at
    BY <1>4, <1>14, <2>3 DEF PageSeen
  <2>4. Ends'
    BY <1>3, <1>9, <2>3 DEF Ends
  <2> QED BY <1>3, <2>2, <2>4 DEF Found
<1> QED BY <1>2, <1>8, <1>10, <1>12, <1>15 DEF Finds, JobFinds


\* A state whose batches go back, or begin at the beginning, is as active.
LEMMA BackActive ==
    ASSUME Typed, NEW s \in States, NEW f \in States, f.half = s.half, ActiveState(s),
           \A i \in DOMAIN f.batches :
                \/ f.batches[i] = NoBlock
                \/ i \in DOMAIN s.batches /\ GoesBack(f.batches[i], s.batches[i])
    PROVE  ActiveState(f)
<1> SUFFICES ASSUME NEW i \in DOMAIN f.batches, f.batches[i] # NoBlock
             PROVE  \E v \in Txs : /\ index[v] \div f.half = i - 1 /\ Present(v)
                                   /\ ~Below(mined[v], f.batches[i])
  BY DEF ActiveState, Active
<1>1. i \in DOMAIN s.batches /\ GoesBack(f.batches[i], s.batches[i])
  OBVIOUS
<1>2. PICK c \in BlockRefs, d \in BlockRefs : c = f.batches[i] /\ d = s.batches[i]
  BY <1>1, StatesAre
<1>3. c # NoBlock /\ c[1] <= d[1] /\ c[2] <= d[2]
  BY <1>1, <1>2 DEF GoesBack
<1>4. d # NoBlock
  BY <1>3, BlockRefsAre, BoundsAssumption DEF NoBlock
<1>5. PICK v \in Txs : index[v] \div s.half = i - 1 /\ Present(v) /\ ~Below(mined[v], d)
  BY <1>1, <1>2, <1>4 DEF ActiveState, Active
<1>6. mined[v] \in BlockRefs
  BY TypedIs
<1>7. ~Below(mined[v], c)
  BY <1>3, <1>5, <1>6, BlockRefsAre, BoundsAssumption DEF Below
<1> QED BY <1>2, <1>5, <1>7

\* A recovery that does not stray takes batches back, and what is due stays stored.
LEMMA RecoveryGoesBack ==
    ASSUME Typed, ReadOn, RecoverFromReorganization
    PROVE  /\ \A t \in Txs : Stored(t) => Stored(t)'
           /\ strayed => strayed'
           /\ ~strayed' => \A i \in DOMAIN job'.state.batches :
                \/ job'.state.batches[i] = NoBlock
                \/ /\ i \in DOMAIN job.state.batches
                   /\ GoesBack(job'.state.batches[i], job.state.batches[i])
<1>1. /\ Still /\ job.pc = "reorganized"
  BY DEF RecoverFromReorganization, explorerVars, Still
<1>2. JobFlow /\ ChainSound /\ TableSound
  BY <1>1, JobNotIdle DEF ReadOn
<1>3. /\ job \in Jobs /\ job.state \in States /\ job.at \in Nat
      /\ job.at <= Len(job.state.batches) /\ Len(job.state.batches) \in Nat
  <2>1. job \in Jobs /\ job.state \in States /\ job.at \in Nat
        /\ job.at + 1 \in DOMAIN job.state.batches
    BY <1>1, <1>2, TypedIs DEF Jobs, JobFlow, Working, Batches
  <2> QED BY <2>1, StatesAre
<1>4. CASE ~CanDelete(Doomed)
  <2>1. job' = EnterBatch(job, job.at) /\ UNCHANGED <<databaseVars, strayed>>
    BY <1>4, RecoveryIs
  <2>2. Extends(job'.state, job.state)
    BY <1>3, <2>1, EnterExtends
  <2>3. \A t \in Txs : Stored(t) => Stored(t)'
    BY <1>1, <2>1, SameStored, StillIs DEF databaseVars
  <2>4. \A i \in DOMAIN job.state.batches :
            GoesBack(job.state.batches[i], job.state.batches[i])
    <3>1. \A b \in BlockRefs : GoesBack(b, b)
      BY BlockRefsAre, BoundsAssumption DEF GoesBack
    <3>2. \A i \in DOMAIN job.state.batches : job.state.batches[i] \in BlockRefs
      BY <1>3, StatesAre
    <3> QED BY <3>1, <3>2
  <2> QED BY <2>1, <2>2, <2>3, <2>4 DEF Extends
<1>5. CASE CanDelete(Doomed)
  <2>1. PICK block \in BlockRefs :
          /\ block \in LastBlock(blocks') /\ DeleteBlocks(Doomed)
          /\ job' = EnterBatch([job EXCEPT !.state = Back(block)], job.at)
          /\ [job EXCEPT !.state = Back(block)] \in Jobs
          /\ strayed' = (strayed \/ Strays(Back(block).batches, job.state.batches))
    BY <1>5, RecoveryIs
  <2>2. PICK F \in blocks : Doomed = {F} /\ F \notin ChainBlocks \cup {NoBlock}
    BY <1>1, <1>5, RefusedIs
  <2>3. \A t \in Txs : Stored(t) => Stored(t)'
    BY <1>1, <1>2, <2>1, <2>2, DeleteKeeps
  <2>4. PICK e \in States : e = Back(block)
    BY <2>1, BackIs
  <2>5. DOMAIN e.batches = DOMAIN job.state.batches /\ Len(e.batches) = Len(job.state.batches)
    <3>1. job.state.batches \in Seq(BlockRefs) /\ e.batches = RewindAll(job.state.batches, block)
      BY <1>3, <2>1, <2>4, BackIs, StatesAre
    <3>2. DOMAIN e.batches = DOMAIN job.state.batches
      BY <3>1, RewindAllIs
    <3> QED BY <1>3, <2>4, <3>2, StatesAre
  <2>6. Extends(job'.state, e)
    <3>1. PICK b \in Jobs : b = [job EXCEPT !.state = Back(block)]
      BY <2>1
    <3>2. b.state = e
      BY <1>3, <2>4, <3>1 DEF Jobs
    <3> QED BY <1>3, <2>1, <2>5, <3>1, <3>2, EnterExtends
  <2>7. ~strayed' => \A i \in DOMAIN job.state.batches :
                        GoesBack(e.batches[i], job.state.batches[i])
    BY <2>1, <2>4 DEF Strays
  <2> QED BY <2>1, <2>3, <2>5, <2>6, <2>7 DEF Extends
<1> QED BY <1>4, <1>5

LEMMA RecoverFinds ==
    ASSUME Typed, Typed', ReadOn, Finds, RecoverFromReorganization
    PROVE  Finds'
<1>1. /\ Still /\ UNCHANGED spoiled /\ job.pc = "reorganized"
  BY DEF RecoverFromReorganization, explorerVars, Still
<1>2. /\ job'.pc = "batch" /\ job'.at = job.at
      /\ job'.state.half = job.state.half
      /\ job'.reach = job.reach /\ job'.cache = job.cache
      /\ job'.began = job.began /\ saved' = job'.state
  BY RecoveryIs
<1>3. JobFinds /\ (Clean' => Clean)
  BY <1>1, RecoveryGoesBack DEF Finds, Clean
<1>4. CacheSeen'
  BY <1>1, <1>2, <1>3, StillCacheSeen DEF JobFinds
<1>5. /\ Due' = Due /\ index' = index /\ half' = half
      /\ \A t \in Due : t \in Txs /\ (Stored(t) => Stored(t)')
  BY <1>1, <1>2, StillFinds, StillIs, DueIs, RecoveryGoesBack
<1>6. Probing' /\ Derived'
  BY <1>1, <1>2, <1>3, <1>5 DEF JobFinds, Probing, Derived
<1>7. ASSUME Clean' PROVE ActiveState(saved)' /\ ActiveState(job.state)'
  <2>1. PICK s \in States, f \in States : s = job.state /\ f = job'.state
    BY TypedIs DEF Typed, JobTyped, Jobs
  <2>2. \A i \in DOMAIN f.batches :
            \/ f.batches[i] = NoBlock
            \/ i \in DOMAIN s.batches /\ GoesBack(f.batches[i], s.batches[i])
    BY <1>7, <2>1, RecoveryGoesBack DEF Clean
  <2>3. f.half = s.half /\ ActiveState(s)
    BY <1>2, <1>3, <1>7, <2>1 DEF JobFinds
  <2>4. ActiveState(f)'
    BY <1>1, <2>2, <2>3, BackActive, StillFinds
  <2> QED BY <1>2, <2>1, <2>4
<1>8. Clean => Read'
  BY <1>1, <1>2, <1>3, <1>5 DEF JobFinds, Read, Before, Batches
<1> QED BY <1>2, <1>3, <1>4, <1>6, <1>7, <1>8 DEF Finds, JobFinds, Ends, Found


\* A job begins with batches that go back from the saved ones, or all at the
\* beginning.
LEMMA PerformFinds ==
    ASSUME Typed, Typed', ReadOn, Finds, PerformSynchronization
    PROVE  Finds'
<1>1. PICK height \in DeepestFailed(saved.batches), block \in LastBlockWithOperations :
        /\ job' = [NoJob EXCEPT
                     !.pc = "head",
                     !.state = InitializeSavedState(
                       [saved EXCEPT !.batches = Rewind(@, height, block)]),
                     !.began = <<Len(chain), reorgs>>]
        /\ strayed' = (strayed \/
                Strays(Rewind(saved.batches, height, block), saved.batches))
  BY DEF PerformSynchronization
<1>2. Still /\ UNCHANGED <<saved, spoiled>>
  BY DEF PerformSynchronization, explorerVars, databaseVars, Still
<1>3. /\ saved \in States /\ saved.batches \in Seq(BlockRefs) /\ half \in Halves
      /\ block \in BlockRefs
  <2>1. {rows[t] : t \in DOMAIN rows} \ {NoBlock} \in SUBSET BlockRefs
    BY TypedIs
  <2>2. block \in BlockRefs
    BY <2>1, LastBlockIs DEF LastBlockWithOperations
  <2> QED BY <2>2, TypedIs DEF Typed, JobTyped, States
<1> DEFINE rewound == Rewind(saved.batches, height, block)
<1>4. rewound \in Seq(BlockRefs) /\ DOMAIN rewound = DOMAIN saved.batches
  BY <1>3, RewindIs
<1> HIDE DEF rewound
<1>5. PICK r \in States : r = [saved EXCEPT !.batches = rewound]
  BY <1>3, <1>4 DEF States
<1>6. r.half = saved.half /\ r.batches = rewound
  BY <1>3, <1>5 DEF States
<1>7. PICK f \in States : f = InitializeSavedState(r)
  BY <1>3, InitializeIs
<1>8. /\ r.half = half => f = r
      /\ r.half # half =>
            \A i \in DOMAIN f.batches :
                /\ r.batches # <<>>
                /\ \A k \in DOMAIN r.batches : f.batches[i][1] <= r.batches[k][1]
  BY <1>3, <1>7, InitializeIs
<1>9. job'.pc = "head" /\ job'.state = f /\ job'.cache = [k \in {} |-> NoRows]
  <2>1. [saved EXCEPT !.batches = Rewind(@, height, block)] = r
    BY <1>3, <1>5 DEF rewound, States
  <2>2. job' = [NoJob EXCEPT !.pc = "head", !.state = f,
                             !.began = <<Len(chain), reorgs>>]
    BY <1>1, <1>7, <2>1
  <2> QED BY <2>2 DEF NoJob
<1>10. Clean' => /\ Clean /\ ActiveState(saved)
                 /\ \A i \in DOMAIN r.batches : GoesBack(r.batches[i], saved.batches[i])
  BY <1>1, <1>2, <1>4, <1>6 DEF Clean, Finds, Strays, rewound
<1>11. Clean' => ActiveState(saved)'
  <2>1. PICK s : s = saved
    OBVIOUS
  <2>2. Clean' => ActiveState(s)'
    BY <1>2, <1>10, <2>1, StillFinds
  <2> QED BY <1>2, <2>1, <2>2
<1>12. ASSUME Clean' PROVE ActiveState(f)
  <2>1. CASE r.half = half
    <3>1. ActiveState(r)
      BY <1>3, <1>4, <1>6, <1>10, <1>12, BackActive
    <3> QED BY <1>8, <2>1, <3>1
  <2>2. ASSUME r.half # half, NEW i \in DOMAIN f.batches PROVE f.batches[i] = NoBlock
    <3>1. r.batches # <<>> /\ saved.batches # <<>>
      BY <1>3, <1>4, <1>6, <1>8, <2>2
    <3>2. NoBlock \in ToSet(saved.batches)
      BY <1>6, <1>10, <1>12, <2>2, <3>1 DEF ReadOn, SavedSound, Resized, Clean
    <3>3. PICK k \in DOMAIN saved.batches : saved.batches[k] = NoBlock
      BY <3>2 DEF ToSet
    <3>4. k \in DOMAIN r.batches /\ GoesBack(r.batches[k], NoBlock) /\ r.batches[k] \in BlockRefs
      BY <1>4, <1>6, <1>10, <1>12, <3>3
    <3>5. r.batches[k][1] = 0
      BY <3>4, BlockRefsAre, BoundsAssumption DEF GoesBack, NoBlock
    <3>6. f.batches[i][1] <= 0 /\ f.batches[i] \in BlockRefs
      BY <1>8, <2>2, <3>4, <3>5, StatesAre
    <3> QED BY <3>6, BlockRefsAre, BoundsAssumption
  <2>3. CASE r.half # half
    BY <2>2, <2>3 DEF ActiveState, Active
  <2> QED BY <2>1, <2>3
<1>13. Clean' => ActiveState(job.state)'
  <2>1. Clean' => ActiveState(f)'
    BY <1>2, <1>12, StillFinds
  <2> QED BY <1>9, <2>1
<1>14. CacheSeen'
  BY <1>9 DEF CacheSeen
<1> QED BY <1>9, <1>11, <1>13, <1>14
        DEF Finds, JobFinds, Probing, Derived, Read, Ends, Found, Batches

\* The explorer and the application: nothing leaves the explorer.
LEMMA OutsideFinds ==
    ASSUME Typed, Typed', ReadOn, Finds,
           \/ Mine \/ Reorganize \/ UNCHANGED vars
           \/ \E t \in Txs : \/ Appear(t) \/ PushTransaction(t)
                             \/ ReadKeychain(t) \/ OptimisticUpdate(t)
    PROVE  Finds'
<1>1. UNCHANGED <<index, saved, half, job, spoiled, strayed>>
  BY DEF vars, explorerVars, databaseVars, historyVars, Mine, Reorganize, Appear,
         PushTransaction, ReadKeychain, OptimisticUpdate
<1>2. ChainSound /\ TableSound
  BY DEF ReadOn
<1>3. CASE Mine
  <2>1. Grown /\ rows' = rows
    BY <1>2, <1>3, MineGrows DEF Mine, databaseVars
  <2>2. PICK S \in SUBSET mempool :
            /\ mempool' = mempool \ S
            /\ mined' = Over([t \in S |-> <<Len(chain'), reorgs>>], mined)
    BY <1>3 DEF Mine
  <2>3. Len(chain') # 0
    BY <1>3, ChainIs DEF Mine
  <2>4. ASSUME NEW t \in Txs, Present(t) PROVE Present(t)'
    <3>1. DOMAIN mined = Txs
      BY TypedIs
    <3>2. mined'[t] = IF t \in S THEN <<Len(chain'), reorgs>> ELSE mined[t]
      BY <2>2, <3>1 DEF Over
    <3>3. CASE t \in S
      <4>1. mined'[t] = <<Len(chain'), reorgs>>
        BY <3>2, <3>3
      <4>2. mined'[t] # NoBlock
        BY <2>3, <4>1 DEF NoBlock
      <4> QED BY <4>2 DEF Present
    <3>4. CASE t \notin S
      <4>1. mined'[t] = mined[t] /\ (t \in mempool => t \in mempool')
        BY <2>2, <3>2, <3>4
      <4> QED BY <2>4, <4>1 DEF Present
    <3> QED BY <3>3, <3>4
  <2>5. \A t \in Txs : mined'[t] = mined[t] /\ Stored(t) => Stored(t)'
    BY <2>1 DEF Stored
  <2> QED BY <1>1, <2>1, <2>4, <2>5, GrownFinds
<1>4. CASE Reorganize
  <2>1. Grown /\ rows' = rows
    BY <1>2, <1>4, ReorganizeGrows DEF Reorganize, databaseVars
  <2>2. PICK k \in 1..(Len(chain) - 1) :
        LET orphans == {t \in Txs : mined[t][1] > k} IN
            \E S \in SUBSET orphans, h \in (k + 1)..Len(chain) :
                /\ mined' = Over([t \in orphans |->
                                    IF t \in S THEN <<h, reorgs'>> ELSE NoBlock], mined)
                /\ mempool' = mempool \cup (orphans \ S)
    BY <1>4 DEF Reorganize
  <2> DEFINE orphans == {t \in Txs : mined[t][1] > k}
  <2>3. PICK S \in SUBSET orphans, h \in (k + 1)..Len(chain) :
            /\ mined' = Over([t \in orphans |->
                                IF t \in S THEN <<h, reorgs'>> ELSE NoBlock], mined)
            /\ mempool' = mempool \cup (orphans \ S)
    BY <2>2
  <2> HIDE DEF orphans
  <2>4. ASSUME NEW t \in Txs, Present(t) PROVE Present(t)'
    <3>1. DOMAIN mined = Txs /\ h # 0
      BY ChainIs, TypedIs
    <3>2. mined'[t] = IF t \in S THEN <<h, reorgs'>>
                      ELSE IF t \in orphans THEN NoBlock ELSE mined[t]
      BY <2>3, <3>1 DEF Over
    <3> QED BY <2>3, <2>4, <3>1, <3>2 DEF Present, NoBlock
  <2>5. \A t \in Txs : mined'[t] = mined[t] /\ Stored(t) => Stored(t)'
    BY <2>1 DEF Stored
  <2> QED BY <1>1, <2>1, <2>4, <2>5, GrownFinds
<1>5. CASE UNCHANGED vars \/ \E t \in Txs : Appear(t) \/ PushTransaction(t) \/ ReadKeychain(t)
  <2>1. UNCHANGED <<chain, mined, reorgs, rows>> /\ mempool \subseteq mempool'
    BY <1>5 DEF vars, explorerVars, databaseVars, Appear, PushTransaction, ReadKeychain
  <2>2. Grown
    BY <2>1 DEF Grown, Made, ChainBlocks
  <2>3. \A t \in Txs : Present(t) => Present(t)'
    BY <2>1 DEF Present
  <2>4. \A t \in Txs : mined'[t] = mined[t] /\ Stored(t) => Stored(t)'
    BY <2>1 DEF Stored
  <2> QED BY <1>1, <2>2, <2>3, <2>4, GrownFinds
<1>6. ASSUME NEW u \in Txs, OptimisticUpdate(u) PROVE Finds'
  <2>1. UNCHANGED <<chain, mined, reorgs, mempool>> /\ Still
        /\ BulkInsert([v \in {u} |-> NoBlock])
    BY <1>6 DEF OptimisticUpdate, explorerVars, Still
  <2>2. Grown
    BY <2>1 DEF Grown, Made, ChainBlocks
  <2>3. \A t \in Txs : Present(t) => Present(t)'
    BY <2>1 DEF Present
  <2>4. \A t \in Txs : Stored(t) => Stored(t)'
    BY <1>2, <2>1, InsertWaiting
  <2> QED BY <1>1, <2>2, <2>3, <2>4, GrownFinds
<1> QED BY <1>3, <1>4, <1>5, <1>6

LEMMA ConfigureFinds ==
    ASSUME Finds, NEW size \in Halves, Configure(size)
    PROVE  Finds'
<1>1. UNCHANGED <<index, mined, mempool, saved, job, strayed>> /\ job.pc = "idle"
      /\ (Clean' => Clean)
  BY DEF Configure, explorerVars, Clean
<1>2. ActiveState(saved) => ActiveState(saved)'
  BY <1>1 DEF ActiveState, Active, Present, Below
<1> QED BY <1>1, <1>2 DEF Finds

LEMMA NextFinds ==
    Typed /\ Typed' /\ ReadOn /\ Finds /\ [Next]_vars => Finds'
<1> SUFFICES ASSUME Typed, Typed', ReadOn, Finds, [Next]_vars PROVE Finds'
  OBVIOUS
<1>1. CASE \/ Mine \/ Reorganize \/ UNCHANGED vars
           \/ \E t \in Txs : \/ Appear(t) \/ PushTransaction(t)
                             \/ ReadKeychain(t) \/ OptimisticUpdate(t)
  BY <1>1, OutsideFinds
<1>2. CASE \/ \E j \in job.asked : RefuseBatch(j)
           \/ SynchronizeMempool \/ JobFails \/ Crash \/ CrashInRecovery
           \/ \E page \in Pages : CrashInInsert(page)
  <2>1. Still /\ job' = NoJob /\ saved' = saved /\ UNCHANGED <<spoiled, strayed>>
    BY <1>2 DEF RefuseBatch, SynchronizeMempool, JobFails, Crash, CrashInRecovery,
                CrashInInsert, Die, explorerVars, databaseVars, historyVars, Still
  <2>2. Clean' => Clean
    BY <2>1 DEF Clean
  <2> QED BY <2>1, <2>2, JobOverFinds
<1>3. CASE \/ AnswerCurrentBlock \/ AnswerProbe \/ \E j \in job.asked : AnswerBatch(j)
           \/ \E page \in Pages : ReadPage(page)
           \/ SkipBatch \/ EndBatch \/ RefusePage \/ RecoverFromReorganization
  BY <1>3, AnswerCurrentBlockFinds, AnswerProbeFinds, AnswerBatchFinds, ReadPageFinds,
     BatchOverFinds, EndBatchFinds, RecoverFinds
<1>4. CASE RequestFails \/ \E page \in Pages : InsertFails(page)
  BY <1>4, BatchOverFinds
<1>5. CASE PerformSynchronization \/ \E size \in Halves : Configure(size)
  BY <1>5, PerformFinds, ConfigureFinds
<1> QED BY <1>1, <1>2, <1>3, <1>4, <1>5 DEF Next, Continue

\* Every transaction that was mined when a job began, and to which no gap leads
\* that is as long as half a batch, is stored when the job ends, if none of its
\* requests and insertions failed: derivation does not stop before it and no
\* batch is left out, whatever is cached, reorganized and recovered meanwhile.
THEOREM GapIsSearched == Spec => DiscoversWithinGap
<1>1. Init => Finds
  BY NoJobIs DEF Init, Finds, ActiveState, NoState
<1>2. Typed /\ ReadOn /\ Finds /\ [Next]_vars =>
        (SynchronizeMempool /\ ~job.broken /\ ~spoiled /\ ~strayed =>
            \A t \in Due : IsNear(t) => Stored(t)')
  <2> SUFFICES ASSUME Typed, ReadOn, Finds, SynchronizeMempool, ~job.broken,
                      ~spoiled, ~strayed, NEW t \in Due, IsNear(t)
               PROVE  Stored(t)'
    OBVIOUS
  <2>1. Stored(t) /\ t \in Txs
    BY DueIs DEF SynchronizeMempool, Finds, JobFinds, Found, Clean
  <2>2. Still /\ BulkInsert([u \in job.held |-> NoBlock]) /\ TableSound
    BY DEF SynchronizeMempool, explorerVars, Still, ReadOn
  <2> QED BY <2>1, <2>2, InsertWaiting
<1> QED BY <1>1, <1>2, AlwaysTyped, InitReadsOn, NextReadsOn, NextFinds, PTL
        DEF Spec, DiscoversWithinGap
=============================================================================
