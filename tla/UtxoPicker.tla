------------------------------ MODULE UtxoPicker ------------------------------
(***************************************************************************)
(* The coin selection of a Bitcoin-like account: how                       *)
(* BitcoinLikeStrategyUtxoPicker chooses the outputs of the account that a *)
(* transaction spends, and BitcoinLikeUtxoPicker makes its outputs.  Two   *)
(* strategies take coins in an order until they are enough; OPTIMIZE_SIZE  *)
(* searches the sets of coins for one that needs no change, and if there   *)
(* is none approximates one at random.                                     *)
(*                                                                         *)
(* A coin is an unspent output of the account.  A request has a single     *)
(* recipient.  Sizes are the upper estimates of estimateSize: those of all *)
(* three kinds of keychains are a sum of a part for each input and output. *)
(***************************************************************************)
EXTENDS Integers, FiniteSets, FiniteSetsExt, Sequences, SequencesExt, TLC

CONSTANTS Coins,
          Values, Heights,     \* of a coin
          Amounts, Fees,       \* of a request: what is sent, fees per byte
          OutputSizes,         \* the sizes of an output to a recipient
          InputSize,           \* keychain: the size of a signed input
          ChangeSize,          \* keychain: the size of a change output
          Dust, DustPolicy,    \* the currency's, DustPolicy as in the api
          TotalTries           \* how many steps the search may take

FixedSize == 10
EstimatedOutput == 34      \* an output whose script is not known
DefaultFallbackFee == 20   \* per byte, in the long term

ASSUME CoinsAssumption == IsFiniteSet(Coins)
ASSUME SizesAssumption ==
    /\ InputSize \in Nat \ {0} /\ ChangeSize \in 1..EstimatedOutput
    /\ OutputSizes \subseteq Nat \ {0}
ASSUME RequestsAssumption ==
    /\ Values \subseteq Nat /\ Heights \subseteq Nat /\ Amounts \subseteq Nat
    /\ Fees \subseteq Nat \ {0}
ASSUME DustAssumption ==
    Dust \in Nat /\ DustPolicy \in {"FIXED", "PER_BYTE", "PER_KBYTE"}
ASSUME TotalTriesAssumption == TotalTries \in Nat

VARIABLES request,       \* what the builder asked for, and the account's coins
          pc,            \* the part of the selection that runs
          picked,        \* the coins picked so far
          amount,        \* filterWithSort: what they amount to
          outputAmount,  \* the buddy's: what the recipient gets
          changeAmount,  \* the buddy's
          search,        \* the locals of filterWithOptimizeSize
          fellBack,      \* history: the knapsack solver had to give up
          tx             \* the outputs of the transaction

vars == <<request, pc, picked, amount, outputAmount, changeAmount, search,
          fellBack, tx>>

Size(inputs, outputs) == FixedSize + InputSize * inputs + outputs

DustAmount(size) ==
    CASE DustPolicy = "FIXED"     -> Dust
      [] DustPolicy = "PER_BYTE"  -> Dust * size
      [] DustPolicy = "PER_KBYTE" -> (Dust * size) \div 1000

\* A coin in no block has the greatest height.
Pending == Max(Heights)
Confirmed(c) == request.height[c] # Pending
MyCoins == DOMAIN request.value
Total(S) == MapThenSumSet(LAMBDA c : request.value[c], S)

NoSearch ==
    [order |-> <<>>, selection |-> <<>>, value |-> 0, available |-> 0,
     waste |-> 0, best |-> {}, bestWaste |-> 0, tries |-> 0]
NoTx == [sent |-> 0, change |-> 0]

Requests ==
    (UNION {[value : [S -> Values], height : [S -> Heights], output : OutputSizes,
             fee : Fees, strategy : {"DEEP_OUTPUTS_FIRST", "OPTIMIZE_SIZE", "MERGE_OUTPUTS"},
             confirmedFirst : BOOLEAN, amount : Amounts, wipe : {FALSE}] :
            S \in SUBSET Coins})
    \cup
    (UNION {[value : [S -> Values], height : [S -> Heights], output : OutputSizes,
             fee : Fees, strategy : {"DEEP_OUTPUTS_FIRST"}, confirmedFirst : {FALSE},
             amount : {0}, wipe : {TRUE}] : S \in SUBSET Coins})

Init ==
    /\ request \in Requests
    /\ pc = "filter"
    /\ picked = {}
    /\ amount = 0
    /\ outputAmount = request.amount
    /\ changeAmount = 0
    /\ search = NoSearch
    /\ fellBack = FALSE
    /\ tx = NoTx

-----------------------------------------------------------------------------
(* Coins in an order, until they are enough.                               *)

\* compareConfirmation: the confirmed one of two coins comes first.
ConfirmedBefore(c, d) == Confirmed(c) /\ ~Confirmed(d)

\* A confirmed coin before one that is not; else what By says.
Before(By, c, d) ==
    \/ request.confirmedFirst /\ ConfirmedBefore(c, d)
    \/ (request.confirmedFirst => ~ConfirmedBefore(d, c)) /\ By

\* The orders of filterWithDeepFirst and filterWithMergeOutputs.
SortsBefore(c, d) ==
    IF pc = "deep" THEN request.height[c] < request.height[d]
    ELSE Before(request.value[c] < request.value[d], c, d)

\* Mutant: the change is what is left without a change output.
HasEnoughForNone(total, inputs, last) ==
    LET rest == total - outputAmount - request.fee * Size(inputs, request.output)
        refused == [enough |-> FALSE, change |-> changeAmount, output |-> outputAmount]
    IN IF outputAmount > total \/ rest < 0 THEN refused
       ELSE IF request.wipe
       THEN IF last THEN [refused EXCEPT !.output = rest] ELSE refused
       ELSE [refused EXCEPT !.enough = TRUE, !.change = rest]

\* hasEnough: may the transaction be made of these coins, and what it leaves in
\* changeAmount and outputAmount in either case.
HasEnough(total, inputs, last) ==
    LET rest == total - outputAmount - request.fee * Size(inputs, request.output)
        restWithChange == rest - request.fee * ChangeSize
        refused == [enough |-> FALSE, change |-> changeAmount, output |-> outputAmount]
    IN IF outputAmount > total \/ rest < 0 THEN refused
       ELSE IF request.wipe
       THEN IF last THEN [refused EXCEPT !.output = rest] ELSE refused
       ELSE IF rest <= DustAmount(Size(inputs, 2 * EstimatedOutput))
       THEN [refused EXCEPT !.enough = TRUE, !.change = rest]
       ELSE [refused EXCEPT !.enough = restWithChange >= 0, !.change = restWithChange]

\* filterWithSort, one coin.
PickNext(c) ==
    /\ pc \in {"deep", "merge"}
    /\ c \in MyCoins \ picked
    /\ \A d \in MyCoins \ picked : ~SortsBefore(d, c)
    /\ picked' = picked \cup {c}
    /\ amount' = amount + request.value[c]
    /\ LET last == picked' = MyCoins
           found == HasEnough(amount', Cardinality(picked'), last)
       IN /\ changeAmount' = found.change
          /\ outputAmount' = found.output
          /\ pc' = IF found.enough \/ (last /\ request.wipe) THEN "outputs"
                   ELSE IF last THEN "failed" ELSE pc
    /\ UNCHANGED <<request, search, fellBack, tx>>

-----------------------------------------------------------------------------
(* filterWithOptimizeSize: the search for coins that need no change.       *)

InputCost == request.fee * InputSize
CostOfChange == request.fee * (InputSize + EstimatedOutput)
Effective(c) == request.value[c] - InputCost
EffectiveTotal(S) == MapThenSumSet(Effective, S)
EffectiveCoins == {c \in MyCoins : Effective(c) > 0}
\* What the coins must amount to, less the fees of their inputs.
Target == outputAmount + request.fee * Size(0, request.output)
WasteOfInput == InputCost - DefaultFallbackFee * InputSize

SearchesBefore(c, d) == Before(Effective(c) > Effective(d), c, d)
Orders ==
    {s \in SetToSeqs(EffectiveCoins) :
        \A i, j \in DOMAIN s : i < j => ~SearchesBefore(s[j], s[i])}

\* The deepest coin that is in the selection, and the coins that are.
Deepest(selection) == Max({0} \cup {i \in DOMAIN selection : selection[i]})
Selected(s) == {s.order[i] : i \in {j \in DOMAIN s.selection : s.selection[j]}}

\* There is not enough left, or too much selected; or it is worse than the best,
\* and every other coin makes it still worse.
IsHopeless ==
    \/ search.value + search.available < Target
    \/ search.value > Target + CostOfChange
    \/ search.best # {} /\ search.waste > search.bestWaste /\ WasteOfInput > 0

IsInRange == ~IsHopeless /\ search.value >= Target

\* Mutant: the last selection is taken for the best.
LastOf(s) ==
    IF IsInRange
    THEN [s EXCEPT !.best = Selected(s), !.bestWaste = s.waste + s.value - Target]
    ELSE s

\* The best selection, with this one.
BestOf(s) ==
    IF IsInRange /\ (s.best = {} \/ s.waste + s.value - Target <= s.bestWaste)
    THEN [s EXCEPT !.best = Selected(s), !.bestWaste = s.waste + s.value - Target]
    ELSE s

\* Mutant: what is left is not counted again when the search goes back.
OmitDeepestOnly(s) ==
    LET k == Deepest(s.selection) IN
    [s EXCEPT !.selection = Append(SubSeq(s.selection, 1, k - 1), FALSE),
              !.value = @ - Effective(s.order[k]),
              !.waste = @ - WasteOfInput]

\* Back to the deepest coin that is in the selection: it is left out.
OmitDeepest(s) ==
    LET k == Deepest(s.selection) IN
    [s EXCEPT !.selection = Append(SubSeq(s.selection, 1, k - 1), FALSE),
              !.available = @ + EffectiveTotal({s.order[i] :
                                    i \in (k + 1)..Len(s.selection)}),
              !.value = @ - Effective(s.order[k]),
              !.waste = @ - WasteOfInput]

\* Forward: the next coin is taken, unless one like it was just left out.
TakeNext(s) ==
    LET k == Len(s.selection) + 1
        c == s.order[k]
        known == /\ k > 1 /\ ~s.selection[k - 1]
                 /\ Effective(s.order[k - 1]) = Effective(c)
        fewer == [s EXCEPT !.available = @ - Effective(c)]
    IN IF known THEN [fewer EXCEPT !.selection = Append(@, FALSE)]
       ELSE [fewer EXCEPT !.selection = Append(@, TRUE),
                          !.value = @ + Effective(c),
                          !.waste = @ + WasteOfInput]

IsSearching == pc = "search" /\ search.tries < TotalTries

Backtrack ==
    /\ IsSearching
    /\ IsHopeless \/ IsInRange
    /\ Deepest(search.selection) # 0
    /\ search' = OmitDeepest(BestOf([search EXCEPT !.tries = @ + 1]))
    /\ UNCHANGED <<request, pc, picked, amount, outputAmount, changeAmount, fellBack, tx>>

Forward ==
    /\ IsSearching
    /\ ~IsHopeless /\ ~IsInRange
    /\ search' = TakeNext([search EXCEPT !.tries = @ + 1])
    /\ UNCHANGED <<request, pc, picked, amount, outputAmount, changeAmount, fellBack, tx>>

\* Nothing is left to go back to, or there were too many tries.
EndSearch ==
    /\ pc = "search"
    /\ \/ /\ search.tries < TotalTries
          /\ IsHopeless \/ IsInRange
          /\ Deepest(search.selection) = 0
       \/ search.tries = TotalTries
    /\ pc' = IF search.best = {} THEN "knapsack" ELSE "outputs"
    /\ picked' = search.best
    /\ UNCHANGED <<request, amount, outputAmount, changeAmount, search, fellBack, tx>>

-----------------------------------------------------------------------------
(* filterWithKnapsackSolver.                                               *)

\* One repetition of approximateBestSubset, with these random bits: a coin that
\* reaches the target is counted and left out again.  "dust" is taken off each
\* input, "least" is added to the target.
Repetition(order, bits, all, dust, least) ==
    LET Take(s, i) ==
            LET total == s.total + Effective(order[i]) - dust
                included == s.included \cup {i}
            IN IF total < Target + least
               THEN [s EXCEPT !.total = total, !.included = included]
               ELSE [s EXCEPT !.reached = TRUE,
                       !.value = IF total < @ THEN total ELSE @,
                       !.best = IF total < s.value THEN included ELSE @]
        Pass(s, S) ==
            FoldLeft(LAMBDA r, i : IF i \in S THEN Take(r, i) ELSE r, s,
                     [i \in DOMAIN order |-> i])
        first == Pass([total |-> 0, included |-> {}, reached |-> FALSE,
                       value |-> all, best |-> DOMAIN order], bits)
    IN IF first.reached THEN first ELSE Pass(first, DOMAIN order \ first.included)

\* What the repetitions may end with: the best of any of them.
Approximations(order, all, dust, least) ==
    {LET r == Repetition(order, bits, all, dust, least) IN
        [value |-> r.value, coins |-> {order[i] : i \in r.best}] :
     bits \in SUBSET DOMAIN order}

\* The least change that is worth to be made, with so many inputs and so large
\* outputs.
LeastChange(inputs, outputs) == DustAmount(Size(inputs, outputs)) + InputCost

\* Coins too large to be combined, and the others.
LargerCoins ==
    {c \in MyCoins : Effective(c) >= Target + LeastChange(2, request.output)}
LowerCoins == MyCoins \ LargerCoins
LowerOrders ==
    {s \in SetToSeqs(LowerCoins) : \A i, j \in DOMAIN s : i < j =>
        ~Before(request.value[s[j]] > request.value[s[i]], s[j], s[i])}

\* The first or the smallest of some coins, in a random order that has the
\* confirmed ones first if so configured.
FirstOf(S) ==
    {c \in S : request.confirmedFirst => \A d \in S : ~ConfirmedBefore(d, c)}
SmallestOf(S) ==
    FirstOf({c \in S : \A d \in S : request.value[c] <= request.value[d]})

\* The second try, for a change that is worth it.
BestSubsets(order) ==
    LET all == EffectiveTotal(LowerCoins)
        first == Approximations(order, all, 0, 0)
        again == Approximations(order, all, DustAmount(InputSize),
                    DustAmount(FixedSize + request.output) + DustAmount(InputSize))
    IN IF all < Target + LeastChange(2, request.output) THEN first
       ELSE {b \in first : b.value = Target} \cup
            (IF \E b \in first : b.value # Target THEN again ELSE {})

\* A subset, or the smallest of the larger coins if that is better.
Choose(best, S, minimum) ==
    LET rest(value) == value - Target - request.fee * EstimatedOutput
        change(value) == IF rest(value) < minimum THEN 0 ELSE rest(value)
        lone == {c \in S : \/ best.value # Target /\ best.value < Target + minimum
                           \/ Effective(c) <= best.value}
    IN IF lone = {} THEN {[coins |-> best.coins, change |-> change(best.value)]}
       ELSE {[coins |-> {c}, change |-> change(Effective(c))] : c \in lone}

Solve ==
    /\ pc = "knapsack"
    /\ EffectiveTotal(LowerCoins) >= Target \/ LargerCoins # {}
    /\ \A c \in MyCoins : Effective(c) # Target
    /\ EffectiveTotal(LowerCoins) # Target
    /\ \E order \in LowerOrders : \E best \in BestSubsets(order) :
        \E choice \in Choose(best, SmallestOf(LargerCoins),
                LeastChange(Cardinality(best.coins) + 1, EstimatedOutput)) :
            /\ picked' = choice.coins
            /\ changeAmount' = choice.change
    /\ pc' = "outputs"
    /\ UNCHANGED <<request, amount, outputAmount, search, fellBack, tx>>

\* One coin, or all the lower ones, are just enough.
SolveExactly ==
    /\ pc = "knapsack"
    /\ LET exact == {c \in MyCoins : Effective(c) = Target} IN
        \/ exact # {} /\ \E c \in FirstOf(exact) : picked' = {c}
        \/ /\ exact = {} /\ EffectiveTotal(LowerCoins) = Target
           /\ picked' = LowerCoins
    /\ pc' = "outputs"
    /\ UNCHANGED <<request, amount, outputAmount, changeAmount, search, fellBack, tx>>

\* The lower coins are not enough and there is no other: filterWithDeepFirst, as
\* if what the recipient gets had been collected.
FallBack ==
    /\ pc = "knapsack"
    /\ \A c \in MyCoins : Effective(c) # Target
    /\ EffectiveTotal(LowerCoins) < Target
    /\ LargerCoins = {}
    /\ pc' = "deep"
    /\ amount' = outputAmount
    /\ fellBack' = TRUE
    /\ UNCHANGED <<request, picked, outputAmount, changeAmount, search, tx>>

-----------------------------------------------------------------------------
(* filterInputs, which takes a strategy, and fillOutputs.                   *)

\* Mutant: there must be enough for a change, too.
HasFundsForChange == EffectiveTotal(EffectiveCoins) >= Target + CostOfChange

HasFunds == EffectiveTotal(EffectiveCoins) >= Target

Optimizes == ~request.wipe /\ request.strategy = "OPTIMIZE_SIZE"

\* There is no coin, or the search has not enough.
Refuse ==
    /\ pc = "filter"
    /\ MyCoins = {} \/ (Optimizes /\ ~HasFunds)
    /\ pc' = "failed"
    /\ UNCHANGED <<request, picked, amount, outputAmount, changeAmount, search, fellBack, tx>>

StartSorting ==
    /\ pc = "filter"
    /\ MyCoins # {} /\ ~Optimizes
    /\ pc' = IF request.wipe \/ request.strategy = "DEEP_OUTPUTS_FIRST"
             THEN "deep" ELSE "merge"
    /\ UNCHANGED <<request, picked, amount, outputAmount, changeAmount, search, fellBack, tx>>

StartSearch ==
    /\ pc = "filter"
    /\ MyCoins # {} /\ Optimizes /\ HasFunds
    /\ pc' = "search"
    /\ \E order \in Orders :
        search' = [NoSearch EXCEPT !.order = order,
                                   !.available = EffectiveTotal(EffectiveCoins)]
    /\ UNCHANGED <<request, picked, amount, outputAmount, changeAmount, fellBack, tx>>

\* fillOutputs: a change output is made if the change is more than dust.
FillOutputs ==
    /\ pc = "outputs"
    /\ pc' = "done"
    /\ LET dust == DustAmount(Size(Cardinality(picked), request.output + ChangeSize)) IN
        tx' = [sent |-> outputAmount,
               change |-> IF changeAmount > dust THEN changeAmount ELSE 0]
    /\ UNCHANGED <<request, picked, amount, outputAmount, changeAmount, search, fellBack>>

Next ==
    \/ Refuse \/ StartSorting \/ StartSearch
    \/ \E c \in MyCoins : PickNext(c)
    \/ Backtrack \/ Forward \/ EndSearch
    \/ Solve \/ SolveExactly \/ FallBack
    \/ FillOutputs

Spec == Init /\ [][Next]_vars

-----------------------------------------------------------------------------
Parts == {"filter", "deep", "merge", "search", "knapsack", "outputs", "done", "failed"}

\* Every variable has its type, and the sums that are kept are those of the coins
\* picked or selected, also after the search went back and forth.
TypeOK ==
    /\ pc \in Parts
    /\ picked \subseteq MyCoins /\ amount \in Nat
    /\ outputAmount \in Nat /\ changeAmount \in Int
    /\ tx \in [sent : Nat, change : Nat]
    /\ fellBack \in BOOLEAN
    /\ pc \in {"deep", "merge"} =>
        amount = Total(picked) + (IF fellBack THEN outputAmount ELSE 0)
    /\ ToSet(search.order) \subseteq EffectiveCoins
    /\ search.selection \in Seq(BOOLEAN) /\ search.tries \in 0..TotalTries
    /\ search.best \subseteq EffectiveCoins
    /\ search.value = EffectiveTotal(Selected(search))
    /\ search.waste = Cardinality(Selected(search)) * WasteOfInput
    /\ search.available = EffectiveTotal(
         {search.order[i] : i \in (Len(search.selection) + 1)..Len(search.order)})

Outputs == request.output + (IF tx.change > 0 THEN ChangeSize ELSE 0)
FeeNeeded == request.fee * Size(Cardinality(picked), Outputs)
FeePaid == Total(picked) - tx.sent - tx.change

\* What a transaction pays at most: as much as a change output, with the coin to
\* spend it and dust, would have cost, and the dust that the second try of the
\* knapsack solver takes off each input.  It is the dust of a transaction of all
\* coins: the solver may pick one coin, and give up a change for which a
\* transaction of the many that it had approximated would have been too large.
FeeAccepted ==
    FeeNeeded + CostOfChange
    + DustAmount(Size(Cardinality(MyCoins) + 1, request.output + ChangeSize))
    + Cardinality(picked) * DustAmount(InputSize)

\* A transaction covers its outputs and its fees for its size, and gives away no
\* more than it would cost to make change; but for the fallback of the knapsack
\* solver, for a wipe of less than the fees, and for a recipient whose output is
\* shorter than that of the estimate.
FeeIsFair ==
    pc = "done" /\ ~fellBack
    /\ (request.wipe => tx.sent > 0)
    /\ (DustPolicy = "FIXED" \/ request.output + ChangeSize >= 2 * EstimatedOutput)
    => FeePaid \in FeeNeeded..FeeAccepted

\* Who has enough for a transaction with all coins and a change is not refused.
EnoughIsAccepted ==
    pc = "failed" =>
        Total(MyCoins) < request.amount + request.fee *
            Size(Cardinality(MyCoins), request.output + ChangeSize)

Waste(S) == Cardinality(S) * WasteOfInput + EffectiveTotal(S) - Target
InRange(S) == EffectiveTotal(S) \in Target..(Target + CostOfChange)

\* A search that came to its end has found coins that need no change if there
\* are any, and none of which every coin is needed waste less.
BestIsFound ==
    pc \in {"knapsack", "outputs", "done"} /\ search.order # <<>>
    /\ search.tries < TotalTries =>
        \A S \in SUBSET EffectiveCoins :
            InRange(S) => /\ search.best # {} /\ InRange(search.best)
                          /\ (\A c \in S : EffectiveTotal(S \ {c}) < Target) =>
                                Waste(search.best) <= Waste(S)

\* Coins may be exchanged.
Symmetry == Permutations(Coins)
=============================================================================
