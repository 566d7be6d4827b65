------------------------------ MODULE Keychain ------------------------------
(***************************************************************************)
(* What the keychain of a Bitcoin-like account remembers about the         *)
(* addresses of one purpose, receive or change: CommonBitcoinLikeKeychains *)
(* with its KeychainPersistentState.  An address is its index.             *)
(***************************************************************************)
EXTENDS Integers, FiniteSets, FiniteSetsExt

\* maxConsecutiveIndex is "next", nonConsecutiveIndexes is "apart".
NewKeychain == [next |-> 0, apart |-> {}]

\* The first index from "next" on that is not apart.
FirstUnused(k) ==
    CHOOSE n \in k.next..(k.next + Cardinality(k.apart)) :
        n \notin k.apart /\ k.next..(n - 1) \subseteq k.apart

\* saveState: indices that have become consecutive are counted so.
SaveState(k) ==
    [next |-> FirstUnused(k), apart |-> k.apart \ (k.next..(FirstUnused(k) - 1))]

\* Mutant: an index below "next" is kept apart.
MarkAnyAsUsed(k, i) ==
    IF i \in k.apart THEN k
    ELSE SaveState(IF i = k.next THEN [k EXCEPT !.next = i + 1]
                   ELSE [k EXCEPT !.apart = @ \cup {i}])

\* Mutant: "next" is taken for used already.
MarkAsUsedLate(k, i) ==
    IF i <= k.next \/ i \in k.apart THEN k
    ELSE SaveState([k EXCEPT !.apart = @ \cup {i}])

\* markPathAsUsed, on the state that getState returned.
MarkAsUsed(k, i) ==
    IF i < k.next \/ i \in k.apart THEN k
    ELSE SaveState(IF i = k.next THEN [k EXCEPT !.next = i + 1]
                   ELSE [k EXCEPT !.apart = @ \cup {i}])

\* markAsUsed, for the addresses of several transactions.
MarkAllAsUsed(k, S) == FoldSet(LAMBDA i, j : MarkAsUsed(j, i), k, S)

\* The indices a keychain holds for used; getFreshAddress derives "next".
UsedIndices(k) == 0..(k.next - 1) \cup k.apart
=============================================================================
