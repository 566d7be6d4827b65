----------------------------- MODULE MCBatchSync -----------------------------
(***************************************************************************)
(* BatchSync for TLC: nothing tells one hash from another, nor one account *)
(* of the pool, so states that differ by a permutation of them are         *)
(* explored once.                                                          *)
(***************************************************************************)
EXTENDS BatchSync, TLC

Symmetry == Permutations(Hashes) \cup Permutations(Accounts)
=============================================================================
