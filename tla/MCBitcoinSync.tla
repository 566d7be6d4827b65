---------------------------- MODULE MCBitcoinSync ----------------------------
(***************************************************************************)
(* Values of BitcoinSync's Indexings for TLC.  The index between 0 and 2   *)
(* is a whole batch of one address, and no whole batch of two.             *)
(***************************************************************************)
EXTENDS BitcoinSync

OneIndex == {[t \in Txs |-> 0]}
WithAGap == {f \in [Txs -> {0, 2}] : \E t, u \in Txs : f[t] # f[u]}
=============================================================================
