--------------------------- MODULE MCBatchSyncLive ---------------------------
(***************************************************************************)
(* BatchSync for TLC's liveness checking, for which symmetry would not be  *)
(* sound.  Behaviours begin when one of three transactions is mined and    *)
(* one waits, before anything was synchronized; and the two kinds of       *)
(* trouble are kept apart by what is left of the bounds:                   *)
(*   - the chain may be reorganized, and nothing else goes wrong;          *)
(*   - or requests fail, the process dies, data is erased and transactions *)
(*     are sent, on a chain that only grows.                               *)
(***************************************************************************)
EXTENDS BatchSync

ASSUME HashesAreNumbers == Hashes = 1..3

\* As after Appear and Mine of the first transaction of each account, and Appear
\* of the second.
LiveInit ==
    /\ chain = <<0>>
    /\ mined = [t \in Txs |-> IF t[2] = 1 THEN <<1, 0>> ELSE NoBlock]
    /\ mempool = {t \in Txs : t[2] = 2}
    /\ blocks = {} /\ rows = NoRows
    /\ saved = [a \in Accounts |-> NoState]
    /\ pc = [a \in Accounts |-> "idle"]
    /\ state = [a \in Accounts |-> NoState]
    /\ toDrop = [a \in Accounts |-> {}]
    /\ page = [a \in Accounts |-> NoRows]
    /\ more = [a \in Accounts |-> FALSE]
    /\ head = [a \in Accounts |-> NotAsked]
    /\ due = [a \in Accounts |-> NoRows]
    /\ pushed = {} /\ unmined = {}
    /\ \/ /\ reorgs = 0
          /\ failures = MaxFailures /\ crashes = MaxCrashes
          /\ erases = MaxErases /\ pushes = MaxPushes
       \/ /\ reorgs = MaxReorgs
          /\ failures = 0 /\ crashes = 0 /\ erases = 0 /\ pushes = 0

LiveSpec == LiveInit /\ [][Next]_vars /\ Fairness
=============================================================================
