------------------------------ MODULE BatchSync ------------------------------
(***************************************************************************)
(* What a synchronization of an Ethereum-like account does, and what it    *)
(* leaves behind: AbstractBlockchainExplorerAccountSynchronizer, with      *)
(* the explorer it asks, the tables it fills and the saved state it        *)
(* resumes from.  An account has one address, so a saved state has         *)
(* one batch: the last block seen, and the pending transactions seen       *)
(* twice.  Continuations of one job run one after the other; between two   *)
(* of them anything may happen: the chain grows or is reorganized, another *)
(* account of the pool synchronizes into the same blocks table, a sent     *)
(* transaction is stored, data is erased, the process dies.                *)
(*                                                                         *)
(* A block is <<height, fork>>: the n-th reorganization starts fork n.  A  *)
(* transaction is <<account, hash>>, of the one account it concerns, and so*)
(* is its row in operations.  A date is the height reached at that date.   *)
(***************************************************************************)
EXTENDS Naturals, FiniteSets, Sequences

CONSTANTS Accounts,
          Hashes,             \* what tells transactions of an account apart
          MaxHeight,          \* bound: the length of the chain
          MaxReorgs,          \* bound: how often the chain is reorganized
          MaxFailures,        \* bound: requests or insertions that fail
          MaxCrashes,         \* bound: how often the process dies
          MaxErases,          \* bound: calls of eraseDataSince
          MaxPushes,          \* bound: transactions sent by this process
          EraseDuringSync,    \* whether data is erased while a job runs
          CutsWaiting,        \* whether an account ever has as many transactions
                              \* waiting as fill a page, so that one ends there
          MayEvict,           \* whether the network forgets transactions
          TellsCurrentBlock,  \* whether requests for it are answered
          ClientReportsBlock  \* whether the HTTP client itself reports
                              \* BLOCK_NOT_FOUND, or answers with status 404

ASSUME BoundsAssumption ==
    /\ MaxHeight \in Nat /\ MaxReorgs \in Nat /\ MaxFailures \in Nat
    /\ MaxCrashes \in Nat /\ MaxErases \in Nat /\ MaxPushes \in Nat
ASSUME SwitchesAssumption ==
    /\ EraseDuringSync \in BOOLEAN /\ CutsWaiting \in BOOLEAN /\ MayEvict \in BOOLEAN
    /\ TellsCurrentBlock \in BOOLEAN /\ ClientReportsBlock \in BOOLEAN

VARIABLES chain,      \* explorer: the fork of the block at each height
          mined,      \* explorer: the block of a transaction, or NoBlock
          mempool,    \* explorer: the transactions waiting for a block
          reorgs,     \* explorer: how often the chain was reorganized
          blocks,     \* table blocks, shared by the accounts of the pool
          rows,       \* table operations: transaction -> block, or NoBlock
          saved,      \* preferences: the saved state of each account
          pc,         \* where the job of each account is
          state,      \* buddy->savedState
          toDrop,     \* buddy->transactionsToDrop
          page,       \* the answer to getTransactions, like rows
          more,       \* its hasNext
          head,       \* the current block asked for, or the answer
          due,        \* history: where own transactions were mined when the
                      \* job began
          pushed,     \* sent transactions that are not stored yet
          unmined,    \* history: those whose operation was taken out of its
                      \* block when they were stored
          failures, crashes, erases, pushes

explorerVars == <<chain, mined, mempool, reorgs>>
databaseVars == <<blocks, rows>>
jobVars == <<pc, state, toDrop, page, more, due>>
pushVars == <<pushed, unmined>>
boundVars == <<failures, crashes, erases, pushes>>
vars == <<explorerVars, databaseVars, saved, jobVars, head, pushVars, boundVars>>

Txs == Accounts \X Hashes
Blocks == (1..MaxHeight) \X (0..MaxReorgs)
NoBlock == <<0, 0>>
BlockRefs == Blocks \cup {NoBlock}
NotAsked == <<0, 1>>
Asked == <<0, 2>>
NoRows == [t \in {} |-> NoBlock]
NoState == [block |-> NoBlock, pending |-> {}]

Own(a) == {t \in Txs : t[1] = a}
ChainBlocks == {<<h, chain[h]>> : h \in 1..Len(chain)}
Top(S) == {b \in S : \A c \in S : c[1] <= b[1]}
Without(f, S) == [t \in DOMAIN f \ S |-> f[t]]
Over(f, g) ==
    [t \in DOMAIN f \cup DOMAIN g |-> IF t \in DOMAIN f THEN f[t] ELSE g[t]]

Init ==
    /\ chain = <<>>
    /\ mined = [t \in Txs |-> NoBlock]
    /\ mempool = {}
    /\ reorgs = 0
    /\ blocks = {}
    /\ rows = NoRows
    /\ saved = [a \in Accounts |-> NoState]
    /\ pc = [a \in Accounts |-> "idle"]
    /\ state = [a \in Accounts |-> NoState]
    /\ toDrop = [a \in Accounts |-> {}]
    /\ page = [a \in Accounts |-> NoRows]
    /\ more = [a \in Accounts |-> FALSE]
    /\ head = [a \in Accounts |-> NotAsked]
    /\ due = [a \in Accounts |-> NoRows]
    /\ pushed = {} /\ unmined = {}
    /\ failures = 0 /\ crashes = 0 /\ erases = 0 /\ pushes = 0

-----------------------------------------------------------------------------
(* The explorer and the network.                                           *)

\* Somebody sends a transaction that concerns an account.
Appear(t) ==
    /\ mined[t] = NoBlock /\ t \notin mempool
    /\ mempool' = mempool \cup {t}
    /\ UNCHANGED <<chain, mined, reorgs, databaseVars, saved, jobVars, head,
                   pushVars, boundVars>>

\* The network forgets a transaction that waits for a block.
Evict(t) ==
    /\ MayEvict
    /\ t \in mempool
    /\ mempool' = mempool \ {t}
    /\ UNCHANGED <<chain, mined, reorgs, databaseVars, saved, jobVars, head,
                   pushVars, boundVars>>

\* A block is added, with some of the transactions that wait.
Mine ==
    /\ Len(chain) < MaxHeight
    /\ chain' = Append(chain, reorgs)
    /\ \E S \in SUBSET mempool :
        /\ mempool' = mempool \ S
        /\ mined' = [t \in Txs |->
                        IF t \in S THEN <<Len(chain'), reorgs>> ELSE mined[t]]
    /\ UNCHANGED <<reorgs, databaseVars, saved, jobVars, head, pushVars, boundVars>>

\* The blocks above height k are replaced by as many of a new fork; what they
\* held is in one of the new blocks, waits again, or is forgotten.
Reorganize ==
    /\ reorgs < MaxReorgs
    /\ reorgs' = reorgs + 1
    /\ \E k \in 0..(Len(chain) - 1) :
        LET orphans == {t \in Txs : mined[t][1] > k} IN
        /\ chain' = [h \in 1..Len(chain) |-> IF h <= k THEN chain[h] ELSE reorgs']
        /\ \E place \in [orphans -> {<<h, reorgs'>> : h \in (k + 1)..Len(chain)}
                                        \cup {NoBlock}] :
            /\ mined' = Over(place, mined)
            /\ \E S \in SUBSET {t \in orphans : place[t] = NoBlock} :
                mempool' = mempool \cup S
    /\ UNCHANGED <<databaseVars, saved, jobVars, head, pushVars, boundVars>>

\* The transactions of an account from a block on, that block included, in
\* chain order; those that wait come last.
Listed(a, from) ==
    [t \in {u \in Own(a) : u \in mempool \/
                           (mined[u] # NoBlock /\ mined[u][1] >= from[1])}
        |-> mined[t]]

\* Where an entry of a listing stands in it.
Position(b) == IF b = NoBlock THEN MaxHeight + 1 ELSE b[1]

\* Mutant: a page that is all of one block is not asked for again, longer.
IsPageAnyCut(S, list) ==
    \/ S = DOMAIN list
    \/ /\ S \subseteq DOMAIN list /\ S # {}
       /\ \A t \in S : list[t] # NoBlock
       /\ \A t \in S, u \in DOMAIN list \ S : Position(list[t]) <= Position(list[u])

\* What a page may hold.  One that is cut off and ends in the block it begins
\* with is asked for again, longer; but not when its last transaction waits.
IsPage(S, list) ==
    \/ S = DOMAIN list
    \/ /\ S \subseteq DOMAIN list
       /\ \A t \in S, u \in DOMAIN list \ S : Position(list[t]) <= Position(list[u])
       /\ \A t \in S : list[t] = NoBlock => CutsWaiting
       /\ \E t, u \in S : list[t] = NoBlock \/ list[t] # list[u]

-----------------------------------------------------------------------------
(* A job: performSynchronization and its continuations.                    *)

Goto(a, where) == pc' = [pc EXCEPT ![a] = where]

\* The last block that holds operations of the account.
LastBlockWithOperations(a) ==
    LET held == {rows[t] : t \in DOMAIN rows \cap Own(a)} \ {NoBlock} IN
    IF held = {} THEN {NoBlock} ELSE Top(held)

\* The saved block is looked up in the blocks table: another account, or a
\* recovery that was interrupted, may have deleted it.
StartingBlock(a) ==
    IF saved[a].block # NoBlock /\ saved[a].block \notin blocks
    THEN LastBlockWithOperations(a)
    ELSE {saved[a].block}

\* Everything performSynchronization does before its first continuation.
PerformSynchronization(a) ==
    /\ pc[a] = "idle"
    /\ Goto(a, "fetch")
    /\ \E b \in StartingBlock(a) :
        state' = [state EXCEPT ![a] = [saved[a] EXCEPT !.block = b]]
    /\ toDrop' = [toDrop EXCEPT ![a] =
                    {t \in DOMAIN rows \cap Own(a) : rows[t] = NoBlock}]
    /\ head' = [head EXCEPT ![a] = Asked]
    /\ due' = [due EXCEPT ![a] =
                [t \in {u \in Own(a) : mined[u] # NoBlock} |-> mined[t]]]
    /\ UNCHANGED <<explorerVars, databaseVars, saved, page, more, pushVars, boundVars>>

\* Mutant: the answer of an explorer that has no block is taken for one.
AnswerCurrentBlockUnchecked(a) ==
    /\ TellsCurrentBlock
    /\ head[a] = Asked
    /\ head' = [head EXCEPT ![a] = IF chain = <<>> THEN NoBlock
                                   ELSE <<Len(chain), chain[Len(chain)]>>]
    /\ UNCHANGED <<explorerVars, databaseVars, saved, jobVars, pushVars, boundVars>>

\* The explorer answers the request for its current block ...
AnswerCurrentBlock(a) ==
    /\ TellsCurrentBlock
    /\ head[a] = Asked
    /\ head' = [head EXCEPT ![a] = IF chain = <<>> THEN NotAsked
                                   ELSE <<Len(chain), chain[Len(chain)]>>]
    /\ UNCHANGED <<explorerVars, databaseVars, saved, jobVars, pushVars, boundVars>>

\* ... and a callback, which no job waits for, puts it in the table.
UpdateCurrentBlock(a) ==
    /\ head[a] \in Blocks
    /\ blocks' = blocks \cup {head[a]}
    /\ head' = [head EXCEPT ![a] = NotAsked]
    /\ UNCHANGED <<explorerVars, rows, saved, jobVars, pushVars, boundVars>>

\* The explorer answers getTransactions with a page.
AnswerTransactions(a) ==
    /\ pc[a] = "fetch"
    /\ state[a].block \in ChainBlocks \cup {NoBlock}
    /\ LET list == Listed(a, state[a].block) IN
       \E S \in SUBSET DOMAIN list :
        /\ IsPage(S, list)
        /\ page' = [page EXCEPT ![a] = [t \in S |-> list[t]]]
        /\ more' = [more EXCEPT ![a] = S # DOMAIN list]
    /\ Goto(a, "page")
    /\ UNCHANGED <<explorerVars, databaseVars, saved, state, toDrop, due,
                   head, pushVars, boundVars>>

\* It does not know the block.  A status 404 reaches the synchronizer as
\* API_ERROR, only an error of the HTTP client keeps the code it has.
RefuseBlock(a) ==
    /\ pc[a] = "fetch"
    /\ state[a].block \notin ChainBlocks \cup {NoBlock}
    /\ Goto(a, IF ClientReportsBlock THEN "reorganized" ELSE "failed")
    /\ UNCHANGED <<explorerVars, databaseVars, saved, state, toDrop, page, more,
                   due, head, pushVars, boundVars>>

\* The request fails for another reason.
RequestFails(a) ==
    /\ pc[a] = "fetch"
    /\ failures < MaxFailures
    /\ failures' = failures + 1
    /\ Goto(a, "failed")
    /\ UNCHANGED <<explorerVars, databaseVars, saved, state, toDrop, page, more,
                   due, head, pushVars, crashes, erases, pushes>>

\* Mutant: the blocks of the operations are not inserted with them.
BulkInsertOperations(ops) ==
    /\ rows' = Over(ops, rows)
    /\ UNCHANGED blocks

\* bulkInsert: an operation that is there already gets the new block, or none.
BulkInsert(ops) ==
    /\ rows' = Over(ops, rows)
    /\ blocks' = blocks \cup ({ops[t] : t \in DOMAIN ops} \ {NoBlock})

\* Mutant: what is in a block is not taken out of the pending transactions.
StateAfterKeepingPending(a, last) ==
    [block |-> last,
     pending |-> state[a].pending
        \cup {t \in DOMAIN page[a] \cap toDrop[a] : page[a][t] = NoBlock}]

\* The saved state once a page is read: what is in a block waits no more, what
\* waits still was known before the job.
StateAfter(a, last) ==
    [block |-> last,
     pending |->
        (state[a].pending \ {t \in DOMAIN page[a] \cap toDrop[a] : page[a][t] # NoBlock})
        \cup {t \in DOMAIN page[a] \cap toDrop[a] : page[a][t] = NoBlock}]

PageBlocks(a) == {page[a][t] : t \in DOMAIN page[a]} \ {NoBlock}

\* getLastBlock: the highest of some blocks, of whatever fork.
LastBlock(S) == IF S = {} THEN {NoBlock} ELSE Top(S)

\* Mutant: the batch moves to the last block of the table.
BlockAfterInTable(a) ==
    IF PageBlocks(a) = {} THEN {state[a].block} ELSE LastBlock(blocks \cup PageBlocks(a))

\* The block the batch is at after a page: the highest the page holds.
BlockAfter(a) == IF PageBlocks(a) = {} THEN {state[a].block} ELSE Top(PageBlocks(a))

\* Mutant: what the page lists stays among the transactions to drop.
InsertPageKeepingDrops(a) ==
    /\ pc[a] = "page"
    /\ BulkInsert(page[a])
    /\ \E b \in BlockAfter(a) :
        /\ state' = [state EXCEPT ![a] = StateAfter(a, b)]
        /\ saved' = IF PageBlocks(a) = {} THEN saved
                    ELSE [saved EXCEPT ![a] = StateAfter(a, b)]
    /\ page' = [page EXCEPT ![a] = NoRows]
    /\ more' = [more EXCEPT ![a] = FALSE]
    /\ Goto(a, IF more[a] THEN "fetch" ELSE "stored")
    /\ UNCHANGED <<explorerVars, toDrop, due, head, pushVars, boundVars>>

\* A page is stored and the batch moves on; the state is saved with it when it
\* moved.  Then the next page is asked for, if there is one.
InsertPage(a) ==
    /\ pc[a] = "page"
    /\ BulkInsert(page[a])
    /\ \E b \in BlockAfter(a) :
        /\ state' = [state EXCEPT ![a] = StateAfter(a, b)]
        /\ saved' = IF PageBlocks(a) = {} THEN saved
                    ELSE [saved EXCEPT ![a] = StateAfter(a, b)]
    /\ toDrop' = [toDrop EXCEPT ![a] = @ \ DOMAIN page[a]]
    /\ page' = [page EXCEPT ![a] = NoRows]
    /\ more' = [more EXCEPT ![a] = FALSE]
    /\ Goto(a, IF more[a] THEN "fetch" ELSE "stored")
    /\ UNCHANGED <<explorerVars, due, head, pushVars, boundVars>>

\* bulkInsert fails: nothing is stored, but the page was looked through.
InsertFails(a) ==
    /\ pc[a] = "page"
    /\ failures < MaxFailures
    /\ failures' = failures + 1
    /\ state' = [state EXCEPT ![a] = StateAfter(a, @.block)]
    /\ toDrop' = [toDrop EXCEPT ![a] = @ \ DOMAIN page[a]]
    /\ page' = [page EXCEPT ![a] = NoRows]
    /\ more' = [more EXCEPT ![a] = FALSE]
    /\ Goto(a, "failed")
    /\ UNCHANGED <<explorerVars, databaseVars, saved, due, head, pushVars,
                   crashes, erases, pushes>>

\* The batch is done: the state is saved.
SaveState(a) ==
    /\ pc[a] = "stored"
    /\ saved' = [saved EXCEPT ![a] = state[a]]
    /\ Goto(a, "mempool")
    /\ UNCHANGED <<explorerVars, databaseVars, state, toDrop, page, more,
                   due, head, pushVars, boundVars>>

\* The blocks a recovery deletes: everything as high as the failed block.
Doomed(a) == {b \in blocks : b[1] >= state[a].block[1]}

\* The statements that delete them bind the list of blocks.  The binding throws
\* when the list is empty, and when it is longer than the account's uid that is
\* bound beside it; the transaction is then rolled back.
CanDelete(S) == Cardinality(S) = 1

\* Mutant: the operations do not go with their block.
DeleteBlocksOnly(S) ==
    /\ blocks' = blocks \ S
    /\ UNCHANGED rows

\* The transaction of a recovery: blocks, and by cascade their operations.
DeleteBlocks(S) ==
    /\ blocks' = blocks \ S
    /\ rows' = Without(rows, {t \in DOMAIN rows : rows[t] \in S})

\* recoverWith, BLOCK_NOT_FOUND: forget the failed block and what is above it,
\* save the state and synchronize the batch again.
RecoverFromReorganization(a) ==
    /\ pc[a] = "reorganized"
    /\ \/ /\ CanDelete(Doomed(a))
          /\ DeleteBlocks(Doomed(a))
          /\ \E b \in LastBlock(blocks') :
                state' = [state EXCEPT ![a].block = b]
       \/ /\ ~CanDelete(Doomed(a))
          /\ UNCHANGED <<databaseVars, state>>
    /\ saved' = [saved EXCEPT ![a] = state'[a]]
    /\ Goto(a, "fetch")
    /\ UNCHANGED <<explorerVars, toDrop, page, more, due, head, pushVars,
                   boundVars>>

\* recoverWith, any other error: it is logged, and the job goes on.
SwallowError(a) ==
    /\ pc[a] = "failed"
    /\ Goto(a, "mempool")
    /\ UNCHANGED <<explorerVars, databaseVars, saved, state, toDrop, page, more,
                   due, head, pushVars, boundVars>>

\* The operations that synchronizeMempool deletes.
Dropped(a) == toDrop[a] \ state[a].pending

\* The buddy of a job is freed with the last of its continuations.
FreeBuddy(A) ==
    /\ state' = [a \in Accounts |-> IF a \in A THEN NoState ELSE state[a]]
    /\ toDrop' = [a \in Accounts |-> IF a \in A THEN {} ELSE toDrop[a]]
    /\ page' = [a \in Accounts |-> IF a \in A THEN NoRows ELSE page[a]]
    /\ more' = [a \in Accounts |-> IF a \in A THEN FALSE ELSE more[a]]
    /\ due' = [a \in Accounts |-> IF a \in A THEN NoRows ELSE due[a]]

\* synchronizeMempool, and the end of the job: SYNCHRONIZATION_SUCCEED.
SynchronizeMempool(a) ==
    /\ pc[a] = "mempool"
    /\ rows' = Without(rows, Dropped(a))
    /\ FreeBuddy({a})
    /\ Goto(a, "idle")
    /\ UNCHANGED <<explorerVars, blocks, saved, head, pushVars, boundVars>>

Continue(a) ==
    \/ AnswerTransactions(a) \/ RefuseBlock(a)
    \/ InsertPage(a) \/ SaveState(a)
    \/ RecoverFromReorganization(a) \/ SwallowError(a)
    \/ SynchronizeMempool(a)

-----------------------------------------------------------------------------
(* What the application does meanwhile.                                    *)

\* broadcastRawTransaction: the explorer takes the transaction ...
PushTransaction(t) ==
    /\ pushes < MaxPushes
    /\ mined[t] = NoBlock /\ t \notin mempool
    /\ pushes' = pushes + 1
    /\ pushed' = pushed \cup {t}
    /\ mempool' = mempool \cup {t}
    /\ UNCHANGED <<chain, mined, reorgs, databaseVars, saved, jobVars, head,
                   unmined, failures, crashes, erases>>

\* ... and once its answer is there an operation without a block is stored.
OptimisticUpdate(t) ==
    /\ t \in pushed
    /\ pushed' = pushed \ {t}
    /\ BulkInsert([u \in {t} |-> NoBlock])
    /\ unmined' = unmined \cup {u \in {t} \cap DOMAIN rows : rows[u] # NoBlock}
    /\ UNCHANGED <<explorerVars, saved, jobVars, head, boundVars>>

\* Mutant: the saved state of the synchronizer is not reset.
EraseOperationsSince(a, h) ==
    /\ erases < MaxErases
    /\ EraseDuringSync \/ pc[a] = "idle"
    /\ erases' = erases + 1
    /\ rows' = Without(rows, {t \in DOMAIN rows \cap Own(a) :
                                Position(rows[t]) >= h})
    /\ UNCHANGED <<explorerVars, blocks, saved, jobVars, head, pushVars, failures,
                   crashes, pushes>>

\* eraseDataSince, for the date at which the chain reached height h: the saved
\* state goes back to a block before, and the operations since go.
EraseDataSince(a, h) ==
    /\ erases < MaxErases
    /\ EraseDuringSync \/ pc[a] = "idle"
    /\ erases' = erases + 1
    /\ \E b \in LastBlock({c \in blocks : c[1] < h}) :
        saved' = IF saved[a].block[1] > b[1]
                 THEN [saved EXCEPT ![a].block = b] ELSE saved
    /\ rows' = Without(rows, {t \in DOMAIN rows \cap Own(a) :
                                Position(rows[t]) >= h})
    /\ UNCHANGED <<explorerVars, blocks, jobVars, head, pushVars, failures,
                   crashes, pushes>>

\* The process dies; it starts again with what is in the database.
Die ==
    /\ crashes < MaxCrashes
    /\ crashes' = crashes + 1
    /\ pc' = [a \in Accounts |-> "idle"]
    /\ FreeBuddy(Accounts)
    /\ head' = [a \in Accounts |-> NotAsked]
    /\ pushed' = {}
    /\ UNCHANGED <<explorerVars, unmined, failures, erases, pushes>>

Crash == Die /\ UNCHANGED <<databaseVars, saved>>

\* Mutant: the state is saved before the page it goes with is inserted.
CrashAfterSaving(a) ==
    /\ pc[a] = "page"
    /\ \E b \in BlockAfter(a) : saved' = [saved EXCEPT ![a] = StateAfter(a, b)]
    /\ UNCHANGED databaseVars
    /\ Die

\* It dies between the two commits of a step: the rows are there, the state
\* that goes with them is not.
CrashInInsert(a) ==
    /\ pc[a] = "page"
    /\ BulkInsert(page[a])
    /\ UNCHANGED saved
    /\ Die

CrashInRecovery(a) ==
    /\ pc[a] = "reorganized"
    /\ CanDelete(Doomed(a))
    /\ DeleteBlocks(Doomed(a))
    /\ UNCHANGED saved
    /\ Die

-----------------------------------------------------------------------------
Next ==
    \/ Mine \/ Reorganize
    \/ \E t \in Txs : Appear(t) \/ Evict(t) \/ PushTransaction(t) \/ OptimisticUpdate(t)
    \/ \E a \in Accounts :
        \/ PerformSynchronization(a) \/ Continue(a)
        \/ AnswerCurrentBlock(a) \/ UpdateCurrentBlock(a)
        \/ RequestFails(a) \/ InsertFails(a)
        \/ CrashInInsert(a) \/ CrashInRecovery(a)
        \/ \E h \in 1..MaxHeight : EraseDataSince(a, h)
    \/ Crash

Spec == Init /\ [][Next]_vars

\* The thread pool runs every continuation, and the application synchronizes
\* again and again.  Nothing is assumed of the chain.
Fairness ==
    \A a \in Accounts :
        /\ WF_vars(PerformSynchronization(a))
        /\ WF_vars(Continue(a))

FairSpec == Spec /\ Fairness

-----------------------------------------------------------------------------
Stages == {"idle", "fetch", "page", "stored", "reorganized", "failed", "mempool"}
States == [block : BlockRefs, pending : SUBSET Txs]

IsRows(f) == DOMAIN f \subseteq Txs /\ \A t \in DOMAIN f : f[t] \in BlockRefs

\* Every variable has its type.
TypeOK ==
    /\ chain \in Seq(0..MaxReorgs) /\ Len(chain) <= MaxHeight
    /\ mined \in [Txs -> BlockRefs]
    /\ mempool \subseteq Txs
    /\ reorgs \in 0..MaxReorgs
    /\ blocks \subseteq Blocks
    /\ IsRows(rows)
    /\ saved \in [Accounts -> States]
    /\ pc \in [Accounts -> Stages]
    /\ state \in [Accounts -> States]
    /\ toDrop \in [Accounts -> SUBSET Txs]
    /\ DOMAIN page = Accounts /\ \A a \in Accounts : IsRows(page[a])
    /\ more \in [Accounts -> BOOLEAN]
    /\ head \in [Accounts -> Blocks \cup {Asked, NotAsked}]
    /\ DOMAIN due = Accounts /\ \A a \in Accounts : IsRows(due[a])
    /\ pushed \subseteq Txs /\ unmined \subseteq Txs
    /\ failures \in 0..MaxFailures /\ crashes \in 0..MaxCrashes
    /\ erases \in 0..MaxErases /\ pushes \in 0..MaxPushes

\* The rows refer to blocks that are in their table.
BlocksPresent == \A t \in DOMAIN rows : rows[t] \in blocks \cup {NoBlock}

\* Once the saved block of an account is a block of the chain, every transaction
\* mined below it is stored, with its block: the next synchronization starts at
\* that block and would never ask for an older one again.  Except one that was
\* synchronized before the answer to its broadcast was handled.
NothingSkipped ==
    \A a \in Accounts : saved[a].block \in ChainBlocks =>
        \A t \in Own(a) \ unmined :
            mined[t] # NoBlock /\ mined[t][1] < saved[a].block[1] =>
                t \in DOMAIN rows /\ rows[t] = mined[t]

\* ... and no operation is left from a block that was orphaned.
NothingOrphaned ==
    \A a \in Accounts : saved[a].block \in ChainBlocks =>
        \A t \in DOMAIN rows \cap Own(a) :
            rows[t] # NoBlock /\ rows[t][1] <= saved[a].block[1] =>
                rows[t] \in ChainBlocks

\* A transaction the saved state holds as pending is not stored as mined: the
\* entry would keep its operation for ever, should the block be orphaned and the
\* transaction dropped.
PendingIsPending ==
    \A a \in Accounts : \A t \in saved[a].pending \cap DOMAIN rows :
        rows[t] = NoBlock

\* A job that reports success has stored whatever was mined when it began and is
\* still in the same block.
SuccessMeansSynchronized ==
    [][\A a \in Accounts : SynchronizeMempool(a) =>
        \A t \in DOMAIN due[a] : mined[t] = due[a][t] =>
            t \in DOMAIN rows' /\ rows'[t] = mined[t]]_vars

\* The page is cut off among transactions that wait and the batch does not move:
\* the next request is the same, and so is its answer until one of them is mined.
SamePageAgain(a) ==
    /\ pc[a] = "page" /\ more[a]
    /\ \E t \in DOMAIN page[a] : page[a][t] = NoBlock
    /\ PageBlocks(a) \subseteq {state[a].block}

\* Every job ends, however often pages are cut off, recoveries go one block further
\* down and the chain is reorganized meanwhile; unless it is given the same page
\* of waiting transactions again and again.
JobEnds ==
    \A a \in Accounts :
        \/ pc[a] # "idle" ~> pc[a] = "idle"
        \/ []<>SamePageAgain(a)

\* A transaction that stays in a block of the chain is stored in the end, and
\* stays stored, whatever failed, was erased or crashed before; also when a page of
\* waiting transactions is given for ever, since whatever is mined comes before them.
CatchesUp ==
    \A t \in Txs :
        <>[](mined[t] # NoBlock /\ t \notin unmined) => <>[](t \in DOMAIN rows /\ rows[t] # NoBlock)

\* An operation does not stay in a block that is no longer of the chain.
OrphansLeave ==
    \A t \in Txs : ~<>[](t \in DOMAIN rows /\ rows[t] \notin ChainBlocks \cup {NoBlock})
=============================================================================
